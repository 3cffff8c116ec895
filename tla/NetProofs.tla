------------------------------ MODULE NetProofs ------------------------------
(***************************************************************************)
(* Above and below the sockets: DHCP configures only what a server leased, *)
(* a body that ends is complete, and the waiters of concurrent pings and   *)
(* the table of pings agree, each for every number of servers, clients,    *)
(* pieces, goroutines and frames.  And above them all the kernel           *)
(* publisher, whose tags always name a whole kernel.                       *)
(***************************************************************************)
EXTENDS RxPump, Dhcp4, HttpConn, OciPush, TLAPS

-----------------------------------------------------------------------------
(* The kernel publisher.                                                   *)

Registries == {Primary, Secondary}
Kernels == {NoKernel} \cup {findKernelInTar(p.tar) : p \in Packages}
RunRec ==
  [pc : {"fetch", "validate", "post", "put", "manifest", "done"}, kernel : Kernels, leg : Registries,
   todo : {<<>>, <<"layer">>, <<"config", "layer">>}, failed : SUBSET Registries, exit : 0 .. 3]

\* The registries that took the manifest of run r.
Took(r) == {a[2] : a \in {x \in acked : x[1] = r}}
Destinations(r) == {Primary} \cup (IF r \in SecondLeg THEN {Secondary} ELSE {})

\* Where a run m of r has got to, and what it has left behind.
RunInv(r, m) ==
  /\ m.pc # "done" => m.exit = 3
  /\ m.pc \in {"fetch", "validate"} => m.failed = {} /\ Took(r) = {}
  /\ m.pc \in {"post", "put", "manifest"} =>
       /\ validateEFIStub(m.kernel)
       /\ m.leg = Primary => m.failed = {} /\ Took(r) = {}
       /\ m.leg = Secondary =>
            r \in SecondLeg /\ (m.failed = {Primary} \/ (m.failed = {} /\ Took(r) = {Primary}))
  /\ m.pc \in {"post", "put"} => m.todo # <<>> /\ (m.todo = <<"layer">> => ConfigBlob \in holds[m.leg])
  /\ m.pc = "manifest" => {ConfigBlob, m.kernel} \subseteq holds[m.leg]
  /\ m.exit = 0 => Took(r) = Destinations(r)
  /\ m.exit = 1 /\ r \in SecondLeg /\ m.failed # {} => m.leg = Secondary

TagInv(reg) ==
  latest[reg] # NoKernel => {ConfigBlob, latest[reg]} \subseteq holds[reg] /\ validateEFIStub(latest[reg])

PushInv ==
  /\ pushRun \in [Runs -> RunRec] /\ package \in [Runs -> Packages]
  /\ holds \in [Registries -> SUBSET (Kernels \cup {ConfigBlob})] /\ latest \in [Registries -> Kernels]
  /\ \A r \in Runs : RunInv(r, pushRun[r])
  /\ \A reg \in Registries : TagInv(reg)

\* One run takes a step: the others keep what they have, since registries only gain blobs.
LEMMA RunStep ==
  ASSUME PushInv, NEW r \in Runs, NEW m \in RunRec, pushRun' = [pushRun EXCEPT ![r] = m], RunInv(r, m)',
         UNCHANGED package,
         holds' \in [Registries -> SUBSET (Kernels \cup {ConfigBlob})], latest' \in [Registries -> Kernels],
         \A reg \in Registries : holds[reg] \subseteq holds'[reg],
         \A q \in Runs : q # r => Took(q)' = Took(q),
         \A reg \in Registries : TagInv(reg)'
  PROVE  PushInv'
<1>1. pushRun \in [Runs -> RunRec]
  BY DEF PushInv
<1>2. pushRun' \in [Runs -> RunRec] /\ pushRun'[r] = m /\ \A q \in Runs : q # r => pushRun'[q] = pushRun[q]
  BY <1>1
<1>3. ASSUME NEW q \in Runs, q # r PROVE RunInv(q, pushRun[q])'
  <2> DEFINE n == pushRun[q]
  <2>1. RunInv(q, n) /\ n \in RunRec
    BY <1>1 DEF PushInv
  <2>2. n.leg \in Registries /\ Took(q)' = Took(q) /\ pushRun'[q] = n
    BY <1>2, <1>3, <2>1 DEF RunRec
  <2> HIDE DEF n
  <2>3. holds[n.leg] \subseteq holds'[n.leg]
    BY <2>2
  <2>4. RunInv(q, n) => (\A x : x = n => RunInv(q, x)')
    BY <2>2, <2>3 DEF RunInv, Destinations
  <2> QED BY <2>1, <2>2, <2>4
<1> QED BY <1>2, <1>3 DEF PushInv

\* A run ends outside pushOCI, or is killed.
LEMMA ExitStep ==
  ASSUME PushInv, NEW r \in Runs, NEW code \in {1, 2}, ExitWith(r, code), pushRun[r].pc # "done",
         code = 1 => pushRun[r].pc \in {"fetch", "validate"}, UNCHANGED <<package, holds, latest, acked>>
  PROVE  PushInv'
<1> DEFINE m == [pushRun[r] EXCEPT !.pc = "done", !.exit = code]
<1>1. pushRun' = [pushRun EXCEPT ![r] = m]
  BY Zenon DEF ExitWith
<1>2. pushRun[r] \in RunRec /\ RunInv(r, pushRun[r])
  BY DEF PushInv
<1>3. m \in RunRec /\ m.pc = "done" /\ m.exit = code /\ m.failed = pushRun[r].failed
  <2>1. code \in 0 .. 3
    OBVIOUS
  <2> QED BY <1>2, <2>1, Zenon DEF RunRec
<1>4. \A q \in Runs : Took(q)' = Took(q)
  BY DEF Took
<1> HIDE DEF m
<1>5. code = 1 => m.failed = {}
  BY <1>2, <1>3 DEF RunInv
<1>6. \A x : x = m => RunInv(r, x)'
  BY <1>3, <1>5 DEF RunInv
<1>7. \A reg \in Registries : TagInv(reg)'
  BY DEF PushInv, TagInv
<1>8. /\ holds' \in [Registries -> SUBSET (Kernels \cup {ConfigBlob})] /\ latest' \in [Registries -> Kernels]
      /\ \A reg \in Registries : holds[reg] \subseteq holds'[reg]
  BY DEF PushInv
<1> QED BY <1>1, <1>3, <1>4, <1>6, <1>7, <1>8, RunStep, Zenon

\* A leg ends: the other destination follows, or the exit status tells whether one failed.
LEMMA LegStep ==
  ASSUME PushInv, NEW r \in Runs, NEW ok \in BOOLEAN, EndLeg(r, ok), UNCHANGED package,
         pushRun[r].pc \in {"post", "put", "manifest"},
         holds' \in [Registries -> SUBSET (Kernels \cup {ConfigBlob})], latest' \in [Registries -> Kernels],
         \A reg \in Registries : holds[reg] \subseteq holds'[reg],
         \A q \in Runs : q # r => Took(q)' = Took(q),
         Took(r)' = Took(r) \cup (IF ok THEN {pushRun[r].leg} ELSE {}),
         \A reg \in Registries : TagInv(reg)'
  PROVE  PushInv'
<1> DEFINE n == pushRun[r]
           failed2 == n.failed \cup (IF ok THEN {} ELSE {n.leg})
           m == IF n.leg = Primary /\ r \in SecondLeg
                THEN [n EXCEPT !.pc = "post", !.leg = Secondary, !.todo = Uploads, !.failed = failed2]
                ELSE [n EXCEPT !.pc = "done", !.failed = failed2, !.exit = IF failed2 = {} THEN 0 ELSE 1]
<1>1. n \in RunRec /\ RunInv(r, n)
  BY DEF PushInv
<1>2. pushRun' = [pushRun EXCEPT ![r] = m]
  BY DEF EndLeg
<1>3. n.leg \in Registries /\ n.failed \subseteq Registries
  BY <1>1 DEF RunRec
<1>4. failed2 \in SUBSET Registries /\ Uploads = <<"config", "layer">> /\ Uploads # <<>> /\ Uploads # <<"layer">>
  BY <1>3 DEF Uploads
<1>5. validateEFIStub(n.kernel) /\ n.exit = 3
      /\ (n.leg = Primary => n.failed = {} /\ Took(r) = {})
      /\ (n.leg = Secondary => r \in SecondLeg /\ (n.failed = {Primary} \/ (n.failed = {} /\ Took(r) = {Primary})))
  BY <1>1 DEF RunInv
<1>6. CASE n.leg = Primary /\ r \in SecondLeg
  <2>1. m = [n EXCEPT !.pc = "post", !.leg = Secondary, !.todo = Uploads, !.failed = failed2]
    BY <1>6
  <2>2. /\ m \in RunRec /\ m.pc = "post" /\ m.leg = Secondary /\ m.todo = Uploads /\ m.failed = failed2
        /\ m.exit = 3 /\ m.kernel = n.kernel
    BY <1>1, <1>4, <1>5, <2>1, Zenon DEF RunRec, Registries
  <2>3. failed2 = {Primary} \/ (failed2 = {} /\ Took(r)' = {Primary})
    BY <1>5, <1>6
  <2> HIDE DEF m, failed2, n
  <2>4. Primary # Secondary
    BY DEF Primary, Secondary
  <2>5. /\ m.kernel.stub /\ m.kernel.machine = WantMachine /\ m.todo # <<>> /\ m.todo # <<"layer">>
        /\ m.failed = {Primary} \/ (m.failed = {} /\ Took(r)' = {Primary})
        /\ m.pc = "post" /\ m.exit = 3 /\ m.leg = Secondary /\ m.leg # Primary /\ r \in SecondLeg
    BY <1>4, <1>5, <1>6, <2>2, <2>3, <2>4 DEF validateEFIStub
  <2>6. ASSUME NEW x, x = m PROVE RunInv(r, x)'
    <3>1. /\ x.kernel.stub /\ x.kernel.machine = WantMachine /\ x.todo # <<>> /\ x.todo # <<"layer">>
          /\ x.failed = {Primary} \/ (x.failed = {} /\ Took(r)' = {Primary})
          /\ x.pc = "post" /\ x.exit = 3 /\ x.leg = Secondary /\ x.leg # Primary /\ r \in SecondLeg
      BY <2>5, <2>6, Zenon
    <3> QED BY <3>1 DEF RunInv, validateEFIStub
  <2> QED BY <1>2, <2>2, <2>6, RunStep, Zenon
<1>7. CASE ~(n.leg = Primary /\ r \in SecondLeg)
  <2>1. m = [n EXCEPT !.pc = "done", !.failed = failed2, !.exit = IF failed2 = {} THEN 0 ELSE 1]
    BY <1>7
  <2>2. /\ m \in RunRec /\ m.pc = "done" /\ m.failed = failed2 /\ m.leg = n.leg
        /\ m.exit = IF failed2 = {} THEN 0 ELSE 1
    <3> DEFINE code == IF failed2 = {} THEN 0 ELSE 1
    <3>1. code \in 0 .. 3
      OBVIOUS
    <3>2. m = [n EXCEPT !.pc = "done", !.failed = failed2, !.exit = code]
      BY <2>1
    <3> HIDE DEF m, code, failed2, n
    <3> QED BY <1>1, <1>4, <3>1, <3>2, Zenon DEF RunRec, code
  <2>3. failed2 = {} => ok /\ n.failed = {}
    OBVIOUS
  <2>4. failed2 = {} => Took(r)' = Destinations(r)
    BY <1>3, <1>5, <1>7, <2>3 DEF Destinations, Registries
  <2>5. r \in SecondLeg => n.leg = Secondary
    BY <1>3, <1>7 DEF Registries
  <2> HIDE DEF m, failed2, n
  <2>6. ASSUME NEW x, x = m PROVE RunInv(r, x)'
    <3>1. /\ x.pc = "done" /\ x.leg = n.leg /\ (x.exit = 0 => failed2 = {})
      BY <2>2, <2>6
    <3> QED BY <2>4, <2>5, <3>1 DEF RunInv
  <2> QED BY <1>2, <2>2, <2>6, RunStep, Zenon
<1> QED BY <1>6, <1>7

\* Every step of every run keeps the invariant (pushOCI, main).
LEMMA PushStep == PushInv /\ [PushNext]_pushVars => PushInv'
<1> SUFFICES ASSUME PushInv, [PushNext]_pushVars PROVE PushInv'
  OBVIOUS
<1>0. /\ pushRun \in [Runs -> RunRec] /\ package \in [Runs -> Packages]
      /\ holds \in [Registries -> SUBSET (Kernels \cup {ConfigBlob})] /\ latest \in [Registries -> Kernels]
  BY DEF PushInv
<1>a. UNCHANGED acked => \A q \in Runs : Took(q)' = Took(q)
  BY DEF Took
<1>b. UNCHANGED <<holds, latest>> => \A reg \in Registries : TagInv(reg)'
  BY DEF PushInv, TagInv
<1>1. ASSUME NEW r \in Runs, FetchKernel(r) PROVE PushInv'
  <2> DEFINE kernel == findKernelInTar(package[r].tar)
             m == [pushRun[r] EXCEPT !.pc = "validate", !.kernel = kernel]
  <2>1. pushRun[r].pc = "fetch" /\ UNCHANGED <<package, holds, latest, acked>> /\ pushRun[r] \in RunRec
    BY <1>0, <1>1 DEF FetchKernel, OnStep
  <2>2. CASE ExitWith(r, 1)
    BY <2>1, <2>2, ExitStep
  <2>3. CASE pushRun' = [pushRun EXCEPT ![r].pc = "validate", ![r].kernel = kernel]
    <3>1. kernel \in Kernels
      BY <1>0 DEF Kernels
    <3> HIDE DEF kernel
    <3>2. pushRun' = [pushRun EXCEPT ![r] = m]
      BY <2>3, Zenon
    <3>3. m \in RunRec /\ m.pc = "validate" /\ m.exit = pushRun[r].exit /\ m.failed = pushRun[r].failed
      BY <2>1, <3>1, Zenon DEF RunRec
    <3> HIDE DEF m
    <3>4. RunInv(r, pushRun[r])
      BY DEF PushInv
    <3>5. \A x : x = m => RunInv(r, x)'
      BY <1>a, <2>1, <3>3, <3>4 DEF RunInv
    <3> QED BY <1>0, <1>a, <1>b, <2>1, <3>2, <3>3, <3>5, RunStep, Zenon
  <2> QED BY <1>1, <2>2, <2>3 DEF FetchKernel
<1>2. ASSUME NEW r \in Runs, Validate(r) PROVE PushInv'
  <2> DEFINE m == [pushRun[r] EXCEPT !.pc = "post", !.leg = Primary, !.todo = Uploads]
  <2>1. pushRun[r].pc = "validate" /\ UNCHANGED <<package, holds, latest, acked>> /\ pushRun[r] \in RunRec
    BY <1>0, <1>2 DEF Validate, OnStep
  <2>2. CASE ~validateEFIStub(pushRun[r].kernel)
    BY <1>2, <2>1, <2>2, ExitStep DEF Validate
  <2>3. CASE validateEFIStub(pushRun[r].kernel)
    <3>1. pushRun' = [pushRun EXCEPT ![r] = m]
      BY <1>2, <2>3, Zenon DEF Validate
    <3>2. Uploads = <<"config", "layer">> /\ Uploads # <<>> /\ Uploads # <<"layer">>
      BY DEF Uploads
    <3>3. /\ m \in RunRec /\ m.pc = "post" /\ m.exit = pushRun[r].exit /\ m.failed = pushRun[r].failed
          /\ m.leg = Primary /\ m.todo = Uploads /\ m.kernel = pushRun[r].kernel
      BY <2>1, <3>2, Zenon DEF RunRec, Registries
    <3> HIDE DEF m
    <3>4. RunInv(r, pushRun[r]) /\ Primary # Secondary
      BY DEF PushInv, Primary, Secondary
    <3>5. \A x : x = m => RunInv(r, x)'
      BY <1>a, <2>1, <2>3, <3>2, <3>3, <3>4, Zenon DEF RunInv, validateEFIStub
    <3> QED BY <1>0, <1>a, <1>b, <2>1, <3>1, <3>3, <3>5, RunStep, Zenon
  <2> QED BY <2>2, <2>3
<1>3. ASSUME NEW r \in Runs, PostUpload(r) PROVE PushInv'
  <2> DEFINE m == [pushRun[r] EXCEPT !.pc = "put"]
  <2>1. pushRun[r].pc = "post" /\ UNCHANGED <<package, holds, latest, acked>> /\ pushRun[r] \in RunRec
    BY <1>0, <1>3 DEF PostUpload, OnStep
  <2>2. CASE EndLeg(r, FALSE)
    BY <1>0, <1>a, <1>b, <2>1, <2>2, LegStep, Zenon
  <2>3. CASE pushRun' = [pushRun EXCEPT ![r].pc = "put"]
    <3>1. pushRun' = [pushRun EXCEPT ![r] = m]
      BY <2>3
    <3>2. /\ m \in RunRec /\ m.pc = "put" /\ m.exit = pushRun[r].exit /\ m.failed = pushRun[r].failed
          /\ m.leg = pushRun[r].leg /\ m.todo = pushRun[r].todo /\ m.kernel = pushRun[r].kernel
      BY <2>1 DEF RunRec
    <3> HIDE DEF m
    <3>3. RunInv(r, pushRun[r])
      BY DEF PushInv
    <3>4. \A x : x = m => RunInv(r, x)'
      BY <1>a, <2>1, <3>2, <3>3 DEF RunInv, validateEFIStub, Destinations
    <3> QED BY <1>0, <1>a, <1>b, <2>1, <3>1, <3>2, <3>4, RunStep, Zenon
  <2> QED BY <1>3, <2>2, <2>3, Zenon DEF PostUpload
<1>4. ASSUME NEW r \in Runs, PutBlob(r) PROVE PushInv'
  <2> DEFINE n == pushRun[r]
             stored == [holds EXCEPT ![n.leg] = @ \cup {BlobOf(r)}]
             rest == Tail(n.todo)
             m == [n EXCEPT !.todo = rest, !.pc = IF rest = <<>> THEN "manifest" ELSE "post"]
  <2>1. n.pc = "put" /\ UNCHANGED <<package, latest, acked>> /\ n \in RunRec /\ RunInv(r, n)
    BY <1>0, <1>4 DEF PutBlob, OnStep, PushInv
  <2>2. n.leg \in Registries /\ n.kernel \in Kernels /\ n.todo \in {<<>>, <<"layer">>, <<"config", "layer">>}
    BY <2>1 DEF RunRec
  <2>3. BlobOf(r) \in Kernels \cup {ConfigBlob}
    BY <2>2 DEF BlobOf
  <2>4. /\ stored \in [Registries -> SUBSET (Kernels \cup {ConfigBlob})] /\ BlobOf(r) \in stored[n.leg]
        /\ \A reg \in Registries : holds[reg] \subseteq stored[reg]
    BY <1>0, <2>2, <2>3
  <2>5. holds' \in {holds, stored}
    BY <1>4, Zenon DEF PutBlob
  <2> HIDE DEF stored
  <2>6. /\ holds' \in [Registries -> SUBSET (Kernels \cup {ConfigBlob})]
        /\ \A reg \in Registries : holds[reg] \subseteq holds'[reg]
    BY <1>0, <2>4, <2>5
  <2>7. \A reg \in Registries : TagInv(reg)'
    BY <2>1, <2>6 DEF PushInv, TagInv
  <2>8. CASE EndLeg(r, FALSE)
    BY <1>0, <1>a, <2>1, <2>6, <2>7, <2>8, LegStep, Zenon
  <2>9. CASE /\ holds' = stored
             /\ pushRun' = [pushRun EXCEPT ![r].todo = rest, ![r].pc = IF rest = <<>> THEN "manifest" ELSE "post"]
    <3>1. n.todo = <<"layer">> \/ n.todo = <<"config", "layer">>
      BY <2>1, <2>2 DEF RunInv
    <3>2. /\ n.todo = <<"layer">> => rest = <<>> /\ Head(n.todo) = "layer"
          /\ n.todo = <<"config", "layer">> => rest = <<"layer">> /\ Head(n.todo) = "config"
      <4>1. Tail(<<"layer">>) = <<>> /\ Head(<<"layer">>) = "layer"
        OBVIOUS
      <4>2. Head(<<"config", "layer">>) = "config"
        OBVIOUS
      <4>3. Tail(<<"config", "layer">>) = <<"layer">>
        OBVIOUS
      <4> QED BY <4>1, <4>2, <4>3, Zenon
    <3>3. rest = <<>> => {ConfigBlob, n.kernel} \subseteq holds'[n.leg]
      <4>1. rest = <<>> => n.todo = <<"layer">>
        BY <3>1, <3>2
      <4>2. n.todo = <<"layer">> => ConfigBlob \in holds[n.leg] /\ BlobOf(r) = n.kernel
        BY <2>1, <3>2 DEF RunInv, BlobOf
      <4> QED BY <2>2, <2>4, <2>9, <4>1, <4>2
    <3>4. rest # <<>> => rest = <<"layer">> /\ ConfigBlob \in holds'[n.leg]
      <4>1. rest # <<>> => n.todo = <<"config", "layer">>
        BY <3>1, <3>2
      <4>2. n.todo = <<"config", "layer">> => rest = <<"layer">> /\ BlobOf(r) = ConfigBlob
        BY <3>2 DEF BlobOf
      <4> QED BY <2>4, <2>9, <4>1, <4>2
    <3>5. rest \in {<<>>, <<"layer">>, <<"config", "layer">>}
      BY <3>4
    <3>6. pushRun' = [pushRun EXCEPT ![r] = m]
      BY <2>9, Zenon
    <3> HIDE DEF rest
    <3>7. /\ m \in RunRec /\ m.pc = IF rest = <<>> THEN "manifest" ELSE "post"
          /\ m.exit = n.exit /\ m.failed = n.failed /\ m.leg = n.leg /\ m.todo = rest /\ m.kernel = n.kernel
      <4> DEFINE step == IF rest = <<>> THEN "manifest" ELSE "post"
      <4>1. step \in {"manifest", "post"} /\ m = [n EXCEPT !.todo = rest, !.pc = step]
        OBVIOUS
      <4> HIDE DEF m, step, n
      <4> QED BY <2>1, <3>5, <4>1, Zenon DEF RunRec, step
    <3> HIDE DEF m
    <3>8. \A x : x = m => RunInv(r, x)'
      BY <1>a, <2>1, <3>3, <3>4, <3>7 DEF RunInv, validateEFIStub
    <3> QED BY <1>0, <1>a, <2>1, <2>6, <2>7, <3>6, <3>7, <3>8, RunStep, Zenon
  <2> QED BY <1>4, <2>8, <2>9, Zenon DEF PutBlob, stored
<1>5. ASSUME NEW r \in Runs, PutManifest(r) PROVE PushInv'
  <2> DEFINE n == pushRun[r]
             moved == [latest EXCEPT ![n.leg] = n.kernel]
  <2>1. n.pc = "manifest" /\ UNCHANGED <<package, holds>> /\ n \in RunRec /\ RunInv(r, n)
    BY <1>0, <1>5 DEF PutManifest, OnStep, PushInv
  <2>2. n.leg \in Registries /\ n.kernel \in Kernels
    BY <2>1 DEF RunRec
  <2>3. {ConfigBlob, n.kernel} \subseteq holds[n.leg] /\ validateEFIStub(n.kernel)
    BY <2>1 DEF RunInv
  <2>4. /\ moved \in [Registries -> Kernels] /\ moved[n.leg] = n.kernel
        /\ \A reg \in Registries : reg # n.leg => moved[reg] = latest[reg]
    BY <1>0, <2>2
  <2>5. latest' \in {latest, moved}
    BY <1>5, Zenon DEF PutManifest
  <2> HIDE DEF moved
  <2>6. latest' \in [Registries -> Kernels]
    BY <1>0, <2>4, <2>5
  <2>7. \A reg \in Registries : TagInv(reg)'
    BY <2>1, <2>3, <2>4, <2>5 DEF PushInv, TagInv, validateEFIStub
  <2>8. CASE EndLeg(r, FALSE) /\ UNCHANGED acked
    BY <1>0, <1>a, <2>1, <2>6, <2>7, <2>8, LegStep, Zenon
  <2>9. CASE EndLeg(r, TRUE) /\ acked' = acked \cup {<<r, n.leg>>}
    <3>1. \A q \in Runs : q # r => Took(q)' = Took(q)
      BY <2>9 DEF Took
    <3>2. Took(r)' = Took(r) \cup {n.leg}
      <4> DEFINE e == <<r, n.leg>>
      <4>1. e[1] = r /\ e[2] = n.leg /\ acked' = acked \cup {e}
        BY <2>9
      <4> HIDE DEF e
      <4>2. n.leg \in Took(r)'
        BY <4>1 DEF Took
      <4>3. Took(r) \subseteq Took(r)'
        BY <4>1 DEF Took
      <4>4. ASSUME NEW x \in Took(r)' PROVE x \in Took(r) \cup {n.leg}
        <5>1. PICK a \in acked' : a[1] = r /\ x = a[2]
          BY DEF Took
        <5>2. CASE a = e
          BY <4>1, <5>1, <5>2
        <5>3. CASE a \in acked
          BY <5>1, <5>3 DEF Took
        <5> QED BY <4>1, <5>2, <5>3
      <4> QED BY <4>2, <4>3, <4>4
    <3> QED BY <1>0, <2>1, <2>6, <2>7, <2>9, <3>1, <3>2, LegStep, Zenon
  <2> QED BY <1>5, <2>8, <2>9, Zenon DEF PutManifest, moved
<1>6. ASSUME NEW r \in Runs, Kill(r) PROVE PushInv'
  BY <1>6, ExitStep DEF Kill, OnStep
<1>9. CASE UNCHANGED pushVars
  BY <1>9, Zenon DEF pushVars, PushInv, RunInv, Took, TagInv, Destinations, validateEFIStub
<1> QED BY <1>1, <1>2, <1>3, <1>4, <1>5, <1>6, <1>9 DEF PushNext

\* For any runs of the publisher, overlapping as they like and stopping anywhere, and
\* any packages: a tag never names an artifact that is not whole, or a kernel that is no
\* EFI stub for the machine, and the exit status tells what was taken.
THEOREM TagsStayWhole == PushSpec => []TagIsWhole
<1>1. PushInit => PushInv
  <2> SUFFICES ASSUME PushInit PROVE PushInv
    OBVIOUS
  <2>1. pushRun \in [Runs -> RunRec]
    <3>1. NoKernel \in Kernels /\ Primary \in Registries
      BY DEF Kernels, Registries
    <3> QED BY <3>1 DEF PushInit, RunRec
  <2>2. \A r \in Runs : RunInv(r, pushRun[r])
    BY DEF PushInit, RunInv, Took
  <2>3. holds \in [Registries -> SUBSET (Kernels \cup {ConfigBlob})] /\ latest \in [Registries -> Kernels]
    BY DEF PushInit, Registries, Kernels
  <2>4. \A reg \in Registries : TagInv(reg)
    BY DEF PushInit, TagInv, Registries
  <2> QED BY <2>1, <2>2, <2>3, <2>4, Zenon DEF PushInv, PushInit
<1>2. PushInv => TagIsWhole
  BY Zenon DEF PushInv, TagIsWhole, TagInv, RunInv, Registries, Took, Destinations, validateEFIStub
<1> QED BY <1>1, <1>2, PushStep, PTL DEF PushSpec
-----------------------------------------------------------------------------
(* RxPump.                                                                 *)

PumpType ==
  /\ ipID \in Nat
  /\ pc \in [Proc -> {"idle", "send", "arp", "arpRecv", "top", "recv", "deliver", "done"}]
  /\ seq \in [Proc -> Nat] /\ held \in [Proc -> Nat]
  /\ why \in [Proc -> {"ping", "reply"}]
  /\ pings \subseteq Nat \X Pinger /\ boxes \subseteq Nat

\* No two pings in progress share a number, no number is used again, and a reply
\* that was taken out of the table has nobody registered for it any more.
Numbers ==
  /\ \A p \in Pinger : InPing(p) => seq[p] < ipID
  /\ \A p, q \in Pinger : InPing(p) /\ InPing(q) /\ seq[p] = seq[q] => p = q
  /\ \A n \in boxes : n < ipID /\ \A w \in pings : w[1] # n
  /\ \A q \in Proc : pc[q] = "deliver" => held[q] < ipID /\ \A w \in pings : w[1] # held[q]

\* rxLoop sends only replies, so that it never cleans up after a ping.
RxReplies == pc[Rx] \in {"send", "arp", "arpRecv"} => why[Rx] = "reply"

PumpInv == PumpType /\ Numbers /\ RxReplies /\ WaitersMatch

\* A process that is neither idle nor delivering moves on, and registers, takes and
\* hands over nothing.
LEMMA MovesOn ==
  ASSUME PumpInv, NEW p \in Proc, NEW l \in {"send", "arp", "arpRecv", "top", "recv", "done"},
         pc' = [pc EXCEPT ![p] = l], pc[p] # "deliver", pc[p] # "idle" \/ p = Rx,
         UNCHANGED <<pings, boxes, seq, held>>,
         ipID' \in Nat, ipID' >= ipID,
         why' \in [Proc -> {"ping", "reply"}], RxReplies'
  PROVE  PumpInv'
<1>1. PumpType'
  BY Zenon DEF PumpInv, PumpType
<1>2. \A q \in Proc : pc'[q] = IF q = p THEN l ELSE pc[q]
  BY DEF PumpInv, PumpType
<1>3. \A q \in Pinger : q \in Proc /\ (InPing(q)' <=> InPing(q))
  BY <1>2 DEF InPing, Proc
<1>4. \A q \in Proc : pc'[q] = "deliver" <=> pc[q] = "deliver"
  BY <1>2
<1>5. Numbers'
  <2>1. \A k \in Nat : k < ipID => k < ipID'
    BY DEF PumpInv, PumpType
  <2>2. (\A q \in Pinger : seq[q] \in Nat) /\ (\A q \in Proc : held[q] \in Nat) /\ \A k \in boxes : k \in Nat
    BY <1>3 DEF PumpInv, PumpType
  <2> QED BY <1>3, <1>4, <2>1, <2>2 DEF PumpInv, Numbers
<1>6. WaitersMatch'
  <2>1. \A w \in pings : w[2] \in Pinger
    BY DEF PumpInv, PumpType
  <2> QED BY <1>3, <1>4, <2>1 DEF PumpInv, WaitersMatch
<1> QED BY <1>1, <1>5, <1>6 DEF PumpInv

\* A ping returns and cleans up after itself, and only after itself.
LEMMA CleansUp ==
  ASSUME PumpInv, NEW p \in Pinger, pc[p] \notin {"idle", "deliver"},
         pc' = [pc EXCEPT ![p] = "idle"], Cleanup(p),
         UNCHANGED <<boxes, seq, held, ipID, why>>
  PROVE  PumpInv'
<1> USE PumpAssumption
<1>0. p \in Proc /\ p # Rx
  BY DEF Proc
<1>1. PumpType'
  BY Zenon DEF PumpInv, PumpType, Cleanup
<1>2. \A q \in Proc : pc'[q] = IF q = p THEN "idle" ELSE pc[q]
  BY DEF PumpInv, PumpType
<1>3. \A q \in Pinger : q \in Proc /\ (InPing(q)' <=> InPing(q) /\ q # p)
  BY <1>2 DEF InPing, Proc
<1>4. InPing(p)
  BY <1>0 DEF InPing
<1>5. \A q \in Proc : pc'[q] = "deliver" <=> pc[q] = "deliver"
  BY <1>0, <1>2
<1>6. pings' \subseteq pings /\ \A w \in pings : w \in pings' <=> w[1] # seq[p]
  BY DEF Cleanup
<1>7. Numbers'
  BY <1>3, <1>5, <1>6 DEF PumpInv, Numbers
<1>8. RxReplies'
  BY <1>0, <1>2 DEF PumpInv, RxReplies, Proc
<1>9. WaitersMatch'
  <2>1. \A w \in pings' : w[2] \in Pinger /\ w[2] # p /\ InPing(w[2]) /\ seq[w[2]] = w[1]
    BY <1>6 DEF PumpInv, PumpType, WaitersMatch
  <2>2. ASSUME NEW q \in Pinger, q # p, InPing(q), <<seq[q], q>> \in pings
        PROVE  <<seq[q], q>> \in pings'
    <3>1. seq[q] # seq[p]
      BY <1>4, <2>2 DEF PumpInv, Numbers
    <3> QED BY <1>6, <2>2, <3>1
  <2> QED BY <1>3, <1>5, <2>1, <2>2 DEF PumpInv, WaitersMatch
<1> QED BY <1>1, <1>7, <1>8, <1>9 DEF PumpInv

\* sendIPv4Frame fails or the packet leaves, in a process that is on its way there.
LEMMA SendEnds ==
  ASSUME PumpInv, NEW p \in Proc, pc[p] \in {"send", "arp"}, UNCHANGED <<boxes, seq, held, ipID, why>>,
         (\E e : SendFails(p, e)) \/ Transmit(p)
  PROVE  PumpInv'
<1>1. CASE Goto(p, "top") /\ UNCHANGED pings
  <2>1. pc' = [pc EXCEPT ![p] = "top"]
    BY <1>1 DEF Goto
  <2>2. RxReplies'
    BY <2>1 DEF PumpInv, PumpType, RxReplies, Proc
  <2>3. ipID' \in Nat /\ ipID' >= ipID /\ why' \in [Proc -> {"ping", "reply"}]
    BY DEF PumpInv, PumpType
  <2> QED BY <1>1, <2>1, <2>2, <2>3, MovesOn, Zenon
<1>2. CASE why[p] = "ping" /\ Cleanup(p) /\ Goto(p, "idle")
  <2>1. p # Rx
    BY <1>2 DEF PumpInv, RxReplies
  <2>2. p \in Pinger
    BY <2>1 DEF Proc
  <2> QED BY <1>2, <2>2, CleansUp, Zenon DEF Goto
<1> QED BY <1>1, <1>2 DEF SendFails, Transmit

\* sendIPv4Frame and the loop of resolveARP.
LEMMA SendInv ==
  ASSUME PumpInv, NEW p \in Proc, SendIPv4Frame(p) \/ ArpTop(p) \/ ArpRecv(p) \/ ArpTimeout(p)
  PROVE  PumpInv'
<1>1. UNCHANGED <<boxes, seq, held, ipID, why>> /\ pc[p] \in {"send", "arp", "arpRecv"}
  BY DEF SendIPv4Frame, ArpTop, ArpRecv, ArpTimeout
<1>2. ASSUME NEW l \in {"arp", "arpRecv"}, Goto(p, l), UNCHANGED pings PROVE PumpInv'
  <2>1. pc' = [pc EXCEPT ![p] = l]
    BY <1>2 DEF Goto
  <2>2. RxReplies'
    BY <1>1, <2>1 DEF PumpInv, PumpType, RxReplies, Proc
  <2>3. ipID' \in Nat /\ ipID' >= ipID /\ why' \in [Proc -> {"ping", "reply"}]
    BY <1>1 DEF PumpInv, PumpType
  <2> QED BY <1>1, <1>2, <2>1, <2>2, <2>3, MovesOn, Zenon
<1>3. CASE SendIPv4Frame(p)
  <2>1. pc[p] = "send"
    BY <1>3 DEF SendIPv4Frame
  <2>2. (\E e : SendFails(p, e)) \/ Transmit(p) \/ (Goto(p, "arp") /\ UNCHANGED pings)
    BY <1>3, Zenon DEF SendIPv4Frame
  <2> QED BY <1>1, <1>2, <2>1, <2>2, SendEnds
<1>4. CASE ArpTop(p)
  <2>1. pc[p] = "arp" /\ (Transmit(p) \/ (Goto(p, "arpRecv") /\ UNCHANGED pings))
    BY <1>4 DEF ArpTop
  <2> QED BY <1>1, <1>2, <2>1, SendEnds
<1>5. CASE ArpRecv(p)
  <2>1. Goto(p, "arp") /\ UNCHANGED pings
    BY <1>5 DEF ArpRecv
  <2> QED BY <1>2, <2>1
<1>6. CASE ArpTimeout(p)
  <2>1. pc[p] = "arp" /\ SendFails(p, "arpTimeout")
    BY <1>6 DEF ArpTimeout
  <2> QED BY <1>1, <2>1, SendEnds
<1> QED BY <1>3, <1>4, <1>5, <1>6

\* PingOnce takes a number nobody has and registers under it.
LEMMA PingOnceInv ==
  ASSUME PumpInv, NEW p \in Pinger, NEW h \in Host, PingOnce(p, h) PROVE PumpInv'
<1> USE PumpAssumption
<1>0. p \in Proc /\ p # Rx
  BY DEF Proc
<1>1. CASE closed
  <2>1. UNCHANGED <<pings, boxes, ipID, pc, seq, why, held>>
    BY <1>1 DEF PingOnce
  <2> QED BY <2>1 DEF PumpInv, PumpType, Numbers, RxReplies, WaitersMatch, InPing
<1>2. CASE ~closed
  <2>1. /\ pc[p] = "idle" /\ pc' = [pc EXCEPT ![p] = "send"] /\ seq' = [seq EXCEPT ![p] = ipID]
        /\ pings' = pings \cup {<<ipID, p>>} /\ ipID' = ipID + 2
        /\ why' = [why EXCEPT ![p] = "ping"] /\ UNCHANGED <<boxes, held>>
    BY <1>2 DEF PingOnce, Goto
  <2>2. PumpType'
    BY <1>0, <2>1 DEF PumpInv, PumpType
  <2>3. \A q \in Proc : /\ pc'[q] = (IF q = p THEN "send" ELSE pc[q])
                        /\ seq'[q] = (IF q = p THEN ipID ELSE seq[q])
    BY <2>1 DEF PumpInv, PumpType
  <2>4. \A q \in Pinger : q \in Proc /\ (InPing(q)' <=> InPing(q) \/ q = p)
    BY <1>0, <2>3 DEF InPing, Proc
  <2>5. \A q \in Proc : pc'[q] = "deliver" <=> pc[q] = "deliver"
    BY <2>1, <2>3
  <2>6. ~InPing(p)
    BY <2>1 DEF InPing
  <2>7. Numbers'
    <3>1. \A k \in Nat : k < ipID => k < ipID' /\ k # ipID
      BY <2>1 DEF PumpInv, PumpType
    <3>2. ipID < ipID'
      BY <2>1 DEF PumpInv, PumpType
    <3>3. (\A q \in Pinger : seq[q] \in Nat) /\ (\A q \in Proc : held[q] \in Nat) /\ \A k \in boxes : k \in Nat
      BY <2>4 DEF PumpInv, PumpType
    <3>4. \A w \in pings' : w \in pings \/ w[1] = ipID
      BY <2>1
    <3>5. (\A q \in Pinger : InPing(q)' => seq'[q] < ipID') /\
          (\A q, r \in Pinger : InPing(q)' /\ InPing(r)' /\ seq'[q] = seq'[r] => q = r)
      BY <2>3, <2>4, <3>1, <3>2, <3>3 DEF PumpInv, Numbers
    <3>6. \A k \in boxes' : k < ipID' /\ \A w \in pings' : w[1] # k
      BY <2>1, <3>1, <3>3, <3>4 DEF PumpInv, Numbers
    <3>7. \A q \in Proc : pc'[q] = "deliver" => held'[q] < ipID' /\ \A w \in pings' : w[1] # held'[q]
      BY <2>1, <2>5, <3>1, <3>3, <3>4 DEF PumpInv, Numbers
    <3> QED BY <3>5, <3>6, <3>7 DEF Numbers
  <2>8. RxReplies'
    BY <1>0, <2>1 DEF PumpInv, PumpType, RxReplies, Proc
  <2>9. WaitersMatch'
    <3>1. \A w \in pings : w[2] \in Pinger /\ w[2] # p
      BY <2>6 DEF PumpInv, PumpType, WaitersMatch
    <3>2. \A w \in pings' : InPing(w[2])' /\ seq'[w[2]] = w[1]
      BY <1>0, <2>1, <2>3, <2>4, <3>1 DEF PumpInv, WaitersMatch
    <3>3. ASSUME NEW q \in Pinger, InPing(q)'
          PROVE  \/ <<seq'[q], q>> \in pings' \/ seq'[q] \in boxes'
                 \/ \E r \in Proc : pc'[r] = "deliver" /\ held'[r] = seq'[q]
      BY <2>1, <2>3, <2>4, <2>5, <3>3 DEF PumpInv, WaitersMatch
    <3> QED BY <3>2, <3>3 DEF WaitersMatch
  <2> QED BY <2>2, <2>7, <2>8, <2>9 DEF PumpInv
<1> QED BY <1>1, <1>2

\* The head of PingOnce's loop: a reply in the channel, Close, a timeout, or once
\* more around.
LEMMA PingTopInv ==
  ASSUME PumpInv, NEW p \in Pinger, PingTop(p) \/ PingTimeout(p) PROVE PumpInv'
<1> USE PumpAssumption
<1>0. p \in Proc /\ p # Rx /\ pc[p] = "top" /\ UNCHANGED <<seq, held, ipID, why>> /\ InPing(p)
  BY DEF Proc, PingTop, PingTimeout, InPing
<1>1. CASE Cleanup(p) /\ Goto(p, "idle") /\ UNCHANGED boxes
  BY <1>0, <1>1, CleansUp, Zenon DEF Goto
<1>2. CASE Goto(p, "recv") /\ UNCHANGED <<pings, boxes>>
  <2>1. pc' = [pc EXCEPT ![p] = "recv"]
    BY <1>2 DEF Goto
  <2>2. RxReplies'
    BY <1>0, <2>1 DEF PumpInv, PumpType, RxReplies, Proc
  <2>3. ipID' \in Nat /\ ipID' >= ipID /\ why' \in [Proc -> {"ping", "reply"}]
    BY <1>0 DEF PumpInv, PumpType
  <2> QED BY <1>0, <1>2, <2>1, <2>2, <2>3, MovesOn, Zenon
<1>3. CASE seq[p] \in boxes /\ boxes' = boxes \ {seq[p]} /\ Goto(p, "idle") /\ UNCHANGED pings
  <2>1. pc' = [pc EXCEPT ![p] = "idle"]
    BY <1>3 DEF Goto
  <2>2. PumpType'
    BY <1>0, <1>3, <2>1, Zenon DEF PumpInv, PumpType
  <2>3. \A q \in Proc : pc'[q] = IF q = p THEN "idle" ELSE pc[q]
    BY <2>1 DEF PumpInv, PumpType
  <2>4. \A q \in Pinger : q \in Proc /\ (InPing(q)' <=> InPing(q) /\ q # p)
    BY <2>3 DEF InPing, Proc
  <2>5. \A q \in Proc : pc'[q] = "deliver" <=> pc[q] = "deliver"
    BY <1>0, <2>3
  <2>6. Numbers'
    BY <1>0, <1>3, <2>4, <2>5 DEF PumpInv, Numbers
  <2>7. RxReplies'
    BY <1>0, <2>3 DEF PumpInv, RxReplies, Proc
  <2>8. WaitersMatch'
    <3>1. \A w \in pings : w[2] \in Pinger /\ w[2] # p
      BY <1>3 DEF PumpInv, PumpType, Numbers, WaitersMatch
    <3>2. \A q \in Pinger : InPing(q) /\ q # p => seq[q] # seq[p]
      BY <1>0 DEF PumpInv, Numbers
    <3> QED BY <1>0, <1>3, <2>4, <2>5, <3>1, <3>2 DEF PumpInv, WaitersMatch
  <2> QED BY <2>2, <2>6, <2>7, <2>8 DEF PumpInv
<1> QED BY <1>1, <1>2, <1>3 DEF PingTop, PingTimeout

\* dispatch takes a reply out of the table and into its hands, and Deliver puts it
\* into the waiter's channel.
LEMMA DispatchInv == ASSUME PumpInv, NEW p \in Proc, RecvDispatch(p) PROVE PumpInv'
<1> USE PumpAssumption
<1>0. pc[p] = "recv" /\ UNCHANGED <<boxes, seq>>
  BY DEF RecvDispatch
<1>1. CASE Goto(p, "top") /\ UNCHANGED <<pings, ipID, why, held>>
  <2>1. pc' = [pc EXCEPT ![p] = "top"]
    BY <1>1 DEF Goto
  <2>2. RxReplies'
    BY <1>1, <2>1 DEF PumpInv, PumpType, RxReplies, Proc
  <2>3. ipID' \in Nat /\ ipID' >= ipID /\ why' \in [Proc -> {"ping", "reply"}]
    BY <1>1 DEF PumpInv, PumpType
  <2> QED BY <1>0, <1>1, <2>1, <2>2, <2>3, MovesOn, Zenon
<1>2. CASE Goto(p, "send") /\ ipID' = ipID + 1 /\ why' = [why EXCEPT ![p] = "reply"]
           /\ UNCHANGED <<pings, held>>
  <2>1. pc' = [pc EXCEPT ![p] = "send"]
    BY <1>2 DEF Goto
  <2>2. why' \in [Proc -> {"ping", "reply"}] /\ ipID' \in Nat /\ ipID' >= ipID
    BY <1>2 DEF PumpInv, PumpType
  <2>3. RxReplies'
    BY <1>2, <2>1 DEF PumpInv, PumpType, RxReplies, Proc
  <2> QED BY <1>0, <1>2, <2>1, <2>2, <2>3, MovesOn, Zenon
<1>3. ASSUME NEW x, x \in Waiters, Goto(p, "deliver"), held' = [held EXCEPT ![p] = x],
             pings' = {w \in pings : w[1] # x}, UNCHANGED <<ipID, why>>
      PROVE  PumpInv'
  <2>1. pc' = [pc EXCEPT ![p] = "deliver"]
    BY <1>3 DEF Goto
  <2>2. PICK v \in pings : v[1] = x
    BY <1>3 DEF Waiters
  <2>3. v[2] \in Pinger /\ x \in Nat /\ InPing(v[2]) /\ seq[v[2]] = x
    BY <2>2 DEF PumpInv, PumpType, WaitersMatch
  <2>4. x < ipID
    BY <2>3 DEF PumpInv, Numbers
  <2>5. PumpType'
    BY <1>0, <1>3, <2>1, <2>3 DEF PumpInv, PumpType
  <2>6. \A q \in Proc : /\ pc'[q] = (IF q = p THEN "deliver" ELSE pc[q])
                        /\ held'[q] = (IF q = p THEN x ELSE held[q])
    BY <1>3, <2>1 DEF PumpInv, PumpType
  <2>7. \A q \in Pinger : q \in Proc /\ (InPing(q)' <=> InPing(q))
    BY <1>0, <2>6 DEF InPing, Proc
  <2>8. pings' \subseteq pings /\ \A w \in pings : w \in pings' <=> w[1] # x
    BY <1>3
  <2>9. Numbers'
    <3>1. /\ \A q \in Pinger : InPing(q)' => seq'[q] < ipID'
          /\ \A q, r \in Pinger : InPing(q)' /\ InPing(r)' /\ seq'[q] = seq'[r] => q = r
      BY <1>0, <1>3, <2>7 DEF PumpInv, Numbers
    <3>2. \A n \in boxes' : n < ipID' /\ \A w \in pings' : w[1] # n
      BY <1>0, <1>3, <2>8 DEF PumpInv, Numbers
    <3>3. \A q \in Proc : pc'[q] = "deliver" => held'[q] < ipID' /\ \A w \in pings' : w[1] # held'[q]
      BY <1>3, <2>4, <2>6, <2>8 DEF PumpInv, Numbers
    <3> QED BY <3>1, <3>2, <3>3 DEF Numbers, Proc
  <2>10. RxReplies'
    BY <1>0, <1>3, <2>6 DEF PumpInv, RxReplies, Proc
  <2>11. WaitersMatch'
    <3>1. \A w \in pings' : InPing(w[2])' /\ seq'[w[2]] = w[1]
      BY <1>0, <2>7, <2>8 DEF PumpInv, PumpType, WaitersMatch
    <3>2. ASSUME NEW q \in Pinger, InPing(q)'
          PROVE  \/ <<seq'[q], q>> \in pings' \/ seq'[q] \in boxes'
                 \/ \E r \in Proc : pc'[r] = "deliver" /\ held'[r] = seq'[q]
      <4>1. CASE seq[q] = x
        BY <1>0, <2>6, <4>1
      <4>2. CASE seq[q] # x
        <5>1. ASSUME NEW r \in Proc, pc[r] = "deliver", held[r] = seq[q]
              PROVE  pc'[r] = "deliver" /\ held'[r] = seq[q]
          BY <1>0, <2>6, <5>1
        <5>2. <<seq[q], q>> \in pings => <<seq[q], q>> \in pings'
          BY <2>8, <4>2
        <5> QED BY <1>0, <2>7, <3>2, <5>1, <5>2 DEF PumpInv, WaitersMatch
      <4> QED BY <4>1, <4>2
    <3> QED BY <3>1, <3>2 DEF WaitersMatch
  <2> QED BY <2>5, <2>9, <2>10, <2>11 DEF PumpInv
<1>4. ASSUME NEW x, x \notin Waiters PROVE {w \in pings : w[1] # x} = pings
  BY <1>4 DEF Waiters
<1>5. CASE link = <<>>
  BY <1>1, <1>5, Zenon DEF RecvDispatch
<1>6. CASE link # <<>>
  <2> DEFINE f == Head(link)
  <2>1. CASE f.kind = "echoReply" /\ f.x \in Waiters /\ Goto(p, "deliver")
             /\ held' = [held EXCEPT ![p] = f.x]
             /\ pings' = {w \in pings : w[1] # f.x} /\ UNCHANGED <<ipID, why>>
    BY <1>3, <2>1, Zenon
  <2>2. CASE f.kind = "echoReply" /\ f.x \notin Waiters /\ Goto(p, "top") /\ UNCHANGED held
             /\ pings' = {w \in pings : w[1] # f.x} /\ UNCHANGED <<ipID, why>>
    BY <1>1, <1>4, <2>2
  <2>3. CASE f.kind = "arp" /\ Goto(p, "top") /\ UNCHANGED <<pings, ipID, why, held>>
    BY <1>1, <2>3
  <2>4. CASE f.kind = "echoRequest" /\ Goto(p, "send") /\ ipID' = ipID + 1
             /\ why' = [why EXCEPT ![p] = "reply"] /\ UNCHANGED <<pings, held>>
    BY <1>2, <2>4
  <2> QED BY <1>6, <2>1, <2>2, <2>3, <2>4 DEF RecvDispatch
<1> QED BY <1>5, <1>6

\* The send on the waiter's channel.
LEMMA DeliverInv == ASSUME PumpInv, NEW p \in Proc, Deliver(p) PROVE PumpInv'
<1> USE PumpAssumption
<1>1. /\ pc[p] = "deliver" /\ pc' = [pc EXCEPT ![p] = "top"] /\ boxes' = boxes \cup {held[p]}
      /\ UNCHANGED <<pings, ipID, seq, held, why>>
  BY DEF Deliver, Goto
<1>2. PumpType'
  BY <1>1, Zenon DEF PumpInv, PumpType
<1>3. \A q \in Proc : pc'[q] = IF q = p THEN "top" ELSE pc[q]
  BY <1>1 DEF PumpInv, PumpType
<1>4. \A q \in Pinger : q \in Proc /\ (InPing(q)' <=> InPing(q))
  BY <1>1, <1>3 DEF InPing, Proc
<1>5. Numbers'
  BY <1>1, <1>3, <1>4 DEF PumpInv, Numbers
<1>6. RxReplies'
  BY <1>1, <1>3 DEF PumpInv, RxReplies, Proc
<1>7. WaitersMatch'
  <2>1. \A w \in pings' : InPing(w[2])' /\ seq'[w[2]] = w[1]
    BY <1>1, <1>4 DEF PumpInv, PumpType, WaitersMatch
  <2>2. ASSUME NEW q \in Pinger, InPing(q)'
        PROVE  \/ <<seq'[q], q>> \in pings' \/ seq'[q] \in boxes'
               \/ \E r \in Proc : pc'[r] = "deliver" /\ held'[r] = seq'[q]
    BY <1>1, <1>3, <1>4, <2>2 DEF PumpInv, WaitersMatch
  <2> QED BY <2>1, <2>2 DEF WaitersMatch
<1> QED BY <1>2, <1>5, <1>6, <1>7 DEF PumpInv

\* rxLoop starts, goes around and stops.
LEMMA RxLoopInv == ASSUME PumpInv, StartGo \/ RxTop PROVE PumpInv'
<1>1. Rx \in Proc /\ UNCHANGED <<pings, boxes, ipID, seq, held, why>> /\ pc[Rx] # "deliver"
  BY DEF Proc, StartGo, RxTop, stackVars
<1>2. PICK l \in {"top", "recv", "done"} : pc' = [pc EXCEPT ![Rx] = l]
  BY DEF StartGo, RxTop, Goto
<1>3. RxReplies'
  BY <1>1, <1>2 DEF PumpInv, PumpType, RxReplies
<1>4. ipID' \in Nat /\ ipID' >= ipID /\ why' \in [Proc -> {"ping", "reply"}]
  BY <1>1 DEF PumpInv, PumpType
<1> QED BY <1>1, <1>2, <1>3, <1>4, MovesOn, Zenon

\* The table of pings and the pings in progress agree, for any number of goroutines,
\* hosts and frames: what is registered belongs to a PingOnce in progress, and no
\* reply that was taken out of the table is lost, whichever receive loop took it
\* (PingOnce, dispatch, handleICMP, stack.go).
THEOREM PingsAreMatched == Spec => []WaitersMatch
<1>1. Init => PumpInv
  <2> SUFFICES ASSUME Init PROVE PumpInv
    OBVIOUS
  <2>1. PumpType
    BY DEF Init, PumpType
  <2>2. \A p \in Pinger : ~InPing(p)
    BY DEF Init, InPing, Proc
  <2> QED BY <2>1, <2>2 DEF Init, PumpInv, Numbers, RxReplies, WaitersMatch, Proc
<1>2. PumpInv /\ [Next]_vars => PumpInv'
  <2> SUFFICES ASSUME PumpInv, [Next]_vars PROVE PumpInv'
    OBVIOUS
  <2>1. ASSUME UNCHANGED <<pings, boxes, ipID, procVars>> PROVE PumpInv'
    BY <2>1 DEF procVars, PumpInv, PumpType, Numbers, RxReplies, WaitersMatch, InPing
  <2>2. CASE StartMark \/ CloseMark \/ CloseStop \/ CloseReturn \/ Arrive \/ UNCHANGED vars
    BY <2>1, <2>2 DEF StartMark, CloseMark, CloseStop, CloseReturn, Arrive, vars, stackVars
  <2>3. ASSUME NEW p \in Proc, Receive(p) \/ ArpTimeout(p) PROVE PumpInv'
    BY <2>3, SendInv, DispatchInv, DeliverInv DEF Receive
  <2> QED BY <2>2, <2>3, RxLoopInv, PingTopInv, PingOnceInv DEF Next
<1>3. PumpInv => WaitersMatch
  BY DEF PumpInv
<1> QED BY <1>1, <1>2, <1>3, PTL DEF Spec

-----------------------------------------------------------------------------
(* HttpConn.                                                               *)

\* The goroutine starts when the call is over, finds the body complete only with
\* every piece handed over, and then writes nothing more; the pipe ends well only
\* after that, and the reader sees what the pipe says.
BodyInv ==
  /\ stage # "done" => worker = "none" /\ reader = "none" /\ complete = FALSE /\ pipe = "open"
  /\ complete \in BOOLEAN
  /\ complete => sent = Pieces /\ worker \notin {"read", "write"}
  /\ pipe = "eof" => complete
  /\ reader = "eof" => pipe = "eof"

\* No step of the call starts the goroutine but the last, and that one starts it
\* with nothing found complete.
LEMMA CallKeepsBody == ASSUME BodyInv, Call PROVE BodyInv'
<1> USE DEF BodyInv
<1>1. stage # "done"
  BY DEF Call, Begin, Resolve, Dial, Write, Checked, ReadAll, ReadHeaders
<1>2. ASSUME UNCHANGED flow PROVE BodyInv'
  BY <1>1, <1>2 DEF flow
<1>3. ASSUME NEW ok \in BOOLEAN, ReadHeaders(ok) PROVE BodyInv'
  <2>1. /\ stage' = "done" /\ UNCHANGED complete
        /\ pipe' \in {pipe, "error"} /\ reader' \in {reader, "held"}
    BY <1>3 DEF ReadHeaders, Return, CloseAndReturn
  <2> QED BY <1>1, <2>1
<1> QED BY <1>2, <1>3, Zenon DEF Call, Begin, Resolve, Dial, Write, Checked, ReadAll

\* The goroutine and the reader keep the invariant.
LEMMA BodyKeepsBody == ASSUME BodyInv, Worker \/ Reader PROVE BodyInv'
<1> USE DEF BodyInv
<1>1. ASSUME NEW ok \in BOOLEAN, WorkerRead(ok) PROVE BodyInv'
  <2>1. worker = "read" /\ UNCHANGED <<stage, sent, pipe, reader>>
    BY <1>1 DEF WorkerRead
  <2>2. complete' \in BOOLEAN /\ (complete' => ok /\ sent = Pieces)
    BY <1>1, Zenon DEF WorkerRead
  <2>3. complete' => worker' = "pipe"
    BY <1>1, <2>2 DEF WorkerRead
  <2> QED BY <2>1, <2>2, <2>3
<1>2. CASE WorkerWrite
  BY <1>2 DEF WorkerWrite
<1>3. CASE WorkerPipe
  <2>1. /\ worker = "pipe" /\ worker' = "close" /\ (pipe' = "eof" => complete)
        /\ (complete => pipe' = "eof") /\ UNCHANGED <<stage, sent, complete, reader>>
    BY <1>3, Zenon DEF WorkerPipe
  <2> QED BY <2>1
<1>4. CASE WorkerClose
  BY <1>4 DEF WorkerClose
<1>5. CASE ReaderRead \/ ReaderBlock
  BY <1>5 DEF ReaderRead, ReaderBlock
<1>6. CASE ReaderEnd
  BY <1>6 DEF ReaderEnd
<1>7. CASE ReaderClose
  BY <1>7 DEF ReaderClose
<1> QED BY <1>1, <1>2, <1>3, <1>4, <1>5, <1>6, <1>7, Zenon DEF Worker, Reader

\* The reader of a body sees its end only if the body is complete and it was given
\* every piece, for every number of pieces and every order of timeouts,
\* cancellation, closing and reading (orasoci's RoundTrip and its goroutine).
THEOREM EndMeansWholeBody == HttpSpec => []EofMeansComplete
<1>1. HttpInit => BodyInv
  BY Zenon DEF HttpInit, BodyInv
<1>2. BodyInv /\ [HttpNext]_httpVars => BodyInv'
  <2> SUFFICES ASSUME BodyInv, [HttpNext]_httpVars PROVE BodyInv'
    OBVIOUS
  <2>1. CASE Cancel \/ UNCHANGED httpVars
    BY <2>1 DEF Cancel, httpVars, flow, BodyInv
  <2> QED BY <2>1, CallKeepsBody, BodyKeepsBody DEF HttpNext
<1>3. BodyInv => EofMeansComplete
  BY DEF BodyInv, EofMeansComplete
<1> QED BY <1>1, <1>2, <1>3, PTL DEF HttpSpec

-----------------------------------------------------------------------------
(* Dhcp4.                                                                  *)

\* The exchange: a port is open only while it waits, the stack is configured only
\* after a lease was applied, and what is applied is a lease of the server it names.
ExchangeInv ==
  /\ open => phase \in {"offer", "ack"}
  /\ result = "ok" \/ (local = None /\ gateway = None)
  /\ phase # "done" => local = None /\ gateway = None
  /\ phase = "apply" => lease.server \in Servers /\ lease.ip \in bound[lease.server]
  /\ local # None =>
       local = lease.ip /\ lease.server \in Servers /\ lease.ip \in bound[lease.server]

\* The servers: an ACK to this client is backed by a lease, and no address is leased
\* both to it and to another.
ServerInv ==
  /\ bound = [s \in Servers |-> bound[s]]
  /\ \A m \in net : m.type = "ack" /\ m.xid = "own" => m.sid \in Servers /\ m.yi \in bound[m.sid]
  /\ \A s \in Servers : bound[s] \cap taken = {}

DhcpInv == ExchangeInv /\ ServerInv

\* Nothing is leased, open or configured at first, and the strays are not for us.
LEMMA DhcpStart == DhcpInit => DhcpInv
<1> SUFFICES ASSUME DhcpInit PROVE DhcpInv
  OBVIOUS
<1>1. ExchangeInv
  BY DEF DhcpInit, ExchangeInv
<1>2. \A m \in Strays : m.xid = "other"
  BY DEF Strays, Msg
<1>3. ServerInv
  BY <1>2 DEF DhcpInit, ServerInv
<1> QED BY <1>1, <1>3 DEF DhcpInv

\* A DISCOVER, and a call that cannot send one.
LEMMA DiscoverInv == ASSUME DhcpInv, NEW ok \in BOOLEAN, Discover(ok) PROVE DhcpInv'
<1>1. \A m \in net' : m.type = "ack" => m \in net
  BY DEF Discover, Msg
<1>2. UNCHANGED <<bound, taken>>
  BY DEF Discover, server
<1>3. ServerInv'
  BY <1>1, <1>2 DEF DhcpInv, ServerInv
<1>4. phase' \in {"offer", "done"} /\ (open' => phase' = "offer") /\ local' = None /\ gateway' = None
  BY Zenon DEF Discover, DhcpInv, ExchangeInv
<1>5. ExchangeInv'
  BY <1>4 DEF ExchangeInv
<1> QED BY <1>3, <1>5 DEF DhcpInv

\* A NAK, a timeout and the answer to an OFFER; none of them touches the stack.
LEMMA WaitInv ==
  ASSUME DhcpInv, Timeout \/ \E m \in net : Nak(m) \/ \E ok \in BOOLEAN : Offer(m, ok)
  PROVE  DhcpInv'
<1>1. /\ phase \in {"offer", "ack"} /\ phase' \in {"ack", "done"} /\ (open' => phase' = "ack")
      /\ UNCHANGED <<lease, local, gateway, bound, taken>>
  <2>1. CASE Timeout
    BY <2>1 DEF Timeout, EndExchange, server
  <2>2. ASSUME NEW m \in net, Nak(m) PROVE <1>1!:
    BY <2>2 DEF Nak, EndExchange, server
  <2>3. ASSUME NEW m \in net, NEW ok \in BOOLEAN, Offer(m, ok) PROVE <1>1!:
    BY <2>3, Zenon DEF Offer, EndExchange, server
  <2> QED BY <2>1, <2>2, <2>3
<1>2. \A m \in net' : m.type = "ack" => m \in net
  BY DEF Timeout, Nak, Offer, Msg
<1>3. ServerInv'
  BY <1>1, <1>2 DEF DhcpInv, ServerInv
<1>4. local' = None /\ gateway' = None
  BY <1>1 DEF DhcpInv, ExchangeInv
<1>5. ExchangeInv'
  BY <1>1, <1>4 DEF ExchangeInv
<1> QED BY <1>3, <1>5 DEF DhcpInv

\* An ACK to this client becomes its lease.
LEMMA AckInv == ASSUME DhcpInv, NEW m \in net, Ack(m) PROVE DhcpInv'
<1>1. /\ m.type = "ack" /\ m.xid = "own"
      /\ phase = "ack" /\ phase' = "apply" /\ open' = FALSE
      /\ lease'.server = m.sid /\ lease'.ip = m.yi
      /\ UNCHANGED <<net, local, gateway, bound, taken>>
  BY DEF Ack, Wanted, ForUs, LeaseOf, server
<1>2. lease'.server \in Servers /\ lease'.ip \in bound'[lease'.server]
  BY <1>1 DEF DhcpInv, ServerInv
<1>3. ServerInv'
  BY <1>1 DEF DhcpInv, ServerInv
<1>4. ExchangeInv'
  BY <1>1, <1>2 DEF DhcpInv, ExchangeInv
<1> QED BY <1>3, <1>4 DEF DhcpInv

\* The probe applies the lease, or refuses it for want of a mask.
LEMMA ApplyInv == ASSUME DhcpInv, Apply PROVE DhcpInv'
<1>1. /\ phase = "apply" /\ phase' = "done" /\ open' = FALSE
      /\ UNCHANGED <<net, lease, bound, taken>>
      /\ \/ local' = lease.ip /\ result' = "ok"
         \/ UNCHANGED <<local, gateway>>
  BY DEF Apply, EndExchange, server
<1>2. ServerInv'
  BY <1>1 DEF DhcpInv, ServerInv
<1>3. ExchangeInv'
  BY <1>1 DEF DhcpInv, ExchangeInv
<1> QED BY <1>2, <1>3 DEF DhcpInv

\* A new call, on a new stack.
LEMMA AgainInv == ASSUME DhcpInv, Again PROVE DhcpInv'
<1>1. /\ phase = "done" /\ phase' = "idle" /\ local' = None /\ gateway' = None
      /\ UNCHANGED <<net, lease, result, bound, taken, open>>
  BY DEF Again, server
<1>2. ServerInv'
  BY <1>1 DEF DhcpInv, ServerInv
<1>3. ExchangeInv'
  BY <1>1 DEF DhcpInv, ExchangeInv
<1> QED BY <1>2, <1>3 DEF DhcpInv

\* The servers reply to requests, and other clients take what is not leased.
LEMMA EnvironmentInv == ASSUME DhcpInv, Environment PROVE DhcpInv'
<1>1. ASSUME NEW s \in Servers, NEW a \in Addrs, NEW h \in BOOLEAN, ServerOffer(s, a, h)
      PROVE  DhcpInv'
  <2>1. (\A m \in net' : m.type = "ack" => m \in net) /\ UNCHANGED <<client, bound, taken>>
    BY <1>1 DEF ServerOffer, Msg, server
  <2> QED BY <2>1 DEF DhcpInv, ServerInv, ExchangeInv, client
<1>2. ASSUME NEW s \in Servers, NEW m \in net, NEW mask \in BOOLEAN, NEW gw \in BOOLEAN,
             ServerReply(s, m, mask, gw)
      PROVE  DhcpInv'
  <2>1. UNCHANGED <<client, taken>>
    BY <1>2 DEF ServerReply
  <2>2. CASE m.yi \in taken
    <3>1. (\A x \in net' : x.type = "ack" => x \in net) /\ UNCHANGED bound
      BY <1>2, <2>2 DEF ServerReply, Msg
    <3> QED BY <2>1, <3>1 DEF DhcpInv, ServerInv, ExchangeInv, client
  <2>3. CASE m.yi \notin taken
    <3>1. /\ bound' = [bound EXCEPT ![s] = @ \cup {m.yi}]
          /\ \A x \in net' : x \in net \/ (x.yi = m.yi /\ x.sid = s)
      BY <1>2, <2>3 DEF ServerReply, Msg
    <3>2. bound' = [t \in Servers |-> IF t = s THEN bound[s] \cup {m.yi} ELSE bound[t]]
      BY <3>1 DEF DhcpInv, ServerInv
    <3>3. \A t \in Servers : bound'[t] = (IF t = s THEN bound[s] \cup {m.yi} ELSE bound[t])
      BY <3>2
    <3>4. bound' = [t \in Servers |-> bound'[t]]
      BY <3>2
    <3>5. ServerInv'
      BY <2>1, <2>3, <3>1, <3>3, <3>4 DEF DhcpInv, ServerInv
    <3>6. ExchangeInv'
      BY <2>1, <3>3 DEF DhcpInv, ExchangeInv, client
    <3> QED BY <3>5, <3>6 DEF DhcpInv
  <2> QED BY <2>2, <2>3
<1>3. ASSUME NEW a \in Addrs, Take(a) PROVE DhcpInv'
  BY <1>3 DEF Take, DhcpInv, ServerInv, ExchangeInv, client
<1> QED BY <1>1, <1>2, <1>3 DEF Environment

\* The address the stack uses was leased to this machine and to nobody else, and an
\* exchange that fails configures nothing and closes its port, for any number of
\* servers, addresses and calls and whatever is lost, repeated or reordered
\* (DHCP4Acquire, dhcp4.go; phase2_dhcp4_acquire.go).
THEOREM StackUsesItsLease == DhcpSpec => []LeasedOrNothing
<1>1. DhcpInv /\ [DhcpNext]_dhcpVars => DhcpInv'
  <2> SUFFICES ASSUME DhcpInv, [DhcpNext]_dhcpVars PROVE DhcpInv'
    OBVIOUS
  <2>1. CASE UNCHANGED dhcpVars
    BY <2>1 DEF dhcpVars, client, server, DhcpInv, ServerInv, ExchangeInv
  <2>2. CASE Client
    BY <2>2, DiscoverInv, WaitInv, AckInv, ApplyInv DEF Client
  <2> QED BY <2>1, <2>2, AgainInv, EnvironmentInv DEF DhcpNext
<1>2. DhcpInv => LeasedOrNothing
  BY DEF DhcpInv, ServerInv, ExchangeInv, LeasedOrNothing
<1> QED BY <1>1, <1>2, DhcpStart, PTL DEF DhcpSpec

=============================================================================
