------------------------------- MODULE OciPush -------------------------------
(***************************************************************************)
(* The kernel publisher (cmd/cloudboot-oci-extract/main.go): it takes a    *)
(* kernel out of a Debian package, checks that it is an EFI stub for the   *)
(* wanted machine, and pushes it as an OCI artifact, first anonymously and *)
(* then, if a second destination and its token are given, there as well.   *)
(* Runs of the nightly job and of its manual trigger may overlap and a job *)
(* may be killed at any request.                                           *)
(*                                                                         *)
(* A registry (external) keeps the blobs whose PUT it answered, and some   *)
(* whose answer was lost; it does not compare a manifest with its blobs.   *)
(* A kernel stands for itself, its layer and the digest of its layer.      *)
(***************************************************************************)
EXTENDS Naturals, Sequences, FiniteSetsExt

CONSTANTS
  Runs,
  Packages,     \* [members, tar]: names of the ar members, entries of data.tar
  WantMachine,  \* coffMachineFor(arch)
  SecondLeg     \* the runs with -push-to-ghcr and GHCR_TOKEN

VARIABLES
  package,      \* run -> what its URL serves
  pushRun,      \* run -> [pc, kernel, leg, todo, failed, exit]
  holds,        \* registry -> blobs it has
  latest,       \* registry -> kernel of the manifest under the tag, or NoKernel
  acked         \* ghost: pairs of a run and a registry that took its manifest

pushVars == <<package, pushRun, holds, latest, acked>>

Primary == "ttl.sh"
Secondary == "ghcr.io"
NoKernel == [prefix |-> "none", stub |-> FALSE, machine |-> 0, id |-> 0]
ConfigBlob == [NoKernel EXCEPT !.prefix = "config"]   \* the same blob in every artifact

OnStep(r, pc) == pushRun[r].pc = pc

\* log.Fatalf, or the end of main.
ExitWith(r, code) == pushRun' = [pushRun EXCEPT ![r].pc = "done", ![r].exit = code]

\* arFindMember: the first member of that name; a broken one before it is an error.
arFindMember(members) ==
  LET stops == {i \in DOMAIN members : members[i] \in {"data.tar", "broken"}}
  IN  stops # {} /\ members[Min(stops)] = "data.tar"

\* findKernelInTar: the first vmlinuz or Image, else the first vmlinux.  The name of
\* another architecture is accepted as well.
findKernelInTar(tar) ==
  LET Of(ps) == {i \in DOMAIN tar : tar[i].prefix \in ps}
  IN  IF Of({"vmlinuz", "Image"}) # {} THEN tar[Min(Of({"vmlinuz", "Image"}))]
      ELSE IF Of({"vmlinux"}) # {} THEN tar[Min(Of({"vmlinux"}))] ELSE NoKernel

\* Steps 1 to 3: download, extract, validate and package.  Any error is fatal.
FetchKernel(r) ==
  /\ OnStep(r, "fetch")
  /\ LET kernel == findKernelInTar(package[r].tar) IN
     \/ ExitWith(r, 1)
     \/ /\ arFindMember(package[r].members) /\ kernel # NoKernel
        /\ pushRun' = [pushRun EXCEPT ![r].pc = "validate", ![r].kernel = kernel]
  /\ UNCHANGED <<package, holds, latest, acked>>

validateEFIStub(kernel) == kernel.stub /\ kernel.machine = WantMachine

\* Mutant: the manifest goes before the layer it names.
UploadsLate == <<"config">>

\* What pushOCI uploads before the manifest.
Uploads == <<"config", "layer">>

Validate(r) ==
  /\ OnStep(r, "validate")
  /\ IF validateEFIStub(pushRun[r].kernel)
     THEN pushRun' = [pushRun EXCEPT ![r].pc = "post", ![r].leg = Primary, ![r].todo = Uploads]
     ELSE ExitWith(r, 1)
  /\ UNCHANGED <<package, holds, latest, acked>>

-----------------------------------------------------------------------------
\* pushOCI, one request to a step.

BlobOf(r) == IF Head(pushRun[r].todo) = "config" THEN ConfigBlob ELSE pushRun[r].kernel

\* A leg is over: the second one follows whether the first succeeded or not.
EndLeg(r, ok) ==
  LET failed == pushRun[r].failed \cup (IF ok THEN {} ELSE {pushRun[r].leg})
  IN  pushRun' = [pushRun EXCEPT ![r] =
        IF @.leg = Primary /\ r \in SecondLeg
        THEN [@ EXCEPT !.pc = "post", !.leg = Secondary, !.todo = Uploads, !.failed = failed]
        ELSE [@ EXCEPT !.pc = "done", !.failed = failed, !.exit = IF failed = {} THEN 0 ELSE 1]]

\* The POST fails, is refused or is answered without a Location.
PostUpload(r) ==
  /\ OnStep(r, "post")
  /\ EndLeg(r, FALSE) \/ pushRun' = [pushRun EXCEPT ![r].pc = "put"]
  /\ UNCHANGED <<package, holds, latest, acked>>

\* The PUT of a blob; its answer may be lost after it was stored.
PutBlob(r) ==
  /\ OnStep(r, "put")
  /\ LET reg == pushRun[r].leg
         stored == [holds EXCEPT ![reg] = @ \cup {BlobOf(r)}]
         rest == Tail(pushRun[r].todo)
     IN  \/ EndLeg(r, FALSE) /\ holds' \in {holds, stored}
         \/ /\ holds' = stored
            /\ pushRun' = [pushRun EXCEPT ![r].todo = rest, ![r].pc = IF rest = <<>> THEN "manifest" ELSE "post"]
  /\ UNCHANGED <<package, latest, acked>>

\* The PUT of the manifest moves the tag.
PutManifest(r) ==
  /\ OnStep(r, "manifest")
  /\ LET reg == pushRun[r].leg
         moved == [latest EXCEPT ![reg] = pushRun[r].kernel]
     IN  \/ EndLeg(r, FALSE) /\ latest' \in {latest, moved} /\ UNCHANGED acked
         \/ EndLeg(r, TRUE) /\ latest' = moved /\ acked' = acked \cup {<<r, reg>>}
  /\ UNCHANGED <<package, holds>>

\* The job is cancelled.
Kill(r) ==
  /\ ~OnStep(r, "done") /\ ExitWith(r, 2)
  /\ UNCHANGED <<package, holds, latest, acked>>

PushInit ==
  /\ package \in [Runs -> Packages]
  /\ pushRun = [r \in Runs |-> [pc |-> "fetch", kernel |-> NoKernel, leg |-> Primary, todo |-> <<>>, failed |-> {}, exit |-> 3]]
  /\ holds = [reg \in {Primary, Secondary} |-> {}]
  /\ latest = [reg \in {Primary, Secondary} |-> NoKernel] /\ acked = {}

PushNext ==
  \E r \in Runs : FetchKernel(r) \/ Validate(r) \/ PostUpload(r) \/ PutBlob(r) \/ PutManifest(r) \/ Kill(r)

PushSpec == PushInit /\ [][PushNext]_pushVars

-----------------------------------------------------------------------------
\* At no moment, wherever runs stop or overlap, does a tag name an artifact that a
\* loader could not fetch whole, or a kernel that is not an EFI stub for the machine;
\* exit status 0 means that every destination of the run took its manifest, and a run
\* that fails on the first destination has still tried the second ("The two pushes are
\* independent", main.go:65; pushOCI, main).
TagIsWhole ==
  /\ \A reg \in {Primary, Secondary} : latest[reg] # NoKernel =>
       {ConfigBlob, latest[reg]} \subseteq holds[reg] /\ latest[reg].stub /\ latest[reg].machine = WantMachine
  /\ \A r \in Runs :
       /\ pushRun[r].exit = 0 => {Primary} \cup (IF r \in SecondLeg THEN {Secondary} ELSE {}) = {a[2] : a \in {x \in acked : x[1] = r}}
       /\ pushRun[r].exit = 1 /\ r \in SecondLeg /\ pushRun[r].failed # {} => pushRun[r].leg = Secondary
=============================================================================
