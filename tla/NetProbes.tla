------------------------------ MODULE NetProbes ------------------------------
(***************************************************************************)
(* The dispatcher of phase2_dispatch.go and the probes of the network      *)
(* milestones (phase2_ministack_ping.go, _dhcp4_acquire, _http_get,        *)
(* _https_get, _oci_fetch, _oci_stream_fetch, _oci_cosign_verify,          *)
(* _oci_oras_fetch), several of which may be built into one image.         *)
(*                                                                         *)
(* A probe is a sequence of stages that all bring up the same virtio-net   *)
(* device again and put a fresh Stack on it.  What a call does on the wire *)
(* is modelled in the modules of its component; here an exchange is one    *)
(* question and one answer, which may be lost or come so late that the     *)
(* probe that asked is over.  A fresh Stack begins with the same           *)
(* identifiers as the one before it.                                       *)
(***************************************************************************)
EXTENDS Naturals, Sequences

CONSTANTS
  MaxProbes,   \* bound on the network probes in one image
  Leases,      \* what the DHCP server may grant: [addr, mask, gw, dns]
  MaxEchoes    \* bound on the echo requests of others that the Stacks answer

\* "static" names the constant address of the ping probe: it is kept apart from a leased
\* one even where the server grants the same number.
ASSUME LeaseAssumption == MaxProbes \in Nat /\ MaxEchoes \in Nat /\ \A l \in Leases : l.addr # "static"

VARIABLES
  image,       \* the probes of this image that have not begun
  probe,       \* the one that runs
  stages,      \* what is left of it
  opens,       \* successful OpenVirtioNet calls: the device serves the last one
  local,       \* the Stack's IPv4 address
  gateway,     \* whether it has a default gateway
  lease,       \* the lease acquired, [addr |-> "none", ...] before
  roots,       \* whether the trust roots have been parsed
  ipID,        \* the Stack's counter of IP identifications, of 16 bits
  echoed,      \* echo requests of others answered so far, by all the Stacks
  asked,       \* the exchange the probe waits for: [kind, id], kind "none" if it does not
  wire,        \* answers on their way, each to the Stack of the open it carries
  granted,     \* addresses the server has leased to this machine
  pinged,      \* ghost: the open whose echo request the last reply accepted answers, 0 if none
  outcome      \* probe -> "none", "ok", "fail", or "quiet" when it prints neither line

netVars == <<image, probe, stages, opens, local, gateway, lease, roots, ipID, echoed, asked, wire, granted, pinged, outcome>>

NoLease == [addr |-> "none", mask |-> FALSE, gw |-> FALSE, dns |-> FALSE]
Nobody == [kind |-> "none", id |-> 0]

\* runPhase2Probe: the order in which the probes that are built in run.
Dispatch == <<"ping", "dhcp4", "http", "https", "fetch", "stream", "selftest", "cosign", "oras">>

\* Any image: a choice of the probes in that order, cosign in one of its two modes.
Images ==
  {[k \in DOMAIN g |-> Dispatch[g[k]]] :
     g \in {f \in UNION {[1 .. n -> DOMAIN Dispatch] : n \in 0 .. MaxProbes} :
              /\ \A j, k \in DOMAIN f : j < k => f[j] < f[k]
              /\ ~({"selftest", "cosign"} \subseteq {Dispatch[f[k]] : k \in DOMAIN f})}}

BringUp == <<"locate", "open", "start">>
Configure == <<"lease", "dns", "address", "gateway">>

Ping == <<"locate", "open", "static", "start", "ping", "ok">>
Dhcp4Acquire == BringUp \o <<"lease", "address", "gateway", "gwping">>
HttpGet == BringUp \o Configure \o <<"resolve", "preping", "get", "ok">>
HttpsGet == BringUp \o Configure \o <<"roots", "resolve", "preping", "get", "ok">>
OciFetch == BringUp \o Configure \o <<"roots", "preping", "artifact", "ok">>
OciStreamFetch ==
  BringUp \o Configure \o <<"roots", "preping", "authenticate", "manifest", "layers", "blob", "ok">>
OrasFetch == BringUp \o Configure \o <<"roots", "preping", "repository", "resolve-ref", "manifest", "ok">>

\* runCosignSelfTest ends with exerciseNetworkSetupForCosign, which is not part of
\* the verdict.
Exercise == BringUp \o <<"lease", "roots">>
CosignSelfTest == <<"sign", "verify", "tampered">> \o Exercise \o <<"ok">>
CosignRealImage == BringUp \o Configure \o <<"roots", "authenticate", "manifest", "verify", "ok">>

StagesOf(p) ==
  CASE p = "ping" -> Ping
    [] p = "dhcp4" -> Dhcp4Acquire
    [] p = "http" -> HttpGet
    [] p = "https" -> HttpsGet
    [] p = "fetch" -> OciFetch
    [] p = "stream" -> OciStreamFetch
    [] p = "selftest" -> CosignSelfTest
    [] p = "cosign" -> CosignRealImage
    [] p = "oras" -> OrasFetch

-----------------------------------------------------------------------------
At(stage) == stages # <<>> /\ Head(stages) = stage /\ asked = Nobody
Done == stages' = Tail(stages) /\ UNCHANGED outcome

\* The probe prints its FAIL line and returns.  The network exercise of the self
\* test returns to it, and dhcp4 has no such line once it has its lease.
FailProbe ==
  IF probe = "selftest" /\ Head(stages) \in {Exercise[i] : i \in DOMAIN Exercise}
  THEN stages' = <<"ok">> /\ UNCHANGED outcome
  ELSE /\ stages' = <<>>
       /\ outcome' = [outcome EXCEPT ![probe] = IF probe = "dhcp4" /\ lease # NoLease THEN "quiet" ELSE "fail"]

\* runPhase2Probe calls the next probe.
NextProbe ==
  /\ stages = <<>> /\ image # <<>>
  /\ probe' = Head(image) /\ image' = Tail(image)
  /\ stages' = StagesOf(Head(image))
  /\ lease' = NoLease /\ roots' = FALSE /\ pinged' = 0
  /\ UNCHANGED <<opens, local, gateway, ipID, echoed, asked, wire, granted, outcome>>

\* OpenVirtioNet resets the device; then NewLinkFromVirtioNet and New.
OpenVirtioNet ==
  /\ At("open")
  /\ \/ FailProbe /\ UNCHANGED <<opens, local, gateway, ipID>>
     \/ Done /\ opens' = opens + 1 /\ local' = "none" /\ gateway' = FALSE /\ ipID' = 0
  /\ UNCHANGED <<image, probe, lease, roots, echoed, asked, wire, granted, pinged>>

\* Calls whose effect is modelled elsewhere: locateVirtioNetFor..., Start, the
\* registry and HTTP clients, the verifier.  All but Start may fail.  In the oras probe
\* only the error of Manifests().Fetch fails "manifest": a body that breaks off is logged
\* (ORAS-FETCH WARN) and the OK line follows.
Call ==
  /\ \E s \in {"locate", "start", "get", "artifact", "authenticate", "manifest", "layers", "blob",
               "repository", "resolve-ref", "sign", "verify", "tampered"} :
       At(s) /\ (Done \/ (s # "start" /\ FailProbe))
  /\ UNCHANGED <<image, probe, opens, local, gateway, lease, roots, ipID, echoed, asked, wire, granted, pinged>>

\* NewRootCAs.
NewRootCAs ==
  /\ At("roots")
  /\ \/ Done /\ roots' = TRUE
     \/ FailProbe /\ UNCHANGED roots
  /\ UNCHANGED <<image, probe, opens, local, gateway, lease, ipID, echoed, asked, wire, granted, pinged>>

\* len(lease.DNS) == 0.
CheckDns ==
  /\ At("dns")
  /\ IF lease.dns THEN Done ELSE FailProbe
  /\ UNCHANGED <<image, probe, opens, local, gateway, lease, roots, ipID, echoed, asked, wire, granted, pinged>>

\* SetIPv4Address refuses a lease without a mask of four bytes; the addresses of the
\* ping probe are constants.
SetAddress ==
  /\ \/ At("static") /\ Done /\ local' = "static" /\ gateway' = TRUE
     \/ At("address") /\ lease.mask /\ Done /\ local' = lease.addr /\ UNCHANGED gateway
     \/ At("address") /\ ~lease.mask /\ FailProbe /\ UNCHANGED <<local, gateway>>
     \/ At("gateway") /\ Done /\ gateway' = lease.gw /\ UNCHANGED local
  /\ UNCHANGED <<image, probe, opens, lease, roots, ipID, echoed, asked, wire, granted, pinged>>

\* Without a gateway in the lease there is nothing to ping.
SkipPing ==
  /\ At("preping") \/ At("gwping")
  /\ ~lease.gw /\ Done
  /\ UNCHANGED <<image, probe, opens, local, gateway, lease, roots, ipID, echoed, asked, wire, granted, pinged>>

\* "ok" is the probe's last line.
Succeed ==
  /\ At("ok")
  /\ stages' = <<>> /\ outcome' = [outcome EXCEPT ![probe] = "ok"]
  /\ UNCHANGED <<image, probe, opens, local, gateway, lease, roots, ipID, echoed, asked, wire, granted, pinged>>

-----------------------------------------------------------------------------
\* nextIPID: the counter after n datagrams.
NextID(n) == (ipID + n) % 65536

\* dhcp4XIDFromMAC: the transaction of every Stack on this device.
XidFromMAC == 1

\* Mutant: every ping has the same sequence number.
PingSeqFixed == 0

\* PingOnce: the identifier is fixed, the sequence number the IP identification.
PingSeq == ipID

\* An answer to the present question, on its way to the Stack that asked.
Answer(kind, id, l) == [kind |-> kind, id |-> id, to |-> opens, lease |-> l]

\* DHCP4Acquire: two datagrams go out; the server, if it hears them, grants a lease.
AskLease ==
  /\ At("lease")
  /\ asked' = [kind |-> "dhcp", id |-> XidFromMAC]
  /\ ipID' = NextID(2)
  /\ \/ \E l \in Leases : wire' = wire \cup {Answer("dhcp", XidFromMAC, l)} /\ granted' = granted \cup {l.addr}
     \/ UNCHANGED <<wire, granted>>
  /\ UNCHANGED <<image, probe, stages, opens, local, gateway, lease, roots, echoed, pinged, outcome>>

\* ResolveA: one datagram, and the answer is a choice of the environment.
Resolve ==
  /\ At("resolve") /\ (Done \/ FailProbe)
  /\ ipID' = NextID(1)
  /\ UNCHANGED <<image, probe, opens, local, gateway, lease, roots, echoed, asked, wire, granted, pinged>>

\* PingOnce up to its wait: two identifications, an echo request to the gateway.
PingOnce ==
  /\ At("ping") \/ ((At("preping") \/ At("gwping")) /\ lease.gw)
  /\ local # "none"
  /\ asked' = [kind |-> "echo", id |-> PingSeq]
  /\ ipID' = NextID(2)
  /\ wire' = wire \cup {Answer("echo", PingSeq, NoLease)}
  /\ UNCHANGED <<image, probe, stages, opens, local, gateway, lease, roots, echoed, granted, pinged, outcome>>

\* handleICMP: a host pings this machine.  Once started, a Stack answers whatever address
\* the request was sent to and spends an identification on it.
EchoRequest ==
  /\ opens > 0 /\ echoed < MaxEchoes
  /\ stages # <<>> => Head(stages) \notin {"static", "start"}
  /\ ipID' = NextID(1) /\ echoed' = echoed + 1
  /\ UNCHANGED <<image, probe, stages, opens, local, gateway, lease, roots, asked, wire, granted, pinged, outcome>>

\* An answer reaches the device: its Stack takes it if a call waits for one with this
\* identifier, whoever asked for it, and drops it otherwise: handleIPv4 does not look at
\* the destination address ("intentionally loose").
Arrive(f) ==
  /\ f \in wire /\ wire' = wire \ {f}
  /\ IF asked = [kind |-> f.kind, id |-> f.id]
     THEN /\ asked' = Nobody /\ Done
          /\ lease' = IF f.kind = "dhcp" THEN f.lease ELSE lease
          /\ pinged' = IF f.kind = "echo" THEN f.to ELSE pinged
     ELSE UNCHANGED <<asked, stages, outcome, lease, pinged>>
  /\ UNCHANGED <<image, probe, opens, local, gateway, roots, ipID, echoed, granted>>

\* Mutant: a ping waits until it is answered.
TimeoutLease ==
  /\ asked.kind = "dhcp" /\ asked' = Nobody /\ FailProbe
  /\ UNCHANGED <<image, probe, opens, local, gateway, lease, roots, ipID, echoed, wire, granted, pinged>>

\* The call's deadline passes.  A preliminary ping is only logged.
Timeout ==
  /\ asked # Nobody /\ asked' = Nobody
  /\ IF Head(stages) = "preping" THEN Done ELSE FailProbe
  /\ UNCHANGED <<image, probe, opens, local, gateway, lease, roots, ipID, echoed, wire, granted, pinged>>

Turn ==
  \/ NextProbe \/ OpenVirtioNet \/ Call \/ NewRootCAs \/ CheckDns \/ SetAddress \/ SkipPing \/ Succeed
  \/ AskLease \/ Resolve \/ PingOnce \/ Timeout

NetInit ==
  /\ image \in Images /\ probe = "none" /\ stages = <<>>
  /\ opens = 0 /\ local = "none" /\ gateway = FALSE /\ lease = NoLease /\ roots = FALSE
  /\ ipID = 0 /\ echoed = 0 /\ asked = Nobody /\ wire = {} /\ granted = {} /\ pinged = 0
  /\ outcome = [p \in {Dispatch[i] : i \in DOMAIN Dispatch} |-> "none"]

NetNext == Turn \/ EchoRequest \/ \E f \in wire : Arrive(f)

NetSpec == NetInit /\ [][NetNext]_netVars

\* The two calls of the oras probe that go through net/http: "`net/http.Client.Do`
\* deadlocks under the TamaGo + UEFI scheduler" (README.md:317).
InClient == probe = "oras" /\ stages # <<>> /\ Head(stages) \in {"resolve-ref", "manifest"}

\* Every other call returns: it polls the device itself and each wait has a deadline.
\* The network owes nothing, nor do the calls of net/http.
NetFairness == WF_netVars(Turn /\ ~InClient)

-----------------------------------------------------------------------------
\* The probes that talk TLS.
OverTls == {"https", "fetch", "stream", "cosign", "oras"}

\* A verdict printed is the probe's own: the round trip that ping and dhcp4 report
\* answers a request of their own Stack, though all Stacks begin with the same
\* identifiers and a reply to an earlier probe may come late ("if someone did, they would
\* run in order", phase2_dispatch.go:57); a probe that uses a lease speaks with an address
\* the server has granted; and OK over TLS was printed with the trust roots parsed.
\* The one exception: PingOnce takes its sequence number from a counter that every echo
\* request answered advances, so once two have been answered the late reply to ping may
\* carry the number that dhcp4 waits for, and dhcp4 takes it.
VerdictEarned ==
  /\ outcome["ping"] = "ok" /\ probe = "ping" => pinged = opens
  /\ probe = "dhcp4" /\ pinged # 0 => (pinged = opens \/ echoed >= 2) /\ local \in granted
  /\ asked.kind = "echo" => local \in granted \cup {"static"} /\ (local = "static" => probe = "ping")
  /\ \A p \in OverTls : probe = p /\ outcome[p] = "ok" => roots /\ local \in granted

\* Every probe of the image runs and the dispatcher returns, whatever the network
\* does (runPhase2Probe, main.go:62 "DONE"), unless the last one, oras, stays in net/http
\* for good.
AllRun == <>(image = <<>> /\ stages = <<>>) \/ <>[]InClient
=============================================================================
