--------------------------------- MODULE Dhcp4 ---------------------------------
(***************************************************************************)
(* DHCP4Acquire (uefiboard/ministack/dhcp4.go): DISCOVER, OFFER, REQUEST,  *)
(* ACK on a network that loses, delays, reorders and repeats messages,     *)
(* with several servers and another client; then the probe that applies    *)
(* the lease (phase2_dhcp4_acquire.go).                                    *)
(*                                                                         *)
(* The transaction id is made from the MAC and a fixed seed, so every call *)
(* uses the same: "own".  net holds every message ever sent.               *)
(***************************************************************************)
EXTENDS Naturals, FiniteSets

CONSTANTS
  Servers, Addrs,
  Others,          \* addresses leased to other clients from the start
  Calls            \* bound: calls of DHCP4Acquire

None == "none"

VARIABLES
  phase, call,
  net,             \* messages sent
  open,            \* port 68 is open
  offer,           \* the OFFER chosen
  lease,           \* the lease returned, or NoLease
  result,          \* "none", "ok" or an error
  local, gateway,  \* the route table
  bound,           \* bound[s]: addresses s leased to this client
  taken            \* addresses leased to others

client == <<phase, call, open, offer, lease, result, local, gateway>>
server == <<bound, taken>>
dhcpVars == <<client, net, server>>

\* What tells two messages of a server apart: the client's transaction, the address,
\* and in an ACK the options that make up the lease.
Msg(type, xid, yi, sid, mask, gw) ==
  [type |-> type, xid |-> xid, yi |-> yi, sid |-> sid, mask |-> mask, gw |-> gw]

\* Messages to other clients, seen because they are broadcast.
Strays == {Msg("ack", "other", a, s, TRUE, TRUE) : a \in Others, s \in Servers}

NoMsg == Msg(None, None, None, None, FALSE, FALSE)
NoLease == [ip |-> None, server |-> None, mask |-> FALSE, gw |-> FALSE]

EndExchange(r) == phase' = "done" /\ result' = r /\ open' = FALSE

-----------------------------------------------------------------------------
\* OpenUDP4 and DISCOVER; the write may fail.
Discover(ok) ==
  /\ phase = "idle" /\ call < Calls /\ call' = call + 1
  /\ result' = "none" /\ lease' = NoLease /\ offer' = NoMsg
  /\ IF ok
     THEN /\ open' = TRUE /\ phase' = "offer"
          /\ net' = net \cup {Msg("discover", "own", None, None, FALSE, FALSE)}
     ELSE phase' = "done" /\ open' = FALSE /\ UNCHANGED net
  /\ UNCHANGED <<local, gateway, server>>

\* parseDHCP4Message, the transaction id and the message type.
ForUs(m) == m.xid = "own" /\ m.type \in {"offer", "ack", "nak"}

\* dhcp4WaitFor: what the client does with a reply it does not ignore.
Wanted(m) == m \in net /\ ForUs(m) /\ m.type \in {phase, "nak"}

\* A NAK ends the exchange in either wait.
Nak(m) ==
  /\ phase \in {"offer", "ack"} /\ Wanted(m) /\ m.type = "nak"
  /\ EndExchange("nak")
  /\ UNCHANGED <<call, net, offer, lease, local, gateway, server>>

\* The first OFFER with a server identifier is answered by a REQUEST; one without
\* it ends the exchange.
Offer(m, ok) ==
  /\ phase = "offer" /\ Wanted(m) /\ m.type = "offer"
  /\ IF m.sid # None /\ ok
     THEN /\ offer' = m /\ phase' = "ack"
          /\ net' = net \cup {Msg("request", "own", m.yi, m.sid, FALSE, FALSE)}
          /\ UNCHANGED <<open, result>>
     ELSE EndExchange("error") /\ UNCHANGED <<offer, net>>
  /\ UNCHANGED <<call, lease, local, gateway, server>>

\* Mutant: the address is the one of the OFFER.
LeaseOfOffer(m) == [ip |-> offer.yi, server |-> m.sid, mask |-> m.mask, gw |-> m.gw]

\* dhcp4LeaseFromOptions.
LeaseOf(m) == [ip |-> m.yi, server |-> m.sid, mask |-> m.mask, gw |-> m.gw]

Ack(m) ==
  /\ phase = "ack" /\ Wanted(m) /\ m.type = "ack"
  /\ lease' = LeaseOf(m) /\ phase' = "apply" /\ open' = FALSE /\ UNCHANGED result
  /\ UNCHANGED <<call, net, offer, local, gateway, server>>

\* The deadline of the exchange passes in one of the waits.
Timeout ==
  /\ phase \in {"offer", "ack"}
  /\ EndExchange("timeout")
  /\ UNCHANGED <<call, net, offer, lease, local, gateway, server>>

\* The probe: SetIPv4Address, which needs a mask, and then SetDefaultGateway, if
\* the lease has one.
Apply ==
  /\ phase = "apply"
  /\ IF lease.mask
     THEN /\ local' = lease.ip /\ EndExchange("ok")
          /\ gateway' = IF lease.gw THEN lease.server ELSE gateway
     ELSE EndExchange("error") /\ UNCHANGED <<local, gateway>>
  /\ UNCHANGED <<call, net, offer, lease, server>>

\* The caller calls again, after an error, or after a restart of the machine: the
\* stack is new, the transaction id is not.
Again ==
  /\ phase = "done" /\ call < Calls /\ phase' = "idle"
  /\ local' = None /\ gateway' = None
  /\ UNCHANGED <<call, open, offer, lease, result, net, server>>

-----------------------------------------------------------------------------
(* The servers.                                                            *)

ServerOffer(s, a, hasSid) ==
  /\ \E m \in net : m.type = "discover"
  /\ a \notin taken /\ \A t \in Servers \ {s} : a \notin bound[t]
  /\ net' = net \cup {Msg("offer", "own", a, IF hasSid THEN s ELSE None, TRUE, TRUE)}
  /\ UNCHANGED <<client, server>>

ServerReply(s, m, mask, gw) ==
  /\ m \in net /\ m.type = "request" /\ m.sid = s
  /\ IF m.yi \in taken
     THEN net' = net \cup {Msg("nak", "own", m.yi, s, FALSE, FALSE)} /\ UNCHANGED bound
     ELSE /\ net' = net \cup {Msg("ack", "own", m.yi, s, mask, gw)}
          /\ bound' = [bound EXCEPT ![s] = @ \cup {m.yi}]
  /\ UNCHANGED <<client, taken>>

\* Another client gets an address that this one has not.
Take(a) ==
  /\ a \notin taken /\ \A s \in Servers : a \notin bound[s]
  /\ taken' = taken \cup {a}
  /\ UNCHANGED <<client, net, bound>>

DhcpInit ==
  /\ phase = "idle" /\ call = 0 /\ net = Strays /\ open = FALSE /\ offer = NoMsg
  /\ lease = NoLease /\ result = "none" /\ local = None /\ gateway = None
  /\ bound = [s \in Servers |-> {}] /\ taken = Others

Client ==
  \/ \E ok \in BOOLEAN : Discover(ok)
  \/ \E m \in net : Nak(m) \/ Ack(m) \/ \E ok \in BOOLEAN : Offer(m, ok)
  \/ Timeout \/ Apply

Environment ==
  \/ \E s \in Servers, a \in Addrs, h \in BOOLEAN : ServerOffer(s, a, h)
  \/ \E s \in Servers, m \in net, mask, gw \in BOOLEAN : ServerReply(s, m, mask, gw)
  \/ \E a \in Addrs : Take(a)

DhcpNext == Client \/ Again \/ Environment

DhcpSpec == DhcpInit /\ [][DhcpNext]_dhcpVars

-----------------------------------------------------------------------------
\* The address the stack uses was leased to this machine, by the server the lease
\* names, and to nobody else: never an address merely offered, never a stray reply.
\* An exchange that was refused or that lost a message configures nothing, and the
\* port is free again whatever the outcome.
LeasedOrNothing ==
  /\ local # None => local = lease.ip /\ local \in bound[lease.server] /\ local \notin taken
  /\ phase \in {"done", "idle"} => ~open /\ (result # "ok" => local = None /\ gateway = None)
=============================================================================
