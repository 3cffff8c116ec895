------------------------------- MODULE VirtioTx -------------------------------
(***************************************************************************)
(* The raw transmit probe of phase2_virtionet_tx.go: the device is opened, *)
(* a frame is sent with the driver's own call and one with the            *)
(* instrumented copy, which on a time-out tries other doorbell shapes; the *)
(* device is opened again with a wider feature mask for one more attempt;  *)
(* and frames are received through the first handle.                       *)
(*                                                                         *)
(* A queue holds the descriptors that are free, those made available to    *)
(* the device and those it has used.  The driver and the device            *)
(* (go-virtio) are external: the device takes what is available on the     *)
(* queues it was last given, once a doorbell it honours has rung, and may  *)
(* take any time over it.                                                  *)
(***************************************************************************)
EXTENDS Naturals, Sequences, Functions

CONSTANT QueueSize     \* descriptors of the transmit queue

VARIABLES
  txTodo,      \* the probe's steps left
  txq,         \* handle -> its transmit queue [free, avail, used]
  serving,     \* the handle whose queues the device has, 0 after a reset
  kicked,      \* whether an honoured doorbell has rung and work is left
  posted,      \* the buffer waited for: [q, desc, shape], q = 0 if none
  reported,    \* handle -> transmissions reported as completed
  taken,       \* ghost: handle -> frames the device has taken from its queue
  rxRing,      \* handle -> frames waiting in its receive queue
  honours      \* the doorbell shapes this device honours

txVars == <<txTodo, txq, serving, kicked, posted, reported, taken, rxRing, honours>>

PerQueue16 == "uint16@perQ"
Sweeps == <<"uint32@perQ", "uint16@offset0", "uint32@offset0">>
\* runVirtioNetTxProbe.
TxProbe ==
  <<"tx-locate", "tx-diag", "tx-open", "tx-qemu", "tx-vz", "tx-wide", "tx-vz2", "tx-rx", "tx-rx", "tx-rx">>

Idle == [q |-> 0, desc |-> 0, shape |-> "none"]
FreshQueue == [free |-> 1..QueueSize, avail |-> <<>>, used |-> <<>>]

AtTx(step) == txTodo # <<>> /\ Head(txTodo) = step /\ posted = Idle
TxDone == txTodo' = Tail(txTodo)

\* The handle a transmitting step uses: v, and v2 for the second attempt.
HandleOf(step) == IF step = "tx-vz2" THEN 2 ELSE 1

-----------------------------------------------------------------------------
\* The search for the first modern virtio-net device; without one the probe ends.
LocateNet ==
  /\ AtTx("tx-locate")
  /\ TxDone \/ txTodo' = <<>>
  /\ UNCHANGED <<txq, serving, kicked, posted, reported, taken, rxRing, honours>>

\* The transient configuration: reset, read the feature bits, reset.
DiagConfig ==
  /\ AtTx("tx-diag") /\ TxDone
  /\ serving' = 0 /\ kicked' = FALSE
  /\ UNCHANGED <<txq, posted, reported, taken, rxRing, honours>>

\* OpenVirtioNet, and OpenVirtioNetWithFeatures with the wide mask: the device is
\* reset and, if all goes well, given the queues of a new handle.  It may fail after
\* the reset or before it, which leaves the device with the queues it had.  When the
\* second one fails its transmission is left out; when the first fails the probe ends.
OpenNet ==
  /\ \E h \in 1..2 :
       /\ AtTx(<<"tx-open", "tx-wide">>[h])
       /\ \/ serving' = h /\ kicked' = FALSE /\ TxDone
          \/ /\ (serving' = 0 /\ kicked' = FALSE) \/ UNCHANGED <<serving, kicked>>
             /\ txTodo' = IF h = 1 THEN <<>> ELSE Tail(Tail(txTodo))
  /\ UNCHANGED <<txq, posted, reported, taken, rxRing, honours>>

\* AddBuffer on handle h's queue (any free descriptor would do) and the doorbell; when
\* the MMIO write fails the call returns, and the buffer stays with the device.
Post(h, shape) ==
  \E d \in txq[h].free :
    /\ \A x \in txq[h].free : d <= x
    /\ txq' = [txq EXCEPT ![h].free = @ \ {d}, ![h].avail = Append(@, d)]
    /\ \/ /\ posted' = [q |-> h, desc |-> d, shape |-> shape]
          /\ kicked' = (kicked \/ (shape \in honours /\ serving = h))
          /\ UNCHANGED txTodo
       \/ TxDone /\ UNCHANGED <<posted, kicked>>

\* No DMA buffer, or no free descriptor: the call returns its error.
NoBuffer == TxDone /\ UNCHANGED <<txq, posted, kicked>>

\* TransmitFrame and transmitFrameDiag up to the poll.
Transmit ==
  /\ \E step \in {"tx-qemu", "tx-vz", "tx-vz2"} :
       AtTx(step) /\ (Post(HandleOf(step), PerQueue16) \/ NoBuffer)
  /\ UNCHANGED <<serving, reported, taken, rxRing, honours>>

\* notifySweep up to its poll.
NotifySweep ==
  /\ \E i \in DOMAIN Sweeps : AtTx(Sweeps[i]) /\ (Post(serving, Sweeps[i]) \/ NoBuffer)
  /\ UNCHANGED <<serving, reported, taken, rxRing, honours>>

\* External: the device takes the next available buffer and publishes it as used.
DeviceTakes ==
  /\ kicked /\ serving # 0 /\ txq[serving].avail # <<>>
  /\ LET q == txq[serving]
     IN  /\ txq' = [txq EXCEPT ![serving].avail = Tail(@), ![serving].used = Append(@, Head(q.avail))]
         /\ kicked' = (Len(q.avail) > 1)
  /\ taken' = [taken EXCEPT ![serving] = @ + 1]
  /\ UNCHANGED <<txTodo, serving, posted, reported, rxRing, honours>>

\* Mutant: the poll reclaims the descriptor it posted, not the one that completed.
PollUsedOwn ==
  /\ posted # Idle /\ txq[posted.q].used # <<>>
  /\ txq' = [txq EXCEPT ![posted.q].used = Tail(@), ![posted.q].free = @ \cup {posted.desc}]
  /\ reported' = [reported EXCEPT ![posted.q] = @ + 1]
  /\ posted' = Idle /\ TxDone
  /\ UNCHANGED <<serving, kicked, taken, rxRing, honours>>

\* PollUsed finds a completion: whichever it is, it ends the wait and is reclaimed.
PollUsed ==
  /\ posted # Idle /\ txq[posted.q].used # <<>>
  /\ txq' = [txq EXCEPT ![posted.q].used = Tail(@), ![posted.q].free = @ \cup {Head(txq[posted.q].used)}]
  /\ reported' = [reported EXCEPT ![posted.q] = @ + 1]
  /\ posted' = Idle /\ TxDone
  /\ UNCHANGED <<serving, kicked, taken, rxRing, honours>>

\* The poll budget runs out: transmitFrameDiag goes on with the sweeps, TransmitFrame
\* and a sweep give up.  The buffer stays with the device.
PollTimesOut ==
  /\ posted # Idle /\ txq[posted.q].used = <<>>
  /\ posted' = Idle
  /\ txTodo' = IF Head(txTodo) \in {"tx-vz", "tx-vz2"} THEN Sweeps \o Tail(txTodo) ELSE Tail(txTodo)
  /\ UNCHANGED <<txq, serving, kicked, reported, taken, rxRing, honours>>

\* External: a frame arrives, in the receive queue the device has.
FrameArrives ==
  /\ serving # 0 /\ rxRing[serving] = 0
  /\ rxRing' = [rxRing EXCEPT ![serving] = 1]
  /\ UNCHANGED <<txTodo, txq, serving, kicked, posted, reported, taken, honours>>

\* v.ReceiveFrame, on the first handle; the first time-out ends the probe.
ReceiveFrame ==
  /\ AtTx("tx-rx")
  /\ IF rxRing[1] > 0 THEN rxRing' = [rxRing EXCEPT ![1] = @ - 1] /\ TxDone
                      ELSE txTodo' = <<>> /\ UNCHANGED rxRing
  /\ UNCHANGED <<txq, serving, kicked, posted, reported, taken, honours>>

TxInit ==
  /\ txTodo = TxProbe
  /\ txq = [h \in 1..2 |-> FreshQueue] /\ serving = 0 /\ kicked = FALSE
  /\ posted = Idle /\ reported = [h \in 1..2 |-> 0] /\ taken = [h \in 1..2 |-> 0] /\ rxRing = [h \in 1..2 |-> 0]
  /\ honours \in {{PerQueue16}, {"uint32@perQ"}, {"uint16@offset0", "uint32@offset0"}, {}}

TxNext ==
  \/ LocateNet \/ DiagConfig \/ OpenNet \/ Transmit \/ NotifySweep
  \/ DeviceTakes \/ PollUsed \/ PollTimesOut \/ FrameArrives \/ ReceiveFrame

TxSpec == TxInit /\ [][TxNext]_txVars

-----------------------------------------------------------------------------
\* A descriptor handed to the device is not free until the device has used it, and a
\* queue never holds one twice, though a late completion ends the wait of a later
\* buffer; and no more transmissions are reported on a handle than frames the device
\* took from it (transmitFrameDiag, notifySweep).
DescriptorsOwned ==
  \A h \in 1..2 :
    LET busy == txq[h].avail \o txq[h].used
    IN  /\ Range(busy) \cap txq[h].free = {}
        /\ IsInjective(busy)
        /\ reported[h] <= taken[h]
=============================================================================
