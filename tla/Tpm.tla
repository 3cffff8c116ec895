--------------------------------- MODULE Tpm ---------------------------------
(***************************************************************************)
(* Measured boot over EFI_TCG2_PROTOCOL: measurePhase2 with its read-back  *)
(* and event-log validation, the event-log probe that main runs after the  *)
(* other probes, and the wrappers they call (phase2_tpm_measure*.go,       *)
(* phase2_tpm_eventlog_probe.go, uefiboard/tcg2_protocol_tamago.go).       *)
(*                                                                         *)
(* A PCR is the sequence of what it was extended with.  The firmware's log *)
(* is a sequence of entries laid out one after the other in memory, the    *)
(* first of them the header; a call that finds the log full extends the    *)
(* PCR and logs nothing.  The firmware and go-tpm2 are external.           *)
(***************************************************************************)
EXTENDS Naturals, Sequences, FiniteSetsExt

CONSTANT MaxLog      \* entries the firmware's log area holds

VARIABLES
  tpmRuns,     \* the measuring passes not yet begun
  tpmTodo,     \* steps left of this one
  pcr,         \* 4 and 8 -> what was extended
  fwLog,       \* the firmware's log
  banks,       \* hash algorithms of the TPM's active banks
  fwPCR4,      \* [ok, value]: PCR4 as read back
  log,         \* [ok, events]: the log as fetched and parsed
  verdict,     \* of this pass: "none", "PASS", "FAIL"
  unlogged     \* ghost: PCR4 has been extended without a log entry

tpmVars == <<tpmRuns, tpmTodo, pcr, fwLog, banks, fwPCR4, log, verdict, unlogged>>

NoValue == [ok |-> FALSE, value |-> <<>>]
NoLog == [ok |-> FALSE, events |-> <<>>]

\* measurePhase2, the command line being configured or not, and runTPMEventLogProbe.
MeasurePhase2 == <<"locate", "vmlinuz", "cmdline", "read", "log", "compare">>
MeasureNoCmdline == <<"locate", "vmlinuz", "read", "log", "compare">>
EventLogProbe == <<"locate", "synthetic", "read", "log", "compare">>

AtTpm(step) == tpmTodo # <<>> /\ Head(tpmTodo) = step
Step == tpmTodo' = Tail(tpmTodo)
Leave == tpmTodo' = <<>>

BeginPass ==
  /\ tpmTodo = <<>> /\ tpmRuns # <<>>
  /\ tpmTodo' = Head(tpmRuns) /\ tpmRuns' = Tail(tpmRuns)
  /\ fwPCR4' = NoValue /\ log' = NoLog /\ verdict' = "none"
  /\ UNCHANGED <<pcr, fwLog, banks, unlogged>>

\* LocateTCG2: an error, or no TPM, and the pass is over.
LocateTCG2 ==
  /\ AtTpm("locate") /\ (Step \/ Leave)
  /\ UNCHANGED <<tpmRuns, pcr, fwLog, banks, fwPCR4, log, verdict, unlogged>>

PcrOf(what) == IF what = "cmdline" THEN 8 ELSE 4

\* MeasureToPCR over HashLogExtendEvent.  It may fail before it has any effect; with
\* the log full it extends, and fails too.  measurePhase2 goes on after a failure, the
\* probe does not.
MeasureToPCR ==
  /\ \E what \in {"vmlinuz", "cmdline", "synthetic"} :
       /\ AtTpm(what)
       /\ LET p == PcrOf(what)
              onError == IF what = "synthetic" THEN Leave ELSE Step
          IN  \/ /\ Len(fwLog) < MaxLog
                 /\ pcr' = [pcr EXCEPT ![p] = Append(@, what)]
                 /\ fwLog' = Append(fwLog, [pcr |-> p, digest |-> what, size |-> 7])
                 /\ Step /\ UNCHANGED unlogged
              \/ /\ Len(fwLog) = MaxLog
                 /\ pcr' = [pcr EXCEPT ![p] = Append(@, what)]
                 /\ unlogged' = (unlogged \/ p = 4)
                 /\ onError /\ UNCHANGED fwLog
              \/ onError /\ UNCHANGED <<pcr, fwLog, unlogged>>
  /\ UNCHANGED <<tpmRuns, banks, fwPCR4, log, verdict>>

\* SubmitCommand with TPM2_PCR_Read: the register, or an error.
SubmitCommand == {[ok |-> TRUE, value |-> pcr[4]], NoValue}

\* readBackPCR4, elReadPCR4.  Without a value there is nothing to compare with.
ReadBackPCR4 ==
  /\ AtTpm("read")
  /\ fwPCR4' \in SubmitCommand
  /\ IF fwPCR4'.ok THEN Step ELSE Leave
  /\ UNCHANGED <<tpmRuns, pcr, fwLog, banks, log, verdict, unlogged>>

-----------------------------------------------------------------------------
\* tcg2DigestSize, 0 for an algorithm it does not know.
Tcg2DigestSize(alg) ==
  CASE alg = "SHA1" -> 20 [] alg = "SHA256" -> 32 [] alg = "SHA384" -> 48
    [] alg = "SHA512" -> 64 [] alg = "SM3" -> 32 [] OTHER -> 0

\* External: the bytes of entry i in the firmware's memory, by the TCG's layout.
Digests == MapThenSumSet(LAMBDA alg : 2 + (IF alg = "SHA3" THEN 32 ELSE Tcg2DigestSize(alg)), banks)
FirmwareBytes(i) == IF i = 1 THEN 32 + fwLog[i].size ELSE 16 + Digests + fwLog[i].size
AddressOf(i) == MapThenSumSet(FirmwareBytes, 1..(i - 1))

\* Mutant: the last entry is taken for the end of the log.
Tcg2EntrySizeNone(i) == 0

\* tcg2EntrySize of entry i: the header is a legacy record, the others list digests.
Tcg2EntrySize(i) ==
  IF i = 1 THEN 28 + 4 + fwLog[i].size
  ELSE 8 + 4 + MapThenSumSet(LAMBDA alg : 2 + Tcg2DigestSize(alg), banks) + 4 + fwLog[i].size

\* GetEventLog: the bytes from the first entry to the end of the last one; an
\* algorithm without a size is an error, unless the header is all there is.
ReadLog ==
  LET last == Len(fwLog)
      total == AddressOf(last) + Tcg2EntrySize(last)
      within == {i \in 1..last : AddressOf(i) + FirmwareBytes(i) <= total}
  IN  IF last > 1 /\ \E alg \in banks : Tcg2DigestSize(alg) = 0
      THEN NoLog
      ELSE [ok |-> TRUE, events |-> SubSeq(fwLog, 1, Cardinality(within))]

\* GetEventLog and ParseEventLog; the firmware may report no log, or a truncated one.
GetEventLog ==
  /\ AtTpm("log")
  /\ \/ ReadLog.ok /\ log' = ReadLog /\ Step
     \/ Leave /\ UNCHANGED log
  /\ UNCHANGED <<tpmRuns, pcr, fwLog, banks, fwPCR4, verdict, unlogged>>

\* External: ReplayPCRs of the entries of PCR4.
Replay(events) ==
  LET of4 == SelectSeq(events, LAMBDA e : e.pcr = 4)
  IN  [i \in DOMAIN of4 |-> of4[i].digest]

\* The comparison, and measurePhase2's EventLogPolicy, which may still refuse.
ComparePCR4 ==
  /\ AtTpm("compare") /\ Leave
  /\ LET replayed == Replay(log.events)
     IN  verdict' \in IF replayed = <<>> THEN {"none"}
                      ELSE IF replayed = fwPCR4.value THEN {"PASS", "none"} ELSE {"FAIL"}
  /\ UNCHANGED <<tpmRuns, pcr, fwLog, banks, fwPCR4, log, unlogged>>

\* What the firmware measured before it started the image.
TpmInit ==
  /\ \E boot \in {MeasurePhase2, MeasureNoCmdline} : tpmRuns \in {<<boot>>, <<EventLogProbe>>, <<boot, EventLogProbe>>}
  /\ tpmTodo = <<>>
  /\ \E early \in {<<>>, <<"bootmgr">>, <<"action", "bootmgr">>} :
       /\ pcr = [p \in {4, 8} |-> IF p = 4 THEN early ELSE <<>>]
       /\ fwLog = <<[pcr |-> 3, digest |-> "spec-id", size |-> 5]>> \o
                  [i \in DOMAIN early |-> [pcr |-> 4, digest |-> early[i], size |-> 3]]
  /\ banks \in {{"SHA256"}, {"SHA1", "SHA256"}, {"SHA256", "SHA3"}}
  /\ fwPCR4 = NoValue /\ log = NoLog /\ verdict = "none" /\ unlogged = FALSE

TpmNext == BeginPass \/ LocateTCG2 \/ MeasureToPCR \/ ReadBackPCR4 \/ GetEventLog \/ ComparePCR4

-----------------------------------------------------------------------------
\* The log that is fetched is the firmware's whole log, and the verdict on it tells
\* one thing: FAIL is printed only if PCR4 was extended without being logged, and PASS
\* only if the log accounts for all that is in PCR4 (validateFirmwareEventLog,
\* runTPMEventLogProbe).
ReplayTells ==
  /\ log.ok => log.events = fwLog
  /\ verdict = "FAIL" => unlogged
  /\ verdict = "PASS" => ~unlogged /\ fwPCR4.value = pcr[4]
=============================================================================
