------------------------------ MODULE ProbeStats ------------------------------
(***************************************************************************)
(* The statistics of an echo test: PROBE_STATS of Include/ProtocolProbe.h, *)
(* ProbeInit and ProbeRecordResult of Source/ProtocolProbe.c, and how the  *)
(* echo test of Source/Main.c reads the ring of results.  Round-trip times *)
(* are left out.                                                           *)
(***************************************************************************)
EXTENDS Naturals, Sequences

CONSTANTS
  HistorySize,    \* PROBE_HISTORY_SIZE, 12
  ScreenRows      \* rows below the separator, 9

ASSUME HistorySizeAssumption == HistorySize \in Nat \ {0}
ASSUME ScreenRowsAssumption == ScreenRows \in Nat \ {0}

VARIABLES
  history,     \* History, the ring
  head,        \* HistoryHead, where the next result goes
  next,        \* NextSeqId
  sent, received, lost

statsVars == <<history, head, next, sent, received, lost>>

Statuses == {"PASS", "FAIL", "TIMEOUT"}

Slots == 0..(HistorySize - 1)
Entries == [seq : Nat, status : Statuses \cup {"PENDING"}]
Cleared == [slot \in Slots |-> [seq |-> 0, status |-> "PENDING"]]

StatsTypeOK ==
  /\ history \in [Slots -> Entries]
  /\ head \in Slots
  /\ next \in Nat \ {0}
  /\ {sent, received, lost} \subseteq Nat

StatsInit ==
  /\ history = Cleared
  /\ head = 0
  /\ next = 1
  /\ sent = 0 /\ received = 0 /\ lost = 0

ProbeInit ==
  /\ history' = Cleared
  /\ head' = 0
  /\ next' = 1
  /\ sent' = 0 /\ received' = 0 /\ lost' = 0

\* Slip: the head is advanced before the entry is written.
ProbeRecordResultAhead(status) ==
  /\ head' = (head + 1) % HistorySize
  /\ history' = [history EXCEPT ![(head + 1) % HistorySize] = [seq |-> next, status |-> status]]
  /\ next' = next + 1
  /\ sent' = sent + 1
  /\ received' = IF status = "PASS" THEN received + 1 ELSE received
  /\ lost' = IF status = "PASS" THEN lost ELSE lost + 1

ProbeRecordResult(status) ==
  /\ history' = [history EXCEPT ![head] = [seq |-> next, status |-> status]]
  /\ head' = (head + 1) % HistorySize
  /\ next' = next + 1
  /\ sent' = sent + 1
  /\ received' = IF status = "PASS" THEN received + 1 ELSE received
  /\ lost' = IF status = "PASS" THEN lost ELSE lost + 1

\* The index of the i-th newest result, from 0.
Idx(i) ==
  IF head = 0 THEN HistorySize - 1 - i
  ELSE (head + HistorySize - 1 - i) % HistorySize

Shown ==
  CHOOSE n \in {sent, HistorySize, ScreenRows} :
    \A m \in {sent, HistorySize, ScreenRows} : n <= m

\* The rows of the screen.
Displayed == [i \in 1..Shown |-> history[Idx(i - 1)]]

=============================================================================
