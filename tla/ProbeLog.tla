------------------------------- MODULE ProbeLog -------------------------------
(***************************************************************************)
(* What an echo test promises to show: how many probes there were, how     *)
(* many of them were answered, and how the last ones ended, the newest     *)
(* first, each under the number of its probe.                              *)
(***************************************************************************)
EXTENDS Naturals, Sequences

CONSTANTS
  Statuses,   \* how a probe may end
  Rows        \* results on the screen

VARIABLES log, sent, received, lost

logVars == <<log, sent, received, lost>>

Shorter(a, b) == IF a < b THEN a ELSE b

Init ==
  /\ log = <<>>
  /\ sent = 0 /\ received = 0 /\ lost = 0

Record(status) ==
  /\ log' = [i \in 1..Shorter(Len(log) + 1, Rows) |->
               IF i = 1 THEN [seq |-> sent + 1, status |-> status] ELSE log[i - 1]]
  /\ sent' = sent + 1
  /\ received' = IF status = "PASS" THEN received + 1 ELSE received
  /\ lost' = IF status = "PASS" THEN lost ELSE lost + 1

\* The test is begun again.
Clear ==
  /\ log' = <<>>
  /\ sent' = 0 /\ received' = 0 /\ lost' = 0

Next == Clear \/ \E status \in Statuses : Record(status)

Spec == Init /\ [][Next]_logVars

=============================================================================
