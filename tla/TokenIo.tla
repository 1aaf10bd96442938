------------------------------- MODULE TokenIo -------------------------------
(***************************************************************************)
(* One asynchronous protocol operation as the layer 4 and layer 7 tests    *)
(* and the UDP and TCP echo probes perform it: a completion token on the   *)
(* caller's stack is handed to a firmware driver, the caller polls until   *)
(* the driver has stored a status in it or a clock has run out, and        *)
(* cancels the token in the second case. The driver may store the status   *)
(* at any instant, also between the end of the polling loop and the        *)
(* caller's last look at the token, and even between that look and the     *)
(* cancellation.                                                           *)
(***************************************************************************)
CONSTANT Outcomes    \* how the driver may complete a token

VARIABLES
  token,    \* "none", "queued" in the driver, or how the driver completed it
  clock,    \* "off", "running", "expired", or "missing" (no timer event)
  io,       \* the caller: "idle", "waiting" in the loop, "closing" after it, or
            \* "cancelling" once it has looked at the token and found it queued
  result    \* what the operation returned and the test has yet to look at

ioVars == <<token, clock, io, result>>

Pending == {"none", "queued"}

IoTypeOK ==
  /\ token \in Pending \cup Outcomes
  /\ clock \in {"off", "running", "expired", "missing"}
  /\ io \in {"idle", "waiting", "closing", "cancelling"}
  /\ result \in {"none", "TIMEOUT"} \cup Outcomes

IoInit ==
  /\ token = "none"
  /\ clock = "off"
  /\ io = "idle"
  /\ result = "none"

Ready == io = "idle" /\ result = "none"

\* CreateEvent or the protocol function fails: nothing was queued.
Refuse(status) ==
  /\ Ready
  /\ result' = status
  /\ UNCHANGED <<token, clock, io>>

\* The driver owns the token from here on.  Layer 4 times it with a timer
\* event, goes on where CreateEvent fails and waits without one; layer 7 counts
\* its polls, which cannot fail.
Accept(byTimerEvent) ==
  /\ Ready
  /\ token' = "queued"
  /\ \/ clock' = "running"
     \/ byTimerEvent /\ clock' = "missing"
  /\ io' = "waiting"
  /\ UNCHANGED result

\* The driver, from Poll or from its own timer callback.
Complete(outcome) ==
  /\ token = "queued"
  /\ token' = outcome
  /\ UNCHANGED <<clock, io, result>>

Tick ==
  /\ clock = "running"
  /\ clock' = "expired"
  /\ UNCHANGED <<token, io, result>>

\* Slip: the loop forgets to look at its clock.
LeaveLoopUntimed ==
  /\ io = "waiting"
  /\ token # "queued"
  /\ io' = "closing"
  /\ clock' = "off"
  /\ UNCHANGED <<token, result>>

LeaveLoop ==
  /\ io = "waiting"
  /\ token # "queued" \/ clock = "expired"
  /\ io' = "closing"
  /\ clock' = "off"
  /\ UNCHANGED <<token, result>>

LastLook ==
  /\ io = "closing"
  /\ IF token = "queued"
       THEN io' = "cancelling" /\ UNCHANGED <<token, result>>
       ELSE io' = "idle" /\ result' = token /\ token' = "none"
  /\ UNCHANGED clock

\* Slip: the token is left in the driver when the operation times out.
CancelForgotten ==
  /\ io = "cancelling"
  /\ result' = "TIMEOUT"
  /\ io' = "idle"
  /\ UNCHANGED <<token, clock>>

\* Cancel takes the token back, and only then its event is closed.  A status
\* the driver has stored in the meantime goes unnoticed.
Cancel ==
  /\ io = "cancelling"
  /\ result' = "TIMEOUT"
  /\ token' = "none"
  /\ io' = "idle"
  /\ UNCHANGED clock

Wait == LeaveLoop \/ LastLook \/ Cancel

Consume == result # "none" /\ result' = "none" /\ UNCHANGED <<token, clock, io>>

\* The driver holds a token, or has written to one, only while the operation
\* whose stack frame contains it is still running.
TokenOwned == token # "none" => io # "idle"

\* How many steps the caller and the clock can still take, from before the operation
\* is begun until its result has been looked at.
IoLeft ==
  CASE io = "idle" /\ result = "none" -> 5
    [] io = "waiting" /\ clock = "running" -> 4
    [] io = "waiting" /\ clock # "running" -> 3
    [] io = "closing" -> 2
    [] io = "cancelling" -> 1
    [] io = "idle" /\ result # "none" -> 0

=============================================================================
