------------------------------ MODULE IcmpChild ------------------------------
(***************************************************************************)
(* One ICMP echo through a child of the firmware's IP4 driver, as the      *)
(* layer 3 tests (Source/Layer3Network.c) and the echo probes              *)
(* (Source/ProtocolProbe.c) perform it.  The caller makes the child,       *)
(* transmits, waits for the token of the transmission, then queues a token *)
(* for a message and waits for that.  A transmission whose token is still  *)
(* with the driver when the caller has lost patience is not cancelled, "to *)
(* keep the pending ARP state": the caller transmits the same token again. *)
(*                                                                         *)
(* What the network delivers is left to the modules that extend this one.  *)
(***************************************************************************)
EXTENDS Naturals

VARIABLES
  icmp,      \* the caller, "idle" when it has no child
  attempt,   \* transmissions tried
  tx,        \* TxToken: "unsent", "queued", "sent" or "failed"; "none" without child
  rx,        \* RxToken: "none", "queued", or what was received
  outcome    \* how the exchange ended, "none" until it has

icmpVars == <<icmp, attempt, tx, rx, outcome>>

Attempts == 3

Messages == {"echo", "unreachable", "exceeded"}    \* ICMP types the callers know
Oddities == {"short", "empty"}                     \* no ICMP header; no RxData
Received == Messages \cup Oddities \cup {"error"}  \* the token ends with an error

\* Why there is no message; the caller makes an EFI_STATUS of it.
Failures == {"no child", "no memory", "no event", "refused", "unsent",
             "deaf", "silent", "short", "empty", "error"}

IcmpTypeOK ==
  /\ icmp \in {"idle", "built", "sending", "stalled", "sent", "again", "judge",
               "listening", "cancelling", "closing", "withdrawing"}
  /\ attempt \in 0..Attempts
  /\ tx \in {"none", "unsent", "queued", "sent", "failed"}
  /\ rx \in {"none", "queued"} \cup Received
  /\ outcome \in {"none"} \cup Messages \cup Failures

IcmpInit ==
  /\ icmp = "idle"
  /\ attempt = 0
  /\ tx = "none"
  /\ rx = "none"
  /\ outcome = "none"

Ends(why) == icmp' = "closing" /\ outcome' = why

\* Service binding, child, protocol, Configure with the NIC's address and, when
\* that fails, with the default address; a child that cannot be configured is
\* destroyed at once.
IcmpOpen ==
  /\ icmp = "idle"
  /\ outcome = "none"
  /\ \/ outcome' = "no child" /\ UNCHANGED icmp
     \/ icmp' = "built" /\ UNCHANGED outcome
  /\ UNCHANGED <<attempt, tx, rx>>

\* The buffer of the request, on the heap or not, and the event of its token.
IcmpBuild(heap) ==
  /\ icmp = "built"
  /\ \/ /\ \E why \in {"no event"} \cup (IF heap THEN {"no memory"} ELSE {}) : Ends(why)
        /\ UNCHANGED <<attempt, tx>>
     \/ /\ icmp' = "sending"
        /\ tx' = "unsent"
        /\ attempt' = 0
        /\ UNCHANGED outcome
  /\ UNCHANGED rx

\* The status of the token is overwritten before each attempt, whatever it says.
\* Transmit refuses a token that it still holds.  A header test tries once.
IcmpTransmit(once) ==
  /\ icmp = "sending"
  /\ \/ /\ tx # "queued"
        /\ tx' = "queued"
        /\ icmp' = "sent"
        /\ UNCHANGED outcome
     \/ /\ tx' = IF tx = "queued" THEN tx ELSE "unsent"
        /\ IF once THEN Ends("refused")
           ELSE icmp' = "stalled" /\ UNCHANGED outcome
  /\ UNCHANGED <<attempt, rx>>

NextAttempt ==
  /\ attempt' = attempt + 1
  /\ icmp' = IF attempt + 1 < Attempts THEN "sending" ELSE "judge"

\* The pauses after a refused and after an unsuccessful attempt.
IcmpPause ==
  /\ icmp \in {"stalled", "again"}
  /\ NextAttempt
  /\ UNCHANGED <<tx, rx, outcome>>

\* Slip: the loop does not count.
IcmpSentUntimed(once) ==
  /\ icmp = "sent"
  /\ tx # "queued"
  /\ IF tx = "sent" \/ once
       THEN icmp' = "judge" /\ UNCHANGED attempt
       ELSE IF attempt + 1 < Attempts
              THEN icmp' = "again" /\ UNCHANGED attempt
              ELSE NextAttempt
  /\ UNCHANGED <<tx, rx, outcome>>

\* The loop has ended because the token has a status, or its time is over.
IcmpSent(once) ==
  /\ icmp = "sent"
  /\ IF tx = "sent" \/ once
       THEN icmp' = "judge" /\ UNCHANGED attempt
       ELSE IF attempt + 1 < Attempts
              THEN icmp' = "again" /\ UNCHANGED attempt
              ELSE NextAttempt
  /\ UNCHANGED <<tx, rx, outcome>>

\* Slip: whatever became of the transmission, a reply is waited for.
IcmpJudgeTrusting(once) ==
  /\ icmp = "judge"
  /\ \/ \E why \in {"no event", "deaf"} : Ends(why) /\ UNCHANGED rx
     \/ icmp' = "listening" /\ rx' = "queued" /\ UNCHANGED outcome
  /\ UNCHANGED <<attempt, tx>>

\* Only a transmission that ended well is followed by Receive; a header test
\* does not look at how it ended.
IcmpJudge(once) ==
  /\ icmp = "judge"
  /\ IF tx = "sent" \/ once
       THEN \/ \E why \in {"no event", "deaf"} : Ends(why) /\ UNCHANGED rx
            \/ icmp' = "listening" /\ rx' = "queued" /\ UNCHANGED outcome
       ELSE Ends("unsent") /\ UNCHANGED rx
  /\ UNCHANGED <<attempt, tx>>

\* The driver, from Poll or from its timer: the request leaves, or its address
\* resolution fails.
IcmpDriver ==
  /\ tx = "queued"
  /\ tx' \in {"sent", "failed"}
  /\ UNCHANGED <<icmp, attempt, rx, outcome>>

IcmpDeliver(message) ==
  /\ rx = "queued"
  /\ rx' = message
  /\ UNCHANGED <<icmp, attempt, tx, outcome>>

\* The first message is the reply; its buffer is given back.
IcmpHeard ==
  /\ icmp = "listening"
  /\ rx \in Received
  /\ Ends(rx)
  /\ rx' = "none"
  /\ UNCHANGED <<attempt, tx>>

IcmpUnheard ==
  /\ icmp = "listening"
  /\ rx = "queued"
  /\ icmp' = "cancelling"
  /\ UNCHANGED <<attempt, tx, rx, outcome>>

\* Cancel, then Poll; a message that came before Cancel is lost.
IcmpCancel ==
  /\ icmp = "cancelling"
  /\ Ends("silent")
  /\ rx' = "none"
  /\ UNCHANGED <<attempt, tx>>

\* The buffer is freed and the events are closed, then the child goes: between
\* the two the driver may hold the token of a request that was never cancelled.
IcmpClose ==
  /\ icmp = "closing"
  /\ icmp' = "withdrawing"
  /\ UNCHANGED <<attempt, tx, rx, outcome>>

\* Slip: the child of a request that did not leave is kept.
IcmpWithdrawSent ==
  /\ icmp = "withdrawing"
  /\ icmp' = "idle"
  /\ tx' = IF tx = "queued" THEN tx ELSE "none"
  /\ attempt' = 0
  /\ UNCHANGED <<rx, outcome>>

\* Configure(NULL) takes every token back; DestroyChild.
IcmpWithdraw ==
  /\ icmp = "withdrawing"
  /\ icmp' = "idle"
  /\ tx' = "none"
  /\ attempt' = 0
  /\ UNCHANGED <<rx, outcome>>

IcmpCaller(once, heap) ==
  \/ IcmpBuild(heap) \/ IcmpTransmit(once) \/ IcmpPause \/ IcmpSent(once) \/ IcmpJudge(once)
  \/ IcmpHeard \/ IcmpUnheard \/ IcmpCancel \/ IcmpClose \/ IcmpWithdraw

IcmpConsume ==
  /\ icmp = "idle"
  /\ outcome # "none"
  /\ outcome' = "none"
  /\ UNCHANGED <<icmp, attempt, tx, rx>>

\* How many steps the caller can still take: three for each transmission.
IcmpLeft ==
  CASE icmp = "built" -> 15
    [] icmp = "sending" -> 3 * (Attempts - attempt) + 5
    [] icmp = "sent" -> 3 * (Attempts - attempt) + 4
    [] icmp \in {"stalled", "again"} -> 3 * (Attempts - attempt) + 3
    [] icmp = "judge" -> 5
    [] icmp = "listening" -> 4
    [] icmp = "cancelling" -> 3
    [] icmp = "closing" -> 2
    [] icmp = "withdrawing" -> 1
    [] icmp = "idle" -> 0

=============================================================================
