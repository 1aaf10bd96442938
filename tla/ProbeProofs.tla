------------------------------ MODULE ProbeProofs ------------------------------
(***************************************************************************)
(* What an echo probe does to the firmware and what it tells its user, for *)
(* every ring, every screen and any number of probes: the driver is left   *)
(* without a token, the result says whether an answer came, and the screen *)
(* shows the log of the probes.  The inductive invariant Probing says      *)
(* where in a probe each driver can be busy (Placed) and what the stage    *)
(* and the tokens say of the answer (Told, of which each protocol has its  *)
(* part).                                                                  *)
(***************************************************************************)
EXTENDS EchoProbe, TLAPS

\* The steps of the children of the ARP and IP4 drivers.
ArpStep ==
  ArpOpen \/ ArpOpenFails \/ ArpCaller \/ ArpDriver \/ ArpConsume \/ UNCHANGED arpVars

IcmpStep ==
  \/ IcmpOpen \/ IcmpCaller(FALSE, FALSE) \/ IcmpDriver \/ IcmpConsume
  \/ \E message \in Received : IcmpDeliver(message)
  \/ UNCHANGED icmpVars

\* What a driver has: nothing but what the caller is about to withdraw.
ArpOwned ==
  /\ request # "none" => arp \notin {"idle", "asking"}
  /\ arp \in {"asking", "polling"} => resolved = "none"

IcmpOwned ==
  /\ tx # "none" => icmp \notin {"idle", "built"}
  /\ rx # "none" => icmp \in {"listening", "cancelling"}
  /\ outcome # "none" => icmp \in {"closing", "withdrawing", "idle"}

\* The counter of transmissions in C; no attempt is begun beyond the last.
IcmpCounted ==
  /\ attempt \in 0..Attempts
  /\ icmp \in {"sending", "stalled", "sent", "again"} => attempt < Attempts

Statused == {"SUCCESS", "TIMEOUT", "ERROR"}
Socketed == Timed \cup {"close", "destroy"}

\* Each driver is busy in the stages of its own protocol only.
Located ==
  /\ arp # "idle" \/ resolved # "none" => stage = "arp"
  /\ icmp # "idle" \/ outcome # "none" => stage = "icmp" /\ protocol = "ICMP"
  /\ child <=> stage \in Socketed
  /\ io # "idle" \/ result # "none" => stage \in Timed \cup {"close"}
  /\ io # "idle" => result = "none"
  /\ token # "none" => io # "idle"
  /\ stage \in {"arp", "raw", "overhear"} => protocol = "ARP"
  /\ stage \in {"transmit", "listen"} => protocol = "UDP"
  /\ stage \in {"connect", "send", "receive", "close"} => protocol = "TCP"
  /\ stage = "destroy" => protocol \in {"UDP", "TCP"}
  /\ stage \in {"close", "destroy"} => answer \in Statused
  /\ stage = "record" => status \in Statused

Placed == ArpOwned /\ IcmpOwned /\ IcmpCounted /\ Located

\* Before anything can have been answered, nothing has.
ToldEarly ==
  stage \in {"start", "raw", "transmit", "connect", "send"} => reach = "nothing"

\* While the driver is polled nothing has come exactly if it still holds the request.
ToldArp ==
  /\ stage = "arp" =>
       /\ arp = "asking" => reach = "nothing" /\ resolved = "none"
       /\ arp = "polling" => (reach = "nothing" <=> request = "pending")
       /\ arp \in {"closing", "withdrawing", "idle"} =>
            (reach = "nothing" <=> resolved # "SUCCESS")
       /\ resolved = "TIMEOUT" => missed
  /\ stage = "overhear" => (reach = "nothing" <=> inbox = "empty")

\* What has come of the message, or of the exchange that ended with it.
Weighs(message) ==
  /\ reach = "echo" <=> message = "echo"
  /\ reach = "hollow" <=> message = "empty"

ToldIcmp ==
  stage = "icmp" =>
    /\ tx = "sent" => left
    /\ icmp \in {"listening", "cancelling"} => left
    /\ icmp = "listening" => Weighs(rx)
    /\ icmp \in {"closing", "withdrawing", "idle"} => Weighs(outcome)
    /\ icmp \notin {"listening", "closing", "withdrawing", "idle"} => reach = "nothing"
    /\ icmp \notin {"closing", "withdrawing", "idle"} => outcome = "none"
    /\ outcome = "silent" => missed
    /\ reach # "nothing" => left

Good == {"SUCCESS", "EMPTY"}

ToldSock ==
  /\ stage \in {"transmit", "send"} => (token = "SUCCESS" \/ result = "SUCCESS" => left)
  /\ stage \in {"listen", "receive"} => left
  /\ stage = "listen" =>
       (reach # "nothing" <=> result \in Good \/ (token \in Good /\ io \in {"waiting", "closing"}))
  /\ stage = "receive" =>
       /\ reach # "nothing" <=> result = "SUCCESS" \/ token = "SUCCESS"
       /\ reach # "hollow"
  /\ stage \in Timed => (result = "TIMEOUT" => missed)
  /\ stage \in {"close", "destroy"} =>
       /\ answer = "SUCCESS" <=> reach # "nothing"
       /\ reach = "hollow" => protocol # "TCP"
       /\ reach # "nothing" => left
       /\ answer = "TIMEOUT" => missed

Told == ToldEarly /\ ToldArp /\ ToldIcmp /\ ToldSock /\ ResultHonest

Probing == TypeOK /\ next = sent + 1 /\ Placed /\ Told

-----------------------------------------------------------------------------

LEMMA ArpTyped ==
  ASSUME ArpTypeOK, ArpStep
  PROVE  ArpTypeOK'
  BY DEF ArpTypeOK, ArpStep, ArpOpen, ArpOpenFails, ArpCaller, ArpDriver, ArpConsume, arpVars,
     ArpRequest, ArpPolled, ArpPollsSpent, ArpCloseEvent, ArpWithdraw, ArpReply, ArpGiveUp, ArpReady

LEMMA ArpLetsGo ==
  ASSUME ArpOwned, ArpStep
  PROVE  ArpOwned'
  BY DEF ArpOwned, ArpStep, ArpOpen, ArpOpenFails, ArpCaller, ArpDriver, ArpConsume, arpVars,
     ArpRequest, ArpPolled, ArpPollsSpent, ArpCloseEvent, ArpWithdraw, ArpReply, ArpGiveUp, ArpReady

LEMMA BuildIs ==
  ASSUME IcmpBuild(FALSE)
  PROVE  /\ icmp = "built" /\ rx' = rx
         /\ \/ Ends("no event") /\ attempt' = attempt /\ tx' = tx
            \/ Ends("no memory") /\ attempt' = attempt /\ tx' = tx
            \/ icmp' = "sending" /\ tx' = "unsent" /\ attempt' = 0 /\ outcome' = outcome
  BY DEF IcmpBuild, Ends

LEMMA IcmpCounts ==
  ASSUME IcmpCounted, IcmpStep
  PROVE  IcmpCounted'
<1> USE DEF IcmpCounted, Attempts, Ends, NextAttempt
<1>1. CASE IcmpOpen \/ IcmpDriver \/ IcmpConsume \/ UNCHANGED icmpVars
  BY <1>1 DEF IcmpOpen, IcmpDriver, IcmpConsume, icmpVars
<1>2. CASE IcmpBuild(FALSE)
  <2>1. \/ icmp' = "closing" /\ attempt' = attempt
        \/ icmp' = "sending" /\ attempt' = 0
    BY <1>2, BuildIs, Zenon DEF Ends
  <2> QED
    BY <2>1
<1>3. CASE IcmpTransmit(FALSE)
  BY <1>3 DEF IcmpTransmit
<1>6. CASE IcmpPause
  BY <1>6 DEF IcmpPause
<1>7. CASE IcmpSent(FALSE)
  BY <1>7 DEF IcmpSent
<1>8. CASE IcmpJudge(FALSE)
  BY <1>8 DEF IcmpJudge
<1>4. CASE IcmpHeard \/ IcmpUnheard \/ IcmpCancel \/ IcmpClose \/ IcmpWithdraw
  BY <1>4 DEF IcmpHeard, IcmpUnheard, IcmpCancel, IcmpClose, IcmpWithdraw
<1>5. CASE \E message \in Received : IcmpDeliver(message)
  BY <1>5 DEF IcmpDeliver
<1> QED
  BY <1>1, <1>2, <1>3, <1>4, <1>5, <1>6, <1>7, <1>8 DEF IcmpStep, IcmpCaller

\* Its attempt is typed by the count.
LEMMA IcmpTyped ==
  ASSUME IcmpTypeOK, IcmpCounted, IcmpStep
  PROVE  IcmpTypeOK'
<1>0. IcmpCounted'
  BY IcmpCounts
<1> USE <1>0 DEF IcmpTypeOK, IcmpCounted, Messages, Oddities, Received, Failures, Ends, NextAttempt
<1>1. CASE IcmpOpen
  BY <1>1 DEF IcmpOpen
<1>2. CASE IcmpDriver
  BY <1>2 DEF IcmpDriver
<1>11. CASE IcmpConsume
  BY <1>11 DEF IcmpConsume
<1>12. CASE UNCHANGED icmpVars
  BY <1>12 DEF icmpVars
<1>3. CASE IcmpBuild(FALSE)
  BY <1>3, BuildIs
<1>4. CASE IcmpTransmit(FALSE)
  BY <1>4 DEF IcmpTransmit
<1>5. CASE IcmpPause
  BY <1>5 DEF IcmpPause
<1>6. CASE IcmpSent(FALSE)
  BY <1>6 DEF IcmpSent
<1>7. CASE IcmpJudge(FALSE)
  BY <1>7 DEF IcmpJudge
<1>8. CASE IcmpHeard \/ IcmpUnheard
  BY <1>8 DEF IcmpHeard, IcmpUnheard
<1>9. CASE IcmpCancel \/ IcmpClose \/ IcmpWithdraw
  BY <1>9 DEF IcmpCancel, IcmpClose, IcmpWithdraw
<1>10. CASE \E message \in Received : IcmpDeliver(message)
  BY <1>10 DEF IcmpDeliver
<1> QED
  BY <1>1, <1>2, <1>3, <1>4, <1>5, <1>6, <1>7, <1>8, <1>9, <1>10, <1>11, <1>12
  DEF IcmpStep, IcmpCaller

LEMMA IcmpLetsGo ==
  ASSUME IcmpOwned, IcmpStep
  PROVE  IcmpOwned'
<1> USE DEF IcmpOwned, Ends, NextAttempt
<1>1. CASE IcmpOpen \/ IcmpDriver \/ IcmpConsume \/ UNCHANGED icmpVars
  BY <1>1 DEF IcmpOpen, IcmpDriver, IcmpConsume, icmpVars
<1>2. CASE IcmpBuild(FALSE) \/ IcmpTransmit(FALSE) \/ IcmpPause
  BY <1>2 DEF IcmpBuild, IcmpTransmit, IcmpPause
<1>3. CASE IcmpSent(FALSE) \/ IcmpJudge(FALSE)
  BY <1>3 DEF IcmpSent, IcmpJudge
<1>4. CASE IcmpHeard \/ IcmpUnheard \/ IcmpCancel \/ IcmpClose \/ IcmpWithdraw
  BY <1>4 DEF IcmpHeard, IcmpUnheard, IcmpCancel, IcmpClose, IcmpWithdraw
<1>5. CASE \E message \in Received : IcmpDeliver(message)
  BY <1>5 DEF IcmpDeliver
<1> QED
  BY <1>1, <1>2, <1>3, <1>4, <1>5 DEF IcmpStep, IcmpCaller

-----------------------------------------------------------------------------
(* The ring *)

\* The head advances by one, or back to the first slot.
LEMMA Advance ==
  ASSUME NEW H \in Nat \ {0}, NEW a \in 0..(H - 1)
  PROVE  (a + 1) % H = IF a + 1 = H THEN 0 ELSE a + 1
  OBVIOUS

LEMMA Wrap ==
  ASSUME NEW H \in Nat \ {0}, NEW a \in 0..(2 * H - 1)
  PROVE  a % H = IF a < H THEN a ELSE a - H
<1>1. CASE a < H
  BY <1>1
<1>2. CASE a >= H
  BY <1>2
<1> QED
  BY <1>1, <1>2

\* Where the i-th newest result is, when the next goes to slot h.
At(h, i) == IF i < h THEN h - 1 - i ELSE h + HistorySize - 1 - i

LEMMA IndexIs ==
  ASSUME NEW h \in Slots, NEW i \in Slots
  PROVE  (IF h = 0 THEN HistorySize - 1 - i
          ELSE (h + HistorySize - 1 - i) % HistorySize) = At(h, i)
<1> USE HistorySizeAssumption
<1>1. CASE h = 0
  BY <1>1 DEF At, Slots
<1>2. CASE h # 0
  <2> DEFINE a == h + HistorySize - 1 - i
  <2>1. a \in 0..(2 * HistorySize - 1)
    BY <1>2 DEF Slots
  <2>2. a % HistorySize = IF a < HistorySize THEN a ELSE a - HistorySize
    BY <2>1, Wrap
  <2> QED
    BY <1>2, <2>2 DEF At, Slots
<1> QED
  BY <1>1, <1>2

\* The newest result is where the head was; the others have moved on by one and
\* none of those shown is where the new one went.
LEMMA Moved ==
  ASSUME NEW h \in Slots, NEW i \in Slots
  PROVE  At((h + 1) % HistorySize, i) =
           IF i = 0 THEN h ELSE At(h, i - 1)
<1> USE HistorySizeAssumption DEF Slots
<1>1. (h + 1) % HistorySize = IF h + 1 = HistorySize THEN 0 ELSE h + 1
  BY Advance
<1> QED
  BY <1>1 DEF At

LEMMA Elsewhere ==
  ASSUME NEW h \in Slots, NEW i \in Slots, i # HistorySize - 1
  PROVE  At(h, i) \in Slots \ {h}
  BY HistorySizeAssumption DEF Slots, At

\* The rows of the log, as EchoProbe instantiates it.
Rows == IF HistorySize < ScreenRows THEN HistorySize ELSE ScreenRows

LEMMA ShortestOfThree ==
  ASSUME NEW n \in Nat
  PROVE  (CHOOSE k \in {n, HistorySize, ScreenRows} :
            \A m \in {n, HistorySize, ScreenRows} : k <= m)
         = IF n < Rows THEN n ELSE Rows
<1> USE HistorySizeAssumption, ScreenRowsAssumption
<1> DEFINE S == {n, HistorySize, ScreenRows}
           m == IF n < Rows THEN n ELSE Rows
<1>1. m \in S /\ \A k \in S : m <= k
  BY DEF Rows
<1>2. ASSUME NEW k \in S, \A j \in S : k <= j
      PROVE  k = m
  BY <1>1, <1>2
<1> QED
  BY <1>1, <1>2

LEMMA ShownIs ==
  ASSUME sent \in Nat
  PROVE  Shown = IF sent < Rows THEN sent ELSE Rows
  BY ShortestOfThree DEF Shown

LEMMA ShownBecomes ==
  ASSUME sent' \in Nat
  PROVE  Shown' = IF sent' < Rows THEN sent' ELSE Rows
  BY ShortestOfThree DEF Shown

LEMMA RowsIs == Rows \in Nat \ {0} /\ Rows <= HistorySize
  BY HistorySizeAssumption, ScreenRowsAssumption DEF Rows

-----------------------------------------------------------------------------
(* The steps of the statistics *)

\* A recorded probe is the log's newest line.
LEMMA RecordStep ==
  ASSUME StatsTypeOK, next = sent + 1, NEW s \in Statuses, ProbeRecordResult(s)
  PROVE  Log!Record(s)
<1> USE HistorySizeAssumption, RowsIs
<1>0. /\ head \in Slots /\ DOMAIN history = Slots
      /\ history' = [history EXCEPT ![head] = [seq |-> sent + 1, status |-> s]]
      /\ head' = (head + 1) % HistorySize
      /\ sent \in Nat /\ sent' = sent + 1
  BY DEF StatsTypeOK, ProbeRecordResult
<1>1. /\ Shown = (IF sent < Rows THEN sent ELSE Rows)
      /\ Shown' = (IF sent + 1 < Rows THEN sent + 1 ELSE Rows)
  BY <1>0, ShownIs, ShownBecomes
<1>2. Len(Displayed) = Shown
  <2>1. \A n \in Nat : Len([i \in 1..n |-> history[Idx(i - 1)]]) = n
    OBVIOUS
  <2> QED
    BY <1>0, <1>1, <2>1 DEF Displayed
<1>3. Shown' = Log!Shorter(Len(Displayed) + 1, Rows)
  BY <1>0, <1>1, <1>2 DEF Log!Shorter
<1>4. head \in Slots /\ head' \in Slots
  BY <1>0, Advance DEF Slots
<1>5. ASSUME NEW i \in 1..Shown'
      PROVE  history'[Idx(i - 1)'] =
               IF i = 1 THEN [seq |-> sent + 1, status |-> s] ELSE Displayed[i - 1]
  <2>1. i - 1 \in Slots
    BY <1>0, <1>1 DEF Slots
  <2>2. Idx(i - 1)' = At(head', i - 1)
    BY <1>4, <2>1, IndexIs DEF Idx
  <2>3. CASE i = 1
    <3>1. Idx(i - 1)' = head
      BY <1>0, <1>4, <2>1, <2>2, <2>3, Moved
    <3> QED
      BY <1>0, <2>3, <3>1
  <2>4. CASE i # 1
    <3>1. i - 2 \in Slots /\ i - 2 # HistorySize - 1 /\ i - 1 \in 1..Shown
      BY <1>0, <1>1, <2>1, <2>4 DEF Slots
    <3>2. Idx(i - 1)' = At(head, i - 2)
      BY <1>0, <1>4, <2>1, <2>2, <2>4, Moved
    <3>3. history'[At(head, i - 2)] = history[At(head, i - 2)]
      BY <1>0, <1>4, <3>1, Elsewhere
    <3>4. Idx(i - 2) = At(head, i - 2)
      BY <1>4, <3>1, IndexIs DEF Idx
    <3>5. Displayed[i - 1] = history[Idx(i - 2)]
      BY <3>1 DEF Displayed
    <3> QED
      BY <2>4, <3>2, <3>3, <3>4, <3>5
  <2> QED
    BY <2>3, <2>4
<1>6. Displayed' = [i \in 1..Shown' |->
                      IF i = 1 THEN [seq |-> sent + 1, status |-> s] ELSE Displayed[i - 1]]
  BY <1>5 DEF Displayed
<1> QED
  BY <1>0, <1>3, <1>6 DEF Log!Record, Rows, ProbeRecordResult

\* A test begun again has an empty log.
LEMMA ClearStep ==
  ASSUME ProbeInit
  PROVE  Log!Clear
<1>1. Shown' = 0
  BY ShownBecomes, RowsIs DEF ProbeInit
<1>2. Displayed' = <<>>
  BY <1>1 DEF Displayed
<1> QED
  BY <1>2 DEF ProbeInit, Log!Clear

\* Nothing else touches the screen.
LEMMA StutterStep ==
  ASSUME UNCHANGED statsVars
  PROVE  UNCHANGED Log!logVars
  BY DEF statsVars, Log!logVars, Displayed, Shown, Idx

-----------------------------------------------------------------------------
(* Probing, step by step *)

LEMMA ProbingInit == Init => Probing
<1> SUFFICES ASSUME Init PROVE Probing
  OBVIOUS
<1>1. TypeOK
  <2>1. StatsTypeOK
    BY HistorySizeAssumption DEF Init, StatsInit, StatsTypeOK, Slots, Entries, Cleared
  <2>2. ArpTypeOK /\ IcmpTypeOK /\ IoTypeOK
    BY DEF Init, ArpInit, IcmpInit, IoInit, ArpTypeOK, IcmpTypeOK, IoTypeOK, Attempts, Pending
  <2>3. owed \in 0..MaxOwed
    BY BoundsAssumption DEF Init
  <2>4. /\ filter \in BOOLEAN /\ ring \in SUBSET {"own", "stale"}
        /\ inbox \in {"empty", "reply", "stray"} /\ reach \in Reaches
    BY DEF Init, Reaches
  <2> QED
    BY <2>1, <2>2, <2>3, <2>4, Zenon DEF Init, TypeOK
<1>2. next = sent + 1 /\ Placed /\ Told
  BY DEF Init, StatsInit, ArpInit, IcmpInit, IoInit, Placed, Located, Told, ToldEarly, ToldArp, ToldIcmp,
      ToldSock, ResultHonest, Socketed, Timed, ArpOwned, IcmpOwned, IcmpCounted, Attempts
<1> QED
  BY <1>1, <1>2 DEF Probing

\* The statistics keep their types.
LEMMA StatsTyped ==
  ASSUME StatsTypeOK, NEW s \in Statuses, ProbeInit \/ ProbeRecordResult(s)
  PROVE  StatsTypeOK'
<1> USE HistorySizeAssumption DEF StatsTypeOK, Slots, Entries
<1>1. CASE ProbeInit
  BY <1>1 DEF ProbeInit, Cleared
<1>2. CASE ProbeRecordResult(s)
  <2>1. (head + 1) % HistorySize \in Slots
    BY Advance
  <2>2. /\ next \in Nat \ {0} /\ sent \in Nat /\ received \in Nat /\ lost \in Nat
        /\ head \in Slots /\ history \in [Slots -> Entries]
    OBVIOUS
  <2>3. history' \in [Slots -> Entries]
    BY <1>2, <2>2 DEF ProbeRecordResult
  <2>4. next' \in Nat \ {0} /\ sent' \in Nat /\ received' \in Nat /\ lost' \in Nat
    BY <1>2, <2>2 DEF ProbeRecordResult
  <2> QED
    BY <1>2, <2>1, <2>3, <2>4 DEF ProbeRecordResult
<1> QED
  BY <1>1, <1>2

\* The types of the probe's own variables, which need no arithmetic.
ProbeTyped ==
  /\ protocol \in Protocols
  /\ child \in BOOLEAN
  /\ answer \in {"none", "SUCCESS", "TIMEOUT", "ERROR"}
  /\ status \in {"none", "SUCCESS", "TIMEOUT", "ERROR"}
  /\ left \in BOOLEAN /\ missed \in BOOLEAN

\* Those of the NIC, and of what has come.
NicTyped ==
  /\ filter \in BOOLEAN
  /\ ring \in SUBSET {"own", "stale"}
  /\ inbox \in {"empty", "reply", "stray"}
  /\ reach \in Reaches

Stages == {"menu", "start", "arp", "raw", "overhear", "icmp", "transmit", "listen",
           "connect", "send", "receive", "close", "destroy", "record", "shown"}

LEMMA TypesTogether ==
  TypeOK <=> /\ StatsTypeOK /\ ArpTypeOK /\ IcmpTypeOK /\ IoTypeOK
             /\ ProbeTyped /\ NicTyped /\ stage \in Stages /\ owed \in 0..MaxOwed
  BY Zenon DEF TypeOK, ProbeTyped, NicTyped, Stages

IoStep ==
  \/ \E s \in Outcomes : Refuse(s) \/ Complete(s)
  \/ Accept(TRUE) \/ Accept(FALSE) \/ LeaveLoop \/ LastLook \/ Cancel \/ CancelReread
  \/ Tick \/ Consume \/ UNCHANGED ioVars

LEMMA IoTyped ==
  ASSUME IoTypeOK, IoStep
  PROVE  IoTypeOK'
  BY OutcomesAssumption
  DEF IoTypeOK, IoStep, Pending, Refuse, Complete, Accept, LeaveLoop, LastLook, Cancel,
      CancelReread, Tick, Consume, ioVars, Ready

\* Each step of a probe is a step, or none, of each of its parts.
LEMMA Parts ==
  ASSUME Next
  PROVE  ArpStep /\ IcmpStep /\ IoStep
<1> USE DEF ArpStep, IcmpStep, IoStep, childVars, ArpKept, SockKept
<1>1. CASE User \/ Record
  BY <1>1 DEF User, Begin, Again, Escape, Record
<1>2. CASE ArpProbe \/ ArpWork \/ ArpNetwork \/ ArpReturned \/ ArpByHand
  BY <1>2 DEF ArpProbe, ArpWork, ArpNetwork, ArpReturned, ArpByHand, ArpDriver
<1>9. CASE ArpOverheard \/ NicSends \/ NicReceives
  BY <1>9 DEF ArpOverheard, NicSends, NicReceives
<1>3. CASE IcmpProbe \/ IcmpWork \/ IcmpNetwork \/ IcmpReturned
  BY <1>3 DEF IcmpProbe, IcmpWork, IcmpNetwork, IcmpReturned
<1>4. CASE SockProbe \/ SockTick \/ Destroy
  BY <1>4 DEF SockProbe, SockTick, Destroy
<1>5. CASE SockStart
  BY <1>5, OutcomesAssumption DEF SockStart
<1>6. CASE SockWait
  BY <1>6 DEF SockWait
<1>7. CASE SockDriver
  <2>1. \E s \in Outcomes : Complete(s)
    BY <1>7, OutcomesAssumption DEF SockDriver
  <2> QED
    BY <1>7, <2>1 DEF SockDriver
<1>8. CASE UdpReturned \/ TcpReturned
  BY <1>8 DEF UdpReturned, TcpReturned
<1> QED
  BY <1>1, <1>2, <1>3, <1>4, <1>5, <1>6, <1>7, <1>8, <1>9 DEF Next, Program, Firmware

LEMMA PartsKept ==
  ASSUME TypeOK, Placed, Next
  PROVE  (ArpTypeOK /\ IcmpTypeOK /\ IoTypeOK /\ ArpOwned /\ IcmpOwned /\ IcmpCounted)'
  BY Parts, ArpTyped, IcmpTyped, IoTyped, ArpLetsGo, IcmpLetsGo, IcmpCounts DEF TypeOK, Placed

\* Only two steps touch the statistics.
LEMMA StatsKept ==
  ASSUME TypeOK, Placed, Next
  PROVE  \/ UNCHANGED statsVars
         \/ ProbeInit
         \/ \E s \in Statuses : ProbeRecordResult(s)
<1>1. ASSUME Record PROVE Result \in Statuses
  BY <1>1 DEF Record, Result, Statuses, Placed, Located, Statused
<1> QED
  BY <1>1
  DEF Next, Program, Firmware, User, Begin, Again, Escape, Record,
      ArpProbe, ArpWork, ArpNetwork, ArpReturned, ArpByHand, ArpOverheard, NicSends, NicReceives, ArpKept,
      IcmpProbe, IcmpWork, IcmpNetwork, IcmpReturned,
      SockProbe, SockStart, SockWait, SockTick, SockDriver, UdpReturned, TcpReturned, Destroy, SockKept

LEMMA StageTyped ==
  ASSUME TypeOK, Next
  PROVE  stage' \in Stages
  BY Zenon
  DEF TypeOK, Stages, Next, Program, Firmware, User, Begin, NewProbe, Again, Escape, Record,
      ArpProbe, ArpWork, ArpNetwork, ArpReturned, ArpByHand, ArpOverheard, NicSends, NicReceives,
      IcmpProbe, IcmpWork, IcmpNetwork,
      IcmpReturned, SockProbe, SockStart, SockWait, SockTick, SockDriver, UdpReturned, TcpReturned,
      Destroy, Goto, Return, Decide, probeVars

LEMMA OwedTyped ==
  ASSUME TypeOK, Next
  PROVE  owed' \in 0..MaxOwed
<1>1. CASE IcmpNetwork
  BY <1>1, BoundsAssumption DEF IcmpNetwork, TypeOK, Leaves, Arrives
<1>2. CASE SockDriver
  BY <1>2, BoundsAssumption DEF SockDriver, TypeOK, Leaves, Arrives, wireVars
<1>3. CASE ~IcmpNetwork /\ ~SockDriver
  <2>1. owed' = owed
    BY <1>3, Zenon
    DEF Next, Program, Firmware, User, Begin, Again, Escape, Record, wireVars, ArpKept,
        ArpProbe, ArpWork, ArpNetwork, ArpReturned, ArpByHand, ArpOverheard, NicSends, NicReceives,
        IcmpProbe, IcmpWork, IcmpReturned, SockProbe, SockStart, SockWait, SockTick, UdpReturned,
        TcpReturned, Destroy
  <2> QED
    BY <2>1 DEF TypeOK
<1> QED
  BY <1>1, <1>2, <1>3

LEMMA ProbeTypedKept ==
  ASSUME TypeOK, Placed, Next
  PROVE  ProbeTyped'
<1> USE DEF TypeOK, ProbeTyped, Goto, Return, Decide, probeVars, wireVars, childVars
<1>1. CASE User \/ Record
  BY <1>1, Zenon DEF User, Begin, NewProbe, Again, Escape, Record
<1>2. CASE ArpProbe \/ ArpWork \/ ArpNetwork \/ ArpReturned
  BY <1>2, Zenon DEF ArpProbe, ArpWork, ArpNetwork, ArpReturned, ArpKept
<1>7. CASE ArpByHand \/ ArpOverheard \/ NicSends \/ NicReceives
  BY <1>7, Zenon DEF ArpByHand, ArpOverheard, NicSends, NicReceives, ArpKept
<1>3. CASE IcmpProbe \/ IcmpWork \/ IcmpNetwork \/ IcmpReturned
  BY <1>3, Zenon DEF IcmpProbe, IcmpWork, IcmpNetwork, IcmpReturned, Leaves, Arrives
<1>4. CASE SockProbe \/ SockStart \/ SockWait \/ SockTick \/ Destroy
  BY <1>4, Zenon DEF SockProbe, SockStart, SockWait, SockTick, Destroy
<1>5. CASE SockDriver
  BY <1>5, Zenon DEF SockDriver, Leaves, Arrives
<1>6. CASE UdpReturned \/ TcpReturned
  BY <1>6, Zenon DEF UdpReturned, TcpReturned
<1> QED
  BY <1>1, <1>2, <1>3, <1>4, <1>5, <1>6, <1>7 DEF Next, Program, Firmware

LEMMA NicTypedKept ==
  ASSUME TypeOK, Placed, Next
  PROVE  NicTyped'
<1>0. NicTyped
  BY TypesTogether
<1> USE <1>0 DEF NicTyped, Reaches, wireVars, nicVars
<1>1. CASE User \/ Record
  BY <1>1 DEF User, Begin, NewProbe, Again, Escape, Record
<1>2. CASE ArpProbe \/ ArpWork \/ ArpNetwork \/ ArpReturned
  BY <1>2 DEF ArpProbe, ArpWork, ArpNetwork, ArpReturned
<1>3. CASE ArpByHand \/ ArpOverheard
  BY <1>3 DEF ArpByHand, ArpOverheard
<1>4. CASE NicSends \/ NicReceives
  BY <1>4 DEF NicSends, NicReceives
<1>5. CASE IcmpProbe \/ IcmpWork \/ IcmpReturned
  BY <1>5 DEF IcmpProbe, IcmpWork, IcmpReturned
<1>6. CASE IcmpNetwork
  BY <1>6 DEF IcmpNetwork, Arrives, Weight
<1>7. CASE SockProbe \/ SockStart \/ SockWait \/ SockTick \/ Destroy
  BY <1>7 DEF SockProbe, SockStart, SockWait, SockTick, Destroy, SockKept
<1>8. CASE SockDriver
  BY <1>8 DEF SockDriver, SockKept, Arrives
<1>9. CASE UdpReturned \/ TcpReturned
  BY <1>9 DEF UdpReturned, TcpReturned, SockKept
<1> QED
  BY <1>1, <1>2, <1>3, <1>4, <1>5, <1>6, <1>7, <1>8, <1>9 DEF Next, Program, Firmware

LEMMA TypeKept ==
  ASSUME TypeOK, Placed, Next
  PROVE  TypeOK'
<1>1. StatsTypeOK'
  BY StatsKept, StatsTyped DEF TypeOK, statsVars, StatsTypeOK, Statuses
<1> QED
  BY <1>1, PartsKept, StageTyped, OwedTyped, ProbeTypedKept, NicTypedKept, Zenon
  DEF TypeOK, ProbeTyped, NicTyped, Stages

LEMMA NumberKept ==
  ASSUME TypeOK, Placed, next = sent + 1, Next
  PROVE  next' = sent' + 1
  BY StatsKept DEF TypeOK, statsVars, StatsTypeOK, ProbeInit, ProbeRecordResult

LEMMA LocatedKept ==
  ASSUME TypeOK, Placed, Next
  PROVE  Located'
<1> USE DEF Placed, Located, Socketed, Timed, Statused, Goto, Return, Decide, probeVars, childVars,
        arpVars, icmpVars, ioVars
<1>1. CASE User \/ Record
  BY <1>1 DEF User, Begin, NewProbe, Again, Escape, Record
<1>2. CASE ArpProbe
  BY <1>2 DEF ArpProbe, ArpKept, ArpOpen, ArpOpenFails
<1>3. CASE ArpWork
  BY <1>3 DEF ArpWork, ArpKept, ArpCaller, ArpRequest, ArpPolled, ArpPollsSpent, ArpCloseEvent,
     ArpWithdraw
<1>4. CASE ArpNetwork
  BY <1>4 DEF ArpNetwork, ArpKept, ArpReply, ArpGiveUp, ArpOwned
<1>5. CASE ArpReturned \/ ArpByHand
  BY <1>5 DEF ArpReturned, ArpByHand, ArpKept, ArpConsume
<1>15. CASE ArpOverheard \/ NicSends \/ NicReceives
  BY <1>15 DEF ArpOverheard, NicSends, NicReceives, ArpKept
<1>6. CASE IcmpProbe
  BY <1>6 DEF IcmpProbe, IcmpOpen
<1>7. CASE IcmpWork
  BY <1>7 DEF IcmpWork, IcmpCaller, IcmpBuild, IcmpTransmit, IcmpPause, IcmpSent, IcmpJudge,
     IcmpHeard, IcmpUnheard, IcmpCancel, IcmpClose, IcmpWithdraw
<1>8. CASE IcmpNetwork
  BY <1>8 DEF IcmpNetwork, IcmpDriver, IcmpDeliver
<1>9. CASE IcmpReturned
  BY <1>9 DEF IcmpReturned, IcmpConsume
<1>10. CASE SockProbe \/ Destroy
  BY <1>10 DEF SockProbe, Destroy, SockKept
<1>11. CASE SockStart
  BY <1>11 DEF SockStart, SockKept, Refuse, Accept, Ready
<1>12. CASE SockWait \/ SockTick
  BY <1>12 DEF SockWait, SockTick, SockKept, LeaveLoop, LastLook, Cancel, CancelReread, Tick
<1>13. CASE SockDriver
  BY <1>13 DEF SockDriver, SockKept, Complete
<1>14. CASE UdpReturned \/ TcpReturned
  BY <1>14 DEF UdpReturned, TcpReturned, SockKept, Consume
<1> QED
  BY <1>1, <1>2, <1>3, <1>4, <1>5, <1>6, <1>7, <1>8, <1>9, <1>10, <1>11, <1>12, <1>13, <1>14,
     <1>15
  DEF Next, Program, Firmware

LEMMA ToldKept ==
  ASSUME TypeOK, Placed, Told, Next
  PROVE  Told'
<1> USE DEF TypeOK, Placed, Located, Socketed, Timed, Statused, Told, ToldEarly, ToldArp, ToldIcmp,
        Weighs, ToldSock, ResultHonest, Good, Reaches, Goto, Return, Decide, probeVars, wireVars,
        childVars, nicVars, arpVars, icmpVars, ioVars
<1>1. CASE User \/ Record
  BY <1>1 DEF User, Begin, NewProbe, Again, Escape, Record
<1>2. CASE ArpProbe
  BY <1>2 DEF ArpProbe, ArpKept, ArpOpen, ArpOpenFails, ArpReady
<1>16. CASE ArpWork
  BY <1>16 DEF ArpWork, ArpKept, ArpOwned, ArpTypeOK, ArpCaller, ArpRequest, ArpPolled, ArpPollsSpent,
     ArpCloseEvent, ArpWithdraw
<1>17. CASE ArpNetwork
  BY <1>17 DEF ArpNetwork, ArpKept, ArpOwned, ArpTypeOK, ArpReply, ArpGiveUp
<1>3. CASE ArpReturned
  BY <1>3 DEF ArpReturned, ArpKept, ArpConsume, ArpTypeOK
<1>4. CASE ArpByHand \/ ArpOverheard
  BY <1>4 DEF ArpByHand, ArpOverheard, ArpKept
<1>18. CASE NicSends \/ NicReceives
  BY <1>18 DEF NicSends, NicReceives, ArpKept
<1>5. CASE IcmpProbe
  BY <1>5 DEF IcmpProbe, IcmpOpen, IcmpOwned
<1>6. CASE IcmpWork
  <2> USE <1>6 DEF IcmpWork, IcmpOwned, Ends, NextAttempt
  <2>1. CASE IcmpBuild(FALSE)
    BY <2>1 DEF IcmpBuild
  <2>2. CASE IcmpTransmit(FALSE) \/ IcmpPause
    BY <2>2 DEF IcmpTransmit, IcmpPause
  <2>3. CASE IcmpSent(FALSE)
    BY <2>3 DEF IcmpSent
  <2>4. CASE IcmpJudge(FALSE)
    BY <2>4 DEF IcmpJudge
  <2>5. CASE IcmpHeard \/ IcmpUnheard
    BY <2>5 DEF IcmpHeard, IcmpUnheard, Received, Messages, Oddities
  <2>6. CASE IcmpCancel \/ IcmpClose \/ IcmpWithdraw
    BY <2>6 DEF IcmpCancel, IcmpClose, IcmpWithdraw
  <2> QED
    BY <2>1, <2>2, <2>3, <2>4, <2>5, <2>6 DEF IcmpCaller
<1>7. CASE IcmpNetwork
  BY <1>7 DEF IcmpNetwork, IcmpDriver, IcmpDeliver, IcmpOwned, Leaves, Arrives, Weight, Received,
     Messages, Oddities
<1>8. CASE IcmpReturned
  <2>1. /\ stage = "icmp" /\ icmp = "idle" /\ outcome # "none" /\ stage' = "record"
        /\ protocol = "ICMP" /\ UNCHANGED <<protocol, reach, left, missed>>
    BY <1>8 DEF IcmpReturned, IcmpConsume
  <2>2. /\ Weighs(outcome)
        /\ outcome = "silent" => missed
        /\ reach # "nothing" => left
    BY <2>1
  <2>3. /\ status' = "SUCCESS" <=> outcome = "echo"
        /\ status' = "TIMEOUT" <=> outcome \in {"silent", "empty"}
    BY <1>8 DEF IcmpReturned
  <2>4. ResultHonest'
    BY <2>1, <2>2, <2>3
  <2> QED
    BY <2>1, <2>4
<1>9. CASE SockProbe
  BY <1>9 DEF SockProbe, SockKept
<1>19. CASE Destroy
  BY <1>19 DEF Destroy, SockKept
<1>10. CASE SockStart
  BY <1>10 DEF SockStart, SockKept, Refuse, Accept, Ready
<1>11. CASE SockWait
  <2> USE <1>11 DEF SockWait, SockKept
  <2>1. token \in {"none", "queued"} \cup Outcomes /\ "TIMEOUT" \notin Outcomes
    BY OutcomesAssumption DEF IoTypeOK, Pending
  <2>2. CASE LeaveLoop
    BY <2>2 DEF LeaveLoop
  <2>3. CASE LastLook
    BY <2>1, <2>3 DEF LastLook
  <2>4. CASE stage \in {"send", "receive"} /\ CancelReread
    BY <2>1, <2>4 DEF CancelReread
  <2>5. CASE stage \notin {"send", "receive"} /\ Cancel
    BY <2>5 DEF Cancel
  <2> QED
    BY <2>2, <2>3, <2>4, <2>5
<1>15. CASE SockTick
  BY <1>15 DEF SockTick, SockKept, Tick
<1>12. CASE SockDriver
  <2> USE <1>12 DEF SockDriver, SockKept, Complete, Leaves, Arrives
  <2>1. CASE stage \in {"connect", "close"}
    BY <2>1
  <2>2. CASE stage \in {"transmit", "send"}
    BY <2>2
  <2>3. CASE stage = "listen"
    <3>1. /\ reach = "nothing" /\ left /\ result = "none"
          /\ io \in {"waiting", "closing", "cancelling"}
      BY <2>3 DEF IoTypeOK
    <3>2. CASE token' \in Good
      <4>1. reach' # "nothing" <=> io # "cancelling"
        BY <2>3, <3>1, <3>2
      <4> QED
        BY <2>3, <3>1, <3>2, <4>1
    <3>3. CASE token' \in {"WRONG", "ERROR"}
      <4>1. reach' = "nothing"
        BY <2>3, <3>1, <3>3
      <4> QED
        BY <2>3, <3>1, <3>3, <4>1
    <3> QED
      BY <2>3, <3>2, <3>3
  <2>4. CASE stage = "receive"
    BY <2>4
  <2> QED
    BY <2>1, <2>2, <2>3, <2>4
<1>13. CASE UdpReturned
  BY <1>13 DEF UdpReturned, SockKept, Consume
<1>14. CASE TcpReturned
  BY <1>14 DEF TcpReturned, SockKept, Consume
<1> QED
  BY <1>1, <1>2, <1>3, <1>4, <1>5, <1>6, <1>7, <1>8, <1>9, <1>10, <1>11, <1>12, <1>13, <1>14, <1>15,
     <1>16, <1>17, <1>18, <1>19
  DEF Next, Program, Firmware

-----------------------------------------------------------------------------
(* The theorems *)

LEMMA ProbingStep == Probing /\ [Next]_vars => Probing'
<1> SUFFICES ASSUME Probing, [Next]_vars PROVE Probing'
  OBVIOUS
<1>1. CASE Next
  BY <1>1, TypeKept, PartsKept, LocatedKept, ToldKept, NumberKept DEF Probing, Placed
<1>2. CASE UNCHANGED vars
  <2> USE <1>2 DEF vars, statsVars, childVars, nicVars, arpVars, icmpVars, ioVars, probeVars, wireVars, Probing
  <2>1. TypeOK'
    BY DEF TypeOK, StatsTypeOK, ArpTypeOK, IcmpTypeOK, IoTypeOK
  <2>2. Placed'
    BY DEF Placed, ArpOwned, IcmpOwned, IcmpCounted, Located
  <2>3. Told'
    BY DEF Told, ToldEarly, ToldArp, ToldIcmp, Weighs, ToldSock, ResultHonest
  <2> QED
    BY <2>1, <2>2, <2>3
<1> QED
  BY <1>1, <1>2

LEMMA ProbingAlways == Spec => []Probing
  BY ProbingInit, ProbingStep, PTL DEF Spec

\* What a probe reports, in every run and however many probes there are: it is a
\* PASS exactly when an echo has reached it, or one of the answers without an echo
\* that ARP and UDP take for one, and a TIMEOUT only after a wait that ran out.
THEOREM ResultHonestAlways == Spec => []ResultHonest
<1>1. Probing => ResultHonest
  BY DEF Probing, Told
<1> QED
  BY <1>1, ProbingAlways, PTL

\* No driver keeps anything of a probe that has returned.
THEOREM DriversLetGoAlways == Spec => []DriversLetGo
<1>1. Probing => DriversLetGo
  BY DEF Probing, Placed, ArpOwned, IcmpOwned, Located, Socketed, Timed, DriversLetGo
<1> QED
  BY <1>1, ProbingAlways, PTL

\* The types of every variable of the echo tests.
THEOREM TypeOKAlways == Spec => []TypeOK
<1>1. Probing => TypeOK
  BY DEF Probing
<1> QED
  BY <1>1, ProbingAlways, PTL

\* The ring of results on the screen implements a plain log of the probes,
\* whatever the sizes of the ring and of the screen.
THEOREM RingImplementsLog == Spec => ImplementsLog
<1>1. Init => Log!Init
  <2> SUFFICES ASSUME Init PROVE Log!Init
    OBVIOUS
  <2>1. sent = 0 /\ received = 0 /\ lost = 0
    BY DEF Init, StatsInit
  <2>2. Shown = 0
    BY <2>1, ShownIs, RowsIs
  <2>3. Displayed = <<>>
    BY <2>2 DEF Displayed
  <2> QED
    BY <2>1, <2>3 DEF Log!Init
<1>2. Probing /\ [Next]_vars => [Log!Next]_Log!logVars
  <2> SUFFICES ASSUME Probing, [Next]_vars PROVE [Log!Next]_Log!logVars
    OBVIOUS
  <2>1. \/ UNCHANGED statsVars
        \/ ProbeInit
        \/ \E s \in Statuses : ProbeRecordResult(s)
    BY StatsKept DEF Probing, vars
  <2>2. CASE UNCHANGED statsVars
    BY <2>2, StutterStep
  <2>3. CASE ProbeInit
    BY <2>3, ClearStep DEF Log!Next
  <2>4. CASE \E s \in Statuses : ProbeRecordResult(s)
    BY <2>4, RecordStep DEF Probing, TypeOK, Log!Next
  <2> QED
    BY <2>1, <2>2, <2>3, <2>4
<1> QED
  BY <1>1, <1>2, ProbingAlways, PTL DEF Spec, ImplementsLog, Log!Spec

-----------------------------------------------------------------------------
(* A probe has a bounded number of steps *)

\* A probe by ARP goes from the driver to the NIC; one by UDP or TCP goes through
\* the operations of its child, each by a token.
StepsLeft ==
  CASE stage \in {"menu", "shown"} -> 0
    [] stage = "record" -> 1
    [] stage \in {"overhear", "destroy"} -> 2
    [] stage = "raw" -> 3
    [] stage = "arp" -> 4 + ArpLeft
    [] stage = "icmp" -> 2 + IcmpLeft
    [] stage \in {"listen", "close"} -> 3 + IoLeft
    [] stage \in {"transmit", "receive"} -> 9 + IoLeft
    [] stage = "send" -> 15 + IoLeft
    [] stage = "connect" -> 21 + IoLeft
    [] stage = "start" -> 27

\* What the program does brings the probe nearer its end, and so does a timer; what
\* the drivers and the network do takes it no further away.
EveryStepCounts ==
  /\ Program \/ SockTick => StepsLeft' < StepsLeft
  /\ ArpNetwork \/ NicSends \/ NicReceives \/ IcmpNetwork \/ SockDriver => StepsLeft' = StepsLeft

\* A clock runs only while its operation is waited for, and until the operation
\* is over its token is with the driver or has a status.
Awaited ==
  /\ clock = "running" => io = "waiting"
  /\ io # "idle" => token # "none"

Waits == LeaveLoop \/ LastLook \/ Cancel \/ CancelReread \/ Tick

LEMMA AwaitedKept ==
  ASSUME Awaited, IoStep
  PROVE  Awaited'
<1>1. CASE Waits
  BY <1>1 DEF Awaited, Waits, LeaveLoop, LastLook, Cancel, CancelReread, Tick
<1>2. CASE \E s \in Outcomes : Refuse(s) \/ Complete(s)
  BY <1>2, OutcomesAssumption DEF Awaited, Refuse, Complete
<1>3. CASE Accept(TRUE) \/ Accept(FALSE) \/ Consume \/ UNCHANGED ioVars
  BY <1>3 DEF Awaited, Accept, Consume, ioVars
<1> QED
  BY <1>1, <1>2, <1>3 DEF IoStep, Waits

LEMMA AwaitedStep == Awaited /\ [Next]_vars => Awaited'
<1> SUFFICES ASSUME Awaited, [Next]_vars PROVE Awaited'
  OBVIOUS
<1>1. IoStep
  BY Parts DEF IoStep, vars, childVars
<1> QED
  BY <1>1, AwaitedKept

LEMMA IoLeftIs == ASSUME IoTypeOK PROVE IoLeft \in 0..5
  BY DEF IoTypeOK, IoLeft

LEMMA WaitCounts ==
  ASSUME IoTypeOK, Awaited, Waits
  PROVE  IoLeft' \in 0..5 /\ IoLeft' < IoLeft /\ io # "idle"
<1>1. CASE LeaveLoop \/ Tick
  BY <1>1 DEF LeaveLoop, Tick, IoLeft, Awaited
<1>2. CASE Cancel
  BY <1>2 DEF Cancel, IoLeft
<1>3. CASE CancelReread
  <2>1. io = "cancelling" /\ io' = "idle" /\ result' # "none"
    BY <1>3 DEF CancelReread, Awaited
  <2> QED
    BY <2>1 DEF IoLeft
<1>4. CASE LastLook
  <2>1. CASE token = "queued"
    BY <1>4, <2>1 DEF LastLook, IoLeft
  <2>2. CASE token # "queued"
    BY <1>4, <2>2 DEF LastLook, IoLeft, Awaited
  <2> QED
    BY <2>1, <2>2
<1> QED
  BY <1>1, <1>2, <1>3, <1>4 DEF Waits

LEMMA IcmpCallerCounts ==
  ASSUME IcmpTypeOK, IcmpCounted, IcmpCaller(FALSE, FALSE)
  PROVE  IcmpLeft' < IcmpLeft /\ icmp # "idle"
<1> USE DEF IcmpLeft, IcmpTypeOK, IcmpCounted, Attempts, Ends, NextAttempt
<1>1. CASE IcmpBuild(FALSE)
  <2>1. /\ icmp = "built"
        /\ \/ icmp' = "closing" /\ attempt' = attempt
           \/ icmp' = "sending" /\ attempt' = 0
    BY <1>1, BuildIs, Zenon DEF Ends
  <2> QED
    BY <2>1
<1>2. CASE IcmpTransmit(FALSE)
  BY <1>2 DEF IcmpTransmit
<1>3. CASE IcmpPause
  BY <1>3 DEF IcmpPause
<1>4. CASE IcmpSent(FALSE)
  BY <1>4 DEF IcmpSent
<1>5. CASE IcmpJudge(FALSE)
  <2>1. icmp = "judge" /\ icmp' \in {"closing", "listening"} /\ attempt' = attempt
    BY <1>5 DEF IcmpJudge
  <2> QED
    BY <2>1
<1>6. CASE IcmpHeard \/ IcmpUnheard \/ IcmpCancel \/ IcmpClose \/ IcmpWithdraw
  BY <1>6 DEF IcmpHeard, IcmpUnheard, IcmpCancel, IcmpClose, IcmpWithdraw
<1> QED
  BY <1>1, <1>2, <1>3, <1>4, <1>5, <1>6 DEF IcmpCaller

LEMMA ArpCallerCounts ==
  ASSUME ArpTypeOK, ArpCaller
  PROVE  ArpLeft' < ArpLeft /\ arp # "idle"
  BY DEF ArpTypeOK, ArpLeft, ArpCaller, ArpRequest, ArpPolled, ArpPollsSpent, ArpCloseEvent, ArpWithdraw

LEMMA ChildrenLeft ==
  ASSUME ArpTypeOK, IcmpTypeOK, IoTypeOK, IcmpCounted
  PROVE  ArpLeft \in 0..4 /\ IcmpLeft \in 0..15 /\ IoLeft \in 0..5
  BY DEF IcmpTypeOK, IcmpCounted, IcmpLeft, Attempts, ArpTypeOK, ArpLeft, IoTypeOK, IoLeft

LEMMA ChildrenLeftNext ==
  ASSUME Probing'
  PROVE  (ArpLeft \in 0..4 /\ IcmpLeft \in 0..15 /\ IoLeft \in 0..5)'
  BY DEF Probing, TypeOK, Placed, IcmpTypeOK, IcmpCounted, IcmpLeft, Attempts, ArpTypeOK, ArpLeft,
     IoTypeOK, IoLeft

LEMMA StepsLeftIs == ASSUME Probing PROVE StepsLeft \in 0..27
<1>1. ArpLeft \in 0..4 /\ IcmpLeft \in 0..15 /\ IoLeft \in 0..5
  BY ChildrenLeft DEF Probing, TypeOK, Placed
<1>2. stage \in Stages
  BY TypesTogether DEF Probing
<1> QED
  BY <1>1, <1>2 DEF StepsLeft, Stages

\* The steps of the children that the probe's own code takes.
LEMMA CallersCount ==
  ASSUME Probing, Probing', Awaited, ArpWork \/ IcmpWork \/ SockStart \/ SockWait \/ SockTick
  PROVE  StepsLeft' < StepsLeft
<1> DEFINE Ranges ==
      /\ ArpLeft \in 0..4 /\ IcmpLeft \in 0..15 /\ IoLeft \in 0..5
      /\ ArpLeft' \in 0..4 /\ IcmpLeft' \in 0..15 /\ IoLeft' \in 0..5
<1>1. Ranges
  BY ChildrenLeft, ChildrenLeftNext DEF Probing, TypeOK, Placed
<1>2. Located /\ ArpTypeOK /\ IcmpTypeOK /\ IoTypeOK /\ IcmpCounted
  BY DEF Probing, Placed, TypeOK
<1> HIDE DEF Ranges
<1>3. CASE ArpWork
  <2>1. ArpLeft' < ArpLeft /\ stage = "arp" /\ stage' = stage
    BY <1>2, <1>3, ArpCallerCounts DEF ArpWork, Located, probeVars
  <2> QED
    BY <1>1, <2>1 DEF Ranges, StepsLeft
<1>4. CASE IcmpWork
  <2>1. IcmpLeft' < IcmpLeft /\ stage = "icmp" /\ stage' = stage
    BY <1>2, <1>4, IcmpCallerCounts DEF IcmpWork, Located, probeVars
  <2> QED
    BY <1>1, <2>1 DEF Ranges, StepsLeft
<1>5. ASSUME stage \in Timed \cup {"close"}, stage' = stage, IoLeft' < IoLeft
      PROVE  StepsLeft' < StepsLeft
  BY <1>1, <1>5 DEF Ranges, StepsLeft, Timed
<1>6. CASE SockStart
  <2>1. /\ io = "idle" /\ result = "none"
        /\ \/ io' = "idle" /\ result' = "ERROR"
           \/ io' = "waiting" /\ result' = "none"
    BY <1>6 DEF SockStart, Refuse, Accept, Ready
  <2>2. IoLeft' < IoLeft
    BY <2>1 DEF IoLeft
  <2>3. stage \in Timed \cup {"close"} /\ stage' = stage
    BY <1>6 DEF SockStart, probeVars
  <2> QED
    BY <1>5, <2>2, <2>3
<1>7. CASE SockWait \/ SockTick
  <2>1. Waits /\ stage' = stage
    BY <1>7 DEF SockWait, SockTick, Waits, probeVars
  <2>2. IoLeft' < IoLeft /\ stage \in Timed \cup {"close"}
    BY <1>2, <2>1, WaitCounts DEF Located
  <2> QED
    BY <1>5, <2>1, <2>2
<1> QED
  BY <1>3, <1>4, <1>6, <1>7

\* The steps from one stage to another.
LEMMA StagesCount ==
  ASSUME Probing, Probing',
         \/ ArpProbe \/ ArpReturned \/ ArpByHand \/ ArpOverheard \/ IcmpProbe \/ IcmpReturned
         \/ SockProbe
         \/ UdpReturned \/ TcpReturned \/ Destroy \/ Record
  PROVE  StepsLeft' < StepsLeft
<1> DEFINE Ranges ==
      /\ ArpLeft \in 0..4 /\ IcmpLeft \in 0..15 /\ IoLeft \in 0..5
      /\ ArpLeft' \in 0..4 /\ IcmpLeft' \in 0..15 /\ IoLeft' \in 0..5
<1>1. Ranges
  BY ChildrenLeft, ChildrenLeftNext DEF Probing, TypeOK, Placed
<1> HIDE DEF Ranges
<1>2. ASSUME \/ stage = "start" /\ stage' \notin {"start", "menu"}
             \/ stage = "arp" /\ stage' \in {"raw", "record"}
             \/ stage = "raw" /\ stage' \in {"overhear", "record"}
             \/ stage \in {"overhear", "icmp", "destroy"} /\ stage' = "record"
             \/ stage \in {"transmit", "listen", "connect", "close"} /\ stage' = "destroy"
             \/ stage = "transmit" /\ stage' = "listen"
             \/ stage = "connect" /\ stage' = "send"
             \/ stage = "send" /\ stage' \in {"receive", "close"}
             \/ stage = "receive" /\ stage' = "close"
             \/ stage = "record" /\ stage' = "shown"
      PROVE  StepsLeft' < StepsLeft
  <2>1. stage' \in Stages
    BY TypesTogether DEF Probing, TypeOK, Stages
  <2> QED
    BY <1>1, <1>2, <2>1 DEF Ranges, StepsLeft, Stages
<1> USE DEF Goto, Return, Decide
<1>3. CASE ArpProbe \/ IcmpProbe
  BY <1>2, <1>3 DEF ArpProbe, IcmpProbe
<1>4. CASE SockProbe
  BY <1>2, <1>4 DEF SockProbe
<1>5. CASE ArpReturned \/ ArpByHand \/ ArpOverheard \/ IcmpReturned
  BY <1>2, <1>5 DEF ArpReturned, ArpByHand, ArpOverheard, IcmpReturned
<1>6. CASE UdpReturned
  BY <1>2, <1>6 DEF UdpReturned
<1>7. CASE TcpReturned
  BY <1>2, <1>7 DEF TcpReturned
<1>8. CASE Destroy \/ Record
  BY <1>2, <1>8 DEF Destroy, Record
<1> QED
  BY <1>3, <1>4, <1>5, <1>6, <1>7, <1>8

LEMMA DriversCount ==
  ASSUME ArpNetwork \/ NicSends \/ NicReceives \/ IcmpNetwork \/ SockDriver
  PROVE  StepsLeft' = StepsLeft
<1>1. UNCHANGED <<stage, icmp, attempt, arp, io, result, clock>>
  <2>1. CASE ArpNetwork
    BY <2>1 DEF ArpNetwork, ArpKept, ArpReply, ArpGiveUp, icmpVars, ioVars, probeVars
  <2>4. CASE NicSends \/ NicReceives
    BY <2>4 DEF NicSends, NicReceives, ArpKept, arpVars, icmpVars, ioVars, probeVars
  <2>2. CASE IcmpNetwork
    BY <2>2 DEF IcmpNetwork, IcmpDriver, IcmpDeliver, arpVars, ioVars, probeVars
  <2>3. CASE SockDriver
    BY <2>3 DEF SockDriver, SockKept, Complete, arpVars, icmpVars, probeVars
  <2> QED
    BY <2>1, <2>2, <2>3, <2>4
<1>2. ArpLeft' = ArpLeft /\ IcmpLeft' = IcmpLeft /\ IoLeft' = IoLeft
  BY <1>1 DEF ArpLeft, IcmpLeft, IoLeft
<1> QED
  BY <1>1, <1>2 DEF StepsLeft

\* An echo probe takes at most 27 steps of its own, whatever the drivers and the
\* network do or omit: each step of the program, the expiry of a timer among them,
\* uses one up, and nobody else gives one back.  Between two probes there are none.
THEOREM ProbesAreBounded ==
  Spec => /\ [](StepsLeft \in 0..27)
          /\ [][EveryStepCounts]_vars
<1>1. Init => Probing /\ Awaited
  BY ProbingInit DEF Init, IoInit, Awaited
<1>2. Probing /\ Awaited /\ [Next]_vars =>
        Probing' /\ Awaited' /\ (EveryStepCounts \/ UNCHANGED vars)
  BY ProbingStep, AwaitedStep, CallersCount, StagesCount, DriversCount DEF EveryStepCounts, Program
<1>3. Probing => StepsLeft \in 0..27
  BY StepsLeftIs
<1> QED
  BY <1>1, <1>2, <1>3, PTL DEF Spec

=============================================================================
