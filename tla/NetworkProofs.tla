----------------------------- MODULE NetworkProofs -----------------------------
(***************************************************************************)
(* What the layer 3 tests may conclude, for every range of payloads, every *)
(* number of pings and whatever the network and the drivers do.  The       *)
(* inductive invariant Testing says where each driver can be busy          *)
(* (Located), how far a test of several pings is (Counted), what the       *)
(* search for the MTU has learnt (Bracketed), and that the replies a test  *)
(* has counted are those the network has given it (Told): all of them but  *)
(* the one the present ping is about to return.                            *)
(***************************************************************************)
EXTENDS NetworkTests, TLAPS, FiniteSetTheorems

\* The steps of the children of the ARP and IP4 drivers.
ArpStep ==
  ArpOpen \/ ArpOpenFails \/ ArpCaller \/ ArpDriver \/ ArpConsume \/ UNCHANGED arpVars

IcmpStep(once) ==
  \/ IcmpOpen \/ IcmpCaller(once, TRUE) \/ IcmpDriver \/ IcmpConsume
  \/ \E message \in Received : IcmpDeliver(message)
  \/ UNCHANGED icmpVars

\* What a driver has: nothing but what the caller is about to withdraw.
ArpOwned ==
  /\ request # "none" => arp \notin {"idle", "asking"}
  /\ arp \in {"asking", "polling"} => resolved = "none"

IcmpOwned ==
  /\ tx # "none" => icmp \notin {"idle", "built"}
  /\ rx # "none" => icmp \in {"listening", "cancelling"}
  /\ outcome # "none" => icmp \in {"closing", "withdrawing", "idle"}

\* The counter of transmissions in C; no attempt is begun beyond the last.
IcmpCounted ==
  /\ attempt \in 0..Attempts
  /\ icmp \in {"sending", "stalled", "sent", "again"} => attempt < Attempts

Resolving == {"resolve", "arp", "rawask", "rawarp"}
Pinging == Resolving \cup {"ping", "ip4", "hop", "raw", "overhear", "answered"}
Several == {"IcmpSweep", "TtlHopDiscovery"}

Located ==
  /\ icmp # "idle" \/ outcome # "none" => stage \in {"ip4", "header"}
  /\ arp # "idle" \/ resolved # "none" => stage \in {"arp", "claim"}
  /\ stage = "header" => test = "IpHeaderValid"
  /\ stage \in {"claim", "listen"} => test = "DuplicateIp"
  /\ stage \in Resolving => test \in Pings \cup {"RoutingTable"}
  /\ stage \in Pinging \ Resolving => test \in Pings
  /\ stage = "start" => test \notin Pings
  /\ stage = "evaluate" => test \in Several \cup {"MtuPathDiscovery"}
  /\ stage = "answered" => status # "none"

Placed == ArpOwned /\ IcmpOwned /\ IcmpCounted /\ Located

\* A ping is under way for a round that there is.
Counted == stage \in Pinging /\ test \in Several => round < Rounds

\* The sizes below lo were answered or lie below the range, the one above hi
\* was not or lies above it; the search goes on while there is one between.
Bracketed ==
  test = "MtuPathDiscovery" =>
    /\ search.lo <= search.hi + 1
    /\ stage \in Pinging => search.lo <= search.hi
    /\ stage \in {"evaluate", "rest"} => search.lo = search.hi + 1
    /\ IF search.best = 0 THEN search.lo = MinPayload
       ELSE search.lo = search.best + 1 /\ search.best \in fits
    /\ search.hi # MaxPayload => search.hi + 1 \in fails

\* A message of one of these types has been received, and not yet been counted.
Coming(types) ==
  \/ stage = "answered" /\ status \in types
  \/ stage = "ip4" /\ outcome \in types
  \/ stage = "ip4" /\ icmp = "listening" /\ rx \in types

EchoDue == IF Coming({"echo"}) THEN 1 ELSE 0
MessageDue == IF Coming(Messages) THEN 1 ELSE 0

\* What is received was asked for: by a request of this very ping.
Sent == stage = "overhear" \/ tx = "sent" \/ Coming(Messages)
RequestDue == IF Sent THEN 1 ELSE 0
Hits == IF test = "MtuPathDiscovery" THEN Cardinality(fits) ELSE replies

\* The IP4 driver is listened to after it has sent the request.
Heeded == stage = "ip4" /\ icmp \in {"listening", "cancelling"} => tx = "sent"

Asked ==
  /\ test \in Pings => Hits + RequestDue <= asked
  /\ test \notin Several => replies = 0
  /\ test # "MtuPathDiscovery" => fits = {}
  /\ IsFiniteSet(fits)
  /\ Heeded

ToldPinging ==
  stage \in Pinging =>
    /\ test \in {"IcmpEcho", "IpFragmentation"} => echoed = EchoDue /\ heard = MessageDue
    /\ test = "IcmpSweep" => echoed = replies + EchoDue
    /\ test = "TtlHopDiscovery" => echoed = EchoDue /\ heard = replies + MessageDue
    /\ test = "MtuPathDiscovery" =>
         IF search.best = 0 THEN echoed = EchoDue ELSE echoed > 0

ToldEvaluate ==
  stage = "evaluate" =>
    /\ test = "IcmpSweep" => echoed = replies
    /\ test = "TtlHopDiscovery" =>
         /\ echoed = (IF status = "echo" THEN 1 ELSE 0) /\ heard = replies
         /\ status = "echo" => replies > 0
    /\ test = "MtuPathDiscovery" => (search.best = 0 <=> echoed = 0)

\* Nobody has answered before the address was asked for.
ToldClaims ==
  /\ test \in {"RoutingTable", "DuplicateIp"} /\ stage # "rest" => claims = {}
  /\ test = "RoutingTable" /\ stage \in Resolving => setup.gateway = "near"

\* The header test has heard the packet it is about to judge, and asked nobody
\* where it has no child or no memory.
Headed == Messages \cup {"short"}
Barren == {"no child", "no memory"}

ToldHeader ==
  test = "IpHeaderValid" =>
    /\ stage = "start" => asked = 0 /\ heard = 0
    /\ stage = "header" =>
         /\ heard = (IF outcome \in Headed \/ (icmp = "listening" /\ rx \in Headed) THEN 1 ELSE 0)
         /\ icmp = "built" \/ outcome \in Barren => asked = 0 /\ tx = "none"
         /\ outcome # "unsent"

Told == Asked /\ ToldPinging /\ ToldEvaluate /\ ToldClaims /\ ToldHeader /\ VerdictHonest

Testing == TypeOK /\ Placed /\ Counted /\ Bracketed /\ Told

-----------------------------------------------------------------------------

LEMMA ArpTyped ==
  ASSUME ArpTypeOK, ArpStep
  PROVE  ArpTypeOK'
  BY DEF ArpTypeOK, ArpStep, ArpOpen, ArpOpenFails, ArpCaller, ArpDriver, ArpConsume, arpVars,
     ArpRequest, ArpPolled, ArpPollsSpent, ArpCloseEvent, ArpWithdraw, ArpReply, ArpGiveUp, ArpReady

LEMMA ArpLetsGo ==
  ASSUME ArpOwned, ArpStep
  PROVE  ArpOwned'
  BY DEF ArpOwned, ArpStep, ArpOpen, ArpOpenFails, ArpCaller, ArpDriver, ArpConsume, arpVars,
     ArpRequest, ArpPolled, ArpPollsSpent, ArpCloseEvent, ArpWithdraw, ArpReply, ArpGiveUp, ArpReady

LEMMA BuildIs ==
  ASSUME IcmpBuild(TRUE)
  PROVE  /\ icmp = "built" /\ rx' = rx
         /\ \/ Ends("no event") /\ attempt' = attempt /\ tx' = tx
            \/ Ends("no memory") /\ attempt' = attempt /\ tx' = tx
            \/ icmp' = "sending" /\ tx' = "unsent" /\ attempt' = 0 /\ outcome' = outcome
  BY DEF IcmpBuild, Ends

LEMMA IcmpCounts ==
  ASSUME IcmpCounted, NEW once \in BOOLEAN, IcmpStep(once)
  PROVE  IcmpCounted'
<1> USE DEF IcmpCounted, Attempts, Ends, NextAttempt
<1>1. CASE IcmpOpen \/ IcmpDriver \/ IcmpConsume \/ UNCHANGED icmpVars
  BY <1>1 DEF IcmpOpen, IcmpDriver, IcmpConsume, icmpVars
<1>2. CASE IcmpBuild(TRUE)
  <2>1. \/ icmp' = "closing" /\ attempt' = attempt
        \/ icmp' = "sending" /\ attempt' = 0
    BY <1>2, BuildIs, Zenon DEF Ends
  <2> QED
    BY <2>1
<1>3. CASE IcmpTransmit(once)
  BY <1>3 DEF IcmpTransmit
<1>6. CASE IcmpPause
  BY <1>6 DEF IcmpPause
<1>7. CASE IcmpSent(once)
  BY <1>7 DEF IcmpSent
<1>8. CASE IcmpJudge(once)
  BY <1>8 DEF IcmpJudge
<1>4. CASE IcmpHeard \/ IcmpUnheard \/ IcmpCancel \/ IcmpClose \/ IcmpWithdraw
  BY <1>4 DEF IcmpHeard, IcmpUnheard, IcmpCancel, IcmpClose, IcmpWithdraw
<1>5. CASE \E message \in Received : IcmpDeliver(message)
  BY <1>5 DEF IcmpDeliver
<1> QED
  BY <1>1, <1>2, <1>3, <1>4, <1>5, <1>6, <1>7, <1>8 DEF IcmpStep, IcmpCaller

\* Its attempt is typed by the count.
LEMMA IcmpTyped ==
  ASSUME IcmpTypeOK, IcmpCounted, NEW once \in BOOLEAN, IcmpStep(once)
  PROVE  IcmpTypeOK'
<1>0. IcmpCounted'
  BY IcmpCounts
<1> USE <1>0 DEF IcmpTypeOK, IcmpCounted, Messages, Oddities, Received, Failures, Ends, NextAttempt
<1>1. CASE IcmpOpen
  BY <1>1 DEF IcmpOpen
<1>2. CASE IcmpDriver
  BY <1>2 DEF IcmpDriver
<1>11. CASE IcmpConsume
  BY <1>11 DEF IcmpConsume
<1>12. CASE UNCHANGED icmpVars
  BY <1>12 DEF icmpVars
<1>3. CASE IcmpBuild(TRUE)
  BY <1>3, BuildIs
<1>4. CASE IcmpTransmit(once)
  BY <1>4 DEF IcmpTransmit
<1>5. CASE IcmpPause
  BY <1>5 DEF IcmpPause
<1>6. CASE IcmpSent(once)
  BY <1>6 DEF IcmpSent
<1>7. CASE IcmpJudge(once)
  BY <1>7 DEF IcmpJudge
<1>8. CASE IcmpHeard \/ IcmpUnheard
  BY <1>8 DEF IcmpHeard, IcmpUnheard
<1>9. CASE IcmpCancel \/ IcmpClose \/ IcmpWithdraw
  BY <1>9 DEF IcmpCancel, IcmpClose, IcmpWithdraw
<1>10. CASE \E message \in Received : IcmpDeliver(message)
  BY <1>10 DEF IcmpDeliver
<1> QED
  BY <1>1, <1>2, <1>3, <1>4, <1>5, <1>6, <1>7, <1>8, <1>9, <1>10, <1>11, <1>12
  DEF IcmpStep, IcmpCaller

LEMMA IcmpLetsGo ==
  ASSUME IcmpOwned, NEW once \in BOOLEAN, IcmpStep(once)
  PROVE  IcmpOwned'
<1> USE DEF IcmpOwned, Ends, NextAttempt
<1>1. CASE IcmpOpen \/ IcmpDriver \/ IcmpConsume \/ UNCHANGED icmpVars
  BY <1>1 DEF IcmpOpen, IcmpDriver, IcmpConsume, icmpVars
<1>2. CASE IcmpBuild(TRUE) \/ IcmpTransmit(once) \/ IcmpPause
  BY <1>2 DEF IcmpBuild, IcmpTransmit, IcmpPause
<1>3. CASE IcmpSent(once) \/ IcmpJudge(once)
  BY <1>3 DEF IcmpSent, IcmpJudge
<1>4. CASE IcmpHeard \/ IcmpUnheard \/ IcmpCancel \/ IcmpClose \/ IcmpWithdraw
  BY <1>4 DEF IcmpHeard, IcmpUnheard, IcmpCancel, IcmpClose, IcmpWithdraw
<1>5. CASE \E message \in Received : IcmpDeliver(message)
  BY <1>5 DEF IcmpDeliver
<1> QED
  BY <1>1, <1>2, <1>3, <1>4, <1>5 DEF IcmpStep, IcmpCaller

-----------------------------------------------------------------------------
(* The parts *)

LEMMA Parts ==
  ASSUME Next
  PROVE  ArpStep /\ \E once \in BOOLEAN : IcmpStep(once)
<1> USE DEF ArpStep, IcmpStep, pingVars
<1>1. CASE Ip4Caller
  <2>1. CASE stage = "header"
    BY <1>1, <2>1 DEF Ip4Caller
  <2>2. CASE stage # "header"
    BY <1>1, <2>2 DEF Ip4Caller
  <2> QED
    BY <2>1, <2>2
<1>2. CASE Ip4Driver \/ Ip4Deliver \/ Driver
  BY <1>2 DEF Ip4Driver, Ip4Deliver, Driver
<1>3. CASE \E t \in Tests : Begin(t)
  BY <1>3 DEF Begin
<1>4. CASE PingIp4 \/ PingNoIp4 \/ PingByIp4 \/ Hop \/ PingByHand \/ Overhear
  BY <1>4 DEF PingIp4, PingNoIp4, PingByIp4, Hop, PingByHand, Overhear
<1>5. CASE Resolution
  BY <1>5 DEF Resolution, Resolve, Caller, ResolveByDriver, ResolveByHand
<1>6. CASE React \/ Evaluate
  BY <1>6 DEF React, Evaluate
<1>7. CASE Alone
  BY <1>7 DEF Alone, LookOnly, HeaderStart, HeaderReturn, Route, Claim, ClaimAnswered, ClaimOverheard
<1> QED
  BY <1>1, <1>2, <1>3, <1>4, <1>5, <1>6, <1>7 DEF Next, Program, Firmware, Ping

LEMMA PartsKept ==
  ASSUME TypeOK, Placed, Next
  PROVE  (ArpTypeOK /\ IcmpTypeOK /\ ArpOwned /\ IcmpOwned /\ IcmpCounted)'
  BY Parts, ArpTyped, IcmpTyped, ArpLetsGo, IcmpLetsGo, IcmpCounts DEF TypeOK, Placed

LEMMA LocatedKept ==
  ASSUME TypeOK, Placed, Next
  PROVE  Located'
<1> USE DEF Placed, Located, Resolving, Pinging, Several, Tests, Pings, Goto, Return, Answer, testVars,
        pingVars, arpVars, icmpVars
<1>1. CASE \E t \in Tests : Begin(t)
  BY <1>1 DEF Begin
<1>2. CASE PingIp4 \/ PingNoIp4
  BY <1>2 DEF PingIp4, PingNoIp4, IcmpOpen
<1>3. CASE PingByIp4
  BY <1>3 DEF PingByIp4, IcmpConsume, Messages
<1>4. CASE Hop \/ PingByHand \/ Overhear
  BY <1>4 DEF Hop, PingByHand, Overhear, Messages
<1>5. CASE Ip4Caller
  BY <1>5 DEF Ip4Caller, IcmpCaller, IcmpBuild, IcmpTransmit, IcmpPause, IcmpSent, IcmpJudge,
     IcmpHeard, IcmpUnheard, IcmpCancel, IcmpClose, IcmpWithdraw
<1>6. CASE Ip4Driver \/ Ip4Deliver
  BY <1>6 DEF Ip4Driver, Ip4Deliver, IcmpDriver, IcmpDeliver
<1>7. CASE Driver \/ Caller
  BY <1>7 DEF Driver, Caller, ArpDriver, ArpReply, ArpGiveUp, ArpCaller, ArpRequest, ArpPolled,
     ArpPollsSpent, ArpCloseEvent, ArpWithdraw, ArpOwned
<1>8. CASE Resolve
  BY <1>8 DEF Resolve, ByHand, Resolved, ArpOpen, ArpOpenFails
<1>9. CASE ResolveByDriver
  BY <1>9 DEF ResolveByDriver, ByHand, Resolved, ArpConsume
<1>10. CASE ResolveByHand
  BY <1>10 DEF ResolveByHand, Resolved
<1>11. CASE React
  BY <1>11 DEF React, Single, Sweep, Ttl, Mtu, NextRound
<1>12. CASE Evaluate
  BY <1>12 DEF Evaluate
<1>13. CASE LookOnly \/ HeaderStart \/ HeaderReturn \/ Route
  BY <1>13 DEF LookOnly, HeaderStart, HeaderReturn, Route, IcmpOpen, IcmpConsume
<1>14. CASE Claim \/ ClaimAnswered \/ ClaimOverheard
  BY <1>14 DEF Claim, ClaimAnswered, ClaimOverheard, ArpOpen, ArpOpenFails, ArpConsume
<1> QED
  BY <1>1, <1>2, <1>3, <1>4, <1>5, <1>6, <1>7, <1>8, <1>9, <1>10, <1>11, <1>12, <1>13, <1>14
  DEF Next, Program, Firmware, Ping, Resolution, Alone

-----------------------------------------------------------------------------
(* The counters and the search *)

\* Any other step leaves the test where it is in its rounds and its search.
Within ==
  /\ UNCHANGED <<setup, test, round, replies, search, fits, fails>>
  /\ test \in Pings => /\ stage' \in Pinging <=> stage \in Pinging
                       /\ stage' \in {"evaluate", "rest"} <=> stage \in {"evaluate", "rest"}

LEMMA Shape ==
  ASSUME TypeOK, Placed, Next
  PROVE  (\E t \in Tests : Begin(t)) \/ React \/ Within
<1> USE DEF Placed, Located, Resolving, Pinging, Several, Within, Tests, Pings, Goto, Return, Answer,
        testVars
<1>1. CASE PingIp4 \/ PingNoIp4 \/ PingByIp4
  BY <1>1 DEF PingIp4, PingNoIp4, PingByIp4, Messages
<1>2. CASE Hop \/ PingByHand \/ Overhear
  BY <1>2 DEF Hop, PingByHand, Overhear
<1>3. CASE Ip4Caller \/ Ip4Driver \/ Ip4Deliver \/ Driver \/ Caller
  BY <1>3 DEF Ip4Caller, Ip4Driver, Ip4Deliver, Driver, Caller
<1>4. CASE Resolve
  BY <1>4 DEF Resolve, ByHand, Resolved
<1>5. CASE ResolveByDriver
  BY <1>5 DEF ResolveByDriver, ByHand, Resolved
<1>6. CASE ResolveByHand
  BY <1>6 DEF ResolveByHand, Resolved
<1>7. CASE Evaluate
  BY <1>7 DEF Evaluate
<1>8. CASE Alone
  BY <1>8 DEF Alone, LookOnly, HeaderStart, HeaderReturn, Route, Claim, ClaimAnswered, ClaimOverheard
<1> QED
  BY <1>1, <1>2, <1>3, <1>4, <1>5, <1>6, <1>7, <1>8 DEF Next, Program, Firmware, Ping, Resolution

RoundTyped == round \in 0..Rounds /\ replies \in 0..round

LEMMA CountKept ==
  ASSUME TypeOK, Placed, Counted, Next
  PROVE  (RoundTyped /\ Counted)'
<1> USE CountAssumption, MaxTtlAssumption DEF TypeOK, Counted, RoundTyped, Rounds, Pinging, Resolving, Several
<1>1. CASE \E t \in Tests : Begin(t)
  BY <1>1 DEF Begin
<1>2. CASE React
  BY <1>2 DEF React, Single, Sweep, Ttl, Mtu, NextRound, Return
<1>3. CASE Within
  BY <1>3 DEF Within, Pings
<1> QED
  BY <1>1, <1>2, <1>3, Shape

Searches == [lo : MinPayload..(MaxPayload + 1), hi : (MinPayload - 1)..MaxPayload,
             best : {0} \cup Sizes]

LEMMA SearchKept ==
  ASSUME TypeOK, Placed, Bracketed, Next
  PROVE  /\ Bracketed'
         /\ search' \in Searches
         /\ fits' \subseteq Sizes /\ fails' \subseteq Sizes
<1> USE PayloadAssumption
<1>0. search \in Searches /\ fits \subseteq Sizes /\ fails \subseteq Sizes
  BY DEF TypeOK, Searches
<1>1. CASE \E t \in Tests : Begin(t)
  BY <1>1 DEF Begin, Bracketed, Searches, Sizes, Pings, Pinging, Resolving
<1>2. CASE React
  <2>1. CASE Mtu
    <3>1. /\ stage \in Pinging /\ test = "MtuPathDiscovery"
          /\ search.lo \in Sizes /\ search.hi \in Sizes /\ search.lo <= search.hi
      BY <1>0, <1>2, <2>1 DEF React, Mtu, Bracketed, Pinging, Searches, Sizes
    <3>2. Mid \in Sizes /\ search.lo <= Mid /\ Mid <= search.hi
      BY <3>1 DEF Mid, Sizes
    <3>3. /\ test' = test
          /\ stage' = IF search'.lo <= search'.hi THEN "ping" ELSE "evaluate"
      BY <2>1 DEF Mtu
    <3>4. CASE status = "echo"
      <4>1. /\ search' = [search EXCEPT !.best = Mid, !.lo = Mid + 1]
            /\ fits' = fits \cup {Mid} /\ fails' = fails
        BY <2>1, <3>4 DEF Mtu, NextSize
      <4>2. search'.lo = Mid + 1 /\ search'.hi = search.hi /\ search'.best = Mid
        BY <1>0, <4>1 DEF Searches
      <4>3. Mid + 1 \in MinPayload..(MaxPayload + 1) /\ Mid \in {0} \cup Sizes
        BY <3>2 DEF Sizes
      <4>4. search' \in Searches
        BY <1>0, <4>1, <4>3 DEF Searches
      <4>5. search'.best # 0 /\ search'.lo = search'.best + 1 /\ search'.best \in fits'
        BY <3>2, <4>1, <4>2 DEF Sizes
      <4>6. Bracketed'
        BY <3>1, <3>2, <3>3, <4>1, <4>2, <4>5 DEF Bracketed, Pinging, Resolving, Sizes
      <4> QED
        BY <1>0, <3>2, <4>1, <4>4, <4>6
    <3>5. CASE status # "echo"
      <4>1. /\ search' = [search EXCEPT !.hi = Mid - 1]
            /\ fits' = fits /\ fails' = fails \cup {Mid}
        BY <2>1, <3>5 DEF Mtu, NextSize
      <4>2. search'.lo = search.lo /\ search'.hi = Mid - 1 /\ search'.best = search.best
        BY <1>0, <4>1 DEF Searches
      <4>3. search' \in Searches
        BY <1>0, <3>1, <3>2, <4>1 DEF Searches, Sizes
      <4>4. IF search'.best = 0 THEN search'.lo = MinPayload
            ELSE search'.lo = search'.best + 1 /\ search'.best \in fits'
        BY <3>1, <4>1, <4>2 DEF Bracketed
      <4>5. Bracketed'
        BY <3>1, <3>2, <3>3, <4>1, <4>2, <4>4 DEF Bracketed, Pinging, Resolving, Sizes
      <4> QED
        BY <1>0, <3>2, <4>1, <4>3, <4>5
    <3> QED
      BY <3>4, <3>5
  <2>2. CASE Single \/ Sweep \/ Ttl
    BY <1>0, <2>2 DEF Single, Sweep, Ttl, NextRound, Return, Bracketed
  <2> QED
    BY <1>2, <2>1, <2>2 DEF React
<1>3. CASE Within
  BY <1>0, <1>3 DEF Within, Bracketed, Pings
<1> QED
  BY <1>1, <1>2, <1>3, Shape

-----------------------------------------------------------------------------
(* The types *)

Statuses == {"none", "TIMEOUT", "NOT_READY"} \cup Messages
Verdicts == {"none", "PASS", "WARN", "FAIL", "SKIP", "ERROR"}
Stages == {"rest", "start", "ip4", "ping", "hop", "resolve", "arp", "rawask", "rawarp", "raw",
           "overhear", "answered", "evaluate", "header", "claim", "listen"}

LEMMA JudgedTyped ==
  ASSUME TypeOK, Placed, stage = "evaluate"
  PROVE  Judged \in Verdicts
<1> USE CountAssumption, PayloadAssumption DEF Verdicts
<1>1. test \in Several \cup {"MtuPathDiscovery"}
  BY DEF Placed, Located
<1>2. CASE test = "IcmpSweep"
  <2>1. replies \in 0..Count
    BY <1>2 DEF TypeOK, Rounds
  <2> QED
    BY <1>2, <2>1 DEF Judged
<1>3. CASE test = "TtlHopDiscovery"
  <2>1. replies \in Nat
    BY <1>3, MaxTtlAssumption DEF TypeOK, Rounds
  <2> QED
    BY <1>3, <2>1 DEF Judged
<1>4. CASE test = "MtuPathDiscovery"
  <2>1. search.best \in 0..MaxPayload
    BY DEF TypeOK, Sizes
  <2> QED
    BY <1>4, <2>1 DEF Judged
<1> QED
  BY <1>1, <1>2, <1>3, <1>4 DEF Several

LEMMA WordsTyped ==
  ASSUME TypeOK, Placed, Next
  PROVE  /\ setup' \in Setups /\ test' \in Tests
         /\ stage' \in Stages /\ status' \in Statuses /\ verdict' \in Verdicts
<1> USE DEF TypeOK, Stages, Statuses, Verdicts, Goto, Return, Answer, testVars
<1>1. CASE \E t \in Tests : Begin(t)
  BY <1>1 DEF Begin
<1>2. CASE PingIp4 \/ PingNoIp4 \/ PingByIp4
  BY <1>2 DEF PingIp4, PingNoIp4, PingByIp4
<1>3. CASE Hop \/ PingByHand \/ Overhear
  BY <1>3 DEF Hop, PingByHand, Overhear
<1>4. CASE Ip4Caller \/ Ip4Driver \/ Ip4Deliver \/ Driver \/ Caller
  BY <1>4 DEF Ip4Caller, Ip4Driver, Ip4Deliver, Driver, Caller
<1>5. CASE Resolve
  BY <1>5 DEF Resolve, ByHand, Resolved
<1>6. CASE ResolveByDriver
  BY <1>6 DEF ResolveByDriver, ByHand, Resolved
<1>7. CASE ResolveByHand
  BY <1>7 DEF ResolveByHand, Resolved
<1>8. CASE React
  <2>1. CASE Single
    BY <2>1, <1>8 DEF React, Single, Placed, Located, Messages
  <2>2. CASE Sweep \/ Ttl \/ Mtu
    BY <2>2 DEF Sweep, Ttl, Mtu, NextRound
  <2> QED
    BY <1>8, <2>1, <2>2 DEF React
<1>9. CASE Evaluate
  BY <1>9, JudgedTyped DEF Evaluate
<1>10. CASE LookOnly
  BY <1>10 DEF LookOnly
<1>11. CASE HeaderStart \/ Route
  BY <1>11 DEF HeaderStart, Route
<1>12. CASE HeaderReturn
  BY <1>12 DEF HeaderReturn, HeaderVerdicts
<1>13. CASE Claim
  BY <1>13 DEF Claim
<1>14. CASE ClaimAnswered \/ ClaimOverheard
  BY <1>14 DEF ClaimAnswered, ClaimOverheard
<1> QED
  BY <1>1, <1>2, <1>3, <1>4, <1>5, <1>6, <1>7, <1>8, <1>9, <1>10, <1>11, <1>12, <1>13, <1>14
  DEF Next, Program, Firmware, Ping, Resolution, Alone

WireTyped ==
  /\ owed \in 0..MaxOwed
  /\ asked \in Nat /\ heard \in Nat /\ echoed \in Nat

\* What can happen to the counters of the wire.
WireStep ==
  \/ UNCHANGED <<owed, asked, heard, echoed>>
  \/ UNCHANGED owed /\ asked' = 0 /\ heard' = 0 /\ echoed' = 0
  \/ (\E w \in BOOLEAN : Leaves(w)) /\ UNCHANGED <<heard, echoed>>
  \/ (\E m \in Received, l \in BOOLEAN : Arrives(m, l)) /\ UNCHANGED asked

LEMMA WireSteps ==
  ASSUME Next
  PROVE  WireStep
<1> USE DEF WireStep, wireVars
<1>1. CASE \E t \in Tests : Begin(t)
  BY <1>1, Zenon DEF Begin
<1>2. CASE PingIp4 \/ PingNoIp4 \/ PingByIp4 \/ Hop
  BY <1>2, Zenon DEF PingIp4, PingNoIp4, PingByIp4, Hop
<1>3. CASE PingByHand
  BY <1>3, Zenon DEF PingByHand
<1>4. CASE Overhear
  BY <1>4, Zenon DEF Overhear, Received
<1>5. CASE Ip4Caller \/ Driver \/ Caller
  BY <1>5, Zenon DEF Ip4Caller, Driver, Caller
<1>6. CASE Ip4Driver
  BY <1>6, Zenon DEF Ip4Driver
<1>7. CASE Ip4Deliver
  BY <1>7, Zenon DEF Ip4Deliver
<1>8. CASE Resolve \/ ResolveByDriver \/ ResolveByHand
  BY <1>8, Zenon DEF Resolve, ResolveByDriver, ResolveByHand
<1>9. CASE React \/ Evaluate
  BY <1>9, Zenon DEF React, Evaluate
<1>10. CASE Alone
  BY <1>10, Zenon DEF Alone, LookOnly, HeaderStart, HeaderReturn, Route, Claim, ClaimAnswered,
     ClaimOverheard
<1> QED
  BY <1>1, <1>2, <1>3, <1>4, <1>5, <1>6, <1>7, <1>8, <1>9, <1>10
  DEF Next, Program, Firmware, Ping, Resolution

LEMMA WireKept ==
  ASSUME TypeOK, Next
  PROVE  WireTyped'
<1> USE MaxOwedAssumption DEF TypeOK, WireTyped
<1>1. CASE \E w \in BOOLEAN : Leaves(w) /\ UNCHANGED <<heard, echoed>>
  BY <1>1 DEF Leaves
<1>2. CASE \E m \in Received, l \in BOOLEAN : Arrives(m, l) /\ UNCHANGED asked
  BY <1>2 DEF Arrives
<1>3. CASE \/ UNCHANGED <<owed, asked, heard, echoed>>
           \/ UNCHANGED owed /\ asked' = 0 /\ heard' = 0 /\ echoed' = 0
  BY <1>3
<1> QED
  BY <1>1, <1>2, <1>3, WireSteps DEF WireStep

LEMMA ClaimsTyped ==
  ASSUME TypeOK, Next
  PROVE  claims' \subseteq {"gateway", "other", "own", "rival", "nobody"}
  BY DEF TypeOK, Next, Program, Firmware, Ping, Resolution, Alone, Begin, PingIp4, PingNoIp4, PingByIp4,
     Hop, PingByHand, Overhear, Ip4Caller, Ip4Driver, Ip4Deliver, Driver, Caller, Resolve, ResolveByDriver,
     ResolveByHand, React, Evaluate, LookOnly, HeaderStart, HeaderReturn, Route, Claim, ClaimAnswered,
     ClaimOverheard, wireVars

LEMMA TypeKept ==
  ASSUME TypeOK, Placed, Counted, Bracketed, Next
  PROVE  TypeOK'
<1>1. WireTyped' /\ RoundTyped'
  BY WireKept, CountKept
<1>2. /\ search' \in Searches
      /\ fits' \subseteq Sizes /\ fails' \subseteq Sizes
  BY SearchKept
<1>3. (ArpTypeOK /\ IcmpTypeOK)'
  BY PartsKept
<1> QED
  BY <1>1, <1>2, <1>3, WordsTyped, ClaimsTyped, Zenon
  DEF TypeOK, WireTyped, RoundTyped, Searches, Stages, Statuses, Verdicts

-----------------------------------------------------------------------------
(* What is told *)

Quiet ==
  /\ UNCHANGED <<asked, heard, echoed>>
  /\ Sent' => Sent
  /\ Coming({"echo"})' <=> Coming({"echo"})
  /\ Coming(Messages)' <=> Coming(Messages)

Departed ==
  /\ asked' = asked + 1 /\ UNCHANGED <<heard, echoed>>
  /\ Coming({"echo"})' <=> Coming({"echo"})
  /\ Coming(Messages)' <=> Coming(Messages)

Got(message) ==
  /\ asked' = asked /\ Sent
  /\ heard' = heard + 1 /\ ~Coming(Messages) /\ Coming(Messages)'
  /\ echoed' = (IF message = "echo" THEN echoed + 1 ELSE echoed)
  /\ ~Coming({"echo"}) /\ (Coming({"echo"})' <=> message = "echo")

Passed == Quiet \/ Departed \/ \E message \in Messages : Got(message)

\* Without a child of the IP4 driver there is nothing in it.
LEMMA IcmpAway ==
  ASSUME Placed, stage \notin {"ip4", "header"}
  PROVE  icmp = "idle" /\ outcome = "none" /\ tx = "none" /\ rx = "none"
  BY DEF Placed, Located, IcmpOwned

\* Outside the wait for an answer nothing is coming.
LEMMA NothingComing ==
  ASSUME Placed, stage \notin {"ip4", "answered"}
  PROVE  ~Coming({"echo"}) /\ ~Coming(Messages)
  BY IcmpAway DEF Coming, Messages

\* Within a ping the request and the message pass from hand to hand; what the
\* network adds is counted as it comes.
LEMMA StepOfPing ==
  ASSUME TypeOK, Placed, Asked, test \in Pings, Next, ~(\E t \in Tests : Begin(t)), ~React
  PROVE  Passed
<1> DEFINE Still == UNCHANGED <<asked, heard, echoed>>
<1> USE DEF Passed, Goto, Answer, testVars, wireVars
<1>1. CASE PingIp4
  <2>1. Still /\ stage = "ping" /\ stage' = "ip4" /\ icmp' # "listening" /\ tx' = "none"
        /\ outcome' \in {"none", "no child"}
    BY <1>1, IcmpAway DEF PingIp4, IcmpOpen
  <2> QED
    BY <2>1, NothingComing DEF Quiet, Coming, Sent, Messages
<1>2. CASE PingNoIp4 \/ Hop
  <2>1. Still /\ stage \in {"ping", "hop"} /\ tx' = "none" /\ stage' \notin {"ip4", "overhear"}
        /\ (stage' = "answered" => status' = "NOT_READY")
    BY <1>2, IcmpAway DEF PingNoIp4, Hop, pingVars, icmpVars
  <2> QED
    BY <2>1, NothingComing DEF Quiet, Coming, Sent, Messages
<1>3. CASE PingByIp4
  <2>1. Still /\ stage = "ip4" /\ icmp = "idle" /\ icmp' = "idle" /\ tx' = "none" /\ outcome' = "none"
    BY <1>3 DEF PingByIp4, IcmpConsume, Placed, IcmpOwned
  <2>2. CASE outcome \in Messages
    <3>1. stage' = "answered" /\ status' = outcome
      BY <1>3, <2>2 DEF PingByIp4, Messages
    <3> QED
      BY <2>1, <2>2, <3>1 DEF Quiet, Coming, Sent
  <2>3. CASE outcome \notin Messages
    <3>1. stage' = "hop" \/ (stage' = "answered" /\ status' = "TIMEOUT")
      BY <1>3, <2>3 DEF PingByIp4
    <3> QED
      BY <2>1, <2>3, <3>1 DEF Quiet, Coming, Sent, Messages
  <2> QED
    BY <2>2, <2>3
<1>4. CASE PingByHand
  <2>1. stage = "raw" /\ UNCHANGED <<heard, echoed>>
        /\ \/ asked' = asked /\ stage' = "answered" /\ status' = "NOT_READY" /\ tx' = "none"
           \/ asked' = asked + 1 /\ stage' = "overhear"
    BY <1>4, IcmpAway DEF PingByHand, Leaves, pingVars, icmpVars
  <2> QED
    BY <2>1, NothingComing DEF Quiet, Departed, Coming, Sent, Messages
<1>5. CASE Overhear
  <2>1. stage = "overhear" /\ stage' = "answered" /\ asked' = asked /\ Sent
    BY <1>5 DEF Overhear, Sent
  <2>2. CASE \E message \in Messages : Arrives(message, FALSE) /\ Answer(message)
    <3>1. PICK message \in Messages : Arrives(message, FALSE) /\ Answer(message)
      BY <2>2
    <3>2. heard' = heard + 1 /\ echoed' = (IF message = "echo" THEN echoed + 1 ELSE echoed)
      BY <3>1 DEF Arrives, Heedable
    <3>3. Got(message)
      BY <2>1, <3>1, <3>2, NothingComing DEF Got, Coming
    <3> QED
      BY <3>3
  <2>3. CASE status' = "TIMEOUT" /\ UNCHANGED <<heard, echoed>>
    BY <2>1, <2>3, NothingComing DEF Quiet, Coming, Messages
  <2> QED
    BY <1>5, <2>2, <2>3 DEF Overhear
<1>6. CASE Ip4Caller
  <2>1. Still /\ UNCHANGED <<stage, status>> /\ (stage = "header" <=> FALSE) /\ IcmpCaller(stage = "header", TRUE)
    BY <1>6 DEF Ip4Caller, Placed, Located, Pings
  <2>2. CASE IcmpHeard
    <3>1. /\ icmp = "listening" /\ rx \in Received /\ outcome = "none"
          /\ icmp' = "closing" /\ outcome' = rx /\ rx' = "none" /\ tx' = tx
      BY <2>2 DEF IcmpHeard, Ends, Placed, IcmpOwned
    <3> QED
      BY <2>1, <3>1 DEF Quiet, Coming, Sent, Messages
  <2>3. CASE ~IcmpHeard
    <3>1. /\ tx' = "sent" => tx = "sent"
          /\ outcome' = outcome \/ (outcome = "none" /\ outcome' \in Failures)
          /\ icmp' = "listening" => rx' = "queued"
          /\ icmp = "listening" => rx = "queued"
      BY <2>1, <2>3
      DEF IcmpCaller, IcmpBuild, IcmpTransmit, IcmpPause, IcmpSent, IcmpJudge, IcmpUnheard, IcmpCancel,
          IcmpClose, IcmpWithdraw, Ends, Failures, NextAttempt, Placed, IcmpOwned
    <3> QED
      BY <2>1, <3>1 DEF Quiet, Coming, Sent, Messages, Failures
  <2> QED
    BY <2>2, <2>3
<1>7. CASE Ip4Driver
  <2>1. /\ UNCHANGED <<stage, status, icmp, outcome, rx, heard, echoed>>
        /\ \/ tx' = "sent" /\ asked' = asked + 1
           \/ tx' # "sent" /\ asked' = asked
    BY <1>7 DEF Ip4Driver, IcmpDriver, Leaves
  <2> QED
    BY <2>1 DEF Quiet, Departed, Coming, Sent
<1>8. CASE Ip4Deliver
  <2>1. PICK message \in Received : IcmpDeliver(message) /\ Arrives(message, icmp # "listening")
    BY <1>8 DEF Ip4Deliver
  <2>2. /\ UNCHANGED <<stage, status, icmp, outcome, tx, asked>>
        /\ rx = "queued" /\ rx' = message /\ icmp \in {"listening", "cancelling"} /\ outcome = "none"
        /\ stage = "ip4"
    BY <1>8, <2>1 DEF Ip4Deliver, IcmpDeliver, Placed, Located, IcmpOwned, Pings
  <2>3. CASE icmp = "listening" /\ message \in Messages
    <3>1. heard' = heard + 1 /\ echoed' = (IF message = "echo" THEN echoed + 1 ELSE echoed)
      BY <2>1, <2>3 DEF Arrives, Heedable
    <3>2. Sent
      BY <2>2, <2>3 DEF Sent, Asked, Heeded
    <3> QED
      BY <2>2, <2>3, <3>1, <3>2 DEF Got, Coming, Messages
  <2>4. CASE ~(icmp = "listening" /\ message \in Messages)
    <3>1. heard' = heard /\ echoed' = echoed
      BY <2>1, <2>4 DEF Arrives, Heedable, Messages, Pings
    <3> QED
      BY <2>2, <2>4, <3>1 DEF Quiet, Coming, Sent, Messages
  <2> QED
    BY <2>3, <2>4
<1>9. CASE Driver \/ Caller
  BY <1>9 DEF Driver, Caller, icmpVars, Quiet, Coming, Sent
<1>10. CASE Resolve \/ ResolveByDriver \/ ResolveByHand
  <2>1. Still /\ stage \in Resolving /\ tx' = "none"
        /\ stage' \in {"arp", "rawask", "rawarp", "raw", "rest", "answered"}
        /\ (stage' = "answered" => status' \in {"NOT_READY", "TIMEOUT"})
    BY <1>10, IcmpAway
    DEF Resolve, ResolveByDriver, ResolveByHand, ByHand, Resolved, Return, Resolving, pingVars, icmpVars
  <2> QED
    BY <2>1, NothingComing DEF Quiet, Coming, Sent, Messages, Resolving
<1>11. CASE Evaluate
  <2>1. Still /\ stage = "evaluate" /\ stage' = "rest" /\ tx' = "none"
    BY <1>11, IcmpAway DEF Evaluate, Return, pingVars, icmpVars
  <2> QED
    BY <2>1, NothingComing DEF Quiet, Coming, Sent
<1>12. ~Alone
  BY DEF Alone, LookOnly, HeaderStart, HeaderReturn, Route, Claim, ClaimAnswered, ClaimOverheard,
     Placed, Located, Pings
<1> QED
  BY <1>1, <1>2, <1>3, <1>4, <1>5, <1>6, <1>7, <1>8, <1>9, <1>10, <1>11, <1>12
  DEF Next, Program, Firmware, Ping, Resolution

\* The next round or the end: nothing is with the driver, nothing is coming.
LEMMA AfterReact ==
  ASSUME Placed, React
  PROVE  /\ stage = "answered" /\ test \in Pings /\ test' = test /\ UNCHANGED <<asked, heard, echoed>>
         /\ stage' \in {"ping", "evaluate", "rest"} /\ ~Sent'
         /\ ~Coming({"echo"})' /\ ~Coming(Messages)'
<1>1. /\ stage = "answered" /\ test \in Pings /\ test' = test /\ UNCHANGED <<asked, heard, echoed>>
      /\ stage' \in {"ping", "evaluate", "rest"} /\ tx' = "none"
  BY IcmpAway
  DEF React, Single, Sweep, Ttl, Mtu, NextRound, Return, wireVars, pingVars, icmpVars, Placed, Located,
      Pinging, Resolving
<1> QED
  BY <1>1 DEF Sent, Coming

LEMMA HeededKept ==
  ASSUME TypeOK, Placed, Heeded, Next
  PROVE  Heeded'
<1> USE DEF Heeded
<1>1. CASE Ip4Caller
  <2>1. CASE stage = "ip4"
    <3>1. stage' = "ip4" /\ (stage = "header" <=> FALSE) /\ IcmpCaller(stage = "header", TRUE)
      BY <1>1, <2>1 DEF Ip4Caller, testVars
    <3> QED
      BY <2>1, <3>1
      DEF IcmpCaller, IcmpBuild, IcmpTransmit, IcmpPause, IcmpSent, IcmpJudge, IcmpHeard, IcmpUnheard,
          IcmpCancel, IcmpClose, IcmpWithdraw, Ends, NextAttempt
  <2>2. CASE stage # "ip4"
    BY <1>1, <2>2 DEF Ip4Caller, testVars
  <2> QED
    BY <2>1, <2>2
<1>2. CASE Ip4Driver \/ Ip4Deliver \/ Driver \/ Caller
  BY <1>2 DEF Ip4Driver, Ip4Deliver, Driver, Caller, IcmpDriver, IcmpDeliver, testVars, icmpVars
<1>3. CASE PingIp4
  BY <1>3, IcmpAway DEF PingIp4, IcmpOpen
<1>4. CASE ~(Ip4Caller \/ Ip4Driver \/ Ip4Deliver \/ Driver \/ Caller \/ PingIp4)
  <2>1. stage' # "ip4"
    BY <1>4
    DEF Next, Program, Firmware, Ping, Resolution, Alone, Begin, Pings, PingNoIp4, PingByIp4, Hop,
        PingByHand, Overhear, Resolve, ResolveByDriver, ResolveByHand, ByHand, Resolved, React, Single,
        Sweep, Ttl, Mtu, NextRound, Evaluate, LookOnly, HeaderStart, HeaderReturn, Route, Claim,
        ClaimAnswered, ClaimOverheard, Goto, Return, Answer
  <2> QED
    BY <2>1
<1> QED
  BY <1>1, <1>2, <1>3, <1>4

LEMMA StillCovered ==
  ASSUME NEW h \in Nat, NEW d \in {0, 1}, NEW e \in {0, 1}, NEW a \in Nat, NEW b \in Nat,
         h + d <= a,
         \/ b = a /\ e <= d
         \/ b = a + 1
  PROVE  h + e <= b
  OBVIOUS

LEMMA AskedKept ==
  ASSUME TypeOK, Placed, Asked, Next
  PROVE  Asked'
<1>1. Heeded'
  BY HeededKept DEF Asked
<1>2. CASE \E t \in Tests : Begin(t)
  <2>1. /\ asked' = 0 /\ replies' = 0 /\ fits' = {} /\ tx' = "none"
        /\ stage' \in {"ping", "start"}
    BY <1>2, IcmpAway DEF Begin, pingVars, icmpVars
  <2>2. Hits' = 0 /\ RequestDue' = 0
    BY <2>1, FS_EmptySet DEF Hits, RequestDue, Sent, Coming
  <2> QED
    BY <1>1, <2>1, <2>2, FS_EmptySet DEF Asked
<1>3. CASE React
  <2>1. RequestDue' = 0 /\ RequestDue \in {0, 1} /\ test' = test /\ asked' = asked
        /\ asked \in Nat /\ replies \in Nat /\ test \in Pings
    BY <1>3, AfterReact DEF RequestDue, TypeOK
  <2>2. status \in Messages => RequestDue = 1
    BY <1>3, AfterReact DEF RequestDue, Sent, Coming
  <2>3. CASE Single
    BY <1>1, <2>1, <2>3 DEF Single, Return, Asked, Hits
  <2>4. CASE Sweep \/ Ttl
    BY <1>1, <2>1, <2>2, <2>4 DEF Sweep, Ttl, NextRound, Asked, Hits, Replied, Several, Pings, Messages
  <2>5. CASE Mtu
    <3>1. fits' = fits \/ (status = "echo" /\ fits' = fits \cup {Mid})
      BY <2>5 DEF Mtu
    <3>2. IsFiniteSet(fits) /\ Cardinality(fits) \in Nat
      BY FS_CardinalityType DEF Asked
    <3>3. /\ IsFiniteSet(fits')
          /\ Cardinality(fits') \in Nat
          /\ Cardinality(fits') <= Cardinality(fits) + RequestDue
      BY <2>1, <2>2, <3>1, <3>2, FS_AddElement DEF Messages
    <3>4. test = "MtuPathDiscovery" /\ replies' = replies
      BY <2>5 DEF Mtu
    <3> QED
      BY <1>1, <2>1, <3>2, <3>3, <3>4 DEF Asked, Hits
  <2> QED
    BY <1>3, <2>3, <2>4, <2>5 DEF React
<1>4. CASE Within /\ test \in Pings /\ ~React /\ ~(\E t \in Tests : Begin(t))
  <2>1. Passed
    BY <1>4, StepOfPing
  <2>2. /\ RequestDue \in {0, 1} /\ asked \in Nat /\ asked' \in Nat
        /\ \/ asked' = asked /\ RequestDue' <= RequestDue
           \/ asked' = asked + 1 /\ RequestDue' <= 1
    BY <2>1 DEF Passed, Quiet, Departed, Got, RequestDue, TypeOK
  <2>3. Hits \in Nat /\ Hits' = Hits
    BY <1>4, FS_CardinalityType DEF Hits, Within, Asked, TypeOK
  <2>4. RequestDue' \in {0, 1}
    BY DEF RequestDue
  <2>5. Hits + RequestDue <= asked
    BY <1>4 DEF Asked
  <2>6. Hits' + RequestDue' <= asked'
    BY <2>2, <2>3, <2>4, <2>5, StillCovered
  <2> QED
    BY <1>1, <1>4, <2>6 DEF Within, Asked
<1>5. CASE Within /\ test \notin Pings
  BY <1>1, <1>5 DEF Within, Asked
<1> QED
  BY <1>2, <1>3, <1>4, <1>5, Shape

\* Only an echo makes a size the best.
LEMMA BestKept ==
  ASSUME TypeOK, Bracketed, Mtu, stage = "answered"
  PROVE  search'.best = 0 <=> status # "echo" /\ search.best = 0
<1> USE PayloadAssumption
<1>0. search \in Searches
  BY DEF TypeOK, Searches
<1>1. CASE status = "echo"
  <2>1. search.lo \in Sizes /\ search.hi \in Sizes /\ search.lo <= search.hi
    BY <1>0 DEF Mtu, Bracketed, Pinging, Searches, Sizes
  <2>2. Mid # 0
    BY <2>1 DEF Mid, Sizes
  <2>3. search' = [search EXCEPT !.best = Mid, !.lo = Mid + 1]
    BY <1>1 DEF Mtu, NextSize
  <2>4. search'.best = Mid
    BY <1>0, <2>3 DEF Searches
  <2> QED
    BY <1>1, <2>2, <2>4
<1>2. CASE status # "echo"
  <2>1. search' = [search EXCEPT !.hi = Mid - 1]
    BY <1>2 DEF Mtu, NextSize
  <2>2. search'.best = search.best
    BY <1>0, <2>1 DEF Searches
  <2> QED
    BY <1>2, <2>2
<1> QED
  BY <1>1, <1>2

LEMMA PingingKept ==
  ASSUME TypeOK, Placed, Bracketed, Asked, ToldPinging, Next
  PROVE  ToldPinging'
<1> USE DEF EchoDue, MessageDue
<1>0. echoed \in Nat /\ heard \in Nat /\ replies \in Nat
  BY CountAssumption, MaxTtlAssumption DEF TypeOK, Rounds
<1>1. CASE \E t \in Tests : Begin(t)
  <2>1. /\ echoed' = 0 /\ heard' = 0 /\ replies' = 0 /\ search'.best = 0
        /\ stage' \in {"ping", "start"}
    BY <1>1 DEF Begin
  <2> QED
    BY <2>1 DEF ToldPinging, Coming
<1>2. CASE React
  <2>1. /\ stage = "answered" /\ test \in Pings /\ test' = test /\ echoed' = echoed /\ heard' = heard
        /\ ~Coming({"echo"})' /\ ~Coming(Messages)' /\ stage' \in {"ping", "evaluate", "rest"}
    BY <1>2, AfterReact
  <2>2. EchoDue' = 0 /\ MessageDue' = 0
    BY <2>1
  <2>3. /\ EchoDue = (IF status = "echo" THEN 1 ELSE 0)
        /\ MessageDue = (IF status \in Messages THEN 1 ELSE 0)
    BY <2>1 DEF Coming
  <2>4. CASE Single
    BY <2>4 DEF Single, Return, ToldPinging, Pinging, Resolving
  <2>5. CASE Sweep
    BY <1>0, <2>1, <2>2, <2>3, <2>5 DEF Sweep, ToldPinging, Pinging
  <2>6. CASE Ttl
    <3>1. /\ test = "TtlHopDiscovery" /\ replies' = replies + MessageDue
          /\ stage' = "ping" => status # "echo"
      BY <2>3, <2>6 DEF Ttl, NextRound, Replied
    <3> QED
      BY <1>0, <2>1, <2>2, <2>3, <3>1 DEF ToldPinging, Pinging, Resolving
  <2>7. CASE Mtu
    <3>1. test = "MtuPathDiscovery" /\ (search'.best = 0 <=> status # "echo" /\ search.best = 0)
      BY <2>1, <2>7, BestKept DEF Mtu
    <3> QED
      BY <1>0, <2>1, <2>2, <2>3, <3>1 DEF ToldPinging, Pinging
  <2> QED
    BY <1>2, <2>4, <2>5, <2>6, <2>7 DEF React
<1>3. CASE Within /\ test \in Pings /\ ~React /\ ~(\E t \in Tests : Begin(t))
  <2>1. Passed
    BY <1>3, StepOfPing
  <2>2. /\ test' = test /\ replies' = replies /\ search' = search
        /\ stage' \in Pinging => stage \in Pinging
    BY <1>3 DEF Within
  <2>3. CASE Quiet \/ Departed
    <3>1. echoed' = echoed /\ heard' = heard /\ EchoDue' = EchoDue /\ MessageDue' = MessageDue
      BY <2>3 DEF Quiet, Departed
    <3> QED
      BY <2>2, <3>1 DEF ToldPinging
  <2>4. ASSUME NEW message \in Messages, Got(message) PROVE ToldPinging'
    <3>1. /\ heard' = heard + 1 /\ MessageDue = 0 /\ MessageDue' = 1 /\ EchoDue = 0
          /\ \/ echoed' = echoed /\ EchoDue' = 0
             \/ echoed' = echoed + 1 /\ EchoDue' = 1
      BY <2>4 DEF Got
    <3> QED
      BY <1>0, <2>2, <3>1 DEF ToldPinging
  <2> QED
    BY <2>1, <2>3, <2>4 DEF Passed
<1>4. CASE Within /\ test \notin Pings
  BY <1>4 DEF Within, ToldPinging, Pings
<1> QED
  BY <1>1, <1>2, <1>3, <1>4, Shape

-----------------------------------------------------------------------------
(* The verdicts *)

Standing ==
  UNCHANGED <<setup, test, stage, replies, search, status, verdict, asked, heard, echoed, fits, claims>>

\* A test that rests or has only to evaluate is left alone by the firmware.
LEMMA Undisturbed ==
  ASSUME Placed, Next, stage \in {"rest", "evaluate"}
  PROVE  (\E t \in Tests : Begin(t)) \/ (stage = "evaluate" /\ Evaluate) \/ Standing
<1>1. tx # "queued" /\ rx # "queued" /\ icmp = "idle"
  BY IcmpAway
<1>2. ~Ip4Driver /\ ~Ip4Deliver /\ ~Ip4Caller
  BY <1>1
  DEF Ip4Driver, Ip4Deliver, Ip4Caller, IcmpDriver, IcmpDeliver, IcmpCaller, IcmpBuild, IcmpTransmit,
      IcmpPause, IcmpSent, IcmpJudge, IcmpHeard, IcmpUnheard, IcmpCancel, IcmpClose, IcmpWithdraw
<1>3. CASE Driver \/ Caller
  BY <1>3 DEF Driver, Caller, testVars, wireVars, Standing
<1>4. ~(PingIp4 \/ PingNoIp4 \/ PingByIp4 \/ Hop \/ PingByHand \/ Overhear)
  BY DEF PingIp4, PingNoIp4, PingByIp4, Hop, PingByHand, Overhear
<1>5. ~(Resolve \/ ResolveByDriver \/ ResolveByHand \/ React \/ Alone)
  BY DEF Resolve, ResolveByDriver, ResolveByHand, React, Alone, LookOnly, HeaderStart, HeaderReturn,
     Route, Claim, ClaimAnswered, ClaimOverheard
<1>6. CASE Evaluate
  <2>1. stage = "evaluate"
    BY <1>6 DEF Evaluate
  <2> QED
    BY <1>6, <2>1
<1> QED
  BY <1>2, <1>3, <1>4, <1>5, <1>6 DEF Next, Program, Firmware, Ping, Resolution

LEMMA EvaluateKept ==
  ASSUME TypeOK, Placed, Bracketed, Told, Next
  PROVE  ToldEvaluate'
<1> USE DEF Told
<1>0. echoed \in Nat /\ heard \in Nat /\ replies \in Nat
  BY CountAssumption, MaxTtlAssumption DEF TypeOK, Rounds
<1>1. CASE \E t \in Tests : Begin(t)
  BY <1>1 DEF Begin, ToldEvaluate
<1>2. CASE React
  <2>1. stage = "answered" /\ test' = test /\ echoed' = echoed /\ heard' = heard
    BY <1>2, AfterReact
  <2>2. /\ EchoDue = (IF status = "echo" THEN 1 ELSE 0)
        /\ MessageDue = (IF status \in Messages THEN 1 ELSE 0)
    BY <2>1 DEF Coming, EchoDue, MessageDue
  <2>3. CASE Single
    BY <2>3 DEF Single, Return, ToldEvaluate
  <2>4. CASE Sweep
    BY <1>0, <2>1, <2>2, <2>4 DEF Sweep, ToldPinging, ToldEvaluate, Pinging
  <2>5. CASE Ttl
    <3>1. test = "TtlHopDiscovery" /\ replies' = replies + MessageDue /\ status' = status
      BY <2>2, <2>5 DEF Ttl, NextRound, Replied
    <3> QED
      BY <1>0, <2>1, <2>2, <3>1 DEF ToldPinging, ToldEvaluate, Pinging, Messages
  <2>6. CASE Mtu
    <3>1. test = "MtuPathDiscovery" /\ (search'.best = 0 <=> status # "echo" /\ search.best = 0)
      BY <2>1, <2>6, BestKept DEF Mtu
    <3> QED
      BY <1>0, <2>1, <2>2, <3>1 DEF ToldPinging, ToldEvaluate, Pinging
  <2> QED
    BY <1>2, <2>3, <2>4, <2>5, <2>6 DEF React
<1>3. CASE stage = "evaluate" /\ Standing
  BY <1>3 DEF Standing, ToldEvaluate
<1>4. CASE stage \notin {"rest", "evaluate"} /\ ~React
  <2>1. stage' # "evaluate"
    BY <1>4
    DEF Next, Program, Firmware, Ping, Resolution, Alone, Begin, Pings, PingIp4, PingNoIp4, PingByIp4,
        Hop, PingByHand, Overhear, Resolve, ResolveByDriver, ResolveByHand, ByHand, Resolved, Evaluate,
        LookOnly, HeaderStart, HeaderReturn, Route, Claim, ClaimAnswered, ClaimOverheard, Ip4Caller,
        Ip4Driver, Ip4Deliver, Driver, Caller, Goto, Return, Answer, testVars
  <2> QED
    BY <2>1 DEF ToldEvaluate
<1>5. CASE Evaluate
  BY <1>5 DEF Evaluate, Return, ToldEvaluate
<1>6. CASE stage = "rest" /\ Standing
  BY <1>6 DEF Standing, ToldEvaluate
<1> QED
  BY <1>1, <1>2, <1>3, <1>4, <1>5, <1>6, Undisturbed

LEMMA ClaimsKept ==
  ASSUME TypeOK, Placed, ToldClaims, Next
  PROVE  ToldClaims'
<1> USE DEF ToldClaims, Placed, Located, Resolving, Pinging, Pings, Goto, Return, Answer
<1>1. CASE \E t \in Tests : Begin(t)
  BY <1>1 DEF Begin
<1>2. CASE Ping
  BY <1>2
  DEF Ping, PingIp4, PingNoIp4, Ip4Caller, PingByIp4, Hop, PingByHand, Overhear, testVars, wireVars
<1>3. CASE Firmware \/ Caller
  BY <1>3 DEF Firmware, Ip4Driver, Ip4Deliver, Driver, Caller, testVars, wireVars
<1>4. CASE Resolve
  BY <1>4 DEF Resolve, ByHand, Resolved, wireVars
<1>5. CASE ResolveByDriver
  BY <1>5 DEF ResolveByDriver, ByHand, Resolved
<1>6. CASE ResolveByHand
  BY <1>6 DEF ResolveByHand, Resolved
<1>7. CASE React \/ Evaluate
  BY <1>7 DEF React, Evaluate, Single, Sweep, Ttl, Mtu, NextRound, Several, wireVars
<1>8. CASE Alone
  BY <1>8
  DEF Alone, LookOnly, HeaderStart, HeaderReturn, Route, Claim, ClaimAnswered, ClaimOverheard, wireVars
<1> QED
  BY <1>1, <1>2, <1>3, <1>4, <1>5, <1>6, <1>7, <1>8 DEF Next, Program, Resolution

\* The header test asks on its own, and hears one packet at most.
LEMMA HeaderKept ==
  ASSUME TypeOK, Placed, ToldHeader, Next
  PROVE  ToldHeader'
<1> USE DEF ToldHeader, Headed, Barren, Messages
<1>1. CASE \E t \in Tests : Begin(t)
  BY <1>1 DEF Begin, Pings
<1>2. CASE HeaderStart
  <2>1. stage' = "header" \/ stage' = "rest"
    BY <1>2 DEF HeaderStart, Goto, Return
  <2>2. /\ stage = "start" /\ test' = test /\ UNCHANGED <<asked, heard, tx, rx>>
        /\ tx = "none" /\ rx = "none"
        /\ outcome' \in {"none", "no child"} /\ icmp' # "listening"
    BY <1>2, IcmpAway DEF HeaderStart, Goto, Return, IcmpOpen, wireVars, icmpVars
  <2> QED
    BY <1>2, <2>1, <2>2 DEF HeaderStart
<1>3. CASE Ip4Caller
  <2>1. UNCHANGED <<test, stage, asked, heard>> /\ IcmpCaller(stage = "header", TRUE)
    BY <1>3 DEF Ip4Caller, testVars, wireVars
  <2>2. CASE stage = "header"
    <3>1. CASE IcmpBuild(TRUE)
      BY <2>1, <2>2, <3>1 DEF IcmpBuild, Ends, Placed, IcmpOwned
    <3>2. CASE IcmpHeard
      BY <2>1, <2>2, <3>2 DEF IcmpHeard, Ends, Received, Oddities, Placed, IcmpOwned
    <3>3. CASE IcmpTransmit(stage = "header") \/ IcmpPause \/ IcmpSent(stage = "header")
               \/ IcmpJudge(stage = "header")
      BY <2>1, <2>2, <3>3
      DEF IcmpTransmit, IcmpPause, IcmpSent, IcmpJudge, Ends, NextAttempt, Placed, IcmpOwned
    <3>4. CASE IcmpUnheard \/ IcmpCancel \/ IcmpClose \/ IcmpWithdraw
      BY <2>1, <2>2, <3>4 DEF IcmpUnheard, IcmpCancel, IcmpClose, IcmpWithdraw, Ends, Placed, IcmpOwned
    <3> QED
      BY <2>1, <3>1, <3>2, <3>3, <3>4 DEF IcmpCaller
  <2>3. CASE stage # "header"
    BY <2>1, <2>3
  <2> QED
    BY <2>2, <2>3
<1>4. CASE Ip4Driver
  BY <1>4, IcmpAway DEF Ip4Driver, IcmpDriver, Leaves, testVars
<1>5. CASE Ip4Deliver
  <2>1. PICK message \in Received : IcmpDeliver(message) /\ Arrives(message, icmp # "listening")
    BY <1>5 DEF Ip4Deliver
  <2>2. /\ UNCHANGED <<test, stage, asked, icmp, outcome, tx>> /\ rx = "queued" /\ rx' = message
        /\ icmp \in {"listening", "cancelling"} /\ outcome = "none" /\ stage \in {"ip4", "header"}
    BY <1>5, <2>1, IcmpAway DEF Ip4Deliver, IcmpDeliver, testVars, Placed, IcmpOwned
  <2>3. test = "IpHeaderValid" =>
          heard' = IF message \in Headed /\ icmp = "listening" THEN heard + 1 ELSE heard
    BY <2>1 DEF Arrives, Heedable
  <2> QED
    BY <2>2, <2>3
<1>6. CASE Driver \/ Caller
  BY <1>6 DEF Driver, Caller, icmpVars, testVars, wireVars
<1>7. CASE test' = "IpHeaderValid" => stage' \notin {"start", "header"}
  BY <1>7
<1>8. CASE React \/ Evaluate \/ Resolution \/ (Ping /\ ~Ip4Caller) \/ (Alone /\ ~HeaderStart)
  <2>1. CASE React \/ Evaluate
    BY <1>7, <2>1 DEF React, Evaluate, Single, Sweep, Ttl, Mtu, NextRound, Return
  <2>2. CASE Resolution
    BY <1>6, <1>7, <2>2
    DEF Resolution, Resolve, ResolveByDriver, ResolveByHand, ByHand, Resolved, Goto, Return, Answer
  <2>3. CASE Ping /\ ~Ip4Caller
    BY <1>7, <2>3
    DEF Ping, PingIp4, PingNoIp4, PingByIp4, Hop, PingByHand, Overhear, Goto, Answer
  <2>4. CASE Alone /\ ~HeaderStart
    BY <1>7, <2>4
    DEF Alone, LookOnly, HeaderReturn, Route, Claim, ClaimAnswered, ClaimOverheard, Goto, Return
  <2> QED
    BY <1>8, <2>1, <2>2, <2>3, <2>4
<1> QED
  BY <1>1, <1>2, <1>3, <1>4, <1>5, <1>6, <1>8 DEF Next, Program, Firmware

\* Its verdict, where it is not PASS or FAIL.
LEMMA HeaderHonest ==
  ASSUME TypeOK, Placed, Told, HeaderStart \/ HeaderReturn, stage' = "rest"
  PROVE  /\ verdict' = "WARN" => heard' = 1
         /\ verdict' \in {"SKIP", "ERROR"} => asked' = 0 /\ heard' = 0
<1> USE DEF Told, ToldHeader, Headed, Barren, Messages
<1>1. CASE HeaderStart
  BY <1>1 DEF HeaderStart, Goto, Return, wireVars
<1>2. CASE HeaderReturn
  <2>1. /\ stage = "header" /\ test = "IpHeaderValid" /\ icmp = "idle" /\ outcome # "none"
        /\ verdict' \in HeaderVerdicts /\ UNCHANGED <<asked, heard>>
    BY <1>2 DEF HeaderReturn, Return, IcmpConsume, wireVars, Placed, Located
  <2>2. outcome \in Messages \cup Failures
    BY <2>1 DEF TypeOK, IcmpTypeOK
  <2>3. /\ verdict' = "WARN" => outcome \in Headed
        /\ verdict' \in {"SKIP", "ERROR"} => outcome \in Barren
    BY <2>1, <2>2 DEF HeaderVerdicts, Failures
  <2> QED
    BY <2>1, <2>3
<1> QED
  BY <1>1, <1>2

\* The one ping of a test, as the test sees it.
LEMMA SingleHonest ==
  ASSUME TypeOK, Placed, Told, React, Single
  PROVE  VerdictHonest'
<1>1. /\ stage = "answered" /\ test' = test /\ echoed' = echoed /\ heard' = heard /\ asked' = asked
      /\ replies' = replies /\ fits' = fits /\ test \in {"IcmpEcho", "IpFragmentation"}
  BY AfterReact DEF Single, Return
<1>2. /\ echoed = (IF status = "echo" THEN 1 ELSE 0)
      /\ heard = (IF status \in Messages THEN 1 ELSE 0)
  BY <1>1 DEF Told, ToldPinging, Coming, EchoDue, MessageDue, Pinging
<1>3. /\ status \in {"TIMEOUT", "NOT_READY"} \cup Messages
      /\ asked \in Nat /\ replies = 0 /\ fits = {}
  BY <1>1 DEF TypeOK, Told, Asked, Placed, Located, Several
<1>4. status = "echo" => asked > 0
  <2>1. CASE status = "echo"
    <3>1. RequestDue = 1 /\ Hits = 0
      BY <1>1, <1>3, <2>1 DEF RequestDue, Hits, Sent, Coming, Messages
    <3> QED
      BY <1>1, <1>3, <3>1 DEF Told, Asked, Pings
  <2> QED
    BY <2>1
<1>5. /\ verdict' = "PASS" <=> status = "echo"
      /\ test = "IcmpEcho" /\ verdict' = "SKIP" => status = "NOT_READY"
  BY <1>1, <1>3 DEF Single, Return, Messages
<1>6. replies' <= asked' /\ Cardinality(fits') <= asked'
  BY <1>1, <1>3, FS_EmptySet
<1>7. ("PASS" = verdict' <=> echoed' = 1) /\ (test = "IcmpEcho" /\ verdict' = "SKIP" => heard' = 0)
  BY <1>1, <1>2, <1>5 DEF Messages
<1> QED
  BY <1>1, <1>4, <1>5, <1>6, <1>7 DEF VerdictHonest, Done

LEMMA EvaluateHonest ==
  ASSUME TypeOK, Placed, Told, Evaluate,
         replies' <= asked', Cardinality(fits') <= asked'
  PROVE  VerdictHonest'
<1> USE CountAssumption, PayloadAssumption DEF VerdictHonest, Done
<1>1. /\ stage = "evaluate" /\ verdict' = Judged
      /\ UNCHANGED <<test, replies, search, asked, heard, echoed, claims>>
  BY DEF Evaluate, Return, wireVars
<1>2. ToldEvaluate
  BY DEF Told
<1>3. CASE test = "IcmpSweep"
  <2>1. replies \in 0..Count
    BY <1>3 DEF TypeOK, Rounds
  <2> QED
    BY <1>1, <1>2, <1>3, <2>1 DEF Judged, ToldEvaluate
<1>4. CASE test = "TtlHopDiscovery"
  <2>1. replies \in Nat
    BY <1>4, MaxTtlAssumption DEF TypeOK, Rounds
  <2> QED
    BY <1>1, <1>2, <1>4, <2>1 DEF Judged, ToldEvaluate
<1>5. CASE test = "MtuPathDiscovery"
  <2>1. search.best \in 0..MaxPayload
    BY DEF TypeOK, Sizes
  <2> QED
    BY <1>1, <1>2, <1>5, <2>1 DEF Judged, ToldEvaluate
<1> QED
  BY <1>1, <1>3, <1>4, <1>5 DEF Placed, Located, Several

LEMMA NoMoreThanAsked ==
  ASSUME NEW h \in Nat, NEW d \in {0, 1}, NEW a \in Nat, h + d <= a
  PROVE  0 <= a /\ h <= a
  OBVIOUS

LEMMA HonestKept ==
  ASSUME TypeOK, Placed, Told, Next, Asked', TypeOK'
  PROVE  VerdictHonest'
<1>1. replies' <= asked' /\ Cardinality(fits') <= asked'
  <2>1. /\ asked' \in Nat /\ replies' \in Nat /\ RequestDue' \in {0, 1}
        /\ Cardinality(fits') \in Nat
    BY CountAssumption, MaxTtlAssumption, FS_CardinalityType DEF TypeOK, Rounds, Asked, RequestDue
  <2>2. test' \notin Several => replies' = 0
    BY DEF Asked
  <2>3. test' # "MtuPathDiscovery" => Cardinality(fits') = 0
    BY FS_EmptySet DEF Asked
  <2>4. CASE test' \in Pings
    <3>1. Hits' + RequestDue' <= asked'
      BY <2>4 DEF Asked
    <3>2. CASE test' = "MtuPathDiscovery"
      <4>1. Hits' = Cardinality(fits') /\ replies' = 0
        BY <2>2, <3>2 DEF Hits, Several
      <4> QED
        BY <2>1, <3>1, <4>1, NoMoreThanAsked
    <3>3. CASE test' # "MtuPathDiscovery"
      <4>1. Hits' = replies' /\ Cardinality(fits') = 0
        BY <2>3, <3>3 DEF Hits
      <4> QED
        BY <2>1, <3>1, <4>1, NoMoreThanAsked
    <3> QED
      BY <3>2, <3>3
  <2>5. CASE test' \notin Pings
    BY <2>1, <2>2, <2>3, <2>5 DEF Several, Pings
  <2> QED
    BY <2>4, <2>5
<1>2. CASE stage' # "rest"
  BY <1>1, <1>2 DEF VerdictHonest, Done
<1>3. CASE stage = "rest" /\ Standing
  BY <1>3 DEF Told, VerdictHonest, Done, Standing
<1>4. CASE React
  <2>1. CASE Single
    BY <1>4, <2>1, SingleHonest
  <2>2. CASE Sweep \/ Ttl \/ Mtu
    <3>1. stage' # "rest"
      BY <2>2 DEF Sweep, Ttl, Mtu, NextRound
    <3> QED
      BY <1>2, <3>1
  <2> QED
    BY <1>4, <2>1, <2>2 DEF React
<1>5. CASE Evaluate
  BY <1>1, <1>5, EvaluateHonest
<1>6. CASE LookOnly
  <2>1. test' \in {"IpConfigCheck", "Ipv6Nd"}
    BY <1>6 DEF LookOnly, Return
  <2> QED
    BY <1>1, <2>1 DEF VerdictHonest, Done
<1>7. CASE HeaderStart \/ HeaderReturn
  <2>1. test' = "IpHeaderValid"
    BY <1>7 DEF HeaderStart, HeaderReturn, Return, Goto, Placed, Located
  <2>2. CASE stage' = "rest"
    BY <1>1, <1>7, <2>1, <2>2, HeaderHonest DEF VerdictHonest, Done
  <2> QED
    BY <1>2, <2>2
<1>8. CASE stage' = "rest" /\ (Route \/ Resolve \/ ResolveByDriver \/ ResolveByHand)
  <2>1. /\ test = "RoutingTable" /\ test' = test /\ setup' = setup /\ claims = {}
        /\ stage \in {"start"} \cup Resolving
        /\ stage # "start" => setup.gateway = "near"
    BY <1>8
    DEF Route, Resolve, ResolveByDriver, ResolveByHand, ByHand, Resolved, Return, Goto, Answer, Told,
        ToldClaims, Placed, Located, Resolving, Pings
  <2>2. CASE Route
    BY <1>1, <1>8, <2>1, <2>2 DEF Route, Goto, Return, wireVars, VerdictHonest, Done
  <2>3. CASE Resolve
    <3>1. verdict' = "FAIL" /\ claims' = claims /\ stage # "start"
      BY <1>8, <2>1, <2>3 DEF Resolve, ByHand, Resolved, Return, Goto, wireVars
    <3> QED
      BY <1>1, <2>1, <3>1 DEF VerdictHonest, Done
  <2>4. CASE ResolveByDriver
    <3>1. /\ stage # "start"
          /\ \/ verdict' = "PASS" /\ claims' # {}
             \/ verdict' = "FAIL" /\ claims' = claims
      BY <1>8, <2>1, <2>4 DEF ResolveByDriver, ByHand, Resolved, Return, Goto
    <3> QED
      BY <1>1, <2>1, <3>1 DEF VerdictHonest, Done
  <2>5. CASE ResolveByHand
    <3>1. /\ stage # "start"
          /\ \/ verdict' = "PASS" /\ claims' # {}
             \/ verdict' = "FAIL" /\ claims' = claims
      BY <1>8, <2>1, <2>5 DEF ResolveByHand, Resolved, Return, Goto
    <3> QED
      BY <1>1, <2>1, <3>1 DEF VerdictHonest, Done
  <2> QED
    BY <1>8, <2>2, <2>3, <2>4, <2>5
<1>9. CASE stage' = "rest" /\ (Claim \/ ClaimAnswered \/ ClaimOverheard)
  <2>1. test = "DuplicateIp" /\ test' = test /\ claims = {}
    BY <1>9
    DEF Claim, ClaimAnswered, ClaimOverheard, Return, Goto, Told, ToldClaims, Placed, Located
  <2>2. verdict' = "FAIL" <=> claims' \cap {"rival", "nobody"} # {}
    BY <1>9, <2>1 DEF Claim, ClaimAnswered, ClaimOverheard, Return, Goto, wireVars
  <2> QED
    BY <1>1, <2>1, <2>2 DEF VerdictHonest, Done
<1>10. CASE stage' = "rest" /\ stage # "rest"
  <2>1. Route \/ Resolve \/ ResolveByDriver \/ ResolveByHand \/ Claim \/ ClaimAnswered \/ ClaimOverheard
        \/ LookOnly \/ HeaderStart \/ HeaderReturn \/ React \/ Evaluate
    BY <1>10
    DEF Next, Program, Firmware, Ping, Resolution, Alone, Begin, PingIp4, PingNoIp4, PingByIp4, Hop,
        PingByHand, Overhear, Ip4Caller, Ip4Driver, Ip4Deliver, Driver, Caller, Goto, Answer, testVars
  <2> QED
    BY <1>4, <1>5, <1>6, <1>7, <1>8, <1>9, <1>10, <2>1
<1>11. CASE \E t \in Tests : Begin(t)
  <2>1. stage' # "rest"
    BY <1>11 DEF Begin
  <2> QED
    BY <1>2, <2>1
<1> QED
  BY <1>2, <1>3, <1>10, <1>11, Undisturbed

-----------------------------------------------------------------------------
(* The invariant *)

LEMMA TestingInit == Init => Testing
<1> SUFFICES ASSUME Init PROVE Testing
  OBVIOUS
<1> USE CountAssumption, MaxTtlAssumption, PayloadAssumption, MaxOwedAssumption DEF Init
<1>1. TypeOK
  <2>1. ArpTypeOK /\ IcmpTypeOK
    BY DEF ArpInit, IcmpInit, ArpTypeOK, IcmpTypeOK, Attempts
  <2>2. search \in [lo : MinPayload..(MaxPayload + 1), hi : (MinPayload - 1)..MaxPayload,
                    best : {0} \cup Sizes]
    BY DEF Sizes
  <2>3. /\ round \in 0..Rounds /\ replies \in 0..round
        /\ owed \in 0..MaxOwed /\ asked \in Nat /\ heard \in Nat /\ echoed \in Nat
    BY DEF Rounds
  <2>4. /\ test \in Tests /\ fits \subseteq Sizes /\ fails \subseteq Sizes
        /\ claims \subseteq {"gateway", "other", "own", "rival", "nobody"}
    BY DEF Tests
  <2> QED
    BY <2>1, <2>2, <2>3, <2>4, Zenon DEF TypeOK
<1>2. Placed /\ Counted /\ Bracketed
  BY DEF ArpInit, IcmpInit, Placed, ArpOwned, IcmpOwned, IcmpCounted, Located, Attempts, Counted,
     Bracketed, Pinging, Resolving
<1>3. Told
  <2>1. Asked
    BY FS_EmptySet DEF IcmpInit, Asked, Heeded, Several, Pings
  <2>2. VerdictHonest
    BY FS_EmptySet DEF VerdictHonest, Done
  <2> QED
    BY <2>1, <2>2 DEF Told, ToldPinging, ToldEvaluate, ToldClaims, ToldHeader, Pinging, Resolving
<1> QED
  BY <1>1, <1>2, <1>3 DEF Testing

LEMMA TestingStep == Testing /\ [Next]_vars => Testing'
<1> SUFFICES ASSUME Testing, [Next]_vars PROVE Testing'
  OBVIOUS
<1>1. CASE Next
  <2>1. TypeOK'
    BY <1>1, TypeKept DEF Testing
  <2>2. Placed'
    BY <1>1, PartsKept, LocatedKept DEF Testing, Placed
  <2>3. Counted' /\ Bracketed'
    BY <1>1, CountKept, SearchKept DEF Testing
  <2>4. Asked'
    BY <1>1, AskedKept DEF Testing, Told
  <2>5. ToldPinging' /\ ToldEvaluate' /\ ToldClaims' /\ ToldHeader'
    BY <1>1, PingingKept, EvaluateKept, ClaimsKept, HeaderKept DEF Testing, Told
  <2>6. VerdictHonest'
    BY <1>1, <2>1, <2>4, HonestKept DEF Testing
  <2> QED
    BY <2>1, <2>2, <2>3, <2>4, <2>5, <2>6 DEF Testing, Told
<1>2. CASE UNCHANGED vars
  <2>1. UNCHANGED <<icmp, attempt, tx, rx, outcome, arp, request, resolved, address>>
    BY <1>2 DEF vars, pingVars, icmpVars, arpVars
  <2>2. UNCHANGED <<setup, test, stage, round, replies, search, status, verdict>>
    BY <1>2 DEF vars, testVars
  <2>3. UNCHANGED <<owed, asked, heard, echoed, claims, fits, fails>>
    BY <1>2 DEF vars, wireVars
  <2>4. TypeOK'
    BY <2>1, <2>2, <2>3 DEF Testing, TypeOK, ArpTypeOK, IcmpTypeOK, Rounds
  <2>5. (Placed /\ Counted /\ Bracketed)'
    BY <2>1, <2>2, <2>3
    DEF Testing, Placed, ArpOwned, IcmpOwned, IcmpCounted, Located, Counted, Rounds, Bracketed
  <2>6. Asked' /\ ToldPinging' /\ ToldEvaluate' /\ ToldClaims' /\ ToldHeader'
    BY <2>1, <2>2, <2>3
    DEF Testing, Told, Asked, Heeded, Hits, RequestDue, Sent, Coming, EchoDue, MessageDue, ToldPinging,
        ToldEvaluate, ToldClaims, ToldHeader
  <2>7. VerdictHonest'
    BY <2>1, <2>2, <2>3 DEF Testing, Told, VerdictHonest, Done
  <2> QED
    BY <2>4, <2>5, <2>6, <2>7 DEF Testing, Told
<1> QED
  BY <1>1, <1>2

-----------------------------------------------------------------------------
(* The theorems *)

\* The inductive invariant holds in every run of the layer 3 tests.
LEMMA TestingAlways == Spec => []Testing
  BY TestingInit, TestingStep, PTL DEF Spec

\* The verdicts say what came back while the tests waited, and they never count
\* more replies than requests that have left, for every number of pings and of
\* sizes and whatever the drivers and the network do.
THEOREM VerdictHonestAlways == Spec => []VerdictHonest
<1>1. Testing => VerdictHonest
  BY DEF Testing, Told
<1> QED
  BY <1>1, TestingAlways, PTL

\* The search for the MTU ends between a size that was answered and one that was
\* not, for every range of sizes and every sequence of answers.
THEOREM MtuBracketedAlways == Spec => []MtuBracketed
<1>1. Testing => MtuBracketed
  <2> SUFFICES ASSUME Testing, Done("MtuPathDiscovery")
               PROVE  /\ search.best # 0 => search.best \in fits
                      /\ search.best # MaxPayload =>
                           (IF search.best = 0 THEN MinPayload ELSE search.best + 1) \in fails
    BY DEF MtuBracketed
  <2>1. /\ search.lo \in Nat /\ search.hi \in Int /\ search.best \in Nat
        /\ search.lo = search.hi + 1
        /\ search.hi # MaxPayload => search.hi + 1 \in fails
        /\ IF search.best = 0 THEN search.lo = MinPayload
           ELSE search.lo = search.best + 1 /\ search.best \in fits
    BY PayloadAssumption DEF Testing, TypeOK, Bracketed, Done, Sizes
  <2>2. search.best = 0 => search.hi = MinPayload - 1
    BY <2>1, PayloadAssumption
  <2> QED
    BY <2>1, <2>2, PayloadAssumption
<1> QED
  BY <1>1, TestingAlways, PTL

\* Neither driver holds a token of a test that has returned, or of a ping that
\* has gone on to the NIC itself.
THEOREM DriversLetGoAlways == Spec => []DriversLetGo
<1>1. Testing => DriversLetGo
  BY DEF Testing, Placed, ArpOwned, IcmpOwned, Located, DriversLetGo
<1> QED
  BY <1>1, TestingAlways, PTL

\* The types of every variable of the layer 3 tests.
THEOREM TypeOKAlways == Spec => []TypeOK
<1>1. Testing => TypeOK
  BY DEF Testing
<1> QED
  BY <1>1, TestingAlways, PTL

-----------------------------------------------------------------------------
(* A test has a bounded number of steps *)

\* A ping that fails over the IP4 driver goes on to resolve the address, by the
\* ARP driver and by hand, and then to the NIC.
PingLeft ==
  CASE stage \in {"start", "ping"} -> 28
    [] stage \in {"ip4", "header"} -> 12 + IcmpLeft
    [] stage = "hop" -> 11
    [] stage = "resolve" -> 10
    [] stage \in {"arp", "claim"} -> 5 + ArpLeft
    [] stage = "rawask" -> 4
    [] stage = "rawarp" -> 3
    [] stage \in {"raw", "listen"} -> 2
    [] stage = "overhear" -> 1
    [] stage = "answered" -> 0

\* The pings after the present one.
PingsToCome ==
  CASE test \in Several -> Rounds - round - 1
    [] test = "MtuPathDiscovery" -> search.hi - search.lo
    [] test \notin Several \cup {"MtuPathDiscovery"} -> 0

StepsLeft ==
  IF stage = "rest" THEN 0
  ELSE IF stage = "evaluate" THEN 1
  ELSE 2 + PingLeft + 29 * PingsToCome

MostPings == Count + MaxTtl + (MaxPayload - MinPayload)

\* What the program does brings the test nearer its end; what the drivers and the
\* network do takes it no further away.
EveryStepCounts ==
  /\ Program => StepsLeft' < StepsLeft
  /\ Firmware => StepsLeft' = StepsLeft

\* Each answer, or its absence, leaves at most half of the sizes.
EveryPingHalves ==
  test = "MtuPathDiscovery" /\ search' # search /\ stage # "rest" =>
    2 * (search'.hi - search'.lo + 1) <= search.hi - search.lo + 1

LEMMA ChildrenLeft ==
  ASSUME TypeOK, Placed
  PROVE  IcmpLeft \in 0..15 /\ ArpLeft \in 0..4
  BY DEF TypeOK, Placed, IcmpTypeOK, IcmpCounted, IcmpLeft, Attempts, ArpTypeOK, ArpLeft

LEMMA ChildrenLeftNext ==
  ASSUME TypeOK', Placed'
  PROVE  (IcmpLeft \in 0..15 /\ ArpLeft \in 0..4)'
  BY DEF TypeOK, Placed, IcmpTypeOK, IcmpCounted, IcmpLeft, Attempts, ArpTypeOK, ArpLeft

LEMMA IcmpCallerCounts ==
  ASSUME IcmpTypeOK, IcmpCounted, NEW once \in BOOLEAN, IcmpCaller(once, TRUE)
  PROVE  IcmpLeft' < IcmpLeft /\ icmp # "idle"
<1> USE DEF IcmpLeft, IcmpTypeOK, IcmpCounted, Attempts, Ends, NextAttempt
<1>1. CASE IcmpBuild(TRUE)
  <2>1. /\ icmp = "built"
        /\ \/ icmp' = "closing" /\ attempt' = attempt
           \/ icmp' = "sending" /\ attempt' = 0
    BY <1>1, BuildIs, Zenon DEF Ends
  <2> QED
    BY <2>1
<1>2. CASE IcmpTransmit(once)
  BY <1>2 DEF IcmpTransmit
<1>3. CASE IcmpPause
  BY <1>3 DEF IcmpPause
<1>4. CASE IcmpSent(once)
  BY <1>4 DEF IcmpSent
<1>5. CASE IcmpJudge(once)
  <2>1. icmp = "judge" /\ icmp' \in {"closing", "listening"} /\ attempt' = attempt
    BY <1>5 DEF IcmpJudge
  <2> QED
    BY <2>1
<1>6. CASE IcmpHeard \/ IcmpUnheard \/ IcmpCancel \/ IcmpClose \/ IcmpWithdraw
  BY <1>6 DEF IcmpHeard, IcmpUnheard, IcmpCancel, IcmpClose, IcmpWithdraw
<1> QED
  BY <1>1, <1>2, <1>3, <1>4, <1>5, <1>6 DEF IcmpCaller

LEMMA ArpCallerCounts ==
  ASSUME ArpTypeOK, ArpCaller
  PROVE  ArpLeft' < ArpLeft /\ arp # "idle"
  BY DEF ArpTypeOK, ArpLeft, ArpCaller, ArpRequest, ArpPolled, ArpPollsSpent, ArpCloseEvent, ArpWithdraw

\* Where a test stands that neither rests nor only has to judge its counters.
Underway == stage \notin {"rest", "evaluate"}

LEMMA PingLeftIs ==
  ASSUME TypeOK, Placed, Underway
  PROVE  PingLeft \in 0..28
<1>1. IcmpLeft \in 0..15 /\ ArpLeft \in 0..4
  BY ChildrenLeft
<1> QED
  BY <1>1 DEF TypeOK, Underway, PingLeft

LEMMA PingLeftNext ==
  ASSUME TypeOK', Placed', Underway'
  PROVE  (PingLeft \in 0..28)'
<1>1. (IcmpLeft \in 0..15 /\ ArpLeft \in 0..4)'
  BY ChildrenLeftNext
<1> QED
  BY <1>1 DEF TypeOK, Underway, PingLeft

LEMMA PingsToComeIs ==
  ASSUME TypeOK, Placed, Counted, Bracketed, Underway
  PROVE  PingsToCome \in 0..MostPings
<1> USE CountAssumption, MaxTtlAssumption, PayloadAssumption DEF TypeOK, PingsToCome, MostPings, Underway
<1>1. stage \in Pinging \/ test \notin Several \cup {"MtuPathDiscovery"}
  BY DEF Placed, Located, Pinging, Resolving, Several, Pings
<1>2. CASE test \in Several
  BY <1>1, <1>2 DEF Counted, Rounds, Several
<1>3. CASE test = "MtuPathDiscovery"
  BY <1>1, <1>3 DEF Bracketed, Several, Sizes
<1>4. CASE test \notin Several \cup {"MtuPathDiscovery"}
  BY <1>4
<1> QED
  BY <1>2, <1>3, <1>4

\* A step of a ping, of a resolution or of one of the tests that do not ping.
Onward ==
  /\ Underway
  /\ UNCHANGED <<test, round, search>>
  /\ stage' = "rest" \/ (Underway' /\ PingLeft' < PingLeft)

LEMMA PingGoesOn ==
  ASSUME Testing, Testing', Ping \/ Resolution \/ Alone
  PROVE  Onward
<1> DEFINE Steps == /\ IcmpLeft \in 0..15 /\ ArpLeft \in 0..4
                    /\ IcmpLeft' \in 0..15 /\ ArpLeft' \in 0..4
<1>1. Steps
  BY ChildrenLeft, ChildrenLeftNext DEF Testing
<1>2. TypeOK /\ Located
  BY DEF Testing, Placed
<1> HIDE DEF Steps
<1>3. CASE Ip4Caller
  <2>1. \E once \in BOOLEAN : IcmpCaller(once, TRUE)
    <3>1. CASE stage = "header"
      BY <1>3, <3>1 DEF Ip4Caller
    <3>2. CASE stage # "header"
      BY <1>3, <3>2 DEF Ip4Caller
    <3> QED
      BY <3>1, <3>2
  <2>2. IcmpLeft' < IcmpLeft /\ icmp # "idle"
    BY <2>1, IcmpCallerCounts DEF Testing, TypeOK, Placed
  <2>3. stage \in {"ip4", "header"} /\ UNCHANGED testVars
    BY <1>2, <1>3, <2>2 DEF Ip4Caller, Located
  <2> QED
    BY <1>1, <2>2, <2>3 DEF Steps, Onward, Underway, PingLeft, testVars
<1>4. CASE Caller
  <2>1. ArpLeft' < ArpLeft /\ arp # "idle"
    BY <1>4, ArpCallerCounts DEF Caller, Testing, TypeOK
  <2>2. stage \in {"arp", "claim"} /\ UNCHANGED testVars
    BY <1>2, <1>4, <2>1 DEF Caller, Located
  <2> QED
    BY <1>1, <2>1, <2>2 DEF Steps, Onward, Underway, PingLeft, testVars
<1>5. ASSUME UNCHANGED testVars \/ UNCHANGED <<test, round, search>>,
             \/ stage \in {"start", "ping"} /\ stage' \notin {"start", "ping", "evaluate"}
             \/ stage \in {"ip4", "header"} /\ stage' \in {"hop", "answered", "rest"}
             \/ stage = "hop" /\ stage' \in {"resolve", "answered"}
             \/ stage = "resolve" /\ stage' \in {"arp", "rawask", "raw", "answered", "rest"}
             \/ stage \in {"arp", "claim"} /\ stage' \in {"rawask", "raw", "answered", "rest"}
             \/ stage = "rawask" /\ stage' \in {"rawarp", "raw", "answered", "rest"}
             \/ stage = "rawarp" /\ stage' \in {"raw", "answered", "rest"}
             \/ stage = "raw" /\ stage' \in {"overhear", "answered"}
             \/ stage = "overhear" /\ stage' = "answered"
             \/ stage = "listen" /\ stage' = "rest"
      PROVE  Onward
  <2>1. stage' \in {"rest", "start", "ip4", "ping", "hop", "resolve", "arp", "rawask", "rawarp",
                    "raw", "overhear", "answered", "evaluate", "header", "claim", "listen"}
    BY DEF Testing, TypeOK
  <2> QED
    BY <1>1, <1>5, <2>1 DEF Steps, Onward, Underway, PingLeft, testVars
<1> USE DEF Goto, Return, Answer
<1>6. CASE PingIp4 \/ PingNoIp4
  BY <1>5, <1>6 DEF PingIp4, PingNoIp4
<1>7. CASE PingByIp4
  BY <1>5, <1>7 DEF PingByIp4
<1>8. CASE Hop \/ PingByHand \/ Overhear
  BY <1>5, <1>8 DEF Hop, PingByHand, Overhear
<1>9. CASE Resolve
  BY <1>2, <1>5, <1>9 DEF Resolve, ByHand, Resolved
<1>10. CASE ResolveByDriver
  BY <1>5, <1>10 DEF ResolveByDriver, ByHand, Resolved
<1>11. CASE ResolveByHand
  BY <1>5, <1>11 DEF ResolveByHand, Resolved
<1>12. CASE LookOnly \/ HeaderStart \/ HeaderReturn \/ Route
  BY <1>5, <1>12 DEF LookOnly, HeaderStart, HeaderReturn, Route
<1>13. CASE Claim \/ ClaimAnswered \/ ClaimOverheard
  BY <1>5, <1>13 DEF Claim, ClaimAnswered, ClaimOverheard
<1> QED
  BY <1>3, <1>4, <1>6, <1>7, <1>8, <1>9, <1>10, <1>11, <1>12, <1>13 DEF Ping, Resolution, Alone

\* The size tried is halfway, so that at most half of the range is left.
LEMMA MtuHalves ==
  ASSUME Testing, React, Mtu
  PROVE  /\ 2 * (search'.hi - search'.lo + 1) <= search.hi - search.lo + 1
         /\ stage' = "ping" => PingsToCome' \in Nat /\ PingsToCome' < PingsToCome
         /\ PingsToCome \in Nat /\ stage' \in {"ping", "evaluate"}
<1>1. /\ stage = "answered" /\ test = "MtuPathDiscovery" /\ test' = test
      /\ search \in Searches /\ search.lo <= search.hi
      /\ search' = NextSize
      /\ stage' = IF search'.lo <= search'.hi THEN "ping" ELSE "evaluate"
  BY DEF Testing, React, Mtu, Bracketed, Pinging, TypeOK, Searches
<1>2. /\ search.lo \in Nat /\ search.hi \in Nat
      /\ Mid \in Nat /\ search.lo <= Mid /\ Mid <= search.hi
      /\ 2 * Mid <= search.lo + search.hi /\ search.lo + search.hi <= 2 * Mid + 1
  BY <1>1, PayloadAssumption DEF Mid, Searches
<1>3. \/ search'.lo = Mid + 1 /\ search'.hi = search.hi
      \/ search'.lo = search.lo /\ search'.hi = Mid - 1
  BY <1>1 DEF NextSize, Searches
<1>4. PingsToCome = search.hi - search.lo /\ PingsToCome' = search'.hi - search'.lo
  BY <1>1 DEF PingsToCome, Several
<1> QED
  BY <1>1, <1>2, <1>3, <1>4

\* After a ping the test returns, judges its counters, or begins the next one.
LEMMA ReactCounts ==
  ASSUME Testing, React
  PROVE  /\ stage = "answered"
         /\ \/ stage' \in {"rest", "evaluate"}
            \/ /\ stage' = "ping"
               /\ PingsToCome \in Nat /\ PingsToCome' \in Nat /\ PingsToCome' < PingsToCome
<1>1. stage = "answered" /\ TypeOK /\ Counted
  BY DEF React, Testing
<1>2. CASE Single
  BY <1>1, <1>2 DEF Single, Return
<1>3. CASE Sweep \/ Ttl
  <2>1. /\ test \in Several /\ test' = test /\ round' = round + 1
        /\ \/ stage' = "evaluate"
           \/ stage' = "ping" /\ round + 1 < Rounds
    BY <1>3 DEF Sweep, Ttl, NextRound, Several
  <2>2. round \in Nat /\ Rounds \in Nat /\ Rounds' = Rounds
    BY <1>1, <2>1, CountAssumption, MaxTtlAssumption DEF TypeOK, Rounds, Several
  <2>3. PingsToCome = Rounds - round - 1 /\ PingsToCome' = Rounds' - round' - 1
    BY <2>1 DEF PingsToCome, Several
  <2> QED
    BY <1>1, <2>1, <2>2, <2>3
<1>4. CASE Mtu
  BY <1>1, <1>4, MtuHalves
<1> QED
  BY <1>1, <1>2, <1>3, <1>4 DEF React

LEMMA ProgramCounts ==
  ASSUME Testing, Testing', Program
  PROVE  StepsLeft' < StepsLeft
<1>1. Underway => PingLeft \in 0..28 /\ PingsToCome \in Nat
  BY PingLeftIs, PingsToComeIs DEF Testing, MostPings
<1>2. CASE Ping \/ Resolution \/ Alone
  <2>1. Onward
    BY <1>2, PingGoesOn
  <2>2. PingsToCome' = PingsToCome
    BY <2>1 DEF Onward, PingsToCome, Rounds
  <2>3. CASE stage' = "rest"
    BY <1>1, <2>1, <2>3 DEF Onward, Underway, StepsLeft
  <2>4. CASE stage' # "rest"
    <3>1. PingLeft' \in Int
      BY <2>1, <2>4, PingLeftNext DEF Testing, Onward
    <3> QED
      BY <1>1, <2>1, <2>2, <2>4, <3>1 DEF Onward, Underway, StepsLeft
  <2> QED
    BY <2>3, <2>4
<1>3. CASE React
  <2>1. stage = "answered" /\ PingLeft = 0
    BY <1>3, ReactCounts DEF PingLeft
  <2>2. CASE stage' \in {"rest", "evaluate"}
    BY <1>1, <2>1, <2>2 DEF StepsLeft, Underway
  <2>3. CASE stage' = "ping" /\ PingsToCome' \in Nat /\ PingsToCome' < PingsToCome
    <3>1. PingLeft' = 28
      BY <2>3 DEF PingLeft
    <3> QED
      BY <1>1, <2>1, <2>3, <3>1 DEF StepsLeft, Underway
  <2> QED
    BY <1>3, <2>2, <2>3, ReactCounts
<1>4. CASE Evaluate
  BY <1>4 DEF Evaluate, Return, StepsLeft
<1> QED
  BY <1>2, <1>3, <1>4 DEF Program

\* The drivers change nothing that the count looks at.
LEMMA FirmwareCounts ==
  ASSUME Firmware
  PROVE  StepsLeft' = StepsLeft
<1>1. UNCHANGED <<stage, test, round, search, icmp, attempt, arp>>
  BY DEF Firmware, Ip4Driver, Ip4Deliver, Driver, IcmpDriver, IcmpDeliver, ArpDriver, ArpReply,
     ArpGiveUp, testVars, arpVars, icmpVars
<1>2. PingLeft' = PingLeft
  BY <1>1 DEF PingLeft, IcmpLeft, ArpLeft
<1>3. PingsToCome' = PingsToCome
  BY <1>1 DEF PingsToCome, Rounds
<1> QED
  BY <1>1, <1>2, <1>3 DEF StepsLeft

LEMMA HalvesStep ==
  ASSUME Testing, [Next]_vars
  PROVE  EveryPingHalves
<1> SUFFICES ASSUME test = "MtuPathDiscovery", search' # search, stage # "rest"
             PROVE  2 * (search'.hi - search'.lo + 1) <= search.hi - search.lo + 1
  BY DEF EveryPingHalves
<1>1. React
  BY Shape DEF Testing, Begin, Within, vars, testVars
<1>2. Mtu
  BY <1>1 DEF React, Single, Sweep, Ttl
<1> QED
  BY <1>1, <1>2, MtuHalves

LEMMA StepsLeftIs == ASSUME Testing PROVE StepsLeft \in 0..30 + 29 * MostPings
<1>1. MostPings \in Nat
  BY CountAssumption, MaxTtlAssumption, PayloadAssumption DEF MostPings
<1>2. CASE Underway
  <2>1. PingLeft \in 0..28 /\ PingsToCome \in 0..MostPings
    BY <1>2, PingLeftIs, PingsToComeIs DEF Testing
  <2> QED
    BY <1>1, <1>2, <2>1 DEF StepsLeft, Underway
<1>3. CASE ~Underway
  BY <1>1, <1>3 DEF StepsLeft, Underway
<1> QED
  BY <1>2, <1>3

\* A test of layer 3 takes at most so many steps of its own, whatever the drivers
\* and the network do or omit: each step of the program uses one of them up, and
\* nobody else gives one back.  The search for the MTU is as short as a binary
\* search should be: each ping leaves at most half of the sizes.
THEOREM TestsAreBounded ==
  Spec => /\ [](StepsLeft \in 0..30 + 29 * MostPings)
          /\ [][EveryStepCounts]_vars
          /\ [][EveryPingHalves]_vars
<1>1. Testing /\ [Next]_vars => Testing' /\ (EveryStepCounts \/ UNCHANGED vars) /\ EveryPingHalves
  BY TestingStep, ProgramCounts, FirmwareCounts, HalvesStep DEF EveryStepCounts
<1>2. Testing => StepsLeft \in 0..30 + 29 * MostPings
  BY StepsLeftIs
<1> QED
  BY <1>1, <1>2, TestingInit, PTL DEF Spec

=============================================================================
