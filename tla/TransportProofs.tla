---------------------------- MODULE TransportProofs ----------------------------
(***************************************************************************)
(* What the layer 4 tests may not do to the firmware, whatever it answers  *)
(* and however often they loop: lose a token, a child or a connection.     *)
(* The proofs rest on three inductive invariants: Owned follows the token  *)
(* and the child from stage to stage, Tended says where an established     *)
(* connection can be, and Reckoned relates the counters of each test, at   *)
(* every stage of it, to what the driver has done.                         *)
(***************************************************************************)
EXTENDS TransportTests, TLAPS

\* A child exists exactly from the step that opens it to the one that
\* destroys it, and only its operations use the token.
Held == Operations \cup {"destroy"}

Owned ==
  /\ stage \in Stages
  /\ io \in {"idle", "waiting", "closing", "cancelling"}
  /\ child <=> stage \in Held
  /\ io # "idle" => stage \in Operations /\ result = "none"
  /\ result # "none" => stage \in Operations
  /\ token # "none" => io # "idle"

\* The driver has completed an operation and the test has not yet reacted.
Due ==
  \/ result = "SUCCESS"
  \/ token = "SUCCESS" /\ io \in {"waiting", "closing"}

Tended ==
  /\ open => \/ stage \in {"send", "receive"}
             \/ stage = "close" /\ io = "idle" /\ result = "none"
             \/ stage = "connect" /\ Due

-----------------------------------------------------------------------------
LEMMA OwnedInit == Init => Owned
  BY DEF Init, IoInit, Owned, Held, Stages, Operations

LEMMA OwnedBegin ==
  ASSUME Owned, NEW t \in Tests, Begin(t)
  PROVE  Owned'
  BY DEF Owned, Begin, Held, Stages, Operations, ioVars

\* The steps that leave the operation alone and take the test further.
LEMMA OwnedSkeleton ==
  ASSUME Owned, OpenChild \/ OpenFails \/ Destroy \/ Evaluate
  PROVE  Owned'
<1>1. CASE OpenChild
  BY <1>1 DEF Owned, OpenChild, Held, Stages, Operations, ioVars
<1>2. CASE OpenFails
  BY <1>2 DEF Owned, OpenFails, UdpReturned, NextRound, Conclude, Held, Stages, Operations, ioVars
<1>3. CASE Destroy
  BY <1>3 DEF Owned, Destroy, NextRound, Held, Stages, Operations, ioVars
<1>4. CASE Evaluate
  BY <1>4 DEF Owned, Evaluate, Conclude, Held, Stages, Operations, ioVars
<1> QED
  BY <1>1, <1>2, <1>3, <1>4

\* The steps of the operation, which leave the test where it is.
LEMMA OwnedOperation ==
  ASSUME Owned, Operate \/ Waiting \/ Driver
  PROVE  Owned'
<1>1. CASE Operate
  BY <1>1 DEF Owned, Operate, Refuse, Accept, Ready, Held, Stages, Operations, testVars
<1>2. CASE Waiting
  BY <1>2 DEF Owned, Waiting, Wait, LeaveLoop, LastLook, Cancel, Tick, Held, Stages, Operations, testVars
<1>3. CASE Driver
  BY <1>3 DEF Owned, Driver, Complete, Held, Stages, Operations, testVars
<1> QED
  BY <1>1, <1>2, <1>3

\* The reactions: the operation is over, so nothing is in the driver.
LEMMA OwnedReact ==
  ASSUME Owned, React
  PROVE  Owned'
<1>1. io = "idle" /\ io' = "idle" /\ token' = token /\ result' = "none"
  BY DEF Owned, React, Consume
<1>2. CASE TcpStep
  BY <1>1, <1>2 DEF Owned, TcpStep, Connected, NotConnected, DataSent, DataReceived, Closed,
     Conclude, Held, Stages, Operations
<1>3. CASE UdpStep
  BY <1>1, <1>3 DEF Owned, UdpStep, UdpReturned, NextRound, Conclude, Held, Stages, Operations
<1> QED
  BY <1>2, <1>3 DEF React

LEMMA OwnedNext == Owned /\ [Next]_vars => Owned'
<1> SUFFICES ASSUME Owned, [Next]_vars
             PROVE  Owned'
  OBVIOUS
<1>1. CASE \E t \in Tests : Begin(t)
  BY <1>1, OwnedBegin
<1>2. CASE OpenChild \/ OpenFails \/ Destroy \/ Evaluate
  BY <1>2, OwnedSkeleton
<1>3. CASE Operate \/ Waiting \/ Driver
  BY <1>3, OwnedOperation
<1>4. CASE React
  BY <1>4, OwnedReact
<1>5. CASE UNCHANGED vars
  BY <1>5 DEF vars, ioVars, testVars, Owned, Held, Stages, Operations
<1> QED
  BY <1>1, <1>2, <1>3, <1>4, <1>5 DEF Next, Program

LEMMA OwnedAlways == Spec => []Owned
  BY OwnedInit, OwnedNext, PTL DEF Spec

\* A token that a driver holds, or has completed, belongs to an operation whose
\* stack frame still exists (the token structures of L4TcpConnect and its
\* siblings are locals).
THEOREM TokenOwnedAlways == Spec => []TokenOwned
<1>1. Owned => TokenOwned
  BY DEF Owned, TokenOwned
<1> QED
  BY <1>1, OwnedAlways, PTL

\* Every way out of a test, also the early ones, destroys the child it has
\* created (L4DestroyTcpChild, the DestroyChild calls of L4UdpSendRecv).
THEOREM ChildrenReturnedAlways == Spec => []ChildrenReturned
<1>1. Owned => ChildrenReturned
  BY DEF Owned, ChildrenReturned, Held, Operations
<1> QED
  BY <1>1, OwnedAlways, PTL

-----------------------------------------------------------------------------
LEMMA TendedInit == Init => Tended
  BY DEF Init, Tended

LEMMA TendedSkeleton ==
  ASSUME Owned, Tended,
         (\E t \in Tests : Begin(t)) \/ OpenChild \/ OpenFails \/ Destroy \/ Evaluate
  PROVE  Tended'
<1>1. CASE \E t \in Tests : Begin(t)
  BY <1>1 DEF Tended, Begin
<1>2. CASE OpenChild
  BY <1>2 DEF Tended, OpenChild, seenVars
<1>3. CASE OpenFails
  BY <1>3 DEF Tended, OpenFails, seenVars
<1>4. CASE Destroy
  BY <1>4 DEF Tended, Destroy
<1>5. CASE Evaluate
  BY <1>5 DEF Tended, Evaluate, seenVars
<1> QED
  BY <1>1, <1>2, <1>3, <1>4, <1>5

LEMMA TendedOperate ==
  ASSUME Owned, Tended, Operate
  PROVE  Tended'
  BY DEF Owned, Tended, Due, Operate, Refuse, Accept, Ready, testVars, Operations

\* A handshake stays due until the test reacts to it.
LEMMA TendedWaiting ==
  ASSUME Owned, Tended, Waiting
  PROVE  Tended'
  BY DEF Owned, Tended, Due, Waiting, Wait, LeaveLoop, LastLook, Cancel, Tick, testVars, seenVars

\* Only a handshake opens a connection, and only where the test will see it.
LEMMA TendedDriver ==
  ASSUME Owned, Tended, Driver
  PROVE  Tended'
<1>1. PICK outcome \in Outcomes :
        /\ Complete(outcome)
        /\ open' = (open \/ (stage \in {"connect"} /\ outcome = "SUCCESS" /\ io # "cancelling"))
        /\ UNCHANGED testVars
  BY DEF Driver
<1>2. stage' = stage /\ io' = io /\ result' = "none" /\ token' = outcome /\ token = "queued"
  BY <1>1 DEF Complete, Owned, testVars
<1>3. io \in {"waiting", "closing", "cancelling"} /\ result = "none"
  BY <1>2 DEF Owned
<1>4. open' => open \/ (stage = "connect" /\ outcome = "SUCCESS" /\ io # "cancelling")
  BY <1>1
<1>5. open => stage \in {"send", "receive"}
  BY <1>2, <1>3 DEF Tended, Due
<1> QED
  BY <1>2, <1>3, <1>4, <1>5 DEF Tended, Due

LEMMA TendedReact ==
  ASSUME Owned, Tended, React
  PROVE  Tended'
<1>1. io = "idle" /\ io' = "idle" /\ result # "none" /\ result' = "none"
  BY DEF Owned, React, Consume
<1>2. open' => open
  BY DEF React, seenVars
<1>3. open => stage \in {"send", "receive"} \/ (stage = "connect" /\ result = "SUCCESS")
  BY <1>1 DEF Tended, Due
<1>4. CASE TcpStep
  BY <1>1, <1>2, <1>3, <1>4 DEF Tended, TcpStep, Connected, NotConnected, DataSent, DataReceived, Closed
<1>5. CASE UdpStep
  BY <1>1, <1>2, <1>3, <1>5 DEF Tended, UdpStep
<1> QED
  BY <1>4, <1>5 DEF React

LEMMA TendedNext == Owned /\ Tended /\ [Next]_vars => Tended'
<1> SUFFICES ASSUME Owned, Tended, [Next]_vars
             PROVE  Tended'
  OBVIOUS
<1>1. CASE (\E t \in Tests : Begin(t)) \/ OpenChild \/ OpenFails \/ Destroy \/ Evaluate
  BY <1>1, TendedSkeleton
<1>2. CASE Operate
  BY <1>2, TendedOperate
<1>3. CASE Waiting
  BY <1>3, TendedWaiting
<1>4. CASE Driver
  BY <1>4, TendedDriver
<1>5. CASE React
  BY <1>5, TendedReact
<1>6. CASE UNCHANGED vars
  BY <1>6 DEF vars, ioVars, testVars, seenVars, Tended, Due
<1> QED
  BY <1>1, <1>2, <1>3, <1>4, <1>5, <1>6 DEF Next, Program

\* The only steps that give a child up do so with no connection open.
LEMMA GivenUpClosed == Owned /\ Tended /\ [Next]_vars => (child /\ ~child' => ~open)
<1> SUFFICES ASSUME Owned, Tended, [Next]_vars, child, ~child'
             PROVE  ~open
  OBVIOUS
<1>1. CASE Destroy
  BY <1>1 DEF Tended, Destroy
<1>2. CASE React
  <2>1. stage \in {"transmit", "listen"}
    BY <1>2 DEF React, TcpStep, UdpStep
  <2> QED
    BY <2>1 DEF Tended
<1>3. CASE (\E t \in Tests : Begin(t)) \/ OpenChild \/ OpenFails \/ Evaluate
  BY <1>3 DEF Begin, OpenChild, OpenFails, Evaluate
<1>4. CASE Operate \/ Waiting \/ Driver \/ UNCHANGED vars
  BY <1>4 DEF Operate, Waiting, Driver, testVars, vars
<1> QED
  BY <1>1, <1>2, <1>3, <1>4 DEF Next, Program

\* No child is destroyed under an established connection before L4TcpClose.
THEOREM ClosedAlways == Spec => ClosedBeforeDestroyed
<1>1. Init => Owned /\ Tended
  BY OwnedInit, TendedInit
<1>2. Owned /\ Tended /\ [Next]_vars => Owned' /\ Tended'
  BY OwnedNext, TendedNext
<1>3. Owned /\ Tended /\ [Next]_vars => [child /\ ~child' => ~open]_vars
  BY GivenUpClosed
<1> QED
  BY <1>1, <1>2, <1>3, PTL DEF Spec, ClosedBeforeDestroyed

-----------------------------------------------------------------------------
(* The counters *)

Fields == {"sent", "received", "ok", "bad", "tried"}

Typed ==
  /\ IoTypeOK
  /\ test \in Tests
  /\ count \in [Fields -> Nat]
  /\ verdict \in Verdicts \cup {"none"}
  /\ shaken \in Nat /\ carried \in Nat /\ echoed \in Nat /\ parted \in Nat
  /\ token = "EMPTY" \/ result = "EMPTY" => stage \in {"receive", "listen"}

\* A success of this operation that the test has yet to look at.
Pend(s) == IF stage = s /\ Due THEN 1 ELSE 0

\* The rounds that have had their operation.
Gone == round + (IF stage \in {"close", "destroy"} THEN 1 ELSE 0)

Rounded ==
  /\ round \in 0..Rounds[test]
  /\ stage \in Held \cup {"open"} => round < Rounds[test]

\* Which stages a test has.
Staged ==
  /\ stage \in {"connect", "close", "destroy"} => test \in TcpTests
  /\ stage \in {"send", "receive"} => test = "TcpDataTransfer"
  /\ stage \in {"transmit", "listen"} => test \in UdpTests
  /\ stage = "evaluate" => test \in TcpLoops \cup {"UdpMultiPort"}

LoopsReckoned ==
  /\ test \in TcpLoops /\ stage # "rest" =>
       /\ shaken = count["ok"] + Pend("connect")
       /\ count["ok"] <= Gone
       /\ test = "PortScan" => count["ok"] + (IF stage = "connect" THEN 1 ELSE 0) <= count["tried"]
  /\ test = "UdpMultiPort" /\ stage # "rest" =>
       /\ echoed = count["received"] + Pend("listen")
       /\ count["received"] <= round
       /\ count["received"] <= count["ok"]
       /\ count["ok"] + (IF stage = "listen" THEN 1 ELSE 0) + Pend("transmit") <= carried

SinglesReckoned ==
  /\ test = "TcpConnect" =>
       /\ stage \in {"open", "connect"} => shaken = Pend("connect")
       /\ stage \in {"close", "destroy"} => verdict # "none" /\ (verdict = "PASS" <=> shaken = 1)
  /\ test = "TcpDataTransfer" =>
       /\ stage \in {"open", "connect", "send"} => echoed = 0 /\ carried = Pend("send")
       /\ stage = "receive" => echoed = Pend("receive") /\ carried = 1
       /\ stage \in {"close", "destroy"} =>
            /\ verdict # "none"
            /\ verdict = "PASS" <=> echoed = 1
            /\ verdict = "FAIL" <=> carried = 0
  /\ test = "TcpClose" =>
       /\ stage \in {"open", "connect"} => shaken = Pend("connect") /\ parted = 0
       /\ stage = "close" => shaken = 1 /\ parted = Pend("close")
       /\ stage = "destroy" =>
            /\ verdict # "none"
            /\ verdict = "PASS" <=> parted = 1
            /\ shaken = 0 => verdict = "FAIL"
  /\ test = "UdpSendReceive" /\ stage # "rest" => echoed = Pend("listen")

Reckoned == Typed /\ Rounded /\ Staged /\ LoopsReckoned /\ SinglesReckoned /\ VerdictHonest

LEMMA RoundsAre ==
  /\ \A t \in Tests : Rounds[t] \in 1..50
  /\ \A t \in Tests \ (TcpLoops \cup {"UdpMultiPort"}) : Rounds[t] = 1
  /\ Rounds["TcpStress"] = Iterations
  BY IterationsAssumption DEF Rounds, Tests, TcpTests, TcpLoops, UdpTests

LEMMA AddIs ==
  ASSUME count \in [Fields -> Nat], NEW S
  PROVE  /\ Add(S) \in [Fields -> Nat]
         /\ \A f \in Fields : Add(S)[f] = count[f] + (IF f \in S THEN 1 ELSE 0)
  BY DEF Add

LEMMA ZeroIs == Zero \in [Fields -> Nat] /\ \A f \in Fields : Zero[f] = 0
  BY DEF Zero, Fields

LEMMA ReckonedInit == Init => Reckoned
<1> SUFFICES ASSUME Init PROVE Reckoned
  OBVIOUS
<1>1. Typed
  BY ZeroIs DEF Init, IoInit, Typed, IoTypeOK, Pending
<1>2. Rounded /\ Staged
  <2>1. 0 \in 0..Rounds[test]
    BY RoundsAre DEF Init
  <2> QED
    BY <2>1 DEF Init, Rounded, Staged, Held, Operations
<1>3. LoopsReckoned /\ SinglesReckoned /\ VerdictHonest
  BY DEF Init, LoopsReckoned, SinglesReckoned, VerdictHonest, Done
<1> QED
  BY <1>1, <1>2, <1>3 DEF Reckoned

\* What looks at the counters only through Pend is kept where Due is.
LEMMA Unmoved ==
  ASSUME Owned, Reckoned, Typed', Due' <=> Due,
         UNCHANGED <<testVars, shaken, carried, echoed, parted>>
  PROVE  Reckoned'
<1>1. \A s : Pend(s)' = Pend(s)
  BY DEF Pend, testVars
<1>2. Gone' = Gone
  BY DEF Gone, testVars
<1>3. (Rounded /\ Staged /\ VerdictHonest)'
  BY DEF Reckoned, Rounded, Staged, VerdictHonest, Done, testVars
<1>4. LoopsReckoned'
  BY <1>1, <1>2 DEF Reckoned, LoopsReckoned, testVars
<1>5. SinglesReckoned'
  BY <1>1 DEF Reckoned, SinglesReckoned, testVars
<1> QED
  BY <1>3, <1>4, <1>5 DEF Reckoned

LEMMA ReckonedCaller ==
  ASSUME Owned, Reckoned, Operate \/ Waiting
  PROVE  Reckoned'
<1>1. UNCHANGED <<testVars, shaken, carried, echoed, parted>>
  BY DEF Operate, Waiting, seenVars
<1>2. CASE Operate
  <2>1. /\ token = "none" /\ result = "none" /\ token' \in {"none", "queued"}
        /\ result' \in {"none", "ERROR"}
    BY <1>2 DEF Operate, Refuse, Accept, Ready, Owned
  <2>2. Due' <=> Due
    BY <2>1 DEF Due
  <2>3. IoTypeOK'
    BY <1>2, OutcomesAssumption DEF Operate, Refuse, Accept, Reckoned, Typed, IoTypeOK, Pending
  <2>4. Typed'
    BY <1>1, <2>1, <2>3 DEF Reckoned, Typed, testVars
  <2> QED
    BY <1>1, <2>2, <2>4, Unmoved
<1>3. CASE Waiting
  <2>1. IoTypeOK'
    BY <1>3 DEF Waiting, Wait, LeaveLoop, LastLook, Cancel, Tick, Reckoned, Typed, IoTypeOK, Pending
  <2>2. Due' <=> Due
    BY <1>3 DEF Waiting, Wait, LeaveLoop, LastLook, Cancel, Tick, Due, Owned
  <2>3. token' = "EMPTY" \/ result' = "EMPTY" => token = "EMPTY" \/ result = "EMPTY"
    BY <1>3 DEF Waiting, Wait, LeaveLoop, LastLook, Cancel, Tick
  <2>4. Typed'
    BY <1>1, <2>1, <2>3 DEF Reckoned, Typed, testVars
  <2> QED
    BY <1>1, <2>2, <2>4, Unmoved
<1> QED
  BY <1>2, <1>3

\* A completion counts once, for the operation of the stage, if it is seen.
LEMMA ReckonedDriver ==
  ASSUME Owned, Reckoned, Driver
  PROVE  Reckoned'
<1>1. PICK outcome \in Outcomes :
        LET Seen(s) == stage \in s /\ outcome = "SUCCESS" /\ io # "cancelling"
            More(s) == IF Seen(s) THEN 1 ELSE 0
        IN  /\ outcome = "EMPTY" => stage \in {"receive", "listen"}
            /\ Complete(outcome)
            /\ shaken'  = shaken  + More({"connect"})
            /\ carried' = carried + More({"send", "transmit"})
            /\ echoed'  = echoed  + More({"receive", "listen"})
            /\ parted'  = parted  + More({"close"})
            /\ UNCHANGED testVars
  BY DEF Driver
<1>2. /\ token = "queued" /\ token' = outcome /\ io' = io /\ result' = "none" /\ result = "none"
      /\ clock' = clock
      /\ stage' = stage /\ test' = test /\ round' = round /\ count' = count /\ verdict' = verdict
      /\ child' = child /\ stage \in Operations /\ io \in {"waiting", "closing", "cancelling"}
  BY <1>1 DEF Complete, Owned, testVars
<1>3. Typed'
  BY <1>1, <1>2 DEF Reckoned, Typed, IoTypeOK
<1>4. ~Due
  BY <1>2 DEF Due
<1>5. CASE outcome # "SUCCESS" \/ io = "cancelling"
  <2>1. ~Due'
    BY <1>2, <1>5 DEF Due
  <2>2. UNCHANGED <<shaken, carried, echoed, parted>>
    BY <1>1, <1>5, <1>3 DEF Reckoned, Typed
  <2> QED
    BY <1>1, <1>3, <1>4, <2>1, <2>2, Unmoved
<1>6. CASE outcome = "SUCCESS" /\ io # "cancelling"
  <2>1. Due'
    BY <1>2, <1>6 DEF Due
  <2>2. /\ shaken' = IF stage = "connect" THEN shaken + 1 ELSE shaken
        /\ carried' = IF stage \in {"send", "transmit"} THEN carried + 1 ELSE carried
        /\ echoed' = IF stage \in {"receive", "listen"} THEN echoed + 1 ELSE echoed
        /\ parted' = IF stage = "close" THEN parted + 1 ELSE parted
    BY <1>1, <1>6, <1>3 DEF Reckoned, Typed
  <2>3. \A s : Pend(s) = 0 /\ Pend(s)' = IF stage = s THEN 1 ELSE 0
    BY <1>2, <1>4, <2>1 DEF Pend
  <2>4. (Rounded /\ Staged /\ VerdictHonest)'
    BY <1>2 DEF Reckoned, Rounded, Staged, VerdictHonest, Done, Operations
  <2>5. LoopsReckoned'
    <3>1. /\ count["ok"] \in Nat /\ count["received"] \in Nat /\ Gone' = Gone
          /\ carried \in Nat
      BY <1>2 DEF Reckoned, Typed, Fields, Gone
    <3> QED
      BY <1>2, <2>2, <2>3, <3>1 DEF Reckoned, Staged, LoopsReckoned, TcpTests, TcpLoops, UdpTests
  <2>6. SinglesReckoned'
    BY <1>2, <2>2, <2>3 DEF Reckoned, Staged, SinglesReckoned, TcpTests, TcpLoops, UdpTests
  <2> QED
    BY <1>3, <2>4, <2>5, <2>6 DEF Reckoned
<1> QED
  BY <1>5, <1>6

LEMMA ReckonedBegin ==
  ASSUME Owned, Reckoned, NEW t \in Tests, Begin(t)
  PROVE  Reckoned'
<1>1. /\ stage' = "open" /\ test' = t /\ round' = 0 /\ count' = Zero /\ verdict' = "none"
      /\ shaken' = 0 /\ carried' = 0 /\ echoed' = 0 /\ parted' = 0
      /\ token' = "none" /\ result' = "none"
  BY DEF Begin, Owned, Operations, ioVars
<1>2. IoTypeOK'
  BY DEF Begin, Reckoned, Typed, IoTypeOK, ioVars
<1>3. Typed'
  BY <1>1, <1>2, ZeroIs DEF Typed
<1>4. Rounded' /\ Staged' /\ VerdictHonest'
  BY <1>1, RoundsAre DEF Rounded, Staged, VerdictHonest, Done
<1>5. \A s : Pend(s)' = 0
  BY <1>1 DEF Pend, Due
<1>6. LoopsReckoned'
  BY <1>1, <1>5, ZeroIs DEF LoopsReckoned, Gone, Fields
<1>7. SinglesReckoned'
  BY <1>1, <1>5 DEF SinglesReckoned
<1> QED
  BY <1>3, <1>4, <1>6, <1>7 DEF Reckoned

\* Between two operations nothing is due, and the token is with nobody.
LEMMA BetweenOperations ==
  ASSUME Owned, stage \notin Operations
  PROVE  token = "none" /\ result = "none" /\ io = "idle" /\ ~Due
  BY DEF Owned, Due

LEMMA ReckonedOpenChild ==
  ASSUME Owned, Reckoned, OpenChild
  PROVE  Reckoned'
<1>1. token = "none" /\ result = "none"
  BY BetweenOperations DEF OpenChild, Operations
<1>2. PICK S : count' = Add(S) /\ S = (CASE test = "PortScan" -> {"sent", "tried"}
                                         [] test \in {"TcpMultiPort", "TcpStress"} -> {"sent"}
                                         [] OTHER -> {})
  BY DEF OpenChild
<1>3. /\ stage = "open" /\ stage' = IF test \in UdpTests THEN "transmit" ELSE "connect"
      /\ UNCHANGED <<test, round, verdict, shaken, carried, echoed, parted, token, clock, io, result>>
  BY DEF OpenChild, seenVars, ioVars
<1>4. \A s : Pend(s) = 0 /\ Pend(s)' = 0
  BY <1>1, <1>3 DEF Pend, Due
<1>5. /\ count' \in [Fields -> Nat]
      /\ count'["ok"] = count["ok"] /\ count'["received"] = count["received"]
      /\ count'["tried"] = count["tried"] + (IF test = "PortScan" THEN 1 ELSE 0)
  BY <1>2, AddIs DEF Reckoned, Typed, Fields
<1>6. Typed'
  BY <1>1, <1>3, <1>5 DEF Reckoned, Typed, IoTypeOK
<1>7. Rounded' /\ Staged' /\ VerdictHonest'
  BY <1>3 DEF Reckoned, Rounded, Staged, Tests, VerdictHonest, Done, Held, Operations, Typed
<1>8. LoopsReckoned'
  <2>1. count["ok"] \in Nat /\ count["tried"] \in Nat /\ Gone' = Gone
    BY <1>3 DEF Reckoned, Typed, Fields, Gone
  <2> QED
    BY <1>3, <1>4, <1>5, <2>1 DEF Reckoned, LoopsReckoned
<1>9. SinglesReckoned'
  BY <1>3, <1>4 DEF Reckoned, SinglesReckoned, UdpTests
<1> QED
  BY <1>6, <1>7, <1>8, <1>9 DEF Reckoned

\* The next round of a loop has nothing due and the same counters behind it.
LEMMA ReckonedRound ==
  ASSUME Owned', Typed', Reckoned, NextRound, stage \in Held \cup {"open"},
         test \in TcpLoops \cup {"UdpMultiPort"},
         UNCHANGED <<test, verdict, shaken, carried, parted>>,
         verdict = "none" \/ stage # "rest",
         test \in TcpLoops =>
           /\ shaken = count'["ok"] /\ count'["ok"] <= round + 1
           /\ test = "PortScan" => count'["ok"] <= count'["tried"],
         test = "UdpMultiPort" =>
           /\ echoed' = count'["received"] /\ count'["received"] <= round + 1
           /\ count'["received"] <= count'["ok"] /\ count'["ok"] <= carried
  PROVE  Reckoned'
<1>1. /\ round \in Nat /\ round < Rounds[test] /\ Rounds[test] \in 1..50
      /\ round' = round + 1
      /\ stage' = IF round + 1 < Rounds[test] THEN "open" ELSE "evaluate"
  BY RoundsAre DEF Reckoned, Rounded, NextRound, Typed
<1>2. \A s : Pend(s)' = 0
  <2>1. stage' \notin Operations
    BY <1>1 DEF Operations
  <2>2. ~Due'
    BY <2>1 DEF Owned, Due
  <2> QED
    BY <2>2 DEF Pend
<1>3. Rounded' /\ Staged' /\ VerdictHonest'
  BY <1>1 DEF Rounded, Staged, VerdictHonest, Done, Held, Operations
<1>4. LoopsReckoned'
  <2>1. Gone' = round + 1
    BY <1>1 DEF Gone
  <2>2. count'["ok"] \in Nat /\ count'["received"] \in Nat /\ count'["tried"] \in Nat
    BY DEF Typed, Fields
  <2> QED
    BY <1>1, <1>2, <2>1, <2>2 DEF LoopsReckoned, TcpLoops, Typed
<1>5. SinglesReckoned'
  BY <1>1 DEF SinglesReckoned, TcpLoops
<1> QED
  BY <1>3, <1>4, <1>5 DEF Reckoned

LEMMA ReckonedDestroy ==
  ASSUME Owned, Owned', Reckoned, Destroy
  PROVE  Reckoned'
<1>1. /\ stage = "destroy" /\ stage' \in {"rest", "open", "evaluate"}
      /\ UNCHANGED <<test, count, verdict, shaken, carried, echoed, parted, token, clock, io, result>>
  BY DEF Destroy, NextRound, ioVars
<1>2. /\ token = "none" /\ result = "none" /\ \A s : Pend(s) = 0
  BY <1>1, BetweenOperations DEF Operations, Pend
<1>3. Typed'
  BY <1>1, <1>2 DEF Reckoned, Typed, IoTypeOK
<1>4. CASE test \in TcpLoops
  <2>1. shaken = count["ok"] /\ count["ok"] <= round + 1
    BY <1>1, <1>2, <1>4 DEF Reckoned, LoopsReckoned, Gone, Typed, Fields
  <2>2. test = "PortScan" => count["ok"] <= count["tried"]
    BY <1>1, <1>2, <1>4 DEF Reckoned, LoopsReckoned, Typed, Fields
  <2>3. NextRound /\ test # "UdpMultiPort"
    BY <1>4 DEF Destroy, TcpLoops
  <2>4. stage \in Held
    BY <1>1 DEF Held
  <2> QED
    BY <1>1, <1>3, <1>4, <2>1, <2>2, <2>3, <2>4, ReckonedRound
<1>5. CASE test \notin TcpLoops
  <2>1. stage' = "rest" /\ round' = round
    BY <1>5 DEF Destroy
  <2>2. test \in {"TcpConnect", "TcpDataTransfer", "TcpClose"}
    BY <1>1, <1>5 DEF Reckoned, Staged, TcpTests
  <2>3. (Rounded /\ Staged /\ LoopsReckoned /\ SinglesReckoned)'
    BY <1>1, <2>1, <2>2
    DEF Reckoned, Rounded, Staged, LoopsReckoned, SinglesReckoned, Held, Operations, TcpLoops
  <2>4. VerdictHonest'
    BY <1>1, <2>1, <2>2 DEF Reckoned, SinglesReckoned, VerdictHonest, Done
  <2> QED
    BY <1>3, <2>3, <2>4 DEF Reckoned
<1> QED
  BY <1>4, <1>5

LEMMA ReckonedEvaluate ==
  ASSUME Owned, Reckoned, Evaluate
  PROVE  Reckoned'
<1>1. /\ stage = "evaluate" /\ stage' = "rest" /\ verdict' = Judged
      /\ UNCHANGED <<test, round, count, shaken, carried, echoed, parted, token, clock, io, result>>
  BY DEF Evaluate, Conclude, seenVars, ioVars
<1>2. /\ token = "none" /\ result = "none" /\ \A s : Pend(s) = 0
  BY <1>1, BetweenOperations DEF Operations, Pend
<1>3. test \in TcpLoops \cup {"UdpMultiPort"}
  BY <1>1 DEF Reckoned, Staged
<1>4. /\ count["ok"] \in Nat /\ count["received"] \in Nat /\ count["tried"] \in Nat
      /\ Rounds[test] \in 1..50 /\ round \in 0..Rounds[test]
      /\ test = "TcpStress" => Rounds[test] = Iterations
  BY RoundsAre DEF Reckoned, Typed, Fields, Rounded
<1>5. test \in TcpLoops => /\ shaken = count["ok"] /\ count["ok"] <= Rounds[test]
                           /\ test = "PortScan" => count["ok"] <= count["tried"]
  BY <1>1, <1>2, <1>4 DEF Reckoned, LoopsReckoned, Gone
<1>6. test = "UdpMultiPort" => /\ echoed = count["received"] /\ count["received"] <= Rounds[test]
                               /\ count["received"] <= count["ok"] /\ count["ok"] <= carried
  BY <1>1, <1>2, <1>4 DEF Reckoned, LoopsReckoned
<1>7. verdict' \in Verdicts /\ VerdictHonest'
  <2>1. CASE test = "TcpMultiPort"
    BY <1>1, <1>4, <1>5, <2>1 DEF Judged, VerdictHonest, Done, TcpLoops, Verdicts
  <2>2. CASE test = "PortScan"
    BY <1>1, <1>4, <1>5, <2>2 DEF Judged, VerdictHonest, Done, TcpLoops, Verdicts
  <2>3. CASE test = "TcpStress"
    <3>1. Iterations \in 1..50 /\ shaken = count["ok"] /\ count["ok"] <= Iterations
      BY <1>4, <1>5, <2>3, IterationsAssumption DEF TcpLoops
    <3>2. verdict' = CASE count["ok"] = Iterations -> "PASS"
                       [] count["ok"] < Iterations /\ count["ok"] > Iterations \div 2 -> "WARN"
                       [] OTHER -> "FAIL"
      BY <1>1, <2>3 DEF Judged
    <3>3. /\ verdict' \in Verdicts
          /\ verdict' = "PASS" <=> shaken' = Iterations
          /\ verdict' = "FAIL" <=> 2 * shaken' <= Iterations
      BY <1>1, <1>4, <3>1, <3>2 DEF Verdicts
    <3> QED
      BY <1>1, <2>3, <3>3 DEF VerdictHonest, Done
  <2>4. CASE test = "UdpMultiPort"
    <3>1. /\ verdict' = CASE count["received"] = Rounds[test] -> "PASS"
                          [] count["received"] < Rounds[test]
                             /\ count["received"] + count["ok"] > 0 -> "WARN"
                          [] OTHER -> "FAIL"
      BY <1>1, <2>4 DEF Judged
    <3>2. carried \in Nat
      BY DEF Reckoned, Typed
    <3>3. /\ verdict' \in Verdicts
          /\ verdict' = "PASS" <=> echoed' = Rounds[test]
          /\ verdict' = "FAIL" => echoed' = 0
          /\ carried' = 0 => verdict' = "FAIL"
      BY <1>1, <1>4, <1>6, <2>4, <3>1, <3>2 DEF Verdicts
    <3>4. Rounds[test]' = Rounds[test]
      BY <1>1 DEF Rounds
    <3> QED
      BY <1>1, <2>4, <3>3, <3>4 DEF VerdictHonest, Done
  <2> QED
    BY <1>3, <2>1, <2>2, <2>3, <2>4 DEF TcpLoops
<1>8. Typed'
  BY <1>1, <1>2, <1>7 DEF Reckoned, Typed, IoTypeOK
<1>9. (Rounded /\ Staged /\ LoopsReckoned /\ SinglesReckoned)'
  BY <1>1, <1>3
  DEF Reckoned, Rounded, Staged, LoopsReckoned, SinglesReckoned, Held, Operations, TcpLoops
<1> QED
  BY <1>7, <1>8, <1>9 DEF Reckoned

\* What the UDP tests make of an outcome, if data says whether there was an echo.
LEMMA ReckonedUdp ==
  ASSUME Owned', Reckoned, NEW status, NEW data \in BOOLEAN, UdpReturned(status, data), IoTypeOK',
         token' = "none", result' = "none", stage \in {"open", "transmit", "listen"},
         UNCHANGED <<test, shaken, carried, echoed, parted>>,
         Pend("listen") = IF data THEN 1 ELSE 0,
         data => status # "EMPTY" /\ stage = "listen",
         status = "EMPTY" => stage = "listen"
  PROVE  Reckoned'
<1>0. /\ count \in [Fields -> Nat] /\ echoed \in Nat /\ round \in Nat
      /\ count["received"] \in Nat /\ count["ok"] \in Nat /\ carried \in Nat
  BY RoundsAre DEF Reckoned, Typed, Rounded, Fields
<1>1. CASE test = "UdpSendReceive"
  <2>1. /\ count' = Add({"sent"} \cup IF data THEN {"received"} ELSE {})
        /\ verdict' = IF data THEN "PASS" ELSE "WARN"
        /\ stage' = "rest" /\ round' = round
    BY <1>1 DEF UdpReturned, Conclude
  <2>2. echoed = IF data THEN 1 ELSE 0
    BY <1>1 DEF Reckoned, SinglesReckoned
  <2>3. VerdictHonest'
    BY <1>1, <2>1, <2>2 DEF VerdictHonest, Done
  <2>4. Typed'
    BY <1>0, <2>1, AddIs DEF Reckoned, Typed, Verdicts
  <2>5. (Rounded /\ Staged /\ LoopsReckoned /\ SinglesReckoned)'
    BY <1>1, <2>1
    DEF Reckoned, Rounded, Staged, LoopsReckoned, SinglesReckoned, Held, Operations, TcpLoops
  <2> QED
    BY <2>3, <2>4, <2>5 DEF Reckoned
<1>2. CASE test = "UdpMultiPort"
  <2>1. /\ count' = Add(CASE data -> {"sent", "ok", "received"}
                          [] status = "EMPTY" -> {"sent", "ok"}
                          [] OTHER -> {"sent"})
        /\ NextRound /\ verdict' = verdict
    BY <1>2 DEF UdpReturned
  <2>3. /\ count' \in [Fields -> Nat]
        /\ count'["received"] = count["received"] + (IF data THEN 1 ELSE 0)
        /\ \/ ~data /\ count'["ok"] = count["ok"]
           \/ stage = "listen" /\ count'["ok"] = count["ok"] + 1
    <3>1. CASE data
      <4>1. count' = Add({"sent", "ok", "received"})
        BY <2>1, <3>1
      <4> QED
        BY <1>0, <3>1, <4>1, AddIs DEF Fields
    <3>2. CASE ~data
      <4>1. \/ status = "EMPTY" /\ count' = Add({"sent", "ok"})
            \/ count' = Add({"sent"})
        BY <2>1, <3>2
      <4> QED
        BY <1>0, <3>2, <4>1, AddIs DEF Fields
    <3> QED
      BY <3>1, <3>2
  <2>4. echoed = count["received"] + Pend("listen") /\ count["received"] <= round
    BY <1>2 DEF Reckoned, LoopsReckoned
  <2>5. Typed'
    BY <2>1, <2>3 DEF Reckoned, Typed
  <2>6. echoed' = count'["received"] /\ count'["received"] <= round + 1
    BY <1>0, <2>3, <2>4
  <2>7. stage \in Held \cup {"open"} /\ stage # "rest" /\ test \notin TcpLoops
    BY <1>2 DEF Held, Operations, TcpLoops
  <2>8. count'["received"] <= count'["ok"] /\ count'["ok"] <= carried
    <3>1. /\ count["received"] <= count["ok"]
          /\ count["ok"] + (IF stage = "listen" THEN 1 ELSE 0) <= carried
      BY <1>0, <1>2 DEF Reckoned, LoopsReckoned, Pend
    <3> QED
      BY <1>0, <2>3, <3>1
  <2> QED
    BY <1>2, <2>1, <2>5, <2>6, <2>7, <2>8, ReckonedRound
<1> QED
  BY <1>1, <1>2 DEF UdpReturned

LEMMA ReckonedOpenFails ==
  ASSUME Owned, Owned', Reckoned, OpenFails
  PROVE  Reckoned'
<1>1. /\ stage = "open"
      /\ UNCHANGED <<test, shaken, carried, echoed, parted, token, clock, io, result>>
  BY DEF OpenFails, seenVars, ioVars
<1>2. token = "none" /\ result = "none" /\ \A s : Pend(s) = 0
  BY <1>1, BetweenOperations DEF Operations, Pend
<1>3. IoTypeOK'
  BY <1>1 DEF Reckoned, Typed, IoTypeOK
<1>4. CASE test \in TcpTests \ TcpLoops
  <2>1. verdict' = "FAIL" /\ stage' = "rest" /\ round' = round /\ count' = count
    BY <1>4 DEF OpenFails, Conclude, TcpTests, TcpLoops, UdpTests
  <2>2. VerdictHonest'
    BY <1>1, <1>2, <1>4, <2>1
    DEF Reckoned, SinglesReckoned, VerdictHonest, Done, TcpTests, TcpLoops
  <2>3. Typed'
    BY <1>1, <1>2, <1>3, <2>1 DEF Reckoned, Typed, Verdicts
  <2>4. (Rounded /\ Staged /\ LoopsReckoned /\ SinglesReckoned)'
    BY <1>1, <1>4, <2>1
    DEF Reckoned, Rounded, Staged, LoopsReckoned, SinglesReckoned, Held, Operations, TcpTests, TcpLoops
  <2> QED
    BY <2>2, <2>3, <2>4 DEF Reckoned
<1>5. CASE test \in TcpLoops
  <2>1. /\ NextRound /\ verdict' = verdict
        /\ count' = Add(IF test = "PortScan" THEN {} ELSE {"bad"})
    BY <1>5 DEF OpenFails, TcpTests, TcpLoops, UdpTests
  <2>2. /\ count' \in [Fields -> Nat]
        /\ count'["ok"] = count["ok"] /\ count'["tried"] = count["tried"]
    BY <2>1, AddIs DEF Reckoned, Typed, Fields
  <2>3. /\ shaken = count["ok"] /\ count["ok"] <= round + 1
        /\ test = "PortScan" => count["ok"] <= count["tried"]
    <3>1. count["ok"] \in Nat /\ count["tried"] \in Nat /\ round \in Nat /\ Gone = round
      BY <1>1, RoundsAre DEF Reckoned, Typed, Fields, Rounded, Gone
    <3> QED
      BY <1>1, <1>2, <1>5, <3>1 DEF Reckoned, LoopsReckoned
  <2>4. Typed'
    BY <1>1, <1>2, <1>3, <2>1, <2>2 DEF Reckoned, Typed
  <2>5. test # "UdpMultiPort"
    BY <1>5 DEF TcpLoops
  <2> QED
    BY <1>1, <1>5, <2>1, <2>2, <2>3, <2>4, <2>5, ReckonedRound
<1>6. CASE test \in UdpTests
  <2>1. UdpReturned("ERROR", FALSE)
    BY <1>6 DEF OpenFails, TcpTests, TcpLoops, UdpTests
  <2> QED
    BY <1>1, <1>2, <1>3, <2>1, ReckonedUdp
<1> QED
  BY <1>4, <1>5, <1>6 DEF OpenFails

LEMMA ReckonedTcp ==
  ASSUME Owned, Owned', Reckoned, Consume, TcpStep, UNCHANGED <<shaken, carried, echoed, parted>>
  PROVE  Reckoned'
<1>1. /\ io = "idle" /\ io' = "idle" /\ token = "none" /\ token' = "none"
      /\ result # "none" /\ result' = "none" /\ clock' = clock
      /\ test' = test /\ round' = round
  BY DEF Owned, Consume, TcpStep
<1>2. /\ \A s : Pend(s)' = 0
      /\ \A s : Pend(s) = IF stage = s /\ result = "SUCCESS" THEN 1 ELSE 0
  BY <1>1 DEF Pend, Due
<1>3. /\ count \in [Fields -> Nat] /\ count["ok"] \in Nat /\ count["tried"] \in Nat
      /\ round \in Nat /\ IoTypeOK'
  BY <1>1, RoundsAre DEF Reckoned, Typed, Fields, IoTypeOK, Rounded
<1> USE DEF Reckoned, Staged, SinglesReckoned, LoopsReckoned
<1>4. CASE Connected
  <2>1. /\ stage = "connect" /\ result = "SUCCESS" /\ test \in TcpTests
        /\ stage' = IF test = "TcpDataTransfer" THEN "send" ELSE "close"
        /\ verdict' = IF test = "TcpConnect" THEN "PASS" ELSE verdict
        /\ Gone = round
    BY <1>3, <1>4 DEF Connected, Gone
  <2>2. /\ count' \in [Fields -> Nat]
        /\ count'["tried"] = count["tried"]
        /\ count'["ok"] = count["ok"] + (IF test \in TcpLoops THEN 1 ELSE 0)
    <3>1. CASE test \in TcpLoops
      BY <1>3, <1>4, <3>1, AddIs DEF Connected, Fields
    <3>2. CASE test \notin TcpLoops
      BY <1>3, <1>4, <3>2 DEF Connected
    <3> QED
      BY <3>1, <3>2
  <2>3. Typed' /\ Rounded' /\ Staged' /\ VerdictHonest'
    BY <1>1, <1>3, <2>1, <2>2 DEF Typed, Rounded, Held, Operations, VerdictHonest, Done, Verdicts
  <2>4. LoopsReckoned'
    <3>1. test \notin {"TcpDataTransfer", "UdpMultiPort"} => Gone' = round + 1
      BY <1>1, <2>1 DEF Gone
    <3> QED
      BY <1>1, <1>2, <1>3, <2>1, <2>2, <3>1 DEF TcpTests, TcpLoops
  <2>5. SinglesReckoned'
    BY <1>1, <1>2, <2>1
  <2> QED
    BY <2>3, <2>4, <2>5
<1>5. CASE NotConnected
  <2>1. /\ stage = "connect" /\ result # "SUCCESS" /\ test \in TcpTests
        /\ stage' = "destroy"
        /\ verdict' = IF test \in TcpLoops THEN verdict ELSE "FAIL"
        /\ Gone = round /\ Gone' = round + 1
    BY <1>1, <1>3, <1>5 DEF NotConnected, Gone
  <2>2. /\ count' \in [Fields -> Nat]
        /\ count'["tried"] = count["tried"] /\ count'["ok"] = count["ok"]
    <3>1. CASE test \in {"TcpMultiPort", "TcpStress"}
      BY <1>3, <1>5, <3>1, AddIs DEF NotConnected, Fields
    <3>2. CASE test \notin {"TcpMultiPort", "TcpStress"}
      BY <1>3, <1>5, <3>2 DEF NotConnected
    <3> QED
      BY <3>1, <3>2
  <2>3. Typed' /\ Rounded' /\ Staged' /\ VerdictHonest'
    BY <1>1, <1>3, <2>1, <2>2 DEF Typed, Rounded, Held, Operations, VerdictHonest, Done, Verdicts
  <2>4. LoopsReckoned'
    BY <1>1, <1>2, <1>3, <2>1, <2>2 DEF TcpTests, TcpLoops, UdpTests
  <2>5. SinglesReckoned'
    BY <1>1, <1>2, <2>1 DEF TcpLoops
  <2> QED
    BY <2>3, <2>4, <2>5
<1>6. CASE DataSent \/ DataReceived
  <2>1. /\ test = "TcpDataTransfer" /\ stage' \in {"receive", "close"}
        /\ verdict' \in Verdicts \cup {"none"}
    BY <1>6 DEF DataSent, DataReceived, Conclude, Verdicts, Typed
  <2>2. count' \in [Fields -> Nat]
    BY <1>3, <1>6, AddIs DEF DataSent, DataReceived
  <2>3. Typed' /\ Rounded' /\ Staged' /\ VerdictHonest' /\ LoopsReckoned'
    BY <1>1, <1>3, <1>6, <2>1, <2>2
    DEF DataSent, DataReceived, Typed, Rounded, Held, Operations, TcpTests, TcpLoops, VerdictHonest, Done
  <2>4. SinglesReckoned'
    BY <1>1, <1>2, <1>6, <2>1 DEF DataSent, DataReceived, Conclude
  <2> QED
    BY <2>3, <2>4
<1>7. CASE Closed
  <2>1. /\ stage = "close" /\ stage' = "destroy" /\ count' = count /\ Gone' = Gone /\ test \in TcpTests
    BY <1>1, <1>7 DEF Closed, Gone
  <2>2. /\ test # "TcpClose" => verdict' = verdict
        /\ test = "TcpClose" =>
             \/ result = "SUCCESS" /\ verdict' = "PASS"
             \/ result = "TIMEOUT" /\ verdict' = "WARN"
             \/ result = "ERROR" /\ verdict' = "FAIL"
    <3>1. result \in {"SUCCESS", "TIMEOUT", "ERROR"}
      BY <1>1, <2>1, OutcomesAssumption DEF Typed, IoTypeOK
    <3> QED
      BY <1>7, <3>1 DEF Closed
  <2>3. Typed' /\ Rounded' /\ Staged' /\ VerdictHonest'
    BY <1>1, <1>3, <2>1, <2>2 DEF Typed, Rounded, Held, Operations, VerdictHonest, Done, Verdicts
  <2>4. LoopsReckoned'
    BY <1>1, <1>2, <1>3, <2>1 DEF TcpTests, TcpLoops, UdpTests
  <2>5. SinglesReckoned'
    BY <1>1, <1>2, <2>1, <2>2
  <2> QED
    BY <2>3, <2>4, <2>5
<1> QED
  BY <1>4, <1>5, <1>6, <1>7 DEF TcpStep

LEMMA ReckonedReact ==
  ASSUME Owned, Owned', Reckoned, React
  PROVE  Reckoned'
<1>1. /\ Consume /\ io = "idle" /\ token = "none" /\ token' = "none" /\ result' = "none"
      /\ UNCHANGED <<shaken, carried, echoed, parted, clock>> /\ io' = io
  BY DEF React, Consume, seenVars, Owned
<1>2. CASE TcpStep
  BY <1>1, <1>2, ReckonedTcp
<1>3. CASE UdpStep
  <2>1. IoTypeOK'
    BY <1>1 DEF Reckoned, Typed, IoTypeOK
  <2>2. CASE stage = "transmit" /\ result = "SUCCESS"
    <3>1. stage' = "listen" /\ UNCHANGED <<test, round, child, count, verdict>>
      BY <1>3, <2>2 DEF UdpStep
    <3>2. /\ \A s : Pend(s)' = 0
          /\ Pend("listen") = 0 /\ Pend("transmit") = 1
          /\ Gone' = Gone
      BY <1>1, <2>2, <3>1 DEF Pend, Due, Gone
    <3>6. count["ok"] \in Nat /\ carried \in Nat
      BY DEF Reckoned, Typed, Fields
    <3>3. test \in UdpTests
      BY <2>2 DEF Reckoned, Staged
    <3>4. (Typed /\ Rounded /\ Staged /\ VerdictHonest)'
      BY <1>1, <2>1, <2>2, <3>1 DEF Reckoned, Typed, Rounded, Staged, Held, Operations, VerdictHonest, Done
    <3>5. LoopsReckoned' /\ SinglesReckoned'
      BY <1>1, <2>2, <3>1, <3>2, <3>3, <3>6 DEF Reckoned, LoopsReckoned, SinglesReckoned, UdpTests, TcpLoops
    <3> QED
      BY <3>4, <3>5 DEF Reckoned
  <2>3. CASE ~(stage = "transmit" /\ result = "SUCCESS")
    <3> DEFINE data == stage = "listen" /\ result = "SUCCESS"
    <3>1. /\ stage \in {"transmit", "listen"} /\ test' = test
          /\ UdpReturned(result, data)
      BY <1>3, <2>3 DEF UdpStep
    <3>2. Pend("listen") = IF data THEN 1 ELSE 0
      BY <1>1 DEF Pend, Due
    <3>3. data \in BOOLEAN /\ (data => result # "EMPTY" /\ stage = "listen")
      OBVIOUS
    <3>4. result = "EMPTY" => stage = "listen"
      BY <3>1 DEF Reckoned, Typed
    <3> HIDE DEF data
    <3> QED
      BY <1>1, <2>1, <3>1, <3>2, <3>3, <3>4, ReckonedUdp
  <2> QED
    BY <2>2, <2>3
<1> QED
  BY <1>2, <1>3 DEF React

LEMMA ReckonedNext == Owned /\ Reckoned /\ [Next]_vars => Reckoned'
<1> SUFFICES ASSUME Owned, Reckoned, [Next]_vars
             PROVE  Reckoned'
  OBVIOUS
<1>0. Owned'
  BY OwnedNext
<1>1. CASE \E t \in Tests : Begin(t)
  BY <1>1, ReckonedBegin
<1>2. CASE OpenChild \/ OpenFails \/ Destroy \/ Evaluate
  BY <1>0, <1>2, ReckonedOpenChild, ReckonedOpenFails, ReckonedDestroy, ReckonedEvaluate
<1>3. CASE Operate \/ Waiting
  BY <1>3, ReckonedCaller
<1>4. CASE Driver
  BY <1>4, ReckonedDriver
<1>5. CASE React
  BY <1>0, <1>5, ReckonedReact
<1>6. CASE UNCHANGED vars
  <2>1. UNCHANGED <<testVars, shaken, carried, echoed, parted, token, clock, io, result>>
    BY <1>6 DEF vars, seenVars, ioVars
  <2>2. Typed' /\ (Due' <=> Due)
    BY <2>1 DEF Reckoned, Typed, IoTypeOK, testVars, Due
  <2> QED
    BY <2>1, <2>2, Unmoved
<1> QED
  BY <1>1, <1>2, <1>3, <1>4, <1>5, <1>6 DEF Next, Program

LEMMA ReckonedAlways == Spec => []Reckoned
<1>1. Init => Owned /\ Reckoned
  BY OwnedInit, ReckonedInit
<1>2. Owned /\ Reckoned /\ [Next]_vars => Owned' /\ Reckoned'
  BY OwnedNext, ReckonedNext
<1> QED
  BY <1>1, <1>2, PTL DEF Spec

\* The verdict of a layer 4 test tells what the driver did before the test took
\* its last look, for every number of iterations of the stress test.
THEOREM VerdictHonestAlways == Spec => []VerdictHonest
<1>1. Reckoned => VerdictHonest
  BY DEF Reckoned
<1> QED
  BY <1>1, ReckonedAlways, PTL

-----------------------------------------------------------------------------
Booleans == child \in BOOLEAN /\ open \in BOOLEAN

LEMMA BooleansNext == Booleans /\ [Next]_vars => Booleans'
<1> SUFFICES ASSUME Booleans, [Next]_vars
             PROVE  Booleans'
  OBVIOUS
<1>1. CASE (\E t \in Tests : Begin(t)) \/ OpenChild \/ OpenFails \/ Destroy \/ Evaluate
  BY <1>1 DEF Booleans, Begin, OpenChild, OpenFails, Destroy, Evaluate, seenVars
<1>2. CASE Operate \/ Waiting
  BY <1>2, Zenon DEF Booleans, Operate, Waiting, testVars, seenVars
<1>3. CASE Driver
  <2>1. child' = child
    BY <1>3 DEF Driver, testVars
  <2>2. open' \in BOOLEAN
    BY <1>3, Zenon DEF Driver
  <2> QED
    BY <2>1, <2>2 DEF Booleans
<1>4. CASE React
  BY <1>4 DEF Booleans, React, TcpStep, UdpStep, seenVars
<1>5. CASE UNCHANGED vars
  BY <1>5 DEF Booleans, vars, testVars, seenVars
<1> QED
  BY <1>1, <1>2, <1>3, <1>4, <1>5 DEF Next, Program

\* The types of every variable of the layer 4 tests.
THEOREM TypeOKAlways == Spec => []TypeOK
<1>1. Init => Booleans
  BY DEF Init, Booleans
<1>2. Owned /\ Reckoned /\ Booleans => TypeOK
  <2> SUFFICES ASSUME Owned, Reckoned, Booleans PROVE TypeOK
    OBVIOUS
  <2>1. count \in [DOMAIN Zero -> Nat]
    BY DEF Reckoned, Typed, Zero, Fields
  <2>2. IoTypeOK /\ stage \in Stages /\ round \in 0..Rounds[test] /\ test \in Tests
    BY DEF Owned, Reckoned, Typed, Rounded
  <2>3. verdict \in Verdicts \cup {"none"} /\ {shaken, carried, echoed, parted} \subseteq Nat
    BY DEF Reckoned, Typed
  <2> QED
    BY <2>1, <2>2, <2>3, Zenon DEF TypeOK, Booleans
<1> QED
  BY <1>1, <1>2, BooleansNext, OwnedAlways, ReckonedAlways, PTL DEF Spec

-----------------------------------------------------------------------------
(* A test has a bounded number of steps *)

\* What one round of a test can still take.
RoundLeft ==
  CASE stage = "open" -> 25
    [] stage = "connect" -> 19 + IoLeft
    [] stage = "send" -> 13 + IoLeft
    [] stage \in {"transmit", "receive"} -> 7 + IoLeft
    [] stage \in {"listen", "close"} -> 1 + IoLeft
    [] stage = "destroy" -> 0

StepsLeft ==
  IF stage = "rest" THEN 0
  ELSE IF stage = "evaluate" THEN 1
  ELSE 2 + RoundLeft + 26 * (Rounds[test] - round - 1)

\* What the program does brings the test nearer its end; the driver cannot send it
\* back.
EveryStepCounts ==
  /\ Program => StepsLeft' < StepsLeft
  /\ Driver => StepsLeft' = StepsLeft

\* A clock runs only while its operation is waited for, and until the operation
\* is over its token is with the driver or has a status.
Timed ==
  /\ clock = "running" => io = "waiting"
  /\ io # "idle" => token # "none"

LEMMA TimedNext == Timed /\ Owned /\ [Next]_vars => Timed'
<1> SUFFICES ASSUME Timed, Owned, [Next]_vars PROVE Timed'
  OBVIOUS
<1>1. CASE Operate
  BY <1>1 DEF Timed, Operate, Refuse, Accept
<1>2. CASE Waiting
  BY <1>2 DEF Timed, Waiting, Wait, LeaveLoop, LastLook, Cancel, Tick
<1>3. CASE Driver
  BY <1>3, OutcomesAssumption DEF Timed, Driver, Complete
<1>4. CASE React
  BY <1>4 DEF Timed, React, Consume
<1>5. CASE (\E t \in Tests : Begin(t)) \/ OpenChild \/ OpenFails \/ Destroy \/ Evaluate \/ UNCHANGED vars
  BY <1>5 DEF Timed, Begin, OpenChild, OpenFails, Destroy, Evaluate, vars, ioVars
<1> QED
  BY <1>1, <1>2, <1>3, <1>4, <1>5 DEF Next, Program

\* Where a test is in one of its rounds.
Underway == stage \in Held \cup {"open"}

LEMMA IoLeftIs == ASSUME IoTypeOK PROVE IoLeft \in 0..5
  BY DEF IoTypeOK, IoLeft

LEMMA WaitingCounts ==
  ASSUME IoTypeOK, Timed, Wait \/ Tick
  PROVE  IoLeft' \in 0..5 /\ IoLeft' < IoLeft
<1>1. CASE LeaveLoop \/ Tick
  BY <1>1 DEF LeaveLoop, Tick, IoLeft, Timed
<1>2. CASE Cancel
  BY <1>2 DEF Cancel, IoLeft
<1>3. CASE LastLook
  <2>1. CASE token = "queued"
    BY <1>3, <2>1 DEF LastLook, IoLeft
  <2>2. CASE token # "queued"
    BY <1>3, <2>2 DEF LastLook, IoLeft, Timed
  <2> QED
    BY <2>1, <2>2
<1> QED
  BY <1>1, <1>2, <1>3 DEF Wait

LEMMA RoundLeftIs ==
  ASSUME IoTypeOK, Underway
  PROVE  RoundLeft \in 0..25
<1>1. IoLeft \in 0..5
  BY IoLeftIs
<1> QED
  BY <1>1 DEF Underway, Held, Operations, RoundLeft

\* The next round is a round less, and one begins where its child is opened.
LEMMA NextRoundCounts ==
  ASSUME Owned, Reckoned, Underway, NextRound, test' = test
  PROVE  StepsLeft' < StepsLeft
<1>1. /\ round \in Nat /\ Rounds[test] \in Nat /\ round < Rounds[test]
      /\ RoundLeft \in 0..25
  BY RoundsAre, RoundLeftIs DEF Reckoned, Typed, Rounded, Underway
<1>2. StepsLeft = 2 + RoundLeft + 26 * (Rounds[test] - round - 1)
  BY DEF StepsLeft, Underway, Held, Operations
<1>3. CASE stage' = "evaluate"
  BY <1>1, <1>2, <1>3 DEF StepsLeft
<1>4. CASE stage' = "open"
  <2>1. RoundLeft' = 25
    BY <1>4 DEF RoundLeft
  <2>2. StepsLeft' = 2 + 25 + 26 * (Rounds[test]' - (round + 1) - 1)
    BY <1>4, <2>1 DEF StepsLeft, NextRound
  <2>3. Rounds[test]' = Rounds[test]
    BY DEF Rounds
  <2> QED
    BY <1>1, <1>2, <2>2, <2>3
<1> QED
  BY <1>3, <1>4 DEF NextRound

\* Within a round, what is left of it tells.
LEMMA WithinRound ==
  ASSUME Owned, Reckoned, Underway, UNCHANGED <<test, round>>,
         stage' = "rest" \/ (Underway' /\ RoundLeft' \in Nat /\ RoundLeft' < RoundLeft)
  PROVE  StepsLeft' < StepsLeft
<1>1. /\ round \in Nat /\ Rounds[test] \in Nat /\ round < Rounds[test]
      /\ RoundLeft \in 0..25
  BY RoundsAre, RoundLeftIs DEF Reckoned, Typed, Rounded, Underway
<1>2. StepsLeft = 2 + RoundLeft + 26 * (Rounds[test] - round - 1)
  BY DEF StepsLeft, Underway, Held, Operations
<1>3. Rounds[test]' = Rounds[test]
  BY DEF Rounds
<1>4. CASE stage' = "rest"
  BY <1>1, <1>2, <1>4 DEF StepsLeft
<1>5. CASE Underway' /\ RoundLeft' \in Nat /\ RoundLeft' < RoundLeft
  <2>1. StepsLeft' = 2 + RoundLeft' + 26 * (Rounds[test]' - round' - 1)
    BY <1>5 DEF StepsLeft, Underway, Held, Operations
  <2> QED
    BY <1>1, <1>2, <1>3, <1>5, <2>1
<1> QED
  BY <1>4, <1>5

LEMMA OperationCounts ==
  ASSUME Owned, Reckoned, Timed, Operate \/ Waiting
  PROVE  StepsLeft' < StepsLeft
<1>1. IoTypeOK
  BY DEF Reckoned, Typed
<1>2. CASE Operate
  <2>1. /\ stage \in Operations /\ UNCHANGED testVars
        /\ io = "idle" /\ result = "none"
        /\ \/ io' = "idle" /\ result' = "ERROR"
           \/ io' = "waiting" /\ result' = "none"
    BY <1>2 DEF Operate, Refuse, Accept, Ready
  <2>2. IoLeft = 5
    BY <2>1 DEF IoLeft
  <2>3. IoLeft' \in 0..4
    BY <2>1 DEF IoLeft
  <2> QED
    BY <2>1, <2>2, <2>3, WithinRound DEF RoundLeft, Underway, Held, Operations, testVars
<1>3. CASE Waiting
  <2>1. io # "idle" /\ UNCHANGED testVars /\ stage \in Operations
    BY <1>3 DEF Waiting, Wait, LeaveLoop, LastLook, Cancel, Tick, Owned, Timed
  <2>2. IoLeft \in 0..5 /\ IoLeft' \in 0..5 /\ IoLeft' < IoLeft
    BY <1>3, WaitingCounts, IoLeftIs, <1>1 DEF Waiting
  <2>3. UNCHANGED <<stage, test, round>>
    BY <2>1 DEF testVars
  <2>4. RoundLeft' \in Nat /\ RoundLeft' < RoundLeft
    BY <2>1, <2>2, <2>3 DEF RoundLeft, Operations
  <2> QED
    BY <2>1, <2>3, <2>4, WithinRound DEF Underway, Held
<1> QED
  BY <1>2, <1>3

LEMMA ReactionCounts ==
  ASSUME Owned, Reckoned, React
  PROVE  StepsLeft' < StepsLeft
<1>1. /\ stage \in Operations /\ io = "idle" /\ result # "none"
      /\ io' = "idle" /\ result' = "none"
  BY DEF Owned, React, Consume
<1>2. IoLeft = 0 /\ IoLeft' = 5
  BY <1>1 DEF IoLeft
<1>3. Underway
  BY <1>1 DEF Underway, Held
<1>4. CASE TcpStep
  <2>1. /\ UNCHANGED <<test, round>>
        /\ \/ stage = "connect" /\ stage' \in {"send", "close", "destroy"}
           \/ stage = "send" /\ stage' \in {"receive", "close"}
           \/ stage = "receive" /\ stage' = "close"
           \/ stage = "close" /\ stage' = "destroy"
    BY <1>4 DEF TcpStep, Connected, NotConnected, DataSent, DataReceived, Closed
  <2> QED
    BY <1>2, <1>3, <2>1, WithinRound DEF RoundLeft, Underway, Held, Operations
<1>5. CASE UdpStep
  <2>1. CASE stage = "transmit" /\ stage' = "listen" /\ UNCHANGED <<test, round>>
    BY <1>2, <1>3, <2>1, WithinRound DEF RoundLeft, Underway, Held, Operations
  <2>2. CASE stage' = "rest" /\ UNCHANGED <<test, round>>
    BY <1>3, <2>2, WithinRound
  <2>3. CASE NextRound /\ test' = test
    BY <1>3, <2>3, NextRoundCounts
  <2> QED
    BY <1>5, <2>1, <2>2, <2>3 DEF UdpStep, UdpReturned
<1> QED
  BY <1>4, <1>5 DEF React

LEMMA SkeletonCounts ==
  ASSUME Owned, Reckoned, OpenChild \/ OpenFails \/ Destroy \/ Evaluate
  PROVE  StepsLeft' < StepsLeft
<1>1. CASE OpenChild
  <2>1. /\ stage = "open" /\ stage' \in {"connect", "transmit"}
        /\ UNCHANGED <<test, round, ioVars>>
    BY <1>1 DEF OpenChild
  <2>2. Underway /\ IoLeft' = IoLeft /\ IoLeft \in 0..5
    BY <2>1, IoLeftIs DEF Underway, IoLeft, ioVars, Reckoned, Typed
  <2> QED
    BY <2>1, <2>2, WithinRound DEF RoundLeft, Underway, Held, Operations
<1>2. CASE OpenFails
  <2>1. Underway /\ test' = test
    BY <1>2 DEF OpenFails, Underway
  <2>2. CASE stage' = "rest" /\ UNCHANGED round
    BY <2>1, <2>2, WithinRound
  <2>3. CASE NextRound
    BY <2>1, <2>3, NextRoundCounts
  <2> QED
    BY <1>2, <2>2, <2>3 DEF OpenFails, UdpReturned
<1>3. CASE Destroy
  <2>1. Underway /\ test' = test
    BY <1>3 DEF Destroy, Underway, Held
  <2>2. CASE stage' = "rest" /\ UNCHANGED round
    BY <2>1, <2>2, WithinRound
  <2>3. CASE NextRound
    BY <2>1, <2>3, NextRoundCounts
  <2> QED
    BY <1>3, <2>2, <2>3 DEF Destroy
<1>4. CASE Evaluate
  BY <1>4 DEF Evaluate, StepsLeft
<1> QED
  BY <1>1, <1>2, <1>3, <1>4

LEMMA DriverCounts ==
  ASSUME Driver
  PROVE  StepsLeft' = StepsLeft
<1>1. UNCHANGED <<stage, test, round, io, result, clock>>
  BY DEF Driver, Complete, testVars
<1>2. RoundLeft' = RoundLeft
  BY <1>1 DEF RoundLeft, IoLeft
<1> QED
  BY <1>1, <1>2 DEF StepsLeft, Rounds

LEMMA StepsLeftIs == ASSUME Owned, Reckoned PROVE StepsLeft \in 0..1 + 26 * Rounds[test]
<1>1. round \in Nat /\ Rounds[test] \in Nat \ {0} /\ (Underway => round < Rounds[test])
  BY RoundsAre DEF Reckoned, Typed, Rounded, Underway
<1>2. CASE Underway
  <2>1. RoundLeft \in 0..25
    BY <1>2, RoundLeftIs DEF Reckoned, Typed
  <2> QED
    BY <1>1, <1>2, <2>1 DEF StepsLeft, Underway
<1>3. CASE stage \in {"rest", "evaluate"}
  BY <1>1, <1>3 DEF StepsLeft
<1> QED
  BY <1>2, <1>3 DEF Owned, Stages, Underway, Held

\* A layer 4 test takes at most so many steps of its own, by its number of ports or
\* iterations, whatever the driver does or omits: each step of the program, the
\* expiry of a timer among them, uses one up, and the driver gives none back.
THEOREM TestsAreBounded ==
  Spec => /\ [](StepsLeft \in 0..1 + 26 * Rounds[test])
          /\ [][EveryStepCounts]_vars
<1>1. Init => Owned /\ Reckoned /\ Timed
  BY OwnedInit, ReckonedInit DEF Init, IoInit, Timed
<1>2. Owned /\ Reckoned /\ Timed /\ [Next]_vars => Owned' /\ Reckoned' /\ Timed' /\ EveryStepCounts
  BY OwnedNext, ReckonedNext, TimedNext, OperationCounts, ReactionCounts, SkeletonCounts, DriverCounts
  DEF EveryStepCounts, Program
<1>3. Owned /\ Reckoned => StepsLeft \in 0..1 + 26 * Rounds[test]
  BY StepsLeftIs
<1> QED
  BY <1>1, <1>2, <1>3, PTL DEF Spec

=============================================================================
