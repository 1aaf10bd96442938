--------------------------- MODULE ApplicationProofs ---------------------------
(***************************************************************************)
(* The layer 7 tests give back every token and every child, whatever the   *)
(* drivers answer, and conclude what the answers say.  The proofs rest on  *)
(* two inductive invariants: Owned ties the child and the token to the     *)
(* stage of the test, and Reckoned relates what the test holds and has     *)
(* counted to the answers the drivers have given in time.                  *)
(***************************************************************************)
EXTENDS ApplicationTests, TLAPS

Asking == {"ask", "answer"}

Held == Asking \cup {"start", "poll", "judge"}

Owned ==
  /\ stage \in Stages
  /\ io \in {"idle", "waiting", "closing", "cancelling"}
  /\ child <=> stage \in Held
  /\ io # "idle" => stage \in Asking /\ result = "none"
  /\ result # "none" => stage \in Asking
  /\ token # "none" => io # "idle"

LEMMA OwnedInit == Init => Owned
  BY DEF Init, IoInit, Owned, Asking, Held, Stages

LEMMA OwnedBegin ==
  ASSUME Owned, NEW t \in Tests, Begin(t)
  PROVE  Owned'
  BY DEF Owned, Begin, Asking, Held, Stages, ioVars

\* A test starts, or ends without an operation.
LEMMA OwnedSkeleton ==
  ASSUME Owned, OpenChild \/ OpenFails \/ Evaluate
  PROVE  Owned'
<1>1. CASE OpenChild
  BY <1>1 DEF Owned, OpenChild, Asking, Held, Stages, ioVars
<1>2. CASE OpenFails
  BY <1>2 DEF Owned, OpenFails, Ends, NextPath, Conclude, Asking, Held, Stages, ioVars
<1>3. CASE Evaluate
  BY <1>3 DEF Owned, Evaluate, Conclude, Asking, Held, Stages, ioVars
<1> QED
  BY <1>1, <1>2, <1>3

\* The operation, whose steps leave the stage alone.
LEMMA OwnedOperation ==
  ASSUME Owned, Operate \/ Waiting \/ Driver
  PROVE  Owned'
<1>1. CASE Operate
  BY <1>1 DEF Owned, Operate, Refuse, Accept, Ready, Asking, Held, Stages
<1>2. CASE Waiting
  BY <1>2 DEF Owned, Waiting, LeaveLoop, LastLook, Tick, Cancel, CancelAndLookAgain,
     Asking, Held, Stages, testVars
<1>3. CASE Driver
  <2>1. PICK outcome : Complete(outcome) /\ UNCHANGED testVars
    BY <1>3 DEF Driver
  <2> QED
    BY <2>1 DEF Owned, Complete, Asking, Held, Stages, testVars
<1> QED
  BY <1>1, <1>2, <1>3

\* The operation is over: nothing is in the driver when the child goes.
LEMMA OwnedReact ==
  ASSUME Owned, React
  PROVE  Owned'
<1>1. io = "idle" /\ io' = "idle" /\ token' = token /\ result' = "none"
  BY DEF Owned, React, Consume
<1>2. stage \in Asking
  BY DEF Owned, React, Consume
<1>3. CASE Requested
  BY <1>1, <1>2, <1>3 DEF Owned, Requested, Asking, Held, Stages
<1>4. CASE Answered
  <2>1. ~child' /\ (stage' \in {"rest", "open", "evaluate"})
    BY <1>4 DEF Answered, DnsAnswered, HttpDenied, HttpUnanswered, HttpGetAnswered,
       HttpPathAnswered, Ends, NextPath, Conclude
  <2> QED
    BY <1>1, <2>1 DEF Owned, Asking, Held, Stages
<1> QED
  BY <1>3, <1>4 DEF React

LEMMA OwnedDhcp ==
  ASSUME Owned, Start \/ StartFails \/ LeavePolling \/ JudgeDiscover \/ JudgeLease
  PROVE  Owned'
<1>1. CASE Start
  BY <1>1 DEF Owned, Start, Asking, Held, Stages, ioVars
<1>2. CASE StartFails
  BY <1>2 DEF Owned, StartFails, Conclude, Asking, Held, Stages, ioVars
<1>3. CASE LeavePolling
  BY <1>3 DEF Owned, LeavePolling, Asking, Held, Stages, ioVars
<1>4. CASE JudgeDiscover
  BY <1>4 DEF Owned, JudgeDiscover, Conclude, Asking, Held, Stages, ioVars
<1>5. CASE JudgeLease
  BY <1>5 DEF Owned, JudgeLease, Conclude, Asking, Held, Stages, ioVars
<1> QED
  BY <1>1, <1>2, <1>3, <1>4, <1>5

LEMMA OwnedNext == Owned /\ [Next]_vars => Owned'
<1> SUFFICES ASSUME Owned, [Next]_vars
             PROVE  Owned'
  OBVIOUS
<1>1. CASE \E t \in Tests : Begin(t)
  BY <1>1, OwnedBegin
<1>2. CASE OpenChild \/ OpenFails \/ Evaluate
  BY <1>2, OwnedSkeleton
<1>3. CASE Operate \/ Waiting \/ Driver
  BY <1>3, OwnedOperation
<1>4. CASE React
  BY <1>4, OwnedReact
<1>5. CASE Start \/ StartFails \/ LeavePolling \/ JudgeDiscover \/ JudgeLease
  BY <1>5, OwnedDhcp
<1>6. CASE LeaseChanges \/ UNCHANGED vars
  BY <1>6 DEF LeaseChanges, vars, ioVars, testVars, Owned
<1> QED
  BY <1>1, <1>2, <1>3, <1>4, <1>5, <1>6 DEF Next, Program

LEMMA OwnedAlways == Spec => []Owned
  BY OwnedInit, OwnedNext, PTL DEF Spec

\* A token that a driver holds, or has completed, belongs to an operation of a
\* test that still runs (Token, ReqToken and RspToken are locals of the tests).
THEOREM TokenOwnedAlways == Spec => []TokenOwned
<1>1. Owned => TokenOwned
  BY DEF Owned, TokenOwned
<1> QED
  BY <1>1, OwnedAlways, PTL

\* Every way out of a test destroys the child it has created
\* (L7DestroyDhcpChild, L7DestroyDnsChild, L7DestroyHttpChild).
THEOREM ChildrenReturnedAlways == Spec => []ChildrenReturned
<1>1. Owned => ChildrenReturned
  BY DEF Owned, ChildrenReturned, Asking, Held
<1> QED
  BY <1>1, OwnedAlways, PTL

-----------------------------------------------------------------------------
(* The answers *)

Fields == {"sent", "received", "ok"}
Pages == {"OK2xx", "OK4xx", "OKother", "BAD2xx", "BAD4xx", "BADother"}
Usable == {"OK2xx", "OK4xx", "OKother"}
Telling == {"ANSWER"} \cup Pages

\* What the operation of a stage may have ended with.
Kinds ==
  \A o \in {token, result} :
    /\ test \in DnsTests => o \in {"none", "queued", "TIMEOUT", "UNSUPPORTED"} \cup DnsOutcomes
    /\ test \in HttpTests /\ stage = "ask" =>
         o \in {"none", "queued", "TIMEOUT", "SENT", "ERROR", "DENIED"}
    /\ test \in HttpTests /\ stage = "answer" =>
         o \in {"none", "queued", "TIMEOUT", "ERROR"} \cup Pages

Typed ==
  /\ IoTypeOK
  /\ test \in Tests
  /\ count \in [Fields -> Nat]
  /\ verdict \in Verdicts \cup {"none"}
  /\ answers \subseteq (0..2) \X Outcomes
  /\ Kinds

Staged ==
  /\ round \in 0..3
  /\ stage \in Held \cup {"open"} => round < 3
  /\ test # "HttpStatusCodes" => round = 0
  /\ stage = "evaluate" => test = "HttpStatusCodes" /\ round = 3
  /\ stage = "ask" => test \in DnsTests \cup HttpTests
  /\ stage = "answer" => test \in HttpTests
  /\ stage \in {"start", "poll"} => test = "DhcpDiscover"
  /\ stage = "judge" => test \in DhcpTests

\* The test has, or is about to look at, an answer that came in time.
Has(o) == result = o \/ (token = o /\ InTime)

Came(p, o) == <<p, o>> \in answers

Answering ==
  /\ stage \in Asking \cup {"open"} => \A o \in Telling : Came(round, o) <=> Has(o)
  /\ \A p \in 0..2, o \in Telling : Came(p, o) => p <= round

Good(p) == \E o \in InClass(Expected[p]) \ Rejected : Came(p, o)

Got(p) == IF p < round /\ Good(p) THEN 1 ELSE 0

Counting ==
  test = "HttpStatusCodes" /\ stage # "rest" =>
    /\ count["ok"] = Got(0) + Got(1) + Got(2)
    /\ count["received"] > 0 <=> \E p \in 0..2, o \in Usable : p < round /\ Came(p, o)

\* A lease that was obtained has been given back, and nobody asks for another
\* before it is verified.
Leased ==
  /\ dhcp \in DhcpStates
  /\ found \in DhcpStates \cup {"none"}
  /\ stage # "rest" => found = "none"
  /\ obtained => /\ dhcp = "stopped" /\ test \in DhcpTests
                 /\ test = "DhcpDiscover" => stage = "rest"

Reckoned == Typed /\ Staged /\ Answering /\ Counting /\ Leased /\ VerdictHonest

LEMMA PagesAre ==
  /\ DOMAIN Responses = Pages
  /\ InClass("2xx") = {"OK2xx", "BAD2xx"} /\ InClass("4xx") = {"OK4xx", "BAD4xx"}
  /\ Rejected = Pages \ Usable
  BY DEF Responses, Pages, Usable, InClass, Rejected

LEMMA OutcomesAre ==
  Outcomes = {"ANSWER", "EMPTY", "NODATA", "NOT_FOUND", "ERROR", "SENT", "DENIED", "UNSUPPORTED"}
             \cup Pages
  BY OutcomesAssumption, PagesAre DEF DnsOutcomes

LEMMA AddIs ==
  ASSUME count \in [Fields -> Nat], NEW S
  PROVE  /\ Add(S) \in [Fields -> Nat]
         /\ \A f \in Fields : Add(S)[f] = count[f] + (IF f \in S THEN 1 ELSE 0)
  BY DEF Add

LEMMA ZeroIs == Zero \in [Fields -> Nat] /\ \A f \in Fields : Zero[f] = 0
  BY DEF Zero, Fields

\* Without an operation there is nothing to look at.
LEMMA NothingHeld ==
  ASSUME Owned, stage \notin Asking
  PROVE  token = "none" /\ result = "none" /\ io = "idle" /\ \A o \in Telling : ~Has(o)
  BY DEF Owned, Has, Telling, Pages

LEMMA ReckonedInit == Init => Reckoned
<1> SUFFICES ASSUME Init PROVE Reckoned
  OBVIOUS
<1>1. Typed
  BY ZeroIs DEF Init, IoInit, Typed, IoTypeOK, Pending, Kinds
<1>2. Staged /\ Leased
  BY DEF Init, Staged, Leased, Held, Asking, DhcpStates
<1>3. Answering /\ Counting /\ VerdictHonest
  BY DEF Init, Answering, Came, Asking, Counting, VerdictHonest, Done
<1> QED
  BY <1>1, <1>2, <1>3 DEF Reckoned

LEMMA ReckonedBegin ==
  ASSUME Owned, Reckoned, NEW t \in Tests, Begin(t)
  PROVE  Reckoned'
<1>1. /\ stage = "rest" /\ stage' = "open" /\ test' = t /\ round' = 0 /\ count' = Zero
      /\ verdict' = "none" /\ answers' = {} /\ found' = "none"
      /\ dhcp' = dhcp /\ (obtained' => obtained /\ t = "DhcpLeaseVerify")
      /\ UNCHANGED <<token, clock, io, result>>
  BY DEF Begin, ioVars
<1>2. token = "none" /\ result = "none" /\ io = "idle"
  BY <1>1, NothingHeld DEF Asking
<1>3. Typed'
  BY <1>1, <1>2, ZeroIs DEF Reckoned, Typed, IoTypeOK, Kinds
<1>4. Staged' /\ Leased'
  BY <1>1 DEF Reckoned, Staged, Leased, Held, Asking, DhcpTests
<1>5. Answering'
  BY <1>1, <1>2 DEF Answering, Came, Has, Telling, Pages
<1>6. Counting'
  BY <1>1, ZeroIs DEF Counting, Got, Good, Came, Fields
<1>7. VerdictHonest'
  BY <1>1 DEF VerdictHonest, Done
<1> QED
  BY <1>3, <1>4, <1>5, <1>6, <1>7 DEF Reckoned

\* Steps of the operation: what the test has is what it had.
LEMMA ReckonedCaller ==
  ASSUME Owned, Reckoned, Typed',
         UNCHANGED <<test, stage, round, verdict, dhcp, static, found, obtained, answers>>,
         count'["ok"] = count["ok"], count'["received"] = count["received"],
         stage \in Asking => \A o \in Telling : Has(o)' <=> Has(o),
         stage \notin Asking => UNCHANGED <<token, result, io>>
  PROVE  Reckoned'
<1>1. Staged' /\ Leased'
  BY DEF Reckoned, Staged, Leased
<1>2. Answering'
  <2>1. CASE stage \in Asking
    BY <2>1 DEF Reckoned, Answering, Came
  <2>2. CASE stage \notin Asking
    BY <2>2 DEF Reckoned, Answering, Came, Has, InTime, LooksAgain
  <2> QED
    BY <2>1, <2>2
<1>3. Counting'
  BY DEF Reckoned, Counting, Got, Good, Came
<1>4. VerdictHonest'
  BY DEF Reckoned, VerdictHonest, Done, Answers
<1> QED
  BY <1>1, <1>2, <1>3, <1>4 DEF Reckoned

LEMMA ReckonedOperate ==
  ASSUME Owned, Reckoned, Operate
  PROVE  Reckoned'
<1>1. /\ stage \in Asking /\ token = "none" /\ result = "none" /\ io = "idle"
      /\ UNCHANGED <<test, stage, round, verdict, dhcp, static, found, obtained, answers>>
  BY DEF Operate, Refuse, Accept, Ready, Owned, Asking, dhcpVars
<1>2. /\ token' \in {"none", "queued"}
      /\ \/ result' = "none"
         \/ stage = "ask" /\ result' \in Refusals[test]
         \/ stage = "answer" /\ result' = "ERROR"
      /\ \/ result' = "none" /\ token' = "queued"
         \/ result' # "none" /\ token' = "none"
  <2>1. CASE Accept(FALSE)
    BY <1>1, <2>1 DEF Accept
  <2>2. CASE \E status \in IF stage = "ask" THEN Refusals[test] ELSE {"ERROR"} : Refuse(status)
    <3>1. PICK status \in IF stage = "ask" THEN Refusals[test] ELSE {"ERROR"} : Refuse(status)
      BY <2>2
    <3>2. Refusals[test] \subseteq {"NOT_FOUND", "ERROR", "UNSUPPORTED", "DENIED"}
      BY DEF Refusals, Reckoned, Typed
    <3> QED
      BY <1>1, <3>1, <3>2 DEF Refuse, Asking
  <2> QED
    BY <2>1, <2>2 DEF Operate
<1>3. Kinds'
  <2>1. stage = "ask" =>
          /\ test \in DnsTests => Refusals[test] \subseteq {"NOT_FOUND", "ERROR", "UNSUPPORTED"}
          /\ test \in HttpTests => Refusals[test] \subseteq {"DENIED", "ERROR"}
    BY DEF Refusals, Tests, DnsTests, HttpTests, DhcpTests
  <2>2. DnsTests \cap HttpTests = {}
    BY DEF DnsTests, HttpTests
  <2> QED
    BY <1>1, <1>2, <2>1, <2>2 DEF Kinds, DnsOutcomes, Reckoned, Staged
<1>4. /\ count' \in [Fields -> Nat]
      /\ count'["ok"] = count["ok"] /\ count'["received"] = count["received"]
  <2>1. CASE stage = "ask"
    <3>1. count' = Add({"sent"})
      BY <2>1 DEF Operate
    <3> QED
      BY <3>1, AddIs DEF Reckoned, Typed, Fields
  <2>2. CASE stage # "ask"
    BY <2>2 DEF Operate, Reckoned, Typed
  <2> QED
    BY <2>1, <2>2
<1>5. \A o \in Telling : Has(o)' <=> Has(o)
  <2>1. result' \notin Telling
    BY <1>1, <1>2 DEF Refusals, Telling, Pages, Tests, DnsTests, HttpTests, DhcpTests, Reckoned, Typed
  <2>2. token' \notin Telling /\ token \notin Telling /\ result \notin Telling
    BY <1>1, <1>2 DEF Telling, Pages
  <2> QED
    BY <2>1, <2>2 DEF Has
<1>6. IoTypeOK'
  BY <1>1, <1>2, OutcomesAre
  DEF Operate, Refuse, Accept, Reckoned, Typed, IoTypeOK, Pending, Refusals, Tests, DhcpTests, DnsTests,
      HttpTests
<1>7. Typed'
  BY <1>1, <1>3, <1>4, <1>6 DEF Reckoned, Typed
<1> QED
  BY <1>1, <1>4, <1>5, <1>7, ReckonedCaller

LEMMA ReckonedWaiting ==
  ASSUME Owned, Reckoned, Waiting
  PROVE  Reckoned'
<1>1. UNCHANGED <<test, stage, round, count, verdict, dhcp, static, found, obtained, answers>>
  BY DEF Waiting, testVars, dhcpVars
<1>2. IoTypeOK' /\ {token', result'} \subseteq {"none", "TIMEOUT", token, result}
  BY DEF Waiting, LeaveLoop, LastLook, Cancel, CancelAndLookAgain, Tick, Reckoned, Typed, IoTypeOK, Pending
<1>3. Kinds'
  BY <1>1, <1>2 DEF Reckoned, Typed, Kinds
<1>4. Typed'
  BY <1>1, <1>2, <1>3 DEF Reckoned, Typed
<1>5. stage \in Asking => \A o \in Telling : Has(o)' <=> Has(o)
  <2> SUFFICES ASSUME stage \in Asking, NEW o \in Telling PROVE Has(o)' <=> Has(o)
    OBVIOUS
  <2>0. o \notin {"none", "queued", "TIMEOUT"} /\ (LooksAgain' <=> LooksAgain)
    BY <1>1 DEF Telling, Pages, LooksAgain
  <2>1. CASE LeaveLoop \/ Tick
    BY <2>0, <2>1 DEF LeaveLoop, Tick, Has, InTime
  <2>2. CASE LastLook
    BY <2>0, <2>2 DEF LastLook, Has, InTime, Owned
  <2>3. CASE LooksAgain /\ CancelAndLookAgain
    BY <2>0, <2>3 DEF CancelAndLookAgain, Has, InTime, Owned
  <2>4. CASE ~LooksAgain /\ Cancel
    BY <2>0, <2>4 DEF Cancel, Has, InTime, Owned
  <2> QED
    BY <2>1, <2>2, <2>3, <2>4 DEF Waiting
<1>6. stage \notin Asking => UNCHANGED <<token, result, io>>
  BY DEF Waiting, LeaveLoop, LastLook, Cancel, CancelAndLookAgain, Tick, Owned
<1> QED
  BY <1>1, <1>4, <1>5, <1>6, ReckonedCaller

\* An answer comes in time and the test is about to see it, or neither.
LEMMA ReckonedDriver ==
  ASSUME Owned, Reckoned, Driver
  PROVE  Reckoned'
<1>1. PICK outcome \in CASE test \in DnsTests -> DnsOutcomes
                         [] test \in HttpTests /\ stage = "ask" -> {"SENT", "ERROR"}
                         [] OTHER -> DOMAIN Responses :
        /\ Complete(outcome)
        /\ answers' = IF InTime THEN answers \cup {<<round, outcome>>} ELSE answers
        /\ UNCHANGED <<testVars, dhcpVars>>
  BY DEF Driver
<1>2. /\ token = "queued" /\ token' = outcome /\ io' = io /\ io # "idle" /\ result = "none"
      /\ result' = "none" /\ clock' = clock /\ stage \in Asking
      /\ UNCHANGED <<test, stage, round, count, verdict, dhcp, static, found, obtained>>
  BY <1>1 DEF Complete, Owned, testVars, dhcpVars
<1>3. DnsTests \cap HttpTests = {} /\ (test \in DnsTests => stage = "ask")
  BY <1>2 DEF DnsTests, HttpTests, Reckoned, Staged, Asking
<1>4. /\ test \in DnsTests => outcome \in DnsOutcomes
      /\ test \in HttpTests /\ stage = "ask" => outcome \in {"SENT", "ERROR"}
      /\ test \in HttpTests /\ stage = "answer" => outcome \in Pages
      /\ test \in DnsTests \cup HttpTests
  BY <1>1, <1>2, <1>3, PagesAre DEF Reckoned, Staged, Asking
<1>5. outcome \in Outcomes
  BY <1>2, <1>4, OutcomesAre DEF DnsOutcomes, Asking
<1>6. Typed'
  <2>1. IoTypeOK'
    BY <1>2, <1>5 DEF Reckoned, Typed, IoTypeOK
  <2>2. Kinds'
    BY <1>2, <1>3, <1>4 DEF Kinds
  <2>3. round \in 0..2
    BY <1>2 DEF Reckoned, Staged, Held
  <2>4. answers' \subseteq (0..2) \X Outcomes
    BY <1>1, <1>5, <2>3 DEF Reckoned, Typed
  <2> QED
    BY <1>2, <2>1, <2>2, <2>4 DEF Reckoned, Typed
<1>7. \A o \in Telling : ~Has(o) /\ (Has(o)' <=> o = outcome /\ InTime)
  BY <1>2 DEF Has, InTime, LooksAgain, Telling, Pages
<1>8. \A p, o : Came(p, o)' <=> Came(p, o) \/ (p = round /\ o = outcome /\ InTime)
  BY <1>1 DEF Came
<1>9. Answering'
  <2>1. ASSUME NEW o \in Telling PROVE <<round, o>> \in answers' <=> Has(o)'
    <3>1. Came(round, o) <=> Has(o)
      BY <1>2 DEF Reckoned, Answering
    <3> QED
      BY <1>1, <1>7, <3>1 DEF Came
  <2>2. ASSUME NEW p \in 0..2, NEW o \in Telling, <<p, o>> \in answers' PROVE p <= round
    <3>1. p = round \/ Came(p, o)
      BY <1>1, <2>2 DEF Came
    <3>2. round \in 0..3 /\ (Came(p, o) => p <= round)
      BY DEF Reckoned, Answering, Staged
    <3> QED
      BY <3>1, <3>2
  <2> QED
    BY <1>2, <2>1, <2>2 DEF Answering, Came
<1>10. Counting'
  <2>1. \A p, o : p < round => (Came(p, o)' <=> Came(p, o))
    BY <1>8 DEF Reckoned, Staged
  <2>2. \A p : Got(p)' = Got(p)
    BY <1>2, <2>1 DEF Got, Good
  <2> QED
    BY <1>2, <2>1, <2>2 DEF Reckoned, Counting
<1>11. Staged' /\ Leased' /\ VerdictHonest'
  BY <1>2 DEF Reckoned, Staged, Leased, VerdictHonest, Done, Asking
<1> QED
  BY <1>6, <1>9, <1>10, <1>11 DEF Reckoned

\* The next path has no answer yet, and what came of this one is counted.
LEMMA ReckonedPath ==
  ASSUME Reckoned, Typed', test = "HttpStatusCodes", NextPath, stage \in Asking \cup {"open"},
         UNCHANGED <<test, verdict, dhcp, static, found, obtained, answers>>,
         token' = "none", result' = "none",
         count'["ok"] = count["ok"] + (IF Good(round) THEN 1 ELSE 0),
         count'["received"] > 0 <=> count["received"] > 0 \/ \E o \in Usable : Came(round, o)
  PROVE  Reckoned'
<1>1. /\ round \in {0, 1, 2} /\ round' = round + 1
      /\ stage' = IF round + 1 < 3 THEN "open" ELSE "evaluate"
  BY DEF NextPath, Reckoned, Staged, Held, Asking
<1>2. Staged' /\ VerdictHonest' /\ Leased'
  BY <1>1 DEF Reckoned, Staged, Held, Asking, VerdictHonest, Done, Leased, DhcpTests, DnsTests, HttpTests
<1>3. \A p, o : Came(p, o)' <=> Came(p, o)
  BY DEF Came
<1>4. Answering'
  <2>1. \A o \in Telling : ~Has(o)'
    BY DEF Has, Telling, Pages
  <2>2. \A p \in 0..2, o \in Telling : Came(p, o) => p <= round
    BY DEF Reckoned, Answering
  <2> QED
    BY <1>1, <1>3, <2>1, <2>2 DEF Answering, Asking
<1>5. Counting'
  <2>1. \A p : Good(p)' <=> Good(p)
    BY <1>3 DEF Good
  <2>2. count["ok"] = Got(0) + Got(1) + Got(2)
    BY DEF Reckoned, Counting, Asking
  <2>3. count'["ok"] = Got(0)' + Got(1)' + Got(2)'
    BY <1>1, <2>1, <2>2 DEF Got
  <2>4. count["received"] > 0 <=> \E p \in 0..2, o \in Usable : p < round /\ Came(p, o)
    BY DEF Reckoned, Counting, Asking
  <2>5. count'["received"] > 0 <=> \E p \in 0..2, o \in Usable : p < round + 1 /\ Came(p, o)
    BY <1>1, <2>4
  <2> QED
    BY <1>1, <1>3, <2>3, <2>5 DEF Counting
<1> QED
  BY <1>2, <1>4, <1>5 DEF Reckoned

LEMMA ReckonedEnd ==
  ASSUME Reckoned, Typed', Leased', VerdictHonest', stage' = "rest", UNCHANGED <<test, round, answers>>
  PROVE  Reckoned'
<1>1. Staged'
  BY DEF Reckoned, Staged, Held, Asking
<1>2. Answering' /\ Counting'
  BY DEF Reckoned, Answering, Asking, Came, Counting
<1> QED
  BY <1>1, <1>2 DEF Reckoned

\* Where there is one path, what came is what the test has.
LEMMA OnePath ==
  ASSUME Reckoned, test # "HttpStatusCodes", stage \in Asking \cup {"open"}, NEW S \in SUBSET Telling
  PROVE  Answers(S) <=> \E o \in S : Has(o)
<1>1. round = 0
  BY DEF Reckoned, Staged
<1>2. \A o \in S : Came(0, o) <=> Has(o)
  BY <1>1 DEF Reckoned, Answering
<1>3. \A p \in 0..2, o \in S : Came(p, o) => p = 0
  BY <1>1 DEF Reckoned, Answering
<1>4. Answers(S) <=> \E p \in 0..2, o \in S : Came(p, o)
  BY DEF Answers, Came
<1> QED
  BY <1>2, <1>3, <1>4

LEMMA ReckonedOpen ==
  ASSUME Owned, Owned', Reckoned, OpenChild \/ OpenFails
  PROVE  Reckoned'
<1>1. /\ stage = "open" /\ UNCHANGED <<test, static, found, obtained, answers, token, clock, io, result>>
      /\ count' = count
  BY DEF OpenChild, OpenFails, ioVars
<1>2. token = "none" /\ result = "none" /\ io = "idle" /\ \A o \in Telling : ~Has(o) /\ ~Has(o)'
  BY <1>1, NothingHeld DEF Asking, Has, Telling, Pages
<1>3. CASE OpenChild
  <2>1. /\ verdict' = verdict /\ round' = round
        /\ \/ test \in DnsTests \cup HttpTests /\ stage' = "ask" /\ dhcp' = dhcp
           \/ test = "DhcpLeaseVerify" /\ stage' = "judge" /\ dhcp' = dhcp
           \/ test = "DhcpDiscover" /\ stage' = "start" /\ dhcp' = "init"
    BY <1>3 DEF OpenChild
  <2>2. Typed' /\ Staged'
    BY <1>1, <1>2, <2>1 DEF Reckoned, Typed, IoTypeOK, Kinds, Staged, Held, Asking, DhcpTests
  <2>3. Answering'
    BY <1>1, <1>2, <2>1 DEF Reckoned, Answering, Came, Asking
  <2>4. Counting'
    BY <1>1, <2>1 DEF Reckoned, Counting, Got, Good, Came
  <2>5. Leased' /\ VerdictHonest'
    BY <1>1, <2>1 DEF Reckoned, Leased, DhcpStates, VerdictHonest, Done
  <2> QED
    BY <2>2, <2>3, <2>4, <2>5 DEF Reckoned
<1>4. CASE OpenFails
  <2>0. dhcp' \in {dhcp, "stopped"} /\ (test \notin DhcpTests => dhcp' = dhcp)
    BY <1>4 DEF OpenFails
  <2>1. CASE test = "HttpStatusCodes"
    <3>1. NextPath /\ verdict' = verdict /\ dhcp' = dhcp
      BY <1>4, <2>0, <2>1 DEF OpenFails, Ends, DhcpTests
    <3>2. ~Good(round) /\ \A o \in Usable : ~Came(round, o)
      <4>1. \A o \in Telling : ~Came(round, o)
        BY <1>1, <1>2 DEF Reckoned, Answering
      <4> QED
        BY <4>1, PagesAre DEF Good, InClass, Telling, Pages, Usable
    <3>3. Typed'
      BY <1>1, <1>2, <3>1 DEF Reckoned, Typed, IoTypeOK, Kinds
    <3>4. count["ok"] \in Nat
      BY DEF Reckoned, Typed, Fields
    <3> QED
      BY <1>1, <1>2, <2>1, <3>1, <3>2, <3>3, <3>4, ReckonedPath
  <2>2. CASE test # "HttpStatusCodes"
    <3>1. stage' = "rest" /\ verdict' = "FAIL" /\ round' = round
      BY <1>4, <2>2 DEF OpenFails, Ends, Conclude
    <3>2. Typed' /\ Leased'
      BY <1>1, <1>2, <2>0, <3>1 DEF Reckoned, Typed, IoTypeOK, Kinds, Verdicts, Leased, DhcpStates
    <3>3. ~Answers({"ANSWER"}) /\ ~Answers(InClass("2xx")) /\ ~Answers(DOMAIN Responses)
      BY <1>1, <1>2, <2>2, OnePath, PagesAre DEF Telling, Pages
    <3>4. found = "none"
      BY <1>1 DEF Reckoned, Leased
    <3>5. VerdictHonest'
      BY <1>1, <2>2, <3>1, <3>3, <3>4 DEF VerdictHonest, Done, Answers
    <3> QED
      BY <1>1, <3>1, <3>2, <3>5, ReckonedEnd
  <2> QED
    BY <2>1, <2>2
<1> QED
  BY <1>3, <1>4

LEMMA ReckonedEvaluate ==
  ASSUME Owned, Reckoned, Evaluate
  PROVE  Reckoned'
<1>1. /\ stage = "evaluate" /\ stage' = "rest" /\ verdict' = Judged
      /\ test = "HttpStatusCodes" /\ round = 3
      /\ UNCHANGED <<test, round, count, dhcp, static, found, obtained, answers, token, clock, io, result>>
  BY DEF Evaluate, Conclude, dhcpVars, ioVars, Reckoned, Staged
<1>2. count["ok"] \in Nat /\ count["received"] \in Nat /\ token = "none" /\ result = "none"
  BY <1>1, NothingHeld DEF Reckoned, Typed, Fields, Asking
<1>3. /\ count["ok"] = 3 <=> Good(0) /\ Good(1) /\ Good(2)
      /\ count["ok"] <= 3
  BY <1>1 DEF Reckoned, Counting, Got
<1>4. count["received"] > 0 <=> \E p \in 0..2, o \in Usable : Came(p, o)
  <2>1. count["received"] > 0 <=> \E p \in 0..2, o \in Usable : p < round /\ Came(p, o)
    BY <1>1 DEF Reckoned, Counting
  <2>2. \A p \in 0..2 : p < round
    BY <1>1
  <2> QED
    BY <2>1, <2>2
<1>5. /\ verdict' \in Verdicts
      /\ verdict' = "PASS" <=> Good(0) /\ Good(1) /\ Good(2)
      /\ verdict' = "FAIL" => ~\E p \in 0..2, o \in Usable : Came(p, o)
  BY <1>1, <1>2, <1>3, <1>4 DEF Judged, Verdicts
<1>6. Typed' /\ Leased'
  BY <1>1, <1>2, <1>5 DEF Reckoned, Typed, IoTypeOK, Kinds, Leased, DhcpTests
<1>7. VerdictHonest'
  <2>1. Answers(DOMAIN Responses \ Rejected) => \E p \in 0..2, o \in Usable : Came(p, o)
    BY PagesAre DEF Answers, Came, Usable, Pages
  <2>2. /\ verdict' = "PASS" <=>
             \A p \in 0..2 : \E o \in InClass(Expected[p]) \ Rejected : <<p, o>> \in answers
        /\ verdict' = "FAIL" => ~Answers(DOMAIN Responses \ Rejected)
    <3>1. (Good(0) /\ Good(1) /\ Good(2)) <=> \A p \in 0..2 : Good(p)
      <4>1. 0..2 = {0, 1, 2}
        OBVIOUS
      <4> QED
        BY <4>1
    <3> QED
      BY <1>5, <2>1, <3>1 DEF Good, Came
  <2> QED
    BY <1>1, <2>2 DEF VerdictHonest, Done, DnsTests, Answers
<1> QED
  BY <1>1, <1>6, <1>7, ReckonedEnd

\* What the test makes of the answer that it has.
LEMMA ReckonedAnswered ==
  ASSUME Owned, Owned', Reckoned, Consume, Answered,
         UNCHANGED <<test, dhcp, static, found, obtained, answers>>
  PROVE  Reckoned'
<1>1. /\ io = "idle" /\ token = "none" /\ token' = "none" /\ result # "none" /\ result' = "none"
      /\ stage \in Asking /\ clock' = clock /\ io' = io /\ found = "none"
  BY DEF Owned, Consume, Reckoned, Leased, Asking
<1>2. \A o \in Telling : Has(o) <=> o = result
  BY <1>1 DEF Has, Telling, Pages
<1>3. /\ count \in [Fields -> Nat] /\ count["ok"] \in Nat /\ count["received"] \in Nat
      /\ round \in 0..2 /\ test \in DnsTests \cup HttpTests
  BY <1>1 DEF Reckoned, Typed, Fields, Staged, Held, Asking
<1>4. ASSUME count' \in [Fields -> Nat], verdict' \in Verdicts \cup {"none"} PROVE Typed'
  BY <1>1, <1>4 DEF Reckoned, Typed, IoTypeOK, Kinds
<1>5. test \notin DhcpTests /\ ~obtained
  BY <1>3 DEF DhcpTests, DnsTests, HttpTests, Reckoned, Leased
<1>6. CASE DnsAnswered
  <2>1. /\ test \in DnsTests /\ test # "HttpStatusCodes" /\ test # "HttpGet"
        /\ stage' = "rest" /\ round' = round
    BY <1>6 DEF DnsAnswered, Ends, Conclude, DnsTests
  <2>2. result \in {"ANSWER", "EMPTY", "NODATA", "NOT_FOUND", "ERROR", "TIMEOUT", "UNSUPPORTED"}
    <3>1. result \in {"none", "queued", "TIMEOUT", "UNSUPPORTED"} \cup DnsOutcomes
      BY <2>1 DEF Reckoned, Typed, Kinds
    <3>2. result # "queued"
      BY OutcomesAre DEF Reckoned, Typed, IoTypeOK, Pages
    <3> QED
      BY <1>1, <3>1, <3>2 DEF DnsOutcomes
  <2>3. verdict' \in Verdicts /\ (verdict' = "PASS" <=> result = "ANSWER")
    BY <1>6, <2>1, <2>2 DEF DnsAnswered, Ends, Conclude, Verdicts
  <2>4. count' \in [Fields -> Nat]
    BY <1>3, <1>6, AddIs DEF DnsAnswered
  <2>5. Answers({"ANSWER"}) <=> result = "ANSWER"
    BY <1>1, <1>2, <2>1, OnePath DEF Telling
  <2>6. VerdictHonest' /\ Leased'
    BY <1>5, <2>1, <2>3, <2>5
    DEF VerdictHonest, Done, Answers, DnsTests, HttpTests, DhcpTests, Reckoned, Leased
  <2> QED
    BY <1>4, <2>1, <2>3, <2>4, <2>6, ReckonedEnd
<1>7. CASE test = "HttpGet" /\ (HttpDenied \/ HttpUnanswered \/ HttpGetAnswered)
  <2>1. /\ stage' = "rest" /\ round' = round /\ count' \in [Fields -> Nat]
        /\ \/ result \in {"DENIED", "ERROR", "TIMEOUT"} /\ verdict' \in {"WARN", "FAIL"}
           \/ /\ result \in Pages
              /\ verdict' = IF Responses[result].class = "2xx" THEN "PASS" ELSE "WARN"
    BY <1>3, <1>7, AddIs, PagesAre
    DEF HttpDenied, HttpUnanswered, HttpGetAnswered, Ends, Conclude
  <2>2. /\ Answers(InClass("2xx")) <=> result \in InClass("2xx")
        /\ Answers(DOMAIN Responses) <=> result \in Pages
    <3>1. InClass("2xx") \in SUBSET Telling /\ DOMAIN Responses \in SUBSET Telling
      BY PagesAre DEF Telling, Pages
    <3>2. /\ Answers(InClass("2xx")) <=> \E o \in InClass("2xx") : Has(o)
          /\ Answers(DOMAIN Responses) <=> \E o \in DOMAIN Responses : Has(o)
      BY <1>1, <1>7, <3>1, OnePath
    <3> QED
      BY <1>2, <3>1, <3>2, PagesAre
  <2>3. /\ verdict' = "PASS" <=> result \in InClass("2xx")
        /\ verdict' = "FAIL" => result \notin Pages
        /\ verdict' \in Verdicts
    BY <2>1, PagesAre DEF InClass, Pages, Verdicts
  <2>4. VerdictHonest' /\ Leased'
    BY <1>5, <1>7, <2>1, <2>2, <2>3 DEF VerdictHonest, Done, Answers, DnsTests, Reckoned, Leased
  <2> QED
    BY <1>4, <2>1, <2>3, <2>4, ReckonedEnd
<1>8. CASE test = "HttpStatusCodes" /\ HttpDenied /\ round = 0
  <2>1. stage' = "rest" /\ round' = round /\ verdict' = "WARN" /\ count' = count
    BY <1>8 DEF HttpDenied, Conclude
  <2>2. ~\E o \in InClass(Expected[1]) \ Rejected : <<1, o>> \in answers
    <3>1. \A o \in Telling : ~Came(1, o)
      BY <1>8 DEF Reckoned, Answering
    <3> QED
      BY <3>1, PagesAre DEF InClass, Came, Telling, Pages
  <2>3. VerdictHonest' /\ Leased'
    BY <1>5, <1>8, <2>1, <2>2 DEF VerdictHonest, Done, DnsTests, Reckoned, Leased
  <2> QED
    BY <1>3, <1>4, <2>1, <2>3, ReckonedEnd DEF Verdicts
<1>9. CASE /\ test = "HttpStatusCodes"
           /\ (HttpDenied /\ round > 0) \/ HttpUnanswered
  <2>1. NextPath /\ verdict' = verdict /\ count' = count /\ result \in {"DENIED", "ERROR", "TIMEOUT"}
    BY <1>9 DEF HttpDenied, HttpUnanswered, Ends
  <2>2. \A o \in Telling : ~Came(round, o)
    BY <1>1, <1>2, <2>1 DEF Reckoned, Answering, Telling, Pages
  <2>3. ~Good(round) /\ \A o \in Usable : ~Came(round, o)
    BY <2>2, PagesAre DEF Good, InClass, Telling, Pages, Usable
  <2> QED
    BY <1>1, <1>3, <1>4, <1>9, <2>1, <2>3, ReckonedPath DEF Reckoned, Typed
<1>10. CASE HttpPathAnswered
  <2>1. /\ test = "HttpStatusCodes" /\ NextPath /\ verdict' = verdict /\ result \in Pages
        /\ count' = IF Responses[result].error THEN count
                    ELSE Add({"received"} \cup
                             IF Responses[result].class = Expected[round] THEN {"ok"} ELSE {})
    BY <1>10, PagesAre DEF HttpPathAnswered, Ends
  <2>2. \A o \in Telling : Came(round, o) <=> o = result
    BY <1>1, <1>2 DEF Reckoned, Answering
  <2>3. result \in Usable <=> ~Responses[result].error
    BY <2>1 DEF Usable, Pages, Responses
  <2>4. Good(round) <=> ~Responses[result].error /\ Responses[result].class = Expected[round]
    BY <2>1, <2>2, PagesAre DEF Good, InClass, Rejected, Telling
  <2>5. (\E o \in Usable : Came(round, o)) <=> result \in Usable
    BY <2>1, <2>2 DEF Usable, Pages, Telling
  <2>6. /\ count' \in [Fields -> Nat]
        /\ count'["ok"] = count["ok"] + (IF Good(round) THEN 1 ELSE 0)
        /\ count'["received"] = count["received"] + (IF result \in Usable THEN 1 ELSE 0)
    <3>1. CASE Responses[result].error
      BY <1>3, <2>1, <2>3, <2>4, <3>1
    <3>2. CASE ~Responses[result].error /\ Responses[result].class = Expected[round]
      <4>1. count' = Add({"received"} \cup {"ok"})
        BY <2>1, <3>2
      <4> QED
        BY <1>3, <2>3, <2>4, <3>2, <4>1, AddIs DEF Fields
    <3>3. CASE ~Responses[result].error /\ Responses[result].class # Expected[round]
      <4>1. count' = Add({"received"} \cup {})
        BY <2>1, <3>3
      <4> QED
        BY <1>3, <2>3, <2>4, <3>3, <4>1, AddIs DEF Fields
    <3> QED
      BY <3>1, <3>2, <3>3
  <2>7. count'["received"] > 0 <=> count["received"] > 0 \/ \E o \in Usable : Came(round, o)
    BY <1>3, <2>5, <2>6
  <2>8. Typed'
    BY <1>4, <2>1, <2>6 DEF Reckoned, Typed
  <2> QED
    BY <1>1, <2>1, <2>6, <2>7, <2>8, ReckonedPath
<1> QED
  BY <1>3, <1>6, <1>7, <1>8, <1>9, <1>10
  DEF Answered, HttpGetAnswered, HttpPathAnswered, HttpTests, HttpDenied

LEMMA ReckonedReact ==
  ASSUME Owned, Owned', Reckoned, React
  PROVE  Reckoned'
<1>1. Consume /\ UNCHANGED <<test, dhcp, static, found, obtained, answers>>
  BY DEF React, dhcpVars
<1>2. CASE Answered
  BY <1>1, <1>2, ReckonedAnswered
<1>3. CASE Requested
  <2>1. /\ result = "SENT" /\ result' = "none" /\ token = "none" /\ io = "idle"
        /\ stage' = "answer" /\ stage \in Asking
        /\ UNCHANGED <<round, child, count, verdict, token, clock, io>>
    BY <1>1, <1>3 DEF Requested, Consume, Owned
  <2>2. stage = "ask" /\ test \in HttpTests
    BY <2>1 DEF Reckoned, Typed, Kinds, Staged, Asking, Pages, DnsOutcomes
  <2>3. Typed' /\ Staged' /\ Leased'
    BY <1>1, <2>1, <2>2
    DEF Reckoned, Typed, IoTypeOK, Kinds, Staged, Held, Asking, Leased, DnsTests, HttpTests, DhcpTests
  <2>4. Answering'
    <3>1. \A o \in Telling : ~Has(o) /\ ~Has(o)'
      BY <2>1 DEF Has, Telling, Pages
    <3> QED
      BY <1>1, <2>1, <3>1 DEF Reckoned, Answering, Came
  <2>5. Counting' /\ VerdictHonest'
    BY <1>1, <2>1 DEF Reckoned, Counting, Got, Good, Came, VerdictHonest, Done, Asking
  <2> QED
    BY <2>3, <2>4, <2>5 DEF Reckoned
<1> QED
  BY <1>2, <1>3 DEF React

LEMMA ReckonedDhcp ==
  ASSUME Owned, Owned', Reckoned, Start \/ StartFails \/ LeavePolling \/ JudgeDiscover \/ JudgeLease
  PROVE  Reckoned'
<1>1. /\ test' = test /\ round' = round /\ answers' = answers /\ static' = static
      /\ stage \in {"start", "poll", "judge"} /\ test \in DhcpTests
      /\ UNCHANGED <<token, clock, io, result>>
  <2>1. CASE LeavePolling
    BY <2>1 DEF LeavePolling, ioVars, dhcpVars, Reckoned, Staged, DhcpTests
  <2>2. CASE Start \/ StartFails
    BY <2>2 DEF Start, StartFails, ioVars, DhcpTests
  <2>3. CASE JudgeDiscover \/ JudgeLease
    BY <2>3 DEF JudgeDiscover, JudgeLease, ioVars, Reckoned, Staged, DhcpTests
  <2> QED
    BY <2>1, <2>2, <2>3
<1>2. token = "none" /\ result = "none" /\ found = "none" /\ dhcp \in DhcpStates
  BY <1>1, NothingHeld DEF Asking, Reckoned, Leased
<1>3. ASSUME count' \in [Fields -> Nat], verdict' \in Verdicts \cup {"none"} PROVE Typed'
  BY <1>1, <1>2, <1>3 DEF Reckoned, Typed, IoTypeOK, Kinds
<1>4. CASE Start \/ LeavePolling
  <2>1. /\ stage' \in {"poll", "judge"} /\ count' = count /\ verdict' = verdict
        /\ found' = found /\ obtained' = obtained /\ dhcp' \in DhcpStates
        /\ test = "DhcpDiscover"
    BY <1>2, <1>4 DEF Start, LeavePolling, dhcpVars, DhcpStates, Reckoned, Staged
  <2>2. Typed' /\ Staged' /\ Leased' /\ VerdictHonest'
    BY <1>1, <1>2, <1>3, <2>1
    DEF Reckoned, Typed, Staged, Held, Asking, Leased, VerdictHonest, Done, DhcpTests
  <2>3. Answering' /\ Counting'
    BY <1>1, <2>1 DEF Reckoned, Answering, Came, Asking, Counting
  <2> QED
    BY <2>2, <2>3 DEF Reckoned
<1>5. CASE StartFails \/ JudgeDiscover
  <2>1. /\ test = "DhcpDiscover" /\ stage' = "rest" /\ verdict' \in Verdicts
        /\ dhcp' = "stopped" /\ found' \in {dhcp, "none"}
        /\ verdict' = "PASS" <=> found' = "bound"
    BY <1>2, <1>5 DEF StartFails, JudgeDiscover, Conclude, Verdicts
  <2>2. count' \in [Fields -> Nat]
    BY <1>5, AddIs DEF StartFails, JudgeDiscover, Reckoned, Typed
  <2>3. VerdictHonest' /\ Leased'
    BY <1>1, <1>2, <2>1
    DEF VerdictHonest, Done, DnsTests, HttpTests, Leased, DhcpTests, DhcpStates
  <2> QED
    BY <1>1, <1>3, <2>1, <2>2, <2>3, ReckonedEnd
<1>6. CASE JudgeLease
  <2>1. /\ test = "DhcpLeaseVerify" /\ stage' = "rest" /\ verdict' \in Verdicts /\ count' = count
        /\ dhcp' = "stopped" /\ found' = dhcp /\ obtained' = obtained
        /\ verdict' = "PASS" => dhcp = "bound" \/ (dhcp = "stopped" /\ static)
    BY <1>6 DEF JudgeLease, Conclude, Verdicts
  <2>2. dhcp = "bound" => ~obtained
    BY DEF Reckoned, Leased
  <2>3. VerdictHonest' /\ Leased'
    BY <1>1, <1>2, <2>1, <2>2 DEF VerdictHonest, Done, DnsTests, Leased, DhcpTests, DhcpStates
  <2> QED
    BY <1>1, <1>3, <2>1, <2>3, ReckonedEnd DEF Reckoned, Typed
<1> QED
  BY <1>4, <1>5, <1>6

LEMMA ReckonedNext == Owned /\ Reckoned /\ [Next]_vars => Reckoned'
<1> SUFFICES ASSUME Owned, Reckoned, [Next]_vars
             PROVE  Reckoned'
  OBVIOUS
<1>0. Owned'
  BY OwnedNext
<1>1. CASE \E t \in Tests : Begin(t)
  BY <1>1, ReckonedBegin
<1>2. CASE OpenChild \/ OpenFails \/ Evaluate
  BY <1>0, <1>2, ReckonedOpen, ReckonedEvaluate
<1>3. CASE Operate \/ Waiting \/ Driver
  BY <1>3, ReckonedOperate, ReckonedWaiting, ReckonedDriver
<1>4. CASE React
  BY <1>0, <1>4, ReckonedReact
<1>5. CASE Start \/ StartFails \/ LeavePolling \/ JudgeDiscover \/ JudgeLease
  BY <1>0, <1>5, ReckonedDhcp
<1>6. CASE LeaseChanges \/ UNCHANGED vars
  <2>1. /\ UNCHANGED <<test, stage, round, count, verdict, static, found, obtained, answers>>
        /\ UNCHANGED <<token, clock, io, result>>
        /\ dhcp' \in DhcpStates /\ (dhcp = "stopped" => dhcp' = "stopped")
    BY <1>6 DEF LeaseChanges, vars, ioVars, testVars, dhcpVars, Reckoned, Leased, DhcpStates
  <2>2. Typed' /\ Staged'
    <3>1. Held' = Held
      BY <2>1 DEF Held
    <3> QED
      BY <2>1, <3>1 DEF Reckoned, Typed, IoTypeOK, Kinds, Staged
  <2>3. Leased' /\ VerdictHonest'
    BY <2>1 DEF Reckoned, Leased, VerdictHonest, Done, Answers
  <2>4. Answering' /\ Counting'
    BY <2>1 DEF Reckoned, Answering, Came, Has, InTime, LooksAgain, Counting, Got, Good
  <2> QED
    BY <2>2, <2>3, <2>4 DEF Reckoned
<1> QED
  BY <1>1, <1>2, <1>3, <1>4, <1>5, <1>6 DEF Next, Program

LEMMA ReckonedAlways == Spec => []Reckoned
<1>1. Init => Owned /\ Reckoned
  BY OwnedInit, ReckonedInit
<1>2. Owned /\ Reckoned /\ [Next]_vars => Owned' /\ Reckoned'
  BY OwnedNext, ReckonedNext
<1> QED
  BY <1>1, <1>2, PTL DEF Spec

\* The verdict of a layer 7 test says what came of it in time, whatever else the
\* drivers do, before and after.
THEOREM VerdictHonestAlways == Spec => []VerdictHonest
<1>1. Reckoned => VerdictHonest
  BY DEF Reckoned
<1> QED
  BY <1>1, ReckonedAlways, PTL

-----------------------------------------------------------------------------
Booleans == child \in BOOLEAN /\ static \in BOOLEAN /\ obtained \in BOOLEAN

LEMMA BooleansNext == Booleans /\ [Next]_vars => Booleans'
<1> SUFFICES ASSUME Booleans, [Next]_vars
             PROVE  Booleans'
  OBVIOUS
<1>1. CASE \E t \in Tests : Begin(t)
  <2>1. child' = child /\ static' = static
    BY <1>1 DEF Begin
  <2>2. obtained' \in BOOLEAN
    BY <1>1, Zenon DEF Begin
  <2> QED
    BY <2>1, <2>2 DEF Booleans
<1>2. CASE OpenChild \/ OpenFails \/ Evaluate \/ Operate \/ Waiting \/ Driver \/ LeaseChanges
  BY <1>2 DEF Booleans, OpenChild, OpenFails, Evaluate, Operate, Waiting, Driver, LeaseChanges,
     testVars, dhcpVars
<1>3. CASE React
  BY <1>3 DEF Booleans, React, Requested, Answered, dhcpVars
<1>4. CASE Start \/ StartFails \/ LeavePolling \/ JudgeLease
  BY <1>4 DEF Booleans, Start, StartFails, LeavePolling, JudgeLease, dhcpVars
<1>5. CASE JudgeDiscover
  <2>1. child' = FALSE /\ static' = static
    BY <1>5 DEF JudgeDiscover
  <2>2. obtained' \in BOOLEAN
    BY <1>5, Zenon DEF JudgeDiscover
  <2> QED
    BY <2>1, <2>2 DEF Booleans
<1>6. CASE UNCHANGED vars
  BY <1>6 DEF Booleans, vars, testVars, dhcpVars
<1> QED
  BY <1>1, <1>2, <1>3, <1>4, <1>5, <1>6 DEF Next, Program

\* The types of every variable of the layer 7 tests.
THEOREM TypeOKAlways == Spec => []TypeOK
<1>1. Init => Booleans
  BY DEF Init, Booleans
<1>2. Owned /\ Reckoned /\ Booleans => TypeOK
  <2> SUFFICES ASSUME Owned, Reckoned, Booleans PROVE TypeOK
    OBVIOUS
  <2>1. count \in [DOMAIN Zero -> Nat]
    BY DEF Reckoned, Typed, Zero, Fields
  <2>2. IoTypeOK /\ stage \in Stages /\ round \in 0..3 /\ test \in Tests
    BY DEF Owned, Reckoned, Typed, Staged
  <2>3. /\ verdict \in Verdicts \cup {"none"} /\ answers \subseteq (0..2) \X Outcomes
        /\ dhcp \in DhcpStates /\ found \in DhcpStates \cup {"none"}
    BY DEF Reckoned, Typed, Leased
  <2> QED
    BY <2>1, <2>2, <2>3, Zenon DEF TypeOK, Booleans
<1> QED
  BY <1>1, <1>2, BooleansNext, OwnedAlways, ReckonedAlways, PTL DEF Spec

-----------------------------------------------------------------------------
(* A test has a bounded number of steps *)

\* What is left of a test, or of one path of HttpStatusCodes.
PathLeft ==
  CASE stage = "open" -> 13
    [] stage = "ask" -> 7 + IoLeft
    [] stage = "answer" -> 1 + IoLeft
    [] stage = "start" -> 2
    [] stage = "poll" -> 1
    [] stage = "judge" -> 0

PathsToCome == IF test = "HttpStatusCodes" THEN 2 - round ELSE 0

StepsLeft ==
  IF stage = "rest" THEN 0
  ELSE IF stage = "evaluate" THEN 1
  ELSE 2 + PathLeft + 14 * PathsToCome

\* What the program does brings the test nearer its end; neither a driver nor a
\* change of the lease can send it back.
EveryStepCounts ==
  /\ Program => StepsLeft' < StepsLeft
  /\ Driver \/ LeaseChanges => StepsLeft' = StepsLeft

\* The polls are counted only while an operation is waited for, and until it is
\* over its token is with the driver or has a status.
Timed ==
  /\ clock = "running" => io = "waiting"
  /\ io # "idle" => token # "none"

LEMMA TimedNext == Timed /\ Owned /\ [Next]_vars => Timed'
<1> SUFFICES ASSUME Timed, Owned, [Next]_vars PROVE Timed'
  OBVIOUS
<1>1. CASE Operate
  BY <1>1 DEF Timed, Operate, Refuse, Accept
<1>2. CASE Waiting
  BY <1>2 DEF Timed, Waiting, LeaveLoop, LastLook, Cancel, CancelAndLookAgain, Tick
<1>3. CASE Driver
  <2>1. PICK outcome \in DnsOutcomes \cup {"SENT", "ERROR"} \cup DOMAIN Responses : Complete(outcome)
    BY <1>3 DEF Driver
  <2>2. outcome # "none"
    BY PagesAre DEF DnsOutcomes, Pages
  <2> QED
    BY <2>1, <2>2 DEF Timed, Complete
<1>4. CASE React
  BY <1>4 DEF Timed, React, Consume
<1>5. CASE (\E t \in Tests : Begin(t)) \/ OpenChild \/ OpenFails \/ Evaluate
  BY <1>5 DEF Timed, Begin, OpenChild, OpenFails, Evaluate, ioVars
<1>6. CASE Start \/ StartFails \/ LeavePolling \/ JudgeDiscover \/ JudgeLease
  BY <1>6 DEF Timed, Start, StartFails, LeavePolling, JudgeDiscover, JudgeLease, ioVars
<1>7. CASE LeaseChanges \/ UNCHANGED vars
  BY <1>7 DEF Timed, LeaseChanges, vars, ioVars
<1> QED
  BY <1>1, <1>2, <1>3, <1>4, <1>5, <1>6, <1>7 DEF Next, Program

\* Where a test is under way, and has more to do than to judge its counters.
Underway == stage \in Held \cup {"open"}

LEMMA IoLeftIs == ASSUME IoTypeOK PROVE IoLeft \in 0..5
  BY DEF IoTypeOK, IoLeft

LEMMA WaitingCounts ==
  ASSUME IoTypeOK, Timed, Waiting
  PROVE  IoLeft' \in 0..5 /\ IoLeft' < IoLeft
<1>1. CASE LeaveLoop \/ Tick
  BY <1>1 DEF LeaveLoop, Tick, IoLeft, Timed
<1>2. CASE Cancel
  BY <1>2 DEF Cancel, IoLeft
<1>3. CASE CancelAndLookAgain
  BY <1>3 DEF CancelAndLookAgain, IoLeft, Timed
<1>4. CASE LastLook
  <2>1. CASE token = "queued"
    BY <1>4, <2>1 DEF LastLook, IoLeft
  <2>2. CASE token # "queued"
    BY <1>4, <2>2 DEF LastLook, IoLeft, Timed
  <2> QED
    BY <2>1, <2>2
<1> QED
  BY <1>1, <1>2, <1>3, <1>4 DEF Waiting

\* What the invariants say of the counts.
LEMMA CountsAre ==
  ASSUME Owned, Reckoned, Underway
  PROVE  /\ PathLeft \in 0..13 /\ PathsToCome \in 0..2
         /\ StepsLeft = 2 + PathLeft + 14 * PathsToCome
<1>1. IoLeft \in 0..5
  BY IoLeftIs DEF Reckoned, Typed
<1>2. PathLeft \in 0..13
  BY <1>1 DEF Underway, Held, Asking, PathLeft
<1>3. PathsToCome \in 0..2
  BY DEF Reckoned, Staged, Underway, PathsToCome
<1> QED
  BY <1>2, <1>3 DEF StepsLeft, Underway, Held, Asking

\* The test returns; or it goes on to what is nearer the end of the path.
LEMMA OnPath ==
  ASSUME Owned, Reckoned, Underway, UNCHANGED <<test, round>>,
         stage' = "rest" \/ (Underway' /\ PathLeft' \in Nat /\ PathLeft' < PathLeft)
  PROVE  StepsLeft' < StepsLeft
<1>1. PathsToCome' = PathsToCome
  BY DEF PathsToCome
<1>2. CASE stage' = "rest"
  BY <1>2, CountsAre DEF StepsLeft
<1>3. CASE Underway' /\ PathLeft' \in Nat /\ PathLeft' < PathLeft
  <2>1. StepsLeft' = 2 + PathLeft' + 14 * PathsToCome'
    BY <1>3 DEF StepsLeft, Underway, Held, Asking
  <2> QED
    BY <1>1, <1>3, <2>1, CountsAre
<1> QED
  BY <1>2, <1>3

\* The next path is a path less, and begins where its child is opened.
LEMMA NextPathCounts ==
  ASSUME Owned, Reckoned, Underway, test = "HttpStatusCodes", test' = test, NextPath
  PROVE  StepsLeft' < StepsLeft
<1>1. CASE stage' = "evaluate"
  BY <1>1, CountsAre DEF StepsLeft
<1>2. CASE stage' = "open"
  <2>1. round \in Nat /\ PathsToCome = 2 - round /\ PathsToCome' = 2 - (round + 1)
    BY DEF PathsToCome, NextPath, Reckoned, Staged
  <2>2. StepsLeft' = 2 + 13 + 14 * PathsToCome'
    BY <1>2 DEF StepsLeft, PathLeft
  <2>3. round \in 0..1
    BY <1>2, <2>1 DEF NextPath
  <2> QED
    BY <2>1, <2>2, <2>3, CountsAre
<1> QED
  BY <1>1, <1>2 DEF NextPath

LEMMA EndsCounts ==
  ASSUME Owned, Reckoned, Underway, test' = test, NEW v, Ends(v)
  PROVE  StepsLeft' < StepsLeft
  BY OnPath, NextPathCounts DEF Ends, Conclude

LEMMA OperationCounts ==
  ASSUME Owned, Reckoned, Timed, Operate \/ Waiting
  PROVE  StepsLeft' < StepsLeft
<1>1. IoTypeOK
  BY DEF Reckoned, Typed
<1>2. UNCHANGED <<test, stage, round>>
  BY DEF Operate, Waiting, testVars
<1>3. CASE Operate
  <2>1. /\ stage \in Asking /\ io = "idle" /\ result = "none"
        /\ \/ io' = "idle" /\ result' # "none"
           \/ io' = "waiting" /\ result' = "none"
    <3>1. \A status : (stage = "ask" /\ status \in Refusals[test]) => status # "none"
      BY DEF Refusals, Reckoned, Typed
    <3> QED
      BY <1>3, <3>1 DEF Operate, Refuse, Accept, Ready, Asking
  <2>2. IoLeft = 5
    BY <2>1 DEF IoLeft
  <2>3. IoLeft' \in 0..4
    BY <2>1 DEF IoLeft
  <2>4. PathLeft' \in Nat /\ PathLeft' < PathLeft
    BY <1>2, <2>1, <2>2, <2>3 DEF PathLeft, Asking
  <2> QED
    BY <1>2, <2>1, <2>4, OnPath DEF Underway, Held
<1>4. CASE Waiting
  <2>1. stage \in Asking
    BY <1>4 DEF Waiting, LeaveLoop, LastLook, Cancel, CancelAndLookAgain, Tick, Owned, Timed
  <2>2. IoLeft \in 0..5 /\ IoLeft' \in 0..5 /\ IoLeft' < IoLeft
    BY <1>1, <1>4, IoLeftIs, WaitingCounts
  <2>3. PathLeft' \in Nat /\ PathLeft' < PathLeft
    BY <1>2, <2>1, <2>2 DEF PathLeft, Asking
  <2> QED
    BY <1>2, <2>1, <2>3, OnPath DEF Underway, Held
<1> QED
  BY <1>3, <1>4

LEMMA ReactionCounts ==
  ASSUME Owned, Reckoned, React
  PROVE  StepsLeft' < StepsLeft
<1>1. /\ stage \in Asking /\ io = "idle" /\ result # "none" /\ test' = test
      /\ io' = "idle" /\ result' = "none"
  BY DEF Owned, React, Consume
<1>2. IoLeft = 0
  BY <1>1 DEF IoLeft
<1>3. IoLeft' = 5
  BY <1>1 DEF IoLeft
<1>4. Underway
  BY <1>1 DEF Underway, Held
<1>5. CASE Requested
  <2>1. stage = "ask" /\ stage' = "answer" /\ round' = round
    <3>1. stage = "answer" => result # "SENT"
      BY DEF Reckoned, Typed, Kinds, Staged, Pages
    <3> QED
      BY <1>1, <1>5, <3>1 DEF Requested, Asking
  <2>2. PathLeft = 7 /\ PathLeft' = 6 /\ Underway'
    BY <1>2, <1>3, <2>1 DEF PathLeft, Underway, Held, Asking
  <2> QED
    BY <1>1, <1>4, <2>1, <2>2, OnPath
<1>6. CASE Answered
  <2>1. CASE \E v : Ends(v)
    BY <1>1, <1>4, <2>1, EndsCounts
  <2>2. CASE HttpDenied
    <3>1. \/ stage' = "rest" /\ round' = round
          \/ test = "HttpStatusCodes" /\ NextPath
      BY <2>2 DEF HttpDenied, Conclude
    <3> QED
      BY <1>1, <1>4, <3>1, OnPath, NextPathCounts
  <2> QED
    BY <1>6, <2>1, <2>2 DEF Answered, DnsAnswered, HttpUnanswered, HttpGetAnswered, HttpPathAnswered
<1> QED
  BY <1>5, <1>6 DEF React

LEMMA SkeletonCounts ==
  ASSUME Owned, Reckoned, OpenChild \/ OpenFails \/ Evaluate
  PROVE  StepsLeft' < StepsLeft
<1>1. CASE OpenChild
  <2>1. /\ stage = "open" /\ stage' \in {"ask", "judge", "start"}
        /\ UNCHANGED <<test, round, ioVars>>
    BY <1>1 DEF OpenChild
  <2>2. Underway /\ Underway' /\ IoLeft' = IoLeft /\ IoLeft \in 0..5
    BY <2>1, IoLeftIs DEF Underway, Held, Asking, IoLeft, ioVars, Reckoned, Typed
  <2>3. PathLeft' \in Nat /\ PathLeft' < PathLeft
    BY <2>1, <2>2 DEF PathLeft
  <2> QED
    BY <2>1, <2>2, <2>3, OnPath
<1>2. CASE OpenFails
  BY <1>2, EndsCounts DEF OpenFails, Underway
<1>3. CASE Evaluate
  BY <1>3 DEF Evaluate, Conclude, StepsLeft
<1> QED
  BY <1>1, <1>2, <1>3

LEMMA DhcpCounts ==
  ASSUME Owned, Reckoned, Start \/ StartFails \/ LeavePolling \/ JudgeDiscover \/ JudgeLease
  PROVE  StepsLeft' < StepsLeft
<1>1. /\ UNCHANGED <<test, round>>
      /\ \/ stage = "start" /\ stage' \in {"poll", "judge", "rest"}
         \/ stage = "poll" /\ stage' = "judge"
         \/ stage = "judge" /\ stage' = "rest"
  BY DEF Start, StartFails, LeavePolling, JudgeDiscover, JudgeLease, Conclude
<1>2. Underway /\ (stage' = "rest" \/ (Underway' /\ PathLeft' \in Nat /\ PathLeft' < PathLeft))
  BY <1>1 DEF Underway, Held, PathLeft
<1> QED
  BY <1>1, <1>2, OnPath

LEMMA FirmwareCounts ==
  ASSUME Driver \/ LeaseChanges
  PROVE  StepsLeft' = StepsLeft
<1>1. UNCHANGED <<stage, test, round, io, result, clock>>
  BY DEF Driver, Complete, LeaseChanges, testVars, ioVars
<1>2. PathLeft' = PathLeft /\ PathsToCome' = PathsToCome
  BY <1>1 DEF PathLeft, IoLeft, PathsToCome
<1> QED
  BY <1>1, <1>2 DEF StepsLeft

LEMMA StepsLeftIs == ASSUME Owned, Reckoned PROVE StepsLeft \in 0..43
<1>1. CASE Underway
  BY <1>1, CountsAre
<1>2. CASE stage \in {"rest", "evaluate"}
  BY <1>2 DEF StepsLeft
<1> QED
  BY <1>1, <1>2 DEF Owned, Stages, Underway, Held, Asking

\* A layer 7 test takes at most 43 steps of its own, each of which uses one up;
\* the drivers, the servers and the lease can neither add one nor give one back.
THEOREM TestsAreBounded == Spec => [](StepsLeft \in 0..43) /\ [][EveryStepCounts]_vars
<1>1. Init => Owned /\ Reckoned /\ Timed
  BY OwnedInit, ReckonedInit DEF Init, IoInit, Timed
<1>2. Owned /\ Reckoned /\ Timed /\ [Next]_vars => Owned' /\ Reckoned' /\ Timed' /\ EveryStepCounts
  BY OwnedNext, ReckonedNext, TimedNext, OperationCounts, ReactionCounts, SkeletonCounts, DhcpCounts,
     FirmwareCounts
  DEF EveryStepCounts, Program
<1>3. Owned /\ Reckoned => StepsLeft \in 0..43
  BY StepsLeftIs
<1> QED
  BY <1>1, <1>2, <1>3, PTL DEF Spec

=============================================================================
