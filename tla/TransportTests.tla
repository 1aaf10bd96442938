---------------------------- MODULE TransportTests ----------------------------
(***************************************************************************)
(* The layer 4 tests, Source/Layer4Transport.c: eight tests that the test  *)
(* runner calls one at a time.  Each opens TCP4 or UDP4 children on the    *)
(* interface, performs operations on them (TokenIo), counts what happened  *)
(* and derives a verdict.  The driver, and through it the peer, decides    *)
(* whether and when an operation completes.                                *)
(***************************************************************************)
EXTENDS TokenIo, Naturals

CONSTANT Iterations    \* Config->Iterations, 1..50

ASSUME IterationsAssumption == Iterations \in 1..50
ASSUME OutcomesAssumption == Outcomes = {"SUCCESS", "EMPTY", "ERROR"}

VARIABLES
  test,       \* the test that runs, or ran last
  stage,      \* what the test does next, "rest" when none runs
  round,      \* I, the index of the loop over ports or iterations
  child,      \* a child handle exists
  count,      \* PacketsSent, PacketsReceived and the test's own counters
  verdict,    \* Result->StatusCode, "none" while undecided
  shaken,     \* history: TCP handshakes completed by the driver in this test
  carried,    \* history: datagrams and segments the driver has sent
  echoed,     \* history: non-empty answers the driver has delivered
  parted,     \* history: graceful closes the driver has completed
  open        \* history: a connection is established that the test has not tried to close

testVars == <<test, stage, round, child, count, verdict>>
seenVars == <<shaken, carried, echoed, parted, open>>
vars == <<ioVars, testVars, seenVars>>

TcpLoops == {"TcpMultiPort", "PortScan", "TcpStress"}
TcpTests == {"TcpConnect", "TcpDataTransfer", "TcpClose"} \cup TcpLoops
UdpTests == {"UdpSendReceive", "UdpMultiPort"}
Tests == TcpTests \cup UdpTests

\* The lengths of the port lists, and the iterations of the stress test.
Rounds ==
  [t \in Tests |-> CASE t = "TcpMultiPort" -> 4
                     [] t = "PortScan"     -> 6
                     [] t = "UdpMultiPort" -> 3
                     [] t = "TcpStress"    -> Iterations
                     [] OTHER              -> 1]

Operations == {"connect", "send", "receive", "close", "transmit", "listen"}
Stages == {"rest", "open", "destroy", "evaluate"} \cup Operations
Verdicts == {"PASS", "WARN", "FAIL"}

\* ok is OpenCount, Succeeded or SendOk; bad is ClosedCount or Failed; tried
\* is TotalTried.
Zero == [sent |-> 0, received |-> 0, ok |-> 0, bad |-> 0, tried |-> 0]

Add(fields) == [f \in DOMAIN count |-> count[f] + (IF f \in fields THEN 1 ELSE 0)]

TypeOK ==
  /\ IoTypeOK
  /\ test \in Tests
  /\ stage \in Stages
  /\ round \in 0..Rounds[test]
  /\ child \in BOOLEAN
  /\ count \in [DOMAIN Zero -> Nat]
  /\ verdict \in Verdicts \cup {"none"}
  /\ {shaken, carried, echoed, parted} \subseteq Nat
  /\ open \in BOOLEAN

Init ==
  /\ IoInit
  /\ test \in Tests
  /\ stage = "rest"
  /\ round = 0
  /\ child = FALSE
  /\ count = Zero
  /\ verdict = "none"
  /\ shaken = 0 /\ carried = 0 /\ echoed = 0 /\ parted = 0
  /\ open = FALSE

-----------------------------------------------------------------------------
(* The skeleton of every test *)

\* RunSingleTest clears the result and calls the test.
Begin(t) ==
  /\ stage = "rest"
  /\ test' = t
  /\ stage' = "open"
  /\ round' = 0
  /\ count' = Zero
  /\ verdict' = "none"
  /\ shaken' = 0 /\ carried' = 0 /\ echoed' = 0 /\ parted' = 0
  /\ UNCHANGED <<child, open, ioVars>>

Conclude(v) == verdict' = v

NextRound ==
  /\ round' = round + 1
  /\ stage' = IF round + 1 < Rounds[test] THEN "open" ELSE "evaluate"

(***************************************************************************)
(* What the UDP tests do with the outcome of L4UdpSendRecv.  UdpMultiPort  *)
(* counts in ok the calls that succeeded as a whole.                       *)
(***************************************************************************)
UdpReturned(status, data) ==
  \/ /\ test = "UdpSendReceive"
     /\ count' = Add({"sent"} \cup IF data THEN {"received"} ELSE {})
     /\ Conclude(IF data THEN "PASS" ELSE "WARN")
     /\ stage' = "rest"
     /\ UNCHANGED round
  \/ /\ test = "UdpMultiPort"
     /\ count' = Add(CASE data -> {"sent", "ok", "received"}
                       [] status = "EMPTY" -> {"sent", "ok"}
                       [] OTHER -> {"sent"})
     /\ NextRound
     /\ UNCHANGED verdict

\* L4CreateTcpChild; the first part of L4UdpSendRecv, with Configure.
OpenChild ==
  /\ stage = "open"
  /\ child' = TRUE
  /\ stage' = IF test \in UdpTests THEN "transmit" ELSE "connect"
  /\ count' = Add(CASE test = "PortScan" -> {"sent", "tried"}
                    [] test \in {"TcpMultiPort", "TcpStress"} -> {"sent"}
                    [] OTHER -> {})
  /\ UNCHANGED <<test, round, verdict, seenVars, ioVars>>

OpenFails ==
  /\ stage = "open"
  /\ \/ /\ test \in TcpTests \ TcpLoops
        /\ Conclude("FAIL")
        /\ stage' = "rest"
        /\ UNCHANGED <<round, count>>
     \/ /\ test \in TcpLoops
        /\ NextRound
        /\ count' = Add(IF test = "PortScan" THEN {} ELSE {"bad"})
        /\ UNCHANGED verdict
     \/ test \in UdpTests /\ UdpReturned("ERROR", FALSE)
  /\ UNCHANGED <<test, child, seenVars, ioVars>>

\* L4DestroyTcpChild.
Destroy ==
  /\ stage = "destroy"
  /\ child' = FALSE
  /\ open' = FALSE
  /\ IF test \in TcpLoops
       THEN NextRound
       ELSE stage' = "rest" /\ UNCHANGED round
  /\ UNCHANGED <<test, count, verdict, shaken, carried, echoed, parted, ioVars>>

\* Slip: one closed port is forgiven.
JudgedLeniently == IF count.ok + 1 >= Rounds[test] THEN "PASS" ELSE "FAIL"

\* The verdict of a test that loops over ports or iterations.
Judged ==
  CASE test = "TcpMultiPort" ->
         (CASE count.ok = Rounds[test] -> "PASS"
            [] count.ok \in 1..(Rounds[test] - 1) -> "WARN"
            [] OTHER -> "FAIL")
    [] test = "PortScan" ->
         (CASE count.tried = 0 -> "FAIL"
            [] count.tried > 0 /\ count.ok > 0 -> "PASS"
            [] OTHER -> "WARN")
    [] test = "TcpStress" ->
         (CASE count.ok = Iterations -> "PASS"
            [] count.ok < Iterations /\ count.ok > Iterations \div 2 -> "WARN"
            [] OTHER -> "FAIL")
    [] test = "UdpMultiPort" ->
         (CASE count.received = Rounds[test] -> "PASS"
            [] count.received < Rounds[test] /\ count.received + count.ok > 0 -> "WARN"
            [] OTHER -> "FAIL")

Evaluate ==
  /\ stage = "evaluate"
  /\ Conclude(Judged)
  /\ stage' = "rest"
  /\ UNCHANGED <<test, round, child, count, seenVars, ioVars>>

-----------------------------------------------------------------------------
(* Operations *)

\* L4TcpConnect, L4TcpSend, L4TcpReceive, L4TcpClose, and the two halves of
\* L4UdpSendRecv, up to their loop.
Operate ==
  /\ stage \in Operations
  /\ Refuse("ERROR") \/ Accept(TRUE)
  /\ open' = (open /\ stage # "close")
  /\ UNCHANGED <<testVars, shaken, carried, echoed, parted>>

\* The driver completes the operation; only answers can be empty.  What it
\* does once the caller has taken its last look is nobody's knowledge.
Driver ==
  \E outcome \in Outcomes :
    LET Seen(s) == stage \in s /\ outcome = "SUCCESS" /\ io # "cancelling"
        More(s) == IF Seen(s) THEN 1 ELSE 0
    IN
    /\ outcome = "EMPTY" => stage \in {"receive", "listen"}
    /\ Complete(outcome)
    /\ shaken'  = shaken  + More({"connect"})
    /\ carried' = carried + More({"send", "transmit"})
    /\ echoed'  = echoed  + More({"receive", "listen"})
    /\ parted'  = parted  + More({"close"})
    /\ open' = (open \/ Seen({"connect"}))
    /\ UNCHANGED testVars

\* The layer 4 loops check the clock of their timer event.
Waiting == (Wait \/ Tick) /\ UNCHANGED <<testVars, seenVars>>

Connected ==
  /\ stage = "connect"
  /\ result = "SUCCESS"
  /\ count' = IF test \in TcpLoops THEN Add({"ok", "received"}) ELSE count
  /\ stage' = IF test = "TcpDataTransfer" THEN "send" ELSE "close"
  /\ verdict' = IF test = "TcpConnect" THEN "PASS" ELSE verdict

NotConnected ==
  /\ stage = "connect"
  /\ result # "SUCCESS"
  /\ count' = IF test \in {"TcpMultiPort", "TcpStress"} THEN Add({"bad"}) ELSE count
  /\ stage' = "destroy"
  /\ verdict' = IF test \in TcpLoops THEN verdict ELSE "FAIL"

\* Slip: a failed send gives the connection up without closing it.
DataSentUnclosed ==
  /\ stage = "send"
  /\ IF result = "SUCCESS"
       THEN stage' = "receive" /\ count' = Add({"sent"}) /\ UNCHANGED verdict
       ELSE stage' = "destroy" /\ UNCHANGED count /\ Conclude("FAIL")

\* Slip: a failed send returns at once.
DataSentReturns ==
  /\ stage = "send"
  /\ IF result = "SUCCESS"
       THEN stage' = "receive" /\ count' = Add({"sent"}) /\ UNCHANGED verdict
       ELSE stage' = "rest" /\ UNCHANGED count /\ Conclude("FAIL")

DataSent ==
  /\ stage = "send"
  /\ IF result = "SUCCESS"
       THEN stage' = "receive" /\ count' = Add({"sent"}) /\ UNCHANGED verdict
       ELSE stage' = "close" /\ UNCHANGED count /\ Conclude("FAIL")

DataReceived ==
  /\ stage = "receive"
  /\ stage' = "close"
  /\ IF result = "SUCCESS"
       THEN count' = Add({"received"}) /\ Conclude("PASS")
       ELSE UNCHANGED count /\ Conclude("WARN")

\* Only TcpClose looks at how the graceful close ended.
Closed ==
  /\ stage = "close"
  /\ stage' = "destroy"
  /\ verdict' = IF test # "TcpClose" THEN verdict
                ELSE [SUCCESS |-> "PASS", TIMEOUT |-> "WARN", ERROR |-> "FAIL"][result]
  /\ UNCHANGED count

TcpStep ==
  /\ Connected \/ NotConnected \/ DataSent \/ DataReceived \/ Closed
  /\ UNCHANGED <<test, round, child>>

\* L4UdpSendRecv destroys its child on every way out.
UdpStep ==
  \/ /\ stage = "transmit"
     /\ result = "SUCCESS"
     /\ stage' = "listen"
     /\ UNCHANGED <<test, round, child, count, verdict>>
  \/ /\ \/ stage = "transmit" /\ result # "SUCCESS"
        \/ stage = "listen"
     /\ child' = FALSE
     /\ UdpReturned(result, stage = "listen" /\ result = "SUCCESS")
     /\ UNCHANGED test

\* The test looks at what its operation returned.
React ==
  /\ Consume
  /\ TcpStep \/ UdpStep
  /\ UNCHANGED seenVars

Program == OpenChild \/ OpenFails \/ Destroy \/ Evaluate \/ Operate \/ Waiting \/ React

Next == (\E t \in Tests : Begin(t)) \/ Program \/ Driver

\* The program runs on and its clocks advance; the driver promises nothing.
Spec == Init /\ [][Next]_vars /\ WF_vars(Program)

-----------------------------------------------------------------------------

Done(t) == stage = "rest" /\ test = t /\ verdict # "none"

\* The verdict tells what the network did, not what the program made of it: a
\* handshake or an echo that completes while its wait runs out counts, up to
\* the last look at its token, and one that never completed does not.  Where a
\* header and the code give different verdicts, the clause is the code's:
\*   TcpMultiPort   some ports of the four are a WARN (942-951); the header says
\*                  PASS (880).
\*   TcpStress      exactly half of the connections is a FAIL; the header keeps
\*                  it for a majority that failed (1438).
\*   UdpSendReceive never FAILs, also when no datagram left (1232); the header
\*                  says "FAIL: Send failed" (1167).
\*   UdpMultiPort   without a reply, a WARN if a call succeeded (1321), which a
\*                  datagram without data makes it do, else a FAIL even if all
\*                  three datagrams left, as the status is that of the answer
\*                  (1297); header and comment say FAIL whenever no port
\*                  responded (1251), and WARN for sends without replies (1323).
VerdictHonest ==
  /\ Done("TcpConnect") => (verdict = "PASS" <=> shaken = 1)
  /\ Done("TcpDataTransfer") =>
       /\ verdict = "PASS" <=> echoed = 1
       /\ verdict = "FAIL" <=> carried = 0
  /\ Done("TcpMultiPort") =>
       /\ verdict = "PASS" <=> shaken = Rounds[test]
       /\ verdict = "FAIL" <=> shaken = 0
  /\ Done("PortScan") => (verdict = "PASS" <=> shaken > 0)
  /\ Done("TcpStress") =>
       /\ verdict = "PASS" <=> shaken = Iterations
       /\ verdict = "FAIL" <=> 2 * shaken <= Iterations
  /\ Done("TcpClose") =>
       /\ verdict = "PASS" <=> parted = 1
       /\ shaken = 0 => verdict = "FAIL"
  /\ Done("UdpSendReceive") =>
       /\ verdict = "PASS" <=> echoed = 1
       /\ verdict # "FAIL"
  /\ Done("UdpMultiPort") =>
       /\ verdict = "PASS" <=> echoed = Rounds[test]
       /\ verdict = "FAIL" => echoed = 0
       /\ carried = 0 => verdict = "FAIL"

\* Whatever fails on the way, a test leaves no child handle behind when it
\* returns, and no operation outlives the child it runs on.
ChildrenReturned ==
  /\ stage = "rest" => ~child
  /\ io # "idle" => child

\* No child is destroyed under a connection the test has not tried to close.
ClosedBeforeDestroyed == [][child /\ ~child' => ~open]_vars

\* Every test returns, whatever the driver does or omits to do, unless one of
\* its waits has no timer event: that wait ends only when the driver ends it.
TestsEnd == (stage # "rest") ~> (stage = "rest" \/ clock = "missing")

=============================================================================
