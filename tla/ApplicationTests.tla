--------------------------- MODULE ApplicationTests ---------------------------
(***************************************************************************)
(* The layer 7 tests, Source/Layer7Application.c: DHCP, DNS and HTTP, six  *)
(* tests that the test runner calls one at a time.  DNS and HTTP complete  *)
(* tokens (TokenIo) and count their polls, so their wait cannot fail to    *)
(* end; DHCP is one state machine per interface, shared with the firmware, *)
(* which the tests configure, start, watch and stop.                       *)
(***************************************************************************)
EXTENDS TokenIo, Naturals

VARIABLES
  test,       \* the test that runs, or ran last
  stage,      \* what the test does next, "rest" when none runs
  round,      \* PathIdx
  child,      \* a child handle exists
  count,      \* PacketsSent, PacketsReceived, SuccessCount
  verdict,    \* Result->StatusCode, "none" while undecided
  dhcp,       \* the state of the interface's DHCP driver
  static,     \* Nic->HasIpConfig
  answers,    \* history: <<path, outcome>> the driver has delivered in time
  found,      \* history: the DHCP state a DHCP test has judged
  obtained    \* history: the last DHCP Discover acquired a lease

testVars == <<test, stage, round, child, count, verdict>>
dhcpVars == <<dhcp, static, found, obtained>>
vars == <<ioVars, testVars, dhcpVars, answers>>

DhcpTests == {"DhcpDiscover", "DhcpLeaseVerify"}
DnsTests == {"DnsResolve", "DnsReverse"}
HttpTests == {"HttpGet", "HttpStatusCodes"}
Tests == DhcpTests \cup DnsTests \cup HttpTests

Stages == {"rest", "open", "ask", "answer", "start", "poll", "judge", "evaluate"}
DhcpStates ==
  {"stopped", "init", "selecting", "requesting", "bound", "renewing", "rebinding"}
Verdicts == {"PASS", "WARN", "FAIL"}

\* NODATA is a success without data; a response carries a status code of some
\* class, and a driver may report an error together with it.
DnsOutcomes == {"ANSWER", "EMPTY", "NODATA", "NOT_FOUND", "ERROR"}
Responses ==
  [OK2xx    |-> [class |-> "2xx", error |-> FALSE],
   OK4xx    |-> [class |-> "4xx", error |-> FALSE],
   OKother  |-> [class |-> "other", error |-> FALSE],
   BAD2xx   |-> [class |-> "2xx", error |-> TRUE],
   BAD4xx   |-> [class |-> "4xx", error |-> TRUE],
   BADother |-> [class |-> "other", error |-> TRUE]]

\* How a call may fail before anything is queued.
Refusals ==
  [t \in Tests |-> CASE t = "DnsResolve" -> {"NOT_FOUND", "ERROR"}
                     [] t = "DnsReverse" -> {"UNSUPPORTED", "ERROR"}
                     [] OTHER            -> {"DENIED", "ERROR"}]

ASSUME OutcomesAssumption ==
  Outcomes = DnsOutcomes \cup DOMAIN Responses \cup {"SENT", "DENIED", "UNSUPPORTED"}

\* TestPaths and ExpectedClass.
Expected == [p \in 0..2 |-> IF p = 1 THEN "4xx" ELSE "2xx"]

Zero == [sent |-> 0, received |-> 0, ok |-> 0]

Add(fields) == [f \in DOMAIN count |-> count[f] + (IF f \in fields THEN 1 ELSE 0)]

TypeOK ==
  /\ IoTypeOK
  /\ test \in Tests
  /\ stage \in Stages
  /\ round \in 0..3
  /\ child \in BOOLEAN
  /\ count \in [DOMAIN Zero -> Nat]
  /\ verdict \in Verdicts \cup {"none"}
  /\ dhcp \in DhcpStates
  /\ static \in BOOLEAN
  /\ answers \subseteq (0..2) \X Outcomes
  /\ found \in DhcpStates \cup {"none"}
  /\ obtained \in BOOLEAN

\* The firmware may have been told to obtain a lease before the program runs.
Init ==
  /\ IoInit
  /\ test \in Tests
  /\ stage = "rest"
  /\ round = 0
  /\ child = FALSE
  /\ count = Zero
  /\ verdict = "none"
  /\ dhcp \in {"stopped", "bound"}
  /\ static \in BOOLEAN
  /\ answers = {}
  /\ found = "none"
  /\ obtained = FALSE

-----------------------------------------------------------------------------
(* The skeleton of every test *)

\* RunSingleTest clears the result and calls the test.
Begin(t) ==
  /\ stage = "rest"
  /\ test' = t
  /\ stage' = "open"
  /\ round' = 0
  /\ count' = Zero
  /\ verdict' = "none"
  /\ answers' = {}
  /\ found' = "none"
  /\ obtained' = (obtained /\ t = "DhcpLeaseVerify")
  /\ UNCHANGED <<child, dhcp, static, ioVars>>

\* Every test but HttpStatusCodes decides where it stops.
Conclude(v) == verdict' = v /\ stage' = "rest"

NextPath ==
  /\ round' = round + 1
  /\ stage' = IF round + 1 < 3 THEN "open" ELSE "evaluate"

\* The end of a single test, or of the round of HttpStatusCodes.
Ends(v) ==
  \/ /\ test # "HttpStatusCodes"
     /\ Conclude(v)
     /\ UNCHANGED round
  \/ /\ test = "HttpStatusCodes"
     /\ NextPath
     /\ UNCHANGED verdict

\* The child is created, configured, and for DNS and HTTP its event exists.
OpenChild ==
  /\ stage = "open"
  /\ child' = TRUE
  /\ \/ test \in DnsTests \cup HttpTests /\ stage' = "ask" /\ UNCHANGED dhcp
     \/ test = "DhcpLeaseVerify" /\ stage' = "judge" /\ UNCHANGED dhcp
     \/ /\ test = "DhcpDiscover"
        /\ dhcp \in {"stopped", "init"}
        /\ dhcp' = "init"
        /\ stage' = "start"
  /\ UNCHANGED <<test, round, count, verdict, static, found, obtained, answers, ioVars>>

\* L7DestroyDhcpChild stops the driver on its way out, also where the test had
\* failed to configure it.
OpenFails ==
  /\ stage = "open"
  /\ Ends("FAIL")
  /\ dhcp' \in {dhcp} \cup IF test \in DhcpTests THEN {"stopped"} ELSE {}
  /\ UNCHANGED <<test, child, count, static, found, obtained, answers, ioVars>>

\* Slip: one correct path is enough.
JudgedAtLeastOne == IF count.ok > 0 THEN "PASS" ELSE "FAIL"

Judged ==
  CASE count.ok = 3 -> "PASS"
    [] count.ok < 3 /\ count.received > 0 -> "WARN"
    [] OTHER -> "FAIL"

Evaluate ==
  /\ stage = "evaluate"
  /\ Conclude(Judged)
  /\ UNCHANGED <<test, round, child, count, dhcpVars, answers, ioVars>>

-----------------------------------------------------------------------------
(* DNS and HTTP *)

\* HostNameToIp, IpToHostName, Request and Response, up to their polling loop.
Operate ==
  /\ stage \in {"ask", "answer"}
  /\ \/ \E status \in IF stage = "ask" THEN Refusals[test] ELSE {"ERROR"} : Refuse(status)
     \/ Accept(FALSE)
  /\ count' = IF stage = "ask" THEN Add({"sent"}) ELSE count
  /\ UNCHANGED <<test, stage, round, child, verdict, dhcpVars, answers>>

LooksAgain == test = "HttpStatusCodes" /\ stage = "answer"

\* The driver completes the token before the caller's last look at it.
InTime == io # "cancelling" \/ LooksAgain

\* The driver completes the operation.
Driver ==
  \E outcome \in CASE test \in DnsTests -> DnsOutcomes
                   [] test \in HttpTests /\ stage = "ask" -> {"SENT", "ERROR"}
                   [] OTHER -> DOMAIN Responses :
    /\ Complete(outcome)
    /\ answers' = IF InTime THEN answers \cup {<<round, outcome>>} ELSE answers
    /\ UNCHANGED <<testVars, dhcpVars>>

\* HttpStatusCodes looks at the token of a response once more after Cancel.
CancelAndLookAgain ==
  /\ io = "cancelling"
  /\ result' = IF token = "queued" THEN "TIMEOUT" ELSE token
  /\ token' = "none"
  /\ io' = "idle"
  /\ UNCHANGED clock

Waiting ==
  /\ \/ LeaveLoop \/ LastLook \/ Tick
     \/ IF LooksAgain THEN CancelAndLookAgain ELSE Cancel
  /\ UNCHANGED <<testVars, dhcpVars, answers>>

\* A refusal with NOT_FOUND is a WARN for HostNameToIp, with UNSUPPORTED for
\* IpToHostName.
DnsAnswered ==
  /\ test \in DnsTests
  /\ count' = IF result \in {"ANSWER", "EMPTY"} THEN Add({"received"}) ELSE count
  /\ Ends(CASE result = "ANSWER" -> "PASS"
            [] result \in {"TIMEOUT", "EMPTY", "NOT_FOUND", "UNSUPPORTED"} -> "WARN"
            [] result \in {"NODATA", "ERROR"} -> "FAIL")

\* The firmware forbids plain HTTP: a WARN, for HttpStatusCodes only where the
\* first path meets it.
HttpDenied ==
  /\ result = "DENIED"
  /\ \/ /\ test = "HttpGet" \/ round = 0
        /\ Conclude("WARN")
        /\ UNCHANGED round
     \/ /\ test = "HttpStatusCodes" /\ round > 0
        /\ NextPath
        /\ UNCHANGED verdict
  /\ UNCHANGED count

HttpUnanswered ==
  /\ result \in {"ERROR", "TIMEOUT"}
  /\ Ends("FAIL")
  /\ UNCHANGED count

\* HttpGet ignores the status of the token.
HttpGetAnswered ==
  /\ test = "HttpGet"
  /\ result \in DOMAIN Responses
  /\ count' = Add({"received"})
  /\ Ends(IF Responses[result].class = "2xx" THEN "PASS" ELSE "WARN")

HttpPathAnswered ==
  /\ test = "HttpStatusCodes"
  /\ result \in DOMAIN Responses
  /\ count' = IF Responses[result].error THEN count
              ELSE Add({"received"} \cup
                       IF Responses[result].class = Expected[round] THEN {"ok"} ELSE {})
  /\ Ends("none")

\* Slip: a refused request leaves its child behind.
AnsweredKeepingChild ==
  /\ child' = (result = "DENIED")
  /\ \/ DnsAnswered
     \/ test \in HttpTests /\ (HttpDenied \/ HttpUnanswered)
     \/ HttpGetAnswered \/ HttpPathAnswered

\* The last operation is over: every way out destroys the child.
Answered ==
  /\ child' = FALSE
  /\ \/ DnsAnswered
     \/ test \in HttpTests /\ (HttpDenied \/ HttpUnanswered)
     \/ HttpGetAnswered \/ HttpPathAnswered

Requested ==
  /\ result = "SENT"
  /\ stage' = "answer"
  /\ UNCHANGED <<round, child, count, verdict>>

\* The test looks at what its operation returned.
React ==
  /\ Consume
  /\ Requested \/ Answered
  /\ UNCHANGED <<test, dhcpVars, answers>>

-----------------------------------------------------------------------------
(* DHCP *)

\* Start.  Another instance may have been faster.
Start ==
  /\ test = "DhcpDiscover"
  /\ stage = "start"
  /\ \/ dhcp' = "selecting" /\ stage' = "poll"
     \/ dhcp' \in {"selecting", "requesting", "bound"} /\ stage' = "judge"
  /\ UNCHANGED <<test, round, child, count, verdict, static, found, obtained, answers, ioVars>>

\* Start times out or fails, and the child is destroyed.
StartFails ==
  /\ test = "DhcpDiscover"
  /\ stage = "start"
  /\ Conclude("WARN") \/ Conclude("FAIL")
  /\ count' = Add({"sent"})
  /\ child' = FALSE
  /\ dhcp' = "stopped"
  /\ UNCHANGED <<test, round, static, found, obtained, answers, ioVars>>

\* The lease is there, or the polls are used up.
LeavePolling ==
  /\ stage = "poll"
  /\ stage' = "judge"
  /\ UNCHANGED <<test, round, child, count, verdict, dhcpVars, answers, ioVars>>

\* Both tests read the state and stop the driver, whoever started it.
JudgeDiscover ==
  /\ test = "DhcpDiscover"
  /\ stage = "judge"
  /\ Conclude(IF dhcp = "bound" THEN "PASS" ELSE "WARN")
  /\ count' = Add({"sent"} \cup IF dhcp = "bound" THEN {"received"} ELSE {})
  /\ found' = dhcp
  /\ obtained' = (dhcp = "bound")
  /\ child' = FALSE
  /\ dhcp' = "stopped"
  /\ UNCHANGED <<test, round, static, answers, ioVars>>

\* A bound lease without time or address is a WARN.
JudgeLease ==
  /\ test = "DhcpLeaseVerify"
  /\ stage = "judge"
  /\ \/ dhcp = "bound" /\ (Conclude("PASS") \/ Conclude("WARN"))
     \/ dhcp = "stopped" /\ Conclude(IF static THEN "PASS" ELSE "WARN")
     \/ dhcp \notin {"bound", "stopped"} /\ Conclude("WARN")
  /\ found' = dhcp
  /\ child' = FALSE
  /\ dhcp' = "stopped"
  /\ UNCHANGED <<test, round, count, static, obtained, answers, ioVars>>

\* The driver obtains, renews and loses the lease.
LeaseChanges ==
  /\ \/ dhcp = "selecting"  /\ dhcp' \in {"requesting", "init"}
     \/ dhcp = "requesting" /\ dhcp' \in {"bound", "init"}
     \/ dhcp = "bound"      /\ dhcp' = "renewing"
     \/ dhcp = "renewing"   /\ dhcp' \in {"bound", "rebinding"}
     \/ dhcp = "rebinding"  /\ dhcp' \in {"bound", "init"}
  /\ UNCHANGED <<ioVars, testVars, static, found, obtained, answers>>

-----------------------------------------------------------------------------

Program ==
  \/ OpenChild \/ OpenFails \/ Evaluate
  \/ Operate \/ Waiting \/ React
  \/ Start \/ StartFails \/ LeavePolling \/ JudgeDiscover \/ JudgeLease

Next == (\E t \in Tests : Begin(t)) \/ Program \/ Driver \/ LeaseChanges

\* The program runs on and its polls are counted; the drivers promise nothing.
Spec == Init /\ [][Next]_vars /\ WF_vars(Program)

-----------------------------------------------------------------------------

Done(t) == stage = "rest" /\ test = t /\ verdict # "none"

Answers(outcomes) == \E p \in 0..2, o \in outcomes : <<p, o>> \in answers

InClass(class) == {o \in DOMAIN Responses : Responses[o].class = class}

Rejected == {o \in DOMAIN Responses : Responses[o].error}

\* The verdict tells what the servers did: a name is resolved, a page served
\* and the status codes are right exactly when the answers that came in time
\* say so, and a FAIL of the HTTP tests means that no usable answer came.  DHCP
\* Discover passes exactly with a lease, and gives it back: right after it DHCP
\* Lease Verify passes on a static address only.  Where a header and the code
\* give different verdicts, the clause is the code's:
\*   HttpGet          every status from 200 to 206 is a PASS (1340-1342), and so
\*                    is a response whose token completed with an error (1330);
\*                    the header keeps PASS for 200, has a WARN for any other
\*                    status and a FAIL for a request that failed (1055-1057).
\*   DhcpLeaseVerify  a stopped driver is a PASS on an interface with a static
\*                    address (607); the header asks for a valid lease in state
\*                    Bound and has a WARN for any other state (499-500).
\* A request that the firmware forbids is a WARN (1205, 1523), which the headers
\* do not name, so that no clause says when the HTTP tests must FAIL.
VerdictHonest ==
  /\ \A t \in DnsTests : Done(t) => (verdict = "PASS" <=> Answers({"ANSWER"}))
  /\ Done("HttpGet") =>
       /\ verdict = "PASS" <=> Answers(InClass("2xx"))
       /\ verdict = "FAIL" => ~Answers(DOMAIN Responses)
  /\ Done("HttpStatusCodes") =>
       /\ verdict = "PASS" <=>
            \A p \in 0..2 : \E o \in InClass(Expected[p]) \ Rejected : <<p, o>> \in answers
       /\ verdict = "FAIL" => ~Answers(DOMAIN Responses \ Rejected)
  /\ Done("DhcpDiscover") => (verdict = "PASS" <=> found = "bound")
  /\ Done("DhcpLeaseVerify") /\ verdict = "PASS" =>
       (found = "bound" /\ ~obtained) \/ (found = "stopped" /\ static)

\* Whatever fails on the way, a test leaves no child handle behind when it
\* returns, and no operation outlives the child it runs on.
ChildrenReturned ==
  /\ stage = "rest" => ~child
  /\ io # "idle" => child

\* Every test returns, whatever the drivers do or omit to do.
TestsEnd == (stage # "rest") ~> (stage = "rest")

=============================================================================
