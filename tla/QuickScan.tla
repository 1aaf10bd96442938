------------------------------- MODULE QuickScan -------------------------------
(***************************************************************************)
(* Source/QuickScan.c: two tests per layer, bottom up, a layer left out    *)
(* when the one directly below it failed, and a diagnosis drawn from the   *)
(* status of the five layers.  QuickScanRun shows its progress and a       *)
(* health score; QuickScanGetDiagnosis does the same without showing them. *)
(*                                                                         *)
(* The network is broken at one layer, or nowhere: the tests of the layers *)
(* below never fail, and those of the others may return anything.          *)
(***************************************************************************)
EXTENDS TestRunner, Naturals, Sequences

VARIABLES
  layer,       \* 1..5 stands for L1, L2, L3, L4 and L7; 6 when all are done, 0
               \* when no scan runs
  pos,         \* the next test of the layer
  tally,       \* Layers[].TestsRun, TestsPassed, ...
  status,      \* Layers[].Status
  progress,    \* RunningTotal
  diagnosis,   \* "none" until it is drawn
  fault,       \* the lowest layer that is broken, 6 if none is
  found        \* history: what the tests found in each layer

scanVars == <<layer, pos, tally, status, progress, diagnosis, fault, found>>
vars == <<runnerVars, scanVars>>

Layers == 1..5

Plan == << <<"NicStatus", "LinkDetect">>,
           <<"MacAddressValid", "ArpRequestReply">>,
           <<"IpConfigCheck", "IcmpEcho">>,
           <<"TcpConnect", "UdpSendReceive">>,
           <<"DnsResolve", "DhcpLeaseVerify">> >>

TotalQuickTests ==
  Len(Plan[1]) + Len(Plan[2]) + Len(Plan[3]) + Len(Plan[4]) + Len(Plan[5])

Untouched == [run |-> 0, passed |-> 0, failed |-> 0, warned |-> 0, skipped |-> 0]
Statuses == {"NotTested", "Pass", "Warn", "Fail"}
Findings == {"good", "bad", "doubtful"}
Diagnoses == {"L1", "L2", "L3 local", "L3 gateway", "L4", "L7",
              "healthy", "warnings", "tests skipped"}

TypeOK ==
  /\ nic \in Nics /\ target \in BOOLEAN
  /\ layer \in 0..6
  /\ pos \in 1..2
  /\ tally \in [Layers -> [DOMAIN Untouched -> 0..2]]
  /\ status \in [Layers -> Statuses]
  /\ progress \in 0..TotalQuickTests
  /\ diagnosis \in Diagnoses \cup {"none"}
  /\ fault \in 1..6
  /\ found \in [Layers -> SUBSET Findings]

Init ==
  /\ nic \in Nics /\ target \in BOOLEAN
  /\ fault \in 1..6
  /\ found = [l \in Layers |-> {}]
  /\ layer = 0 /\ pos = 1
  /\ tally = [l \in Layers |-> Untouched]
  /\ status = [l \in Layers |-> "NotTested"]
  /\ progress = 0
  /\ diagnosis = "none"

\* A scan of the selected NIC; the network is what it is at that time.
Begin ==
  /\ layer = 0
  /\ layer' = 1
  /\ Select
  /\ fault' \in 1..6
  /\ UNCHANGED <<pos, tally, status, progress, diagnosis, found>>

\* Slip: the bar of the next scan starts where this one ended.
ReturnKeepingProgress ==
  /\ diagnosis # "none"
  /\ layer' = 0
  /\ tally' = [l \in Layers |-> Untouched]
  /\ status' = [l \in Layers |-> "NotTested"]
  /\ diagnosis' = "none"
  /\ found' = [l \in Layers |-> {}]
  /\ UNCHANGED <<runnerVars, pos, progress, fault>>

\* The result of a scan is a local variable: the next one starts from zero.
Return ==
  /\ diagnosis # "none"
  /\ layer' = 0
  /\ tally' = [l \in Layers |-> Untouched]
  /\ status' = [l \in Layers |-> "NotTested"]
  /\ progress' = 0
  /\ diagnosis' = "none"
  /\ found' = [l \in Layers |-> {}]
  /\ UNCHANGED <<runnerVars, pos, fault>>

-----------------------------------------------------------------------------
(* The layers *)

Counted(tl, code) ==
  LET kind == CASE code = "PASS" -> "passed"
                [] code \in {"FAIL", "ERROR"} -> "failed"
                [] code = "WARN" -> "warned"
                [] OTHER -> "skipped"
  IN [tl EXCEPT !.run = @ + 1, ![kind] = @ + 1]

\* Slip: a layer in which nothing failed passes.
QuickDetermineLayerStatusLenient(tl) ==
  CASE tl.failed > 0 -> "Fail"
    [] tl.warned > 0 /\ tl.failed = 0 -> "Warn"
    [] OTHER -> "Pass"

QuickDetermineLayerStatus(tl) ==
  CASE tl.run > 0 /\ tl.failed > 0 -> "Fail"
    [] tl.run > 0 /\ tl.failed = 0 /\ tl.warned > 0 -> "Warn"
    [] tl.run > 0 /\ tl.failed + tl.warned = 0 /\ tl.passed > 0 -> "Pass"
    [] OTHER -> "NotTested"

\* Layers 2 to 4 depend on the layer directly below; the application layer is
\* always tried.
LeftOut(l) == l \in 2..4 /\ status[l - 1] = "Fail"

\* What test t found, whatever becomes of it on the way to the diagnosis.
Finding(t, code, error) ==
  IF Skipped(t) THEN {}
  ELSE CASE code = "SKIP" -> {}
         [] code \in {"FAIL", "ERROR"} \/ (code = "PASS" /\ error) -> {"bad"}
         [] code = "PASS" /\ ~error -> {"good"}
         [] code = "WARN" -> {"doubtful"}

\* What a test may make of the network.
Observable(l, code, error) == l < fault => code \notin {"FAIL", "ERROR"} /\ ~error

QuickRunTest(code, error) ==
  LET test  == Plan[layer][pos]
      tallied == Counted(tally[layer], RunSingleTest(test, code, error))
      last == pos = Len(Plan[layer])
  IN
  /\ layer \in Layers
  /\ ~LeftOut(layer)
  /\ Observable(layer, code, error)
  /\ tally' = [tally EXCEPT ![layer] = tallied]
  /\ found' = [found EXCEPT ![layer] = @ \cup Finding(test, code, error)]
  /\ progress' = progress + 1
  /\ pos' = IF last THEN 1 ELSE pos + 1
  /\ layer' = IF last THEN layer + 1 ELSE layer
  /\ status' = IF last THEN [status EXCEPT ![layer] = QuickDetermineLayerStatus(tallied)]
                       ELSE status
  /\ UNCHANGED <<runnerVars, diagnosis, fault>>

QuickSkipLayer ==
  LET tallied == [Untouched EXCEPT !.skipped = Len(Plan[layer])]
  IN
  /\ layer \in Layers
  /\ LeftOut(layer)
  /\ tally' = [tally EXCEPT ![layer] = tallied]
  /\ status' = [status EXCEPT ![layer] = QuickDetermineLayerStatus(tallied)]
  /\ progress' = progress + Len(Plan[layer])
  /\ layer' = layer + 1
  /\ UNCHANGED <<runnerVars, pos, diagnosis, fault, found>>

-----------------------------------------------------------------------------
(* Totals and diagnosis *)

Sum(field) ==
  tally[1][field] + tally[2][field] + tally[3][field] + tally[4][field] + tally[5][field]

\* Slip: TestsRun is taken for the number of tests.
TotalTestsRunOnly == Sum("run")

\* A test that was run and skipped itself is in both terms.
TotalTests == Sum("run") + Sum("skipped")

Fails(l) == status[l] = "Fail"

QuickApplyDiagnosis ==
  LET lowest == CHOOSE l \in Layers : Fails(l) /\ \A k \in 1..l - 1 : ~Fails(k)
  IN
  IF \E l \in Layers : Fails(l) THEN
    CASE lowest = 1 -> "L1"
      [] lowest = 2 -> "L2"
      [] lowest = 3 -> IF tally[3].passed = 0 THEN "L3 local" ELSE "L3 gateway"
      [] lowest = 4 -> "L4"
      [] lowest = 5 -> "L7"
  ELSE
    CASE \A l \in Layers : status[l] = "Pass" -> "healthy"
      [] \E l \in Layers : status[l] = "Warn" -> "warnings"
      [] OTHER -> "tests skipped"

Diagnose ==
  /\ layer = 6
  /\ diagnosis = "none"
  /\ diagnosis' = QuickApplyDiagnosis
  /\ UNCHANGED <<runnerVars, layer, pos, tally, status, progress, fault, found>>

\* What QuickDisplayResults draws as health score.
PassPercent ==
  LET judged == TotalTests - Sum("skipped")
  IN (Sum("passed") * 100) \div (IF judged > 0 THEN judged ELSE 1)

Scan ==
  \/ \E code \in Codes, error \in BOOLEAN : QuickRunTest(code, error)
  \/ QuickSkipLayer
  \/ Diagnose

Next == Begin \/ Scan \/ Return

Spec == Init /\ [][Next]_vars

-----------------------------------------------------------------------------

\* The layer a diagnosis tells the user to look at.
Blamed ==
  CASE diagnosis = "L1" -> 1
    [] diagnosis = "L2" -> 2
    [] diagnosis \in {"L3 local", "L3 gateway"} -> 3
    [] diagnosis = "L4" -> 4
    [] diagnosis = "L7" -> 5
    [] OTHER -> 6

\* The diagnosis sends nobody to a layer that works, and names the broken one
\* as soon as one of its tests has found it broken, whatever is made of the
\* layers above, which are tested also over a layer that was left out.
BlamesTheFault ==
  diagnosis # "none" =>
    /\ Blamed >= fault
    /\ fault \in Layers /\ "bad" \in found[fault] => Blamed = fault

\* All layers are called healthy exactly if the tests found something good and
\* nothing else in each: not if a layer's tests were skipped for want of a
\* protocol or a target, and not if one returned an error without a verdict.
HealthyMeansTested ==
  diagnosis # "none" =>
    (diagnosis = "healthy" <=> \A l \in Layers : found[l] = {"good"})

\* The bar never passes 100 percent, is full when the scan ends, and the health
\* score stays a percentage although skipped tests enter the total twice or,
\* in a layer left out, were never run.
BarsInRange ==
  /\ progress <= TotalQuickTests
  /\ layer = 6 => progress = TotalQuickTests
  /\ layer = 6 => TotalTests >= Sum("skipped") /\ PassPercent \in 0..100

=============================================================================
