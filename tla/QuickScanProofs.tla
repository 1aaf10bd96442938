---------------------------- MODULE QuickScanProofs ----------------------------
(***************************************************************************)
(* Proofs about the quick scan, for every set of protocol stacks a NIC may *)
(* come with, every place where the network may be broken and every        *)
(* outcome of the tests.                                                   *)
(***************************************************************************)
EXTENDS QuickScan, TLAPS

-----------------------------------------------------------------------------
(* Counting *)

Tally == [run : 0..2, passed : 0..2, failed : 0..2, warned : 0..2, skipped : 0..2]

LEMMA TallyIs == [DOMAIN Untouched -> 0..2] = Tally
  BY DEF Untouched, Tally

LEMMA UntouchedIs ==
  /\ Untouched \in Tally
  /\ Untouched.run = 0 /\ Untouched.passed = 0 /\ Untouched.failed = 0
  /\ Untouched.warned = 0 /\ Untouched.skipped = 0
  BY DEF Untouched, Tally

\* Every layer has two tests.
LEMMA TwoTests ==
  /\ \A l \in Layers : Len(Plan[l]) = 2
  /\ TotalQuickTests = 10
  BY DEF Layers, Plan, TotalQuickTests

LEMMA CountedIs ==
  ASSUME NEW tl \in Tally, NEW code \in Codes
  PROVE  LET c == Counted(tl, code) IN
         /\ c \in [DOMAIN Untouched -> Nat]
         /\ c.run = tl.run + 1
         /\ c.passed = tl.passed + (IF code = "PASS" THEN 1 ELSE 0)
         /\ c.failed = tl.failed + (IF code \in {"FAIL", "ERROR"} THEN 1 ELSE 0)
         /\ c.warned = tl.warned + (IF code = "WARN" THEN 1 ELSE 0)
         /\ c.skipped = tl.skipped + (IF code = "SKIP" THEN 1 ELSE 0)
<1> DEFINE c == Counted(tl, code)
<1>0. /\ c.run = tl.run + 1
      /\ c.passed = tl.passed + (IF code = "PASS" THEN 1 ELSE 0)
      /\ c.failed = tl.failed + (IF code \in {"FAIL", "ERROR"} THEN 1 ELSE 0)
      /\ c.warned = tl.warned + (IF code = "WARN" THEN 1 ELSE 0)
      /\ c.skipped = tl.skipped + (IF code = "SKIP" THEN 1 ELSE 0)
  <2>1. CASE code = "PASS"
    BY <2>1 DEF Counted, Tally, Untouched
  <2>2. CASE code \in {"FAIL", "ERROR"}
    BY <2>2 DEF Counted, Tally, Untouched
  <2>3. CASE code = "WARN"
    BY <2>3 DEF Counted, Tally, Untouched
  <2>4. CASE code = "SKIP"
    BY <2>4 DEF Counted, Tally, Untouched
  <2> QED
    BY <2>1, <2>2, <2>3, <2>4 DEF Codes
<1>1. tl \in [DOMAIN Untouched -> Nat]
  BY TallyIs
<1>2. PICK k \in DOMAIN Untouched : c = [tl EXCEPT !.run = @ + 1, ![k] = @ + 1]
  BY DEF Counted, Untouched
<1>3. c \in [DOMAIN Untouched -> Nat]
  BY <1>1, <1>2 DEF Untouched
<1> QED
  BY <1>0, <1>3

\* A record of counters is known by its five fields.
LEMMA TallyOf ==
  ASSUME NEW c \in [DOMAIN Untouched -> Nat],
         c.run \in 0..2, c.passed \in 0..2, c.failed \in 0..2, c.warned \in 0..2,
         c.skipped \in 0..2
  PROVE  c \in Tally
<1>1. \A k \in DOMAIN Untouched : c[k] \in 0..2
  BY DEF Untouched
<1> QED
  BY <1>1, TallyIs

-----------------------------------------------------------------------------
(* The inductive invariant *)

\* What the tests of a layer found is what was tallied, and nothing failed below
\* the layer that is broken.
Agrees(l) ==
  /\ "bad" \in found[l] <=> tally[l].failed > 0
  /\ "good" \in found[l] <=> tally[l].passed > 0
  /\ "doubtful" \in found[l] <=> tally[l].warned > 0
  /\ l < fault => tally[l].failed = 0

\* Every test of the layer that was run has one outcome.
OneOutcomeEach(l) ==
  tally[l].run = tally[l].passed + tally[l].failed + tally[l].warned + tally[l].skipped

\* A layer that is done was tested or left out, and has its status.
Done(l) ==
  /\ \/ tally[l].run = 2 /\ OneOutcomeEach(l)
     \/ tally[l] = [Untouched EXCEPT !.skipped = 2] /\ found[l] = {}
  /\ status[l] = QuickDetermineLayerStatus(tally[l])

\* The layer at hand has run the tests before pos.
Running(l) == tally[l].run = pos - 1 /\ OneOutcomeEach(l) /\ status[l] = "NotTested"

Waiting(l) == tally[l] = Untouched /\ found[l] = {} /\ status[l] = "NotTested"

LayerOK(l) ==
  /\ Agrees(l)
  /\ l < layer => Done(l)
  /\ l = layer => Running(l)
  /\ l > layer => Waiting(l)

ScanInv ==
  /\ TypeOK
  /\ \A l \in Layers : LayerOK(l)
  /\ layer \in {0, 6} => pos = 1
  /\ pos = 2 => ~LeftOut(layer)
  /\ progress = IF layer = 0 THEN 0 ELSE 2 * (layer - 1) + pos - 1
  /\ diagnosis # "none" => layer = 6 /\ diagnosis = QuickApplyDiagnosis

-----------------------------------------------------------------------------
(* One test *)

LEMMA VerdictIs ==
  ASSUME NEW t, NEW code \in Codes, NEW error \in BOOLEAN
  PROVE  LET v == RunSingleTest(t, code, error)
             f == Finding(t, code, error)
         IN /\ v \in Codes
            /\ f \subseteq Findings
            /\ "bad" \in f <=> v \in {"FAIL", "ERROR"}
            /\ "good" \in f <=> v = "PASS"
            /\ "doubtful" \in f <=> v = "WARN"
            /\ code \notin {"FAIL", "ERROR"} /\ ~error => v \notin {"FAIL", "ERROR"}
<1>1. CASE Skipped(t)
  BY <1>1 DEF RunSingleTest, Finding, Codes
<1>2. CASE ~Skipped(t)
  <2>1. CASE code = "PASS" /\ error
    BY <1>2, <2>1 DEF RunSingleTest, Finding, Codes, Findings
  <2>2. CASE code = "PASS" /\ ~error
    BY <1>2, <2>2 DEF RunSingleTest, Finding, Codes, Findings
  <2>3. CASE code \in {"FAIL", "ERROR"}
    BY <1>2, <2>3 DEF RunSingleTest, Finding, Codes, Findings
  <2>4. CASE code = "WARN"
    BY <1>2, <2>4 DEF RunSingleTest, Finding, Codes, Findings
  <2>5. CASE code = "SKIP"
    BY <1>2, <2>5 DEF RunSingleTest, Finding, Codes
  <2> QED
    BY <2>1, <2>2, <2>3, <2>4, <2>5 DEF Codes
<1> QED
  BY <1>1, <1>2

LEMMA StatusType == \A tl : QuickDetermineLayerStatus(tl) \in Statuses
  BY DEF QuickDetermineLayerStatus, Statuses

LEMMA LowestExists ==
  ASSUME \E l \in Layers : Fails(l)
  PROVE  \E l \in Layers : Fails(l) /\ \A k \in 1..l - 1 : ~Fails(k)
<1>1. Fails(1) \/ Fails(2) \/ Fails(3) \/ Fails(4) \/ Fails(5)
  BY DEF Layers
<1>2. CASE Fails(1)
  BY <1>2 DEF Layers
<1>3. CASE ~Fails(1) /\ Fails(2)
  BY <1>3 DEF Layers
<1>4. CASE ~Fails(1) /\ ~Fails(2) /\ Fails(3)
  BY <1>4 DEF Layers
<1>5. CASE ~Fails(1) /\ ~Fails(2) /\ ~Fails(3) /\ Fails(4)
  BY <1>5 DEF Layers
<1>6. CASE ~Fails(1) /\ ~Fails(2) /\ ~Fails(3) /\ ~Fails(4) /\ Fails(5)
  BY <1>6 DEF Layers
<1> QED
  BY <1>1, <1>2, <1>3, <1>4, <1>5, <1>6

LEMMA DiagnosisType == QuickApplyDiagnosis \in Diagnoses
<1>1. CASE \E l \in Layers : Fails(l)
  <2> DEFINE first(l) == Fails(l) /\ \A k \in 1..l - 1 : ~Fails(k)
  <2>1. \E l \in Layers : first(l)
    BY <1>1, LowestExists
  <2>2. (CHOOSE l \in Layers : first(l)) \in Layers
    BY <2>1
  <2>3. (CHOOSE l \in Layers : first(l)) \in {1, 2, 3, 4, 5}
    BY <2>2 DEF Layers
  <2> HIDE DEF first
  <2> QED
    BY <1>1, <2>3 DEF QuickApplyDiagnosis, Diagnoses, first
<1>2. CASE ~\E l \in Layers : Fails(l)
  BY <1>2 DEF QuickApplyDiagnosis, Diagnoses
<1> QED
  BY <1>1, <1>2

-----------------------------------------------------------------------------
(* The invariant is kept *)

\* What LayerOK says of a layer depends only on its own record, on where the
\* scan stands and on the fault.
LEMMA LayerFrame ==
  ASSUME NEW l \in Layers, LayerOK(l), layer \in 0..6,
         tally'[l] = tally[l], found'[l] = found[l], status'[l] = status[l],
         fault' = fault,
         l < layer <=> l < layer', l > layer <=> l > layer',
         l = layer => pos' = pos
  PROVE  LayerOK(l)'
  BY DEF LayerOK, Agrees, Done, Running, Waiting, OneOutcomeEach, Layers

LEMMA TestStep ==
  ASSUME ScanInv, NEW code \in Codes, NEW error \in BOOLEAN, QuickRunTest(code, error)
  PROVE  ScanInv'
<1> DEFINE v == RunSingleTest(Plan[layer][pos], code, error)
           f == Finding(Plan[layer][pos], code, error)
           c == Counted(tally[layer], v)
<1>1. /\ layer \in Layers /\ pos \in 1..2 /\ tally[layer] \in Tally
      /\ found[layer] \in SUBSET Findings
      /\ Len(Plan[layer]) = 2
  BY TallyIs, TwoTests DEF ScanInv, TypeOK, QuickRunTest
<1>2. /\ v \in Codes /\ f \subseteq Findings
      /\ "bad" \in f <=> v \in {"FAIL", "ERROR"}
      /\ "good" \in f <=> v = "PASS"
      /\ "doubtful" \in f <=> v = "WARN"
      /\ layer < fault => v \notin {"FAIL", "ERROR"}
  BY VerdictIs DEF QuickRunTest, Observable
<1>3. /\ c \in [DOMAIN Untouched -> Nat]
      /\ c.run = tally[layer].run + 1
      /\ c.passed = tally[layer].passed + (IF v = "PASS" THEN 1 ELSE 0)
      /\ c.failed = tally[layer].failed + (IF v \in {"FAIL", "ERROR"} THEN 1 ELSE 0)
      /\ c.warned = tally[layer].warned + (IF v = "WARN" THEN 1 ELSE 0)
      /\ c.skipped = tally[layer].skipped + (IF v = "SKIP" THEN 1 ELSE 0)
  <2> HIDE DEF v
  <2> QED
    BY <1>1, <1>2, CountedIs
<1>4. /\ tally' = [tally EXCEPT ![layer] = c]
      /\ found' = [found EXCEPT ![layer] = @ \cup f]
      /\ progress' = progress + 1
      /\ pos' = IF pos = 2 THEN 1 ELSE pos + 1
      /\ layer' = IF pos = 2 THEN layer + 1 ELSE layer
      /\ status' = IF pos = 2 THEN [status EXCEPT ![layer] = QuickDetermineLayerStatus(c)]
                              ELSE status
      /\ UNCHANGED <<nic, target, diagnosis, fault>>
      /\ ~LeftOut(layer)
  BY <1>1 DEF QuickRunTest, runnerVars
<1> HIDE DEF v, f, c
<1>5. tally'[layer] = c /\ found'[layer] = found[layer] \cup f
  BY <1>1, <1>4 DEF ScanInv, TypeOK
<1>6. /\ OneOutcomeEach(layer)
      /\ tally[layer].run = pos - 1
      /\ Agrees(layer)
  BY <1>1 DEF ScanInv, LayerOK, Running
<1>7. /\ c \in Tally
      /\ c.run = pos
      /\ c.run = c.passed + c.failed + c.warned + c.skipped
  <2>1. /\ tally[layer].run \in 0..1
        /\ tally[layer].passed \in 0..1 /\ tally[layer].failed \in 0..1
        /\ tally[layer].warned \in 0..1 /\ tally[layer].skipped \in 0..1
    BY <1>1, <1>6 DEF OneOutcomeEach, Tally
  <2>2. /\ c.run = pos
        /\ c.run = c.passed + c.failed + c.warned + c.skipped
    BY <1>1, <1>2, <1>3, <1>6, <2>1 DEF OneOutcomeEach, Codes
  <2>3. c \in Tally
    BY <1>3, <2>1, TallyOf
  <2> QED
    BY <2>2, <2>3
<1>8. ASSUME NEW l \in Layers, l = layer
      PROVE  Agrees(l)'
  <2>1. \A k : k \in (found[layer] \cup f) <=> k \in found[layer] \/ k \in f
    OBVIOUS
  <2>2. /\ c.failed > 0 <=> tally[layer].failed > 0 \/ v \in {"FAIL", "ERROR"}
        /\ c.passed > 0 <=> tally[layer].passed > 0 \/ v = "PASS"
        /\ c.warned > 0 <=> tally[layer].warned > 0 \/ v = "WARN"
        /\ v \notin {"FAIL", "ERROR"} => c.failed = tally[layer].failed
    BY <1>1, <1>3 DEF Tally
  <2> QED
    BY <1>2, <1>4, <1>5, <1>6, <1>8, <2>1, <2>2 DEF Agrees
<1>9. TypeOK'
  <2>1. tally' \in [Layers -> [DOMAIN Untouched -> 0..2]]
    BY <1>4, <1>7, TallyIs DEF ScanInv, TypeOK
  <2>2. status' \in [Layers -> Statuses]
    BY <1>4, StatusType DEF ScanInv, TypeOK
  <2>3. found' \in [Layers -> SUBSET Findings]
    BY <1>1, <1>2, <1>4 DEF ScanInv, TypeOK
  <2>4. pos' \in 1..2 /\ layer' \in 0..6 /\ progress' \in 0..TotalQuickTests
    BY <1>1, <1>4, TwoTests DEF ScanInv, Layers
  <2> QED
    BY <1>4, <2>1, <2>2, <2>3, <2>4 DEF ScanInv, TypeOK
<1>10. \A l \in Layers : LayerOK(l)'
  <2> SUFFICES ASSUME NEW l \in Layers PROVE LayerOK(l)'
    OBVIOUS
  <2>1. CASE l = layer /\ pos = 1
    <3>1. status'[l] = "NotTested" /\ pos' = 2 /\ layer' = layer
      BY <1>1, <1>4, <2>1 DEF ScanInv, LayerOK, Running
    <3>2. Running(l)'
      <4>1. tally'[l] = c
        BY <1>5, <2>1
      <4>2. OneOutcomeEach(l)'
        BY <1>7, <4>1 DEF OneOutcomeEach
      <4>3. tally'[l].run = 1
        BY <1>7, <2>1, <4>1
      <4>4. pos' - 1 = 1
        BY <3>1
      <4> QED
        BY <3>1, <4>2, <4>3, <4>4 DEF Running
    <3> QED
      BY <1>1, <1>8, <2>1, <3>1, <3>2 DEF LayerOK, Layers
  <2>2. CASE l = layer /\ pos = 2
    <3>1. status'[l] = QuickDetermineLayerStatus(c) /\ layer' = layer + 1
      BY <1>1, <1>4, <2>2 DEF ScanInv, TypeOK
    <3>2. Done(l)'
      BY <1>5, <1>7, <2>2, <3>1 DEF Done, OneOutcomeEach, QuickDetermineLayerStatus
    <3> QED
      BY <1>1, <1>8, <2>2, <3>1, <3>2 DEF LayerOK, Layers
  <2>3. CASE l # layer /\ ~(l = layer + 1 /\ pos = 2)
    <3>1. /\ tally'[l] = tally[l] /\ found'[l] = found[l] /\ status'[l] = status[l]
          /\ layer \in 0..6 /\ fault' = fault
      BY <1>4, <2>3 DEF ScanInv, TypeOK
    <3>2. /\ l < layer <=> l < layer'
          /\ l > layer <=> l > layer'
      BY <1>1, <1>4, <2>3 DEF Layers
    <3> QED
      BY <2>3, <3>1, <3>2, LayerFrame DEF ScanInv
  <2>4. CASE l = layer + 1 /\ pos = 2
    <3>1. /\ tally'[l] = tally[l] /\ found'[l] = found[l] /\ status'[l] = status[l]
          /\ layer' = l /\ pos' = 1 /\ fault' = fault
      BY <1>1, <1>4, <2>4 DEF ScanInv, TypeOK, Layers
    <3>2. Waiting(l) /\ Agrees(l)
      BY <1>1, <2>4 DEF ScanInv, LayerOK, Layers
    <3>3. Running(l)'
      <4>1. tally'[l] = Untouched /\ status'[l] = "NotTested"
        BY <3>1, <3>2 DEF Waiting
      <4>2. OneOutcomeEach(l)'
        BY <4>1, UntouchedIs DEF OneOutcomeEach
      <4>3. tally'[l].run = pos' - 1
        BY <3>1, <4>1, UntouchedIs
      <4> QED
        BY <4>1, <4>2, <4>3 DEF Running
    <3>4. Agrees(l)'
      BY <3>1, <3>2 DEF Agrees
    <3> QED
      BY <3>1, <3>3, <3>4 DEF LayerOK, Layers
  <2> QED
    BY <1>1, <2>1, <2>2, <2>3, <2>4
<1>11. pos' = 2 => ~LeftOut(layer)'
  BY <1>1, <1>4 DEF LeftOut
<1>12. /\ layer' \in {0, 6} => pos' = 1
       /\ progress' = IF layer' = 0 THEN 0 ELSE 2 * (layer' - 1) + pos' - 1
       /\ diagnosis' = "none"
  BY <1>1, <1>4 DEF ScanInv, Layers
<1> QED
  BY <1>9, <1>10, <1>11, <1>12 DEF ScanInv

\* A layer that is left out has not begun: only what is directly below it, and is
\* done, could have it left out.
LEMMA SkipStep ==
  ASSUME ScanInv, QuickSkipLayer
  PROVE  ScanInv'
<1> DEFINE c == [Untouched EXCEPT !.skipped = 2]
<1>1. /\ layer \in Layers /\ pos = 1 /\ Len(Plan[layer]) = 2
      /\ tally[layer].run = 0 /\ OneOutcomeEach(layer) /\ Agrees(layer)
      /\ tally[layer] \in Tally /\ found[layer] \in SUBSET Findings
  <2>1. layer \in Layers /\ pos = 1 /\ Len(Plan[layer]) = 2
    BY TwoTests DEF ScanInv, TypeOK, QuickSkipLayer
  <2>2. tally[layer] \in Tally /\ found[layer] \in SUBSET Findings
    BY <2>1, TallyIs DEF ScanInv, TypeOK
  <2>3. Running(layer) /\ Agrees(layer)
    BY <2>1 DEF ScanInv, LayerOK
  <2> QED
    BY <2>1, <2>2, <2>3 DEF Running
<1>2. /\ tally' = [tally EXCEPT ![layer] = c]
      /\ status' = [status EXCEPT ![layer] = QuickDetermineLayerStatus(c)]
      /\ progress' = progress + 2
      /\ layer' = layer + 1
      /\ UNCHANGED <<nic, target, pos, diagnosis, fault, found>>
  BY <1>1 DEF QuickSkipLayer, runnerVars
<1>3. /\ c \in [DOMAIN Untouched -> Nat]
      /\ c.run = 0 /\ c.passed = 0 /\ c.failed = 0 /\ c.warned = 0 /\ c.skipped = 2
  <2>1. Untouched \in [DOMAIN Untouched -> Nat]
    BY UntouchedIs, TallyIs
  <2> QED
    BY <2>1 DEF Untouched
<1> HIDE DEF c
<1>4. c \in Tally
  BY <1>3, TallyOf
<1>5. found[layer] = {}
  <2>1. tally[layer].passed = 0 /\ tally[layer].failed = 0 /\ tally[layer].warned = 0
    BY <1>1 DEF OneOutcomeEach, Tally
  <2>2. \A k \in Findings : k \notin found[layer]
    BY <1>1, <2>1 DEF Agrees, Findings
  <2> QED
    BY <1>1, <2>2
<1>6. TypeOK'
  <2>1. tally' \in [Layers -> [DOMAIN Untouched -> 0..2]]
    BY <1>2, <1>4, TallyIs DEF ScanInv, TypeOK
  <2>2. status' \in [Layers -> Statuses]
    BY <1>2, StatusType DEF ScanInv, TypeOK
  <2>3. layer' \in 0..6 /\ progress' \in 0..TotalQuickTests
    BY <1>1, <1>2, TwoTests DEF ScanInv, Layers
  <2> QED
    BY <1>2, <2>1, <2>2, <2>3 DEF ScanInv, TypeOK
<1>7. \A l \in Layers : LayerOK(l)'
  <2> SUFFICES ASSUME NEW l \in Layers PROVE LayerOK(l)'
    OBVIOUS
  <2>1. CASE l = layer
    <3>1. /\ tally'[l] = c /\ status'[l] = QuickDetermineLayerStatus(c)
          /\ found'[l] = {} /\ layer' = l + 1
      BY <1>1, <1>2, <1>5, <2>1 DEF ScanInv, TypeOK
    <3>2. Done(l)'
      BY <3>1 DEF Done, c, QuickDetermineLayerStatus
    <3>3. Agrees(l)'
      BY <1>3, <3>1 DEF Agrees
    <3> QED
      BY <3>1, <3>2, <3>3 DEF LayerOK, Layers
  <2>2. CASE l = layer + 1
    <3>1. /\ tally'[l] = tally[l] /\ found'[l] = found[l] /\ status'[l] = status[l]
          /\ layer' = l /\ pos' = 1 /\ fault' = fault
      BY <1>1, <1>2, <2>2 DEF ScanInv, TypeOK, Layers
    <3>2. Waiting(l) /\ Agrees(l)
      BY <1>1, <2>2 DEF ScanInv, LayerOK, Layers
    <3>3. Running(l)'
      <4>1. tally'[l] = Untouched /\ status'[l] = "NotTested"
        BY <3>1, <3>2 DEF Waiting
      <4>2. OneOutcomeEach(l)'
        BY <4>1, UntouchedIs DEF OneOutcomeEach
      <4>3. tally'[l].run = pos' - 1
        BY <3>1, <4>1, UntouchedIs
      <4> QED
        BY <4>1, <4>2, <4>3 DEF Running
    <3>4. Agrees(l)'
      BY <3>1, <3>2 DEF Agrees
    <3> QED
      BY <3>1, <3>3, <3>4 DEF LayerOK, Layers
  <2>3. CASE l # layer /\ l # layer + 1
    <3>1. /\ tally'[l] = tally[l] /\ found'[l] = found[l] /\ status'[l] = status[l]
          /\ layer \in 0..6 /\ fault' = fault
      BY <1>2, <2>3 DEF ScanInv, TypeOK
    <3>2. /\ l < layer <=> l < layer'
          /\ l > layer <=> l > layer'
      BY <1>1, <1>2, <2>3 DEF Layers
    <3> QED
      BY <2>3, <3>1, <3>2, LayerFrame DEF ScanInv
  <2> QED
    BY <2>1, <2>2, <2>3
<1>8. /\ pos' = 1
      /\ progress' = IF layer' = 0 THEN 0 ELSE 2 * (layer' - 1) + pos' - 1
      /\ diagnosis' = "none"
  BY <1>1, <1>2 DEF ScanInv, Layers
<1> QED
  BY <1>6, <1>7, <1>8 DEF ScanInv

\* Nothing of the scan is touched while no scan runs, and its records are those of
\* a scan that has not begun.
LEMMA WaitingOK ==
  ASSUME NEW l \in Layers, Waiting(l)', layer' \in {0, 1}, pos' = 1
  PROVE  LayerOK(l)'
<1>1. tally'[l] = Untouched /\ found'[l] = {} /\ status'[l] = "NotTested"
  BY DEF Waiting
<1>2. OneOutcomeEach(l)'
  BY <1>1, UntouchedIs DEF OneOutcomeEach
<1>3. Agrees(l)'
  BY <1>1, UntouchedIs DEF Agrees
<1>4. Running(l)'
  <2>1. tally'[l].run = pos' - 1
    BY <1>1, UntouchedIs
  <2> QED
    BY <1>1, <1>2, <2>1 DEF Running
<1> QED
  BY <1>3, <1>4 DEF LayerOK, Layers

LEMMA BeginStep ==
  ASSUME ScanInv, Begin
  PROVE  ScanInv'
<1>1. /\ layer = 0 /\ layer' = 1 /\ pos' = 1 /\ progress' = 0 /\ diagnosis' = "none"
      /\ UNCHANGED <<tally, status, found>>
  BY DEF ScanInv, Begin
<1>2. \A l \in Layers : Waiting(l)'
  BY <1>1 DEF ScanInv, LayerOK, Waiting, Layers
<1>3. \A l \in Layers : LayerOK(l)'
  BY <1>1, <1>2, WaitingOK
<1>4. TypeOK'
  BY <1>1 DEF ScanInv, TypeOK, Begin, Select
<1> QED
  BY <1>1, <1>3, <1>4 DEF ScanInv

LEMMA ReturnStep ==
  ASSUME ScanInv, Return
  PROVE  ScanInv'
<1>1. layer' = 0 /\ pos' = 1 /\ progress' = 0 /\ diagnosis' = "none"
  BY DEF ScanInv, Return
<1>2. \A l \in Layers : Waiting(l)'
  BY DEF Return, Waiting
<1>3. \A l \in Layers : LayerOK(l)'
  BY <1>1, <1>2, WaitingOK
<1>4. TypeOK'
  <2>1. tally' \in [Layers -> [DOMAIN Untouched -> 0..2]]
    BY TallyIs, UntouchedIs DEF Return
  <2>2. status' \in [Layers -> Statuses] /\ found' \in [Layers -> SUBSET Findings]
    BY DEF Return, Statuses
  <2> QED
    BY <1>1, <2>1, <2>2, TwoTests DEF ScanInv, TypeOK, Return, runnerVars
<1> QED
  BY <1>1, <1>3, <1>4 DEF ScanInv

LEMMA DiagnoseStep ==
  ASSUME ScanInv, Diagnose
  PROVE  ScanInv'
<1>1. UNCHANGED <<nic, target, layer, pos, tally, status, progress, fault, found>>
  BY DEF Diagnose, runnerVars
<1>2. \A l \in Layers : LayerOK(l)'
  BY <1>1, LayerFrame DEF ScanInv, TypeOK
<1>3. QuickApplyDiagnosis' = QuickApplyDiagnosis
  BY <1>1 DEF QuickApplyDiagnosis, Fails
<1>4. diagnosis' = QuickApplyDiagnosis /\ layer = 6
  BY DEF Diagnose
<1>5. TypeOK'
  BY <1>1, <1>4, DiagnosisType DEF ScanInv, TypeOK
<1> QED
  BY <1>1, <1>2, <1>3, <1>4, <1>5 DEF ScanInv, LeftOut

LEMMA ScanInit == Init => ScanInv
<1> SUFFICES ASSUME Init PROVE ScanInv
  OBVIOUS
<1>1. /\ layer = 0 /\ pos = 1 /\ progress = 0 /\ diagnosis = "none"
      /\ \A l \in Layers : tally[l] = Untouched /\ found[l] = {} /\ status[l] = "NotTested"
  BY DEF Init
<1>2. TypeOK
  <2>1. tally \in [Layers -> [DOMAIN Untouched -> 0..2]]
    BY TallyIs, UntouchedIs DEF Init
  <2>2. status \in [Layers -> Statuses] /\ found \in [Layers -> SUBSET Findings]
    BY DEF Init, Statuses
  <2> QED
    BY <1>1, <2>1, <2>2, TwoTests DEF TypeOK, Init
<1>3. \A l \in Layers : LayerOK(l)
  BY <1>1, UntouchedIs DEF LayerOK, Waiting, Agrees, Layers
<1> QED
  BY <1>1, <1>2, <1>3 DEF ScanInv

LEMMA ScanStep == ScanInv /\ [Next]_vars => ScanInv'
<1> SUFFICES ASSUME ScanInv, [Next]_vars PROVE ScanInv'
  OBVIOUS
<1>1. CASE UNCHANGED vars
  <2>1. UNCHANGED <<nic, target, layer, pos, tally, status, progress, diagnosis, fault, found>>
    BY <1>1 DEF vars, runnerVars, scanVars
  <2>2. \A l \in Layers : LayerOK(l)'
    BY <2>1, LayerFrame DEF ScanInv, TypeOK
  <2>3. QuickApplyDiagnosis' = QuickApplyDiagnosis
    BY <2>1 DEF QuickApplyDiagnosis, Fails
  <2>4. TypeOK'
    BY <2>1 DEF ScanInv, TypeOK
  <2> QED
    BY <2>1, <2>2, <2>3, <2>4 DEF ScanInv, LeftOut
<1> QED
  BY <1>1, TestStep, SkipStep, DiagnoseStep, BeginStep, ReturnStep DEF Next, Scan

\* Type correctness of the quick scan: no counter passes the two tests of its
\* layer, and the bar stays within its ten tests.
THEOREM ScanTyped == Spec => []TypeOK
<1>1. ScanInv => TypeOK
  BY DEF ScanInv
<1> QED
  BY <1>1, ScanInit, ScanStep, PTL DEF Spec

-----------------------------------------------------------------------------
(* What the diagnosis says *)

\* The status of a layer that is done says what its tests found.
LEMMA DoneIs ==
  ASSUME ScanInv, layer = 6, NEW l \in Layers
  PROVE  /\ Fails(l) <=> "bad" \in found[l]
         /\ status[l] = "Pass" <=> found[l] = {"good"}
         /\ l < fault => ~Fails(l)
<1>1. /\ Done(l) /\ Agrees(l)
      /\ tally[l] \in Tally /\ found[l] \in SUBSET Findings
  BY TallyIs DEF ScanInv, TypeOK, LayerOK, Layers
<1>2. found[l] = {"good"} <=>
        "good" \in found[l] /\ "bad" \notin found[l] /\ "doubtful" \notin found[l]
  BY <1>1 DEF Findings
<1>3. CASE tally[l].run = 2
  <2>1. /\ Fails(l) <=> tally[l].failed > 0
        /\ status[l] = "Pass" <=>
             tally[l].passed > 0 /\ ~(tally[l].failed > 0) /\ ~(tally[l].warned > 0)
    BY <1>1, <1>3 DEF Done, Fails, QuickDetermineLayerStatus, Tally
  <2> QED
    BY <1>1, <1>2, <2>1 DEF Agrees, Tally
<1>4. CASE tally[l] = [Untouched EXCEPT !.skipped = 2] /\ found[l] = {}
  <2>1. tally[l].run = 0
    BY <1>4 DEF Untouched
  <2>2. status[l] = "NotTested"
    BY <1>1, <2>1 DEF Done, QuickDetermineLayerStatus
  <2> QED
    BY <1>4, <2>2 DEF Fails
<1> QED
  BY <1>1, <1>3, <1>4 DEF Done

\* The diagnosis blames the lowest layer that failed, and nothing if none did.
LEMMA BlamedIs ==
  ASSUME diagnosis = QuickApplyDiagnosis
  PROVE  \/ /\ Blamed \in Layers /\ Fails(Blamed)
            /\ \A k \in Layers : Fails(k) => Blamed <= k
            /\ diagnosis # "healthy"
         \/ /\ Blamed = 6 /\ \A k \in Layers : ~Fails(k)
            /\ diagnosis = "healthy" <=> \A k \in Layers : status[k] = "Pass"
<1>1. CASE \E l \in Layers : Fails(l)
  <2> DEFINE first(l) == Fails(l) /\ \A k \in 1..l - 1 : ~Fails(k)
             lowest == CHOOSE l \in Layers : first(l)
  <2>1. \E l \in Layers : first(l)
    BY <1>1, LowestExists
  <2>2. lowest \in Layers /\ first(lowest)
    BY <2>1
  <2>3. diagnosis = CASE lowest = 1 -> "L1"
                      [] lowest = 2 -> "L2"
                      [] lowest = 3 -> (IF tally[3].passed = 0 THEN "L3 local" ELSE "L3 gateway")
                      [] lowest = 4 -> "L4"
                      [] lowest = 5 -> "L7"
    BY <1>1 DEF QuickApplyDiagnosis
  <2>4. Fails(lowest) /\ \A k \in 1..lowest - 1 : ~Fails(k)
    BY <2>2
  <2> HIDE DEF lowest, first
  <2>5. lowest \in {1, 2, 3, 4, 5}
    BY <2>2 DEF Layers
  <2>6. Blamed = lowest /\ diagnosis # "healthy"
    BY <2>3, <2>5 DEF Blamed
  <2>7. \A k \in Layers : Fails(k) => lowest <= k
    BY <2>4, <2>5 DEF Layers
  <2> QED
    BY <2>2, <2>4, <2>6, <2>7
<1>2. CASE ~\E l \in Layers : Fails(l)
  <2>1. diagnosis = CASE \A l \in Layers : status[l] = "Pass" -> "healthy"
                      [] \E l \in Layers : status[l] = "Warn" -> "warnings"
                      [] OTHER -> "tests skipped"
    BY <1>2 DEF QuickApplyDiagnosis
  <2>2. diagnosis \in {"healthy", "warnings", "tests skipped"}
    BY <2>1
  <2>3. Blamed = 6
    BY <2>2 DEF Blamed
  <2>4. (\A l \in Layers : status[l] = "Pass") => ~\E l \in Layers : status[l] = "Warn"
    BY DEF Layers
  <2> QED
    BY <1>2, <2>1, <2>3, <2>4
<1> QED
  BY <1>1, <1>2

\* The diagnosis never blames a layer below the broken one, and blames the broken
\* one as soon as one of its tests has found it broken.
THEOREM BlameIsRight == Spec => []BlamesTheFault
<1>1. ScanInv => BlamesTheFault
  <2> SUFFICES ASSUME ScanInv, diagnosis # "none"
               PROVE  /\ Blamed >= fault
                      /\ fault \in Layers /\ "bad" \in found[fault] => Blamed = fault
    BY DEF BlamesTheFault
  <2>1. layer = 6 /\ diagnosis = QuickApplyDiagnosis /\ fault \in 1..6
    BY DEF ScanInv, TypeOK
  <2>2. CASE /\ Blamed \in Layers /\ Fails(Blamed)
             /\ \A k \in Layers : Fails(k) => Blamed <= k
    <3>1. ~(Blamed < fault)
      BY <2>1, <2>2, DoneIs
    <3>2. Blamed \in 1..5
      BY <2>2 DEF Layers
    <3>3. Blamed >= fault
      BY <2>1, <3>1, <3>2
    <3>4. ASSUME fault \in Layers, "bad" \in found[fault]
          PROVE  Blamed <= fault
      BY <2>1, <2>2, <3>4, DoneIs
    <3> QED
      BY <2>1, <3>2, <3>3, <3>4
  <2>3. CASE Blamed = 6 /\ \A k \in Layers : ~Fails(k)
    BY <2>1, <2>3, DoneIs
  <2> QED
    BY <2>1, <2>2, <2>3, BlamedIs
<1> QED
  BY <1>1, ScanInit, ScanStep, PTL DEF Spec

\* All layers are called healthy just when every one was found good and nothing
\* else: no test that was skipped, and none that returned an error without a
\* verdict, is taken for a pass.
THEOREM HealthIsTested == Spec => []HealthyMeansTested
<1>1. ScanInv => HealthyMeansTested
  <2> SUFFICES ASSUME ScanInv, diagnosis # "none"
               PROVE  diagnosis = "healthy" <=> \A l \in Layers : found[l] = {"good"}
    BY DEF HealthyMeansTested
  <2>1. layer = 6 /\ diagnosis = QuickApplyDiagnosis
    BY DEF ScanInv
  <2>2. \A l \in Layers : status[l] = "Pass" <=> found[l] = {"good"}
    BY <2>1, DoneIs
  <2>3. CASE Blamed \in Layers /\ Fails(Blamed) /\ diagnosis # "healthy"
    <3>1. "bad" \in found[Blamed]
      BY <2>1, <2>3, DoneIs
    <3> QED
      BY <2>3, <3>1
  <2>4. CASE diagnosis = "healthy" <=> \A k \in Layers : status[k] = "Pass"
    BY <2>2, <2>4
  <2> QED
    BY <2>1, <2>3, <2>4, BlamedIs
<1> QED
  BY <1>1, ScanInit, ScanStep, PTL DEF Spec

-----------------------------------------------------------------------------
(* The bar and the health score *)

LEMMA Percent ==
  ASSUME NEW part \in 0..10, NEW whole \in 1..10, part <= whole
  PROVE  (part * 100) \div whole \in 0..100
<1>1. CASE whole = 1
  BY <1>1
<1>2. CASE whole = 2
  BY <1>2
<1>3. CASE whole = 3
  BY <1>3
<1>4. CASE whole = 4
  BY <1>4
<1>5. CASE whole = 5
  BY <1>5
<1>6. CASE whole = 6
  BY <1>6
<1>7. CASE whole = 7
  BY <1>7
<1>8. CASE whole = 8
  BY <1>8
<1>9. CASE whole = 9
  BY <1>9
<1>10. CASE whole = 10
  BY <1>10
<1> QED
  BY <1>1, <1>2, <1>3, <1>4, <1>5, <1>6, <1>7, <1>8, <1>9, <1>10

\* No layer has more tests passed than run.
LEMMA PassedAreRun ==
  ASSUME ScanInv, layer = 6, NEW l \in Layers
  PROVE  /\ tally[l].run \in 0..2 /\ tally[l].passed \in 0..2 /\ tally[l].skipped \in 0..2
         /\ tally[l].passed <= tally[l].run
<1>1. Done(l) /\ tally[l] \in Tally
  BY TallyIs DEF ScanInv, TypeOK, LayerOK, Layers
<1>2. CASE tally[l].run = 2 /\ OneOutcomeEach(l)
  BY <1>1, <1>2 DEF OneOutcomeEach, Tally
<1>3. CASE tally[l] = [Untouched EXCEPT !.skipped = 2]
  <2>1. tally[l].run = 0 /\ tally[l].passed = 0
    BY <1>3 DEF Untouched
  <2> QED
    BY <1>1, <2>1 DEF Tally
<1> QED
  BY <1>1, <1>2, <1>3 DEF Done

\* The bar never passes 100 percent and is full at the end, and the score is a
\* percentage: a test that skipped itself is taken from the total as often as it
\* was added beyond the tests run.
THEOREM BarsStayInRange == Spec => []BarsInRange
<1>1. ScanInv => BarsInRange
  <2> SUFFICES ASSUME ScanInv PROVE BarsInRange
    OBVIOUS
  <2>1. progress <= TotalQuickTests
    BY TwoTests DEF ScanInv, TypeOK
  <2>2. layer = 6 => progress = TotalQuickTests
    BY TwoTests DEF ScanInv
  <2>3. ASSUME layer = 6
        PROVE  TotalTests >= Sum("skipped") /\ PassPercent \in 0..100
    <3>1. /\ Sum("run") \in 0..10 /\ Sum("passed") \in 0..10 /\ Sum("skipped") \in 0..10
          /\ Sum("passed") <= Sum("run")
      BY <2>3, PassedAreRun DEF Sum, Layers
    <3>2. TotalTests - Sum("skipped") = Sum("run")
      BY <3>1 DEF TotalTests
    <3> DEFINE judged == TotalTests - Sum("skipped")
               whole == IF judged > 0 THEN judged ELSE 1
    <3>3. whole \in 1..10 /\ Sum("passed") <= whole
      BY <3>1, <3>2
    <3>4. PassPercent = (Sum("passed") * 100) \div whole
      BY DEF PassPercent
    <3> HIDE DEF whole
    <3>5. PassPercent \in 0..100
      BY <3>1, <3>3, <3>4, Percent
    <3> QED
      BY <3>1, <3>5 DEF TotalTests
  <2> QED
    BY <2>1, <2>2, <2>3 DEF BarsInRange
<1> QED
  BY <1>1, ScanInit, ScanStep, PTL DEF Spec

=============================================================================
