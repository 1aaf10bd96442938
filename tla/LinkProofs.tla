------------------------------- MODULE LinkProofs -------------------------------
(***************************************************************************)
(* What the layer 1 and 2 tests may do to a NIC and conclude from it, for  *)
(* every set-up, every number of frames and whatever the firmware's stack  *)
(* does meanwhile.  The properties are not inductive: that frames need an  *)
(* initialised NIC rests on the NIC not being reset between two stages of  *)
(* one test, that a driver lets go on where it can be busy (Busy), that a  *)
(* verdict is honest on what the test has done so far (Told), and that the *)
(* cycle restores the NIC on how far it has come (Cycled).                 *)
(***************************************************************************)
EXTENDS LinkTests, TLAPS, SequenceTheorems

\* The steps of the child of the ARP driver, and what that driver has: nothing
\* but what the caller is about to withdraw.
ArpStep ==
  ArpOpen \/ ArpOpenFails \/ ArpCaller \/ ArpDriver \/ ArpConsume \/ UNCHANGED arpVars

ArpOwned ==
  /\ request # "none" => arp \notin {"idle", "asking"}
  /\ arp \in {"asking", "polling"} => resolved = "none"

Detects == {"NicStatus", "LinkDetect"}
Reception == {"polling", "look", "cancel", "close"}
Undoing == {"undo", "restart", "reinitialize"}
Restoring == {"restore", "lower"}
Cycling == {"stop", "startup", "initialize", "over"} \cup Undoing \cup Restoring
Live == {"media", "probe", "await", "transmit", "mnp", "listen", "ask", "answer", "raw"}
          \cup Reception
Before == {"start", "media", "probe", "transmit"}

\* Which tests come to a stage, and which a report may have begun.
Located ==
  /\ stage \in {"media", "probe"} => test \in Detects
  /\ stage = "media" /\ test = "LinkDetect" => setup.media
  /\ stage = "probe" /\ test = "NicStatus" => setup.media
  /\ stage = "transmit" => test \in Transmitters
  /\ stage = "await" => test \in (Transmitters \ {"FrameTxRx"}) \cup Detects
  /\ stage \in Reception \cup {"mnp", "listen"} => test = "FrameTxRx"
  /\ stage \in {"ask", "answer", "raw"} => test = "ArpRequestReply"
  /\ stage = "answer" => asks # <<>>
  /\ stage \in Cycling => test = "NicInitCycle"
  /\ stage \in Live \cup Cycling \cup {"rest", "start"}
  /\ caller = "report" /\ stage # "rest" => ReportRuns(test)

\* Where the NIC and the drivers may have something of the test's.
Busy ==
  /\ "own" \in ring \cup recycled => stage \in Live
  /\ stage \in Live => snp = "initialized" /\ origin = "initialized"
  /\ stage = "start" => snp = origin
  /\ token # "none" => stage \in Reception
  /\ token = "queued" => stage # "close"
  /\ arp # "idle" \/ resolved # "none" => stage = "answer"
  /\ ArpOwned

\* Every frame delivered is counted, still in the token, or kept.
Counted ==
  /\ delivered = frames + kept + (IF token = "frame" THEN 1 ELSE 0)
  /\ kept <= (IF stage \in {"listen", "rest"} THEN 1 ELSE 0)
  /\ stage \in Before => delivered = 0

\* How far the NIC has come in its cycle, and on its way back.
Cycled ==
  /\ stage = "stop" => snp # "initialized"
  /\ stage = "startup" => snp = "stopped"
  /\ stage = "initialize" => snp = "started"
  /\ stage \in Undoing => ~smooth /\ verdict = "FAIL" /\ seen \subseteq {"uninitialized", "refused"}
                             /\ snp # "initialized"
  /\ stage = "undo" => snp = "started"
  /\ stage = "restart" => origin # "stopped" /\ ("refused" \in seen \/ snp = "stopped")
  /\ stage = "reinitialize" => origin = "initialized" /\ ("refused" \in seen \/ snp = "started")
  /\ stage \in Restoring => verdict = "PASS" /\ "initialized" \in seen
  /\ stage = "restore" => snp = "initialized" /\ origin # "initialized"
  /\ stage = "lower" => origin = "stopped" /\ ("refused" \in seen \/ snp = "started")
  /\ stage = "over" =>
       /\ "refused" \in seen \/ snp = origin
       /\ verdict \in {"PASS", "FAIL"}
       /\ verdict = "PASS" <=> "initialized" \in seen
       /\ verdict = "FAIL" => ~smooth /\ (snp = "initialized" => origin = "initialized")
  /\ stage \in Cycling /\ "refused" \in seen => ~smooth

\* What the test has done and seen so far.
Told ==
  /\ stage \in Before => ~sent
  /\ stage \notin Before \cup Cycling \cup {"rest"} /\ test \in Transmitters => sent
  /\ stage = "await" => sent
  /\ stage \notin Undoing \cup Restoring \cup {"over", "rest"} => seen = {}
  /\ VerdictHonest /\ CycleRestores

Linking == TypeOK /\ Located /\ Busy /\ Counted /\ Cycled /\ Told

-----------------------------------------------------------------------------

LEMMA ArpTyped ==
  ASSUME ArpTypeOK, ArpStep
  PROVE  ArpTypeOK'
  BY DEF ArpTypeOK, ArpStep, ArpOpen, ArpOpenFails, ArpCaller, ArpDriver, ArpConsume, arpVars,
     ArpRequest, ArpPolled, ArpPollsSpent, ArpCloseEvent, ArpWithdraw, ArpReply, ArpGiveUp, ArpReady

LEMMA ArpLetsGo ==
  ASSUME ArpOwned, ArpStep
  PROVE  ArpOwned'
  BY DEF ArpOwned, ArpStep, ArpOpen, ArpOpenFails, ArpCaller, ArpDriver, ArpConsume, arpVars,
     ArpRequest, ArpPolled, ArpPollsSpent, ArpCloseEvent, ArpWithdraw, ArpReply, ArpGiveUp, ArpReady

-----------------------------------------------------------------------------
(* Types *)

LEMMA AbandonIs ==
  ASSUME Abandon
  PROVE  /\ "own" \notin ring' \cup recycled'
         /\ ring' \ {"stale"} = ring \ {"own", "stale"}
         /\ "stale" \in ring' => ring \cap {"own", "stale"} # {}
         /\ ring \cup recycled \subseteq Buffers => ring' \cup recycled' \subseteq Buffers
  BY DEF Abandon, Buffers

LEMMA PlanIs == Plan \in Seq(Questions)
<1>1. ASSUME NEW q \in Questions, NEW w PROVE Asked(q, w) \in Seq(Questions)
  BY DEF Asked
<1>2. ASSUME NEW a \in Seq(Questions), NEW b \in Seq(Questions) PROVE a \o b \in Seq(Questions)
  OBVIOUS
<1>3. <<"filters">> \in Seq(Questions)
  BY DEF Questions
<1>4. /\ Asked("gateway", setup.arp /\ setup.gateway) \in Seq(Questions)
      /\ Asked("target", setup.arp /\ setup.target) \in Seq(Questions)
      /\ Asked("other", setup.arp /\ setup.other) \in Seq(Questions)
      /\ Asked("raw gateway", setup.gateway) \in Seq(Questions)
      /\ Asked("raw target", setup.target) \in Seq(Questions)
  BY <1>1 DEF Questions
<1> QED
  BY <1>2, <1>3, <1>4 DEF Plan

LEMMA TailIs ==
  ASSUME asks \in Seq(Questions), asks # <<>>
  PROVE  Tail(asks) \in Seq(Questions)
  OBVIOUS

LEMMA Parts ==
  ASSUME Next
  PROVE  ArpStep
<1> USE DEF ArpStep
<1>1. CASE \E t \in Tests, c \in {"menu", "report"} : Begin(t, c)
  BY <1>1 DEF Begin
<1>2. CASE LookOnly \/ NotInitialized \/ Filters
  BY <1>2 DEF LookOnly, NotInitialized, Filters
<1>3. CASE Link
  BY <1>3 DEF Link, SenseLink, MediaUp, MediaDown, ProbeRefused, ProbeTaken
<1>4. CASE Frame
  BY <1>4 DEF Frame, StartTransmit, NoMemory, FrameRefused, FrameTaken, Recycled, NotRecycled,
     ListenEnds
<1>5. CASE Mnp \/ MnpDeliver \/ Overhear
  BY <1>5 DEF Mnp, MnpOpen, MnpPolled, MnpTimeout, MnpLook, MnpCancel, MnpClose, MnpDeliver,
     Overhear,
     MnpUnchanged
<1>6. CASE Asking
  BY <1>6 DEF Asking, StartAsking, AskDriver, Caller, DriverAnswered, DriverSilent, AskFilters,
     AskRaw,
     RawAnswered, RawSilent, NobodyAnswers
<1>7. CASE Cycle
  BY <1>7 DEF Cycle, CycleDown, CycleUp, CycleFails, CycleUndo, CycleRestore, CycleOver, Takes,
     Tries, Judged, Then, Gives, CycleUnchanged
<1>8. CASE ArpTraffic \/ (Nic /\ UNCHANGED <<arpVars, testVars, seenVars>>)
  BY <1>8 DEF ArpTraffic
<1> QED
  BY <1>1, <1>2, <1>3, <1>4, <1>5, <1>6, <1>7, <1>8 DEF Next, Program, Firmware

LEMMA PartsKept ==
  ASSUME TypeOK, Busy, Next
  PROVE  ArpTypeOK' /\ ArpOwned'
  BY Parts, ArpTyped, ArpLetsGo DEF TypeOK, Busy

\* The types of all but the ARP child, and of the counters one by one.
Kinds ==
  /\ SnpTypeOK
  /\ setup \in Setups
  /\ caller \in {"menu", "report"}
  /\ test \in Tests
  /\ stage \in Stages
  /\ asks \in Seq(Questions)
  /\ token \in {"none", "queued", "frame", "error"}
  /\ verdict \in {"none", "PASS", "WARN", "FAIL", "SKIP", "ERROR"}
  /\ origin \in {"stopped", "started", "initialized"}
  /\ seen \in SUBSET Sights
  /\ frames \in Nat /\ kept \in Nat
  /\ delivered \in 0..MaxFrames

LEMMA KindsBegin ==
  ASSUME Kinds, \E t \in Tests, c \in {"menu", "report"} : Begin(t, c)
  PROVE  Kinds'
  BY MaxFramesAssumption DEF Kinds, Begin, SnpTypeOK, snpVars, Stages

LEMMA ReturnIs ==
  ASSUME Kinds, NEW v \in {"PASS", "WARN", "FAIL", "SKIP", "ERROR"}, Return(v),
         snp' = snp, filter' \in BOOLEAN, frames' = frames, seen' \in SUBSET Sights
  PROVE  Kinds'
<1>1. ring' \cup recycled' \subseteq Buffers
  BY AbandonIs DEF Return, Kinds, SnpTypeOK
<1>2. asks' \in Seq(Questions)
  BY DEF Return
<1> QED
  BY <1>1, <1>2 DEF Kinds, Return, SnpTypeOK, Stages

LEMMA GotoIs ==
  ASSUME Kinds, NEW s \in Stages, Goto(s),
         snp' = snp, filter' \in BOOLEAN, ring' \cup recycled' \subseteq Buffers, seen' = seen
  PROVE  Kinds'
  BY DEF Kinds, Goto, SnpTypeOK

LEMMA KindsAlone ==
  ASSUME Kinds, Located, LookOnly \/ NotInitialized \/ Filters \/ Link
  PROVE  Kinds'
<1>0. filter \in BOOLEAN /\ ring \cup recycled \subseteq Buffers /\ seen \subseteq Sights
  BY DEF Kinds, SnpTypeOK
<1> USE <1>0 DEF Stages, Sights, Buffers
<1>1. CASE LookOnly
  BY <1>1, ReturnIs DEF LookOnly
<1>2. CASE NotInitialized
  BY <1>2, ReturnIs DEF NotInitialized
<1>3. CASE Filters
  BY <1>3, ReturnIs DEF Filters, Sees
<1>4. CASE SenseLink \/ MediaDown \/ ProbeTaken
  BY <1>4, GotoIs DEF SenseLink, MediaDown, ProbeTaken, SetFilter, Queue, snpVars
<1>5. CASE MediaUp
  BY <1>5, ReturnIs DEF MediaUp, Sees
<1>6. CASE ProbeRefused
  <2>1. /\ test \in Detects
        /\ \E v \in {"WARN", "FAIL"} : Return(v)
  BY <1>6 DEF ProbeRefused, Located, Detects
  <2> QED
  BY <1>6, <2>1, ReturnIs DEF ProbeRefused
<1> QED
  BY <1>1, <1>2, <1>3, <1>4, <1>5, <1>6 DEF Link

LEMMA KindsFrame ==
  ASSUME Kinds, Frame \/ Overhear \/ (Nic /\ UNCHANGED <<arpVars, testVars, seenVars>>)
  PROVE  Kinds'
<1>0. filter \in BOOLEAN /\ ring \cup recycled \subseteq Buffers /\ seen \subseteq Sights
  BY DEF Kinds, SnpTypeOK
<1> USE <1>0 DEF Stages, Sights, Buffers
<1>1. CASE StartTransmit \/ FrameTaken
  BY <1>1, GotoIs DEF StartTransmit, FrameTaken, SetFilter, Queue
<1>2. CASE NoMemory \/ FrameRefused \/ ListenEnds
  BY <1>2, ReturnIs DEF NoMemory, FrameRefused, ListenEnds
<1>3. CASE NotRecycled
  BY <1>3, ReturnIs DEF NotRecycled, MtuVerdicts
<1>4. CASE Recycled
  <2>1. PICK v \in MtuVerdicts : verdict' = v
  BY <1>4 DEF Recycled
  <2>2. ring' \cup recycled' \subseteq Buffers
  BY <1>4 DEF Recycled
  <2> QED
  BY <1>4, <2>1, <2>2 DEF Recycled, Kinds, SnpTypeOK, MtuVerdicts, Sees
<1>5. CASE Overhear
  BY <1>5, MaxFramesAssumption DEF Overhear, Kinds, SnpTypeOK, snpVars
<1>6. CASE Nic /\ UNCHANGED <<arpVars, testVars, seenVars>>
  <2>1. ring' \cup recycled' \subseteq Buffers /\ snp' = snp /\ filter' = filter
  BY <1>6 DEF Nic, Queue, Reported
  <2> QED
  BY <1>6, <2>1 DEF Kinds, SnpTypeOK, testVars, seenVars
<1> QED
  BY <1>1, <1>2, <1>3, <1>4, <1>5, <1>6 DEF Frame

LEMMA KindsMnp ==
  ASSUME Kinds, Mnp \/ MnpDeliver
  PROVE  Kinds'
<1> USE MaxFramesAssumption DEF Kinds, SnpTypeOK, snpVars, MnpUnchanged, Stages
<1>1. CASE MnpOpen \/ MnpPolled
  BY <1>1 DEF MnpOpen, MnpPolled
<1>2. CASE MnpTimeout \/ MnpLook \/ MnpCancel
  BY <1>2 DEF MnpTimeout, MnpLook, MnpCancel
<1>3. CASE MnpClose
  <2>1. ring' \cup recycled' \subseteq Buffers
  BY <1>3, AbandonIs DEF MnpClose
  <2> QED
  BY <1>3, <2>1 DEF MnpClose
<1>4. CASE MnpDeliver
  BY <1>4 DEF MnpDeliver
<1> QED
  BY <1>1, <1>2, <1>3, <1>4 DEF Mnp

LEMMA KindsAsking ==
  ASSUME Kinds, Located, ArpTypeOK, Asking \/ ArpTraffic
  PROVE  Kinds'
<1>0. filter \in BOOLEAN /\ ring \cup recycled \subseteq Buffers /\ seen \subseteq Sights
  BY DEF Kinds, SnpTypeOK
<1> USE <1>0 DEF Stages, Sights, Buffers
<1>1. CASE StartAsking \/ AskDriver
  <2>1. asks' \in Seq(Questions)
  BY <1>1, PlanIs DEF StartAsking, AskDriver, Kinds
  <2>2. /\ UNCHANGED <<snpVars, seen>> /\ stage' \in Stages
        /\ UNCHANGED <<setup, caller, test, token, frames, verdict, origin, delivered, kept>>
  BY <1>1 DEF StartAsking, AskDriver, ArpUnchanged
  <2> QED
    BY <2>1, <2>2 DEF snpVars, Kinds, SnpTypeOK
<1>2. CASE Caller \/ ArpTraffic
  <2>1. UNCHANGED <<snpVars, testVars, seenVars>>
  BY <1>2 DEF Caller, ArpTraffic
  <2> QED
    BY <2>1 DEF snpVars, testVars, seenVars, Kinds, SnpTypeOK
<1>3. CASE DriverAnswered
  BY <1>3, ReturnIs DEF DriverAnswered, Sees, ArpTypeOK
<1>4. CASE DriverSilent
  <2>1. asks' \in Seq(Questions)
  BY <1>4, TailIs DEF DriverSilent, Kinds, Located
  <2> QED
  BY <1>4, <2>1 DEF DriverSilent, ArpUnchanged, snpVars, Kinds, SnpTypeOK
<1>5. CASE AskFilters \/ AskRaw
  <2>1. asks' \in Seq(Questions)
  BY <1>5, TailIs DEF AskFilters, AskRaw, Kinds
  <2>2. ring' \cup recycled' \subseteq Buffers /\ filter' \in BOOLEAN
  BY <1>5 DEF AskFilters, AskRaw, Queue, SetFilter
  <2>3. /\ UNCHANGED <<snp, seen>> /\ stage' \in Stages
        /\ UNCHANGED <<setup, caller, test, token, frames, verdict, origin, delivered, kept>>
  BY <1>5 DEF AskFilters, AskRaw, ArpUnchanged, Kinds
  <2> QED
    BY <2>1, <2>2, <2>3 DEF Kinds, SnpTypeOK
<1>6. CASE RawAnswered \/ NobodyAnswers
  BY <1>6, ReturnIs DEF RawAnswered, NobodyAnswers, Sees
<1>7. CASE RawSilent
  <2>1. ring' \cup recycled' \subseteq Buffers
  BY <1>7, AbandonIs DEF RawSilent
  <2> QED
  BY <1>7, <2>1 DEF RawSilent, ArpUnchanged, Kinds, SnpTypeOK
<1> QED
  BY <1>1, <1>2, <1>3, <1>4, <1>5, <1>6, <1>7 DEF Asking

LEMMA KindsCycle ==
  ASSUME Kinds, Cycled, Cycle
  PROVE  Kinds'
<1>1. \/ snp' \in {"stopped", "started", "initialized"} /\ Reset
      \/ snp' \in {"stopped", "started", "initialized"} /\ UNCHANGED <<filter, ring, recycled>>
      \/ UNCHANGED <<snp, filter>> /\ \E v \in {"PASS", "FAIL"} : Return(v)
  <2>1. CASE CycleDown
    BY <2>1 DEF CycleDown, Takes, snpVars, Kinds, SnpTypeOK
  <2>2. CASE CycleUp
    BY <2>2 DEF CycleUp, Takes, Gives
  <2>3. CASE CycleFails
    BY <2>3 DEF CycleFails, Gives, snpVars, Kinds, SnpTypeOK
  <2>4. CASE CycleUndo
    BY <2>4 DEF CycleUndo, Tries, Takes, snpVars, Kinds, SnpTypeOK
  <2>5. CASE CycleRestore
    BY <2>5 DEF CycleRestore, Tries, Takes, snpVars, Kinds, SnpTypeOK
  <2>6. CASE CycleOver
    BY <2>6 DEF CycleOver, Gives, Cycled
  <2> QED
    BY <2>1, <2>2, <2>3, <2>4, <2>5, <2>6 DEF Cycle
<1>2. snp' \in {"stopped", "started", "initialized"} /\ filter' \in BOOLEAN
  BY <1>1 DEF Reset, Kinds, SnpTypeOK
<1>3. ring' \cup recycled' \subseteq Buffers
  BY <1>1, AbandonIs DEF Return, Reset, Kinds, SnpTypeOK
<1>4. /\ UNCHANGED <<frames, delivered, kept, setup, caller, test, token, origin>>
      /\ asks' = asks \/ asks' = <<>>
      /\ stage' \in Stages
      /\ verdict' \in {verdict, "PASS", "FAIL"}
      /\ seen' \subseteq seen \cup {"initialized", "uninitialized", "refused"}
  <2> USE DEF Then, Gives, Judged, Goto, Return, Sees, CycleUnchanged, Stages
  <2>1. CASE CycleDown
    BY <2>1 DEF CycleDown
  <2>2. CASE CycleUp
    BY <2>2 DEF CycleUp
  <2>3. CASE CycleFails
    BY <2>3 DEF CycleFails
  <2>4. CASE CycleUndo
    BY <2>4 DEF CycleUndo, Tries
  <2>5. CASE CycleRestore
    BY <2>5 DEF CycleRestore, Tries
  <2>6. CASE CycleOver
    BY <2>6 DEF CycleOver
  <2> QED
    BY <2>1, <2>2, <2>3, <2>4, <2>5, <2>6 DEF Cycle
<1>5. asks' \in Seq(Questions)
  <2>1. <<>> \in Seq(Questions)
    OBVIOUS
  <2> QED
    BY <1>4, <2>1 DEF Kinds
<1>6. seen' \in SUBSET Sights
  BY <1>4 DEF Kinds, Sights
<1> QED
  BY <1>2, <1>3, <1>4, <1>5, <1>6 DEF Kinds, SnpTypeOK

LEMMA KindsKept ==
  ASSUME Kinds, Located, Cycled, ArpTypeOK, Next
  PROVE  Kinds'
<1>1. CASE \E t \in Tests, c \in {"menu", "report"} : Begin(t, c)
  BY <1>1, KindsBegin
<1>2. CASE LookOnly \/ NotInitialized \/ Filters \/ Link
  BY <1>2, KindsAlone
<1>3. CASE Frame \/ Overhear \/ (Nic /\ UNCHANGED <<arpVars, testVars, seenVars>>)
  BY <1>3, KindsFrame
<1>4. CASE Mnp \/ MnpDeliver
  BY <1>4, KindsMnp
<1>5. CASE Asking \/ ArpTraffic
  BY <1>5, KindsAsking
<1>6. CASE Cycle
  BY <1>6, KindsCycle
<1> QED
  BY <1>1, <1>2, <1>3, <1>4, <1>5, <1>6 DEF Next, Program, Firmware

-----------------------------------------------------------------------------
(* Where a test is, and where the drivers and the NIC are busy *)

LEMMA LocatedKept ==
  ASSUME TypeOK, Located, Next
  PROVE  Located'
<1> USE DEF Located, Detects, Reception, Undoing, Restoring, Cycling, Live, Transmitters,
   NeedInitialized, Goto,
        Return, snpVars, arpVars, testVars, seenVars
<1>1. CASE \E t \in Tests, c \in {"menu", "report"} : Begin(t, c)
  BY <1>1 DEF Begin
<1>2. CASE LookOnly \/ NotInitialized \/ Filters
  BY <1>2 DEF LookOnly, NotInitialized, Filters
<1>3. CASE Link
  BY <1>3 DEF Link, SenseLink, MediaUp, MediaDown, ProbeRefused, ProbeTaken
<1>4. CASE Frame \/ Overhear
  BY <1>4 DEF Frame, StartTransmit, NoMemory, FrameRefused, FrameTaken, Recycled, NotRecycled,
     ListenEnds, Overhear
<1>5. CASE Mnp \/ MnpDeliver
  BY <1>5 DEF Mnp, MnpOpen, MnpPolled, MnpTimeout, MnpLook, MnpCancel, MnpClose, MnpDeliver,
     MnpUnchanged
<1>6. CASE StartAsking \/ AskDriver \/ Caller \/ DriverAnswered \/ DriverSilent
  BY <1>6 DEF StartAsking, AskDriver, Caller, DriverAnswered, DriverSilent, ArpUnchanged
<1>9. CASE AskFilters \/ AskRaw \/ RawAnswered \/ RawSilent \/ NobodyAnswers
  BY <1>9 DEF AskFilters, AskRaw, RawAnswered, RawSilent, NobodyAnswers, ArpUnchanged
<1>7. CASE Cycle
  BY <1>7 DEF Cycle, CycleDown, CycleUp, CycleFails, CycleUndo, CycleRestore, CycleOver, Takes,
     Tries, Judged, Then, Gives,
     CycleUnchanged
<1>8. CASE ArpTraffic \/ (Nic /\ UNCHANGED <<arpVars, testVars, seenVars>>)
  BY <1>8 DEF ArpTraffic, Nic
<1> QED
  BY <1>1, <1>2, <1>3, <1>4, <1>5, <1>6, <1>7, <1>8, <1>9
  DEF Next, Program, Firmware, Asking

LEMMA CountedKept ==
  ASSUME Kinds, Located, Busy, Counted, Next
  PROVE  Counted'
<1> USE DEF Counted, Before, Kinds, Busy, Located, Reception, Undoing, Restoring, Cycling, Live,
   Abandon, Goto, Return,
        snpVars, arpVars, testVars, seenVars
<1>1. CASE \E t \in Tests, c \in {"menu", "report"} : Begin(t, c)
  BY <1>1 DEF Begin
<1>2. CASE LookOnly \/ NotInitialized \/ Filters
  BY <1>2 DEF LookOnly, NotInitialized, Filters
<1>3. CASE Link
  BY <1>3 DEF Link, SenseLink, MediaUp, MediaDown, ProbeRefused, ProbeTaken
<1>4. CASE Frame \/ Overhear
  BY <1>4 DEF Frame, StartTransmit, NoMemory, FrameRefused, FrameTaken, Recycled, NotRecycled,
     ListenEnds, Overhear
<1>5. CASE Mnp \/ MnpDeliver
  BY <1>5 DEF Mnp, MnpOpen, MnpPolled, MnpTimeout, MnpLook, MnpCancel, MnpClose, MnpDeliver,
     MnpUnchanged
<1>6. CASE StartAsking \/ AskDriver \/ Caller \/ DriverAnswered \/ DriverSilent
  BY <1>6 DEF StartAsking, AskDriver, Caller, DriverAnswered, DriverSilent, ArpUnchanged
<1>9. CASE AskFilters \/ AskRaw \/ RawAnswered \/ RawSilent \/ NobodyAnswers
  <2>1. UNCHANGED <<frames, kept, delivered, token>> /\ stage' \in {"ask", "raw", "rest"}
        /\ stage \in {"ask", "raw"}
  BY <1>9 DEF AskFilters, AskRaw, RawAnswered, RawSilent, NobodyAnswers, ArpUnchanged
  <2> QED
    BY <2>1
<1>7. CASE Cycle
  BY <1>7 DEF Cycle, CycleDown, CycleUp, CycleFails, CycleUndo, CycleRestore, CycleOver, Takes,
     Tries, Judged, Then, Gives,
     CycleUnchanged
<1>8. CASE ArpTraffic \/ (Nic /\ UNCHANGED <<arpVars, testVars, seenVars>>)
  BY <1>8 DEF ArpTraffic, Nic
<1> QED
  BY <1>1, <1>2, <1>3, <1>4, <1>5, <1>6, <1>7, <1>8, <1>9
  DEF Next, Program, Firmware, Asking

LEMMA CycledKept ==
  ASSUME Kinds, Located, Busy, Cycled, Told, Next
  PROVE  Cycled'
<1> USE DEF Cycled, Kinds, SnpTypeOK, Located, Undoing, Restoring, Cycling, Live, Detects,
   Transmitters, Goto,
        Return, snpVars, arpVars, testVars, seenVars
<1>1. CASE \E t \in Tests, c \in {"menu", "report"} : Begin(t, c)
  BY <1>1 DEF Begin
<1>2. CASE LookOnly \/ NotInitialized \/ Filters
  BY <1>2 DEF LookOnly, NotInitialized, Filters
<1>3. CASE Link
  BY <1>3 DEF Link, SenseLink, MediaUp, MediaDown, ProbeRefused, ProbeTaken
<1>4. CASE Frame \/ Overhear
  BY <1>4 DEF Frame, StartTransmit, NoMemory, FrameRefused, FrameTaken, Recycled, NotRecycled,
     ListenEnds, Overhear
<1>5. CASE Mnp \/ MnpDeliver
  BY <1>5 DEF Mnp, MnpOpen, MnpPolled, MnpTimeout, MnpLook, MnpCancel, MnpClose, MnpDeliver,
     MnpUnchanged
<1>6. CASE StartAsking \/ AskDriver \/ Caller \/ DriverAnswered \/ DriverSilent
  BY <1>6 DEF StartAsking, AskDriver, Caller, DriverAnswered, DriverSilent, ArpUnchanged
<1>9. CASE AskFilters \/ AskRaw \/ RawAnswered \/ RawSilent \/ NobodyAnswers
  BY <1>9 DEF AskFilters, AskRaw, RawAnswered, RawSilent, NobodyAnswers, ArpUnchanged
<1>7. CASE Cycle
  <2> USE DEF Then, Gives, Judged, CycleUnchanged, Takes, Tries, Sees
  <2>1. CASE CycleDown
    BY <2>1 DEF CycleDown, Told, Before
  <2>2. CASE CycleUp
    BY <2>2 DEF CycleUp
  <2>3. CASE CycleFails
    BY <2>3 DEF CycleFails, Told, Before
  <2>4. CASE CycleUndo
    BY <2>4 DEF CycleUndo
  <2>5. CASE CycleRestore
    BY <2>5 DEF CycleRestore
  <2>6. CASE CycleOver
    BY <2>6 DEF CycleOver
  <2> QED
    BY <1>7, <2>1, <2>2, <2>3, <2>4, <2>5, <2>6 DEF Cycle
<1>8. CASE ArpTraffic \/ (Nic /\ UNCHANGED <<arpVars, testVars, seenVars>>)
  BY <1>8 DEF ArpTraffic, Nic
<1> QED
  BY <1>1, <1>2, <1>3, <1>4, <1>5, <1>6, <1>7, <1>8, <1>9
  DEF Next, Program, Firmware, Asking

LEMMA OwnKept ==
  ASSUME Located, Busy, Next
  PROVE  "own" \in ring' \cup recycled' => stage' \in Live
<1> USE DEF Located, Busy, Detects, Reception, Undoing, Restoring, Cycling, Live, Queue, Reported,
   Reset, Goto,
        Return, snpVars, arpVars, testVars, seenVars
<1>1. CASE \E t \in Tests, c \in {"menu", "report"} : Begin(t, c)
  BY <1>1 DEF Begin
<1>2. CASE LookOnly \/ NotInitialized \/ Filters
  BY <1>2, AbandonIs DEF LookOnly, NotInitialized, Filters
<1>3. CASE Link
  BY <1>3, AbandonIs DEF Link, SenseLink, MediaUp, MediaDown, ProbeRefused, ProbeTaken
<1>4. CASE Frame \/ Overhear
  BY <1>4, AbandonIs DEF Frame, StartTransmit, NoMemory, FrameRefused, FrameTaken, Recycled,
     NotRecycled, ListenEnds, Overhear
<1>5. CASE Mnp \/ MnpDeliver
  BY <1>5, AbandonIs DEF Mnp, MnpOpen, MnpPolled, MnpTimeout, MnpLook, MnpCancel, MnpClose,
     MnpDeliver, MnpUnchanged
<1>6. CASE StartAsking \/ AskDriver \/ Caller \/ DriverAnswered \/ DriverSilent
  BY <1>6, AbandonIs DEF StartAsking, AskDriver, Caller, DriverAnswered, DriverSilent,
     ArpUnchanged
<1>7. CASE AskFilters \/ AskRaw \/ RawAnswered \/ RawSilent \/ NobodyAnswers
  BY <1>7, AbandonIs DEF AskFilters, AskRaw, RawAnswered, RawSilent, NobodyAnswers, ArpUnchanged
<1>8. CASE Cycle
  BY <1>8, AbandonIs DEF Cycle, CycleDown, CycleUp, CycleFails, CycleUndo, CycleRestore,
     CycleOver, Takes, Tries, Judged, Then,
     Gives, CycleUnchanged
<1>9. CASE ArpTraffic \/ (Nic /\ UNCHANGED <<arpVars, testVars, seenVars>>)
  BY <1>9 DEF ArpTraffic, Nic
<1> QED
  BY <1>1, <1>2, <1>3, <1>4, <1>5, <1>6, <1>7, <1>8, <1>9
  DEF Next, Program, Firmware, Asking

LEMMA NicKept ==
  ASSUME Kinds, Located, Busy, Next
  PROVE  (/\ stage \in Live => snp = "initialized" /\ origin = "initialized"
          /\ stage = "start" => snp = origin)'
<1> USE DEF Kinds, Located, Busy, Transmitters, Detects, Reception, Undoing, Restoring, Cycling,
   Live, Goto, Return,
        snpVars, arpVars, testVars, seenVars
<1>1. CASE \E t \in Tests, c \in {"menu", "report"} : Begin(t, c)
  BY <1>1 DEF Begin
<1>2. CASE LookOnly \/ NotInitialized \/ Filters
  BY <1>2 DEF LookOnly, NotInitialized, Filters
<1>3. CASE Link
  BY <1>3 DEF Link, SenseLink, MediaUp, MediaDown, ProbeRefused, ProbeTaken
<1>4. CASE Frame \/ Overhear
  BY <1>4 DEF Frame, StartTransmit, NoMemory, FrameRefused, FrameTaken, Recycled, NotRecycled,
     ListenEnds, Overhear
<1>5. CASE Mnp \/ MnpDeliver
  BY <1>5 DEF Mnp, MnpOpen, MnpPolled, MnpTimeout, MnpLook, MnpCancel, MnpClose, MnpDeliver,
     MnpUnchanged
<1>6. CASE StartAsking \/ AskDriver \/ Caller \/ DriverAnswered \/ DriverSilent
  BY <1>6 DEF StartAsking, AskDriver, Caller, DriverAnswered, DriverSilent, ArpUnchanged
<1>7. CASE AskFilters \/ AskRaw \/ RawAnswered \/ RawSilent \/ NobodyAnswers
  BY <1>7 DEF AskFilters, AskRaw, RawAnswered, RawSilent, NobodyAnswers, ArpUnchanged
<1>8. CASE Cycle
  BY <1>8 DEF Cycle, CycleDown, CycleUp, CycleFails, CycleUndo, CycleRestore, CycleOver, Takes,
     Tries, Judged, Then, Gives,
     CycleUnchanged
<1>9. CASE ArpTraffic \/ (Nic /\ UNCHANGED <<arpVars, testVars, seenVars>>)
  BY <1>9 DEF ArpTraffic, Nic
<1> QED
  BY <1>1, <1>2, <1>3, <1>4, <1>5, <1>6, <1>7, <1>8, <1>9
  DEF Next, Program, Firmware, Asking

LEMMA HeldKept ==
  ASSUME Kinds, Located, Busy, Next
  PROVE  (/\ token # "none" => stage \in Reception
          /\ token = "queued" => stage # "close"
          /\ arp # "idle" \/ resolved # "none" => stage = "answer")'
<1> USE DEF Kinds, Located, Busy, Reception, Undoing, Restoring, Cycling, Live, Goto, Return,
   snpVars, arpVars,
        testVars, seenVars
<1>1. CASE \E t \in Tests, c \in {"menu", "report"} : Begin(t, c)
  BY <1>1 DEF Begin
<1>2. CASE LookOnly \/ NotInitialized \/ Filters
  BY <1>2 DEF LookOnly, NotInitialized, Filters
<1>3. CASE Link
  BY <1>3 DEF Link, SenseLink, MediaUp, MediaDown, ProbeRefused, ProbeTaken
<1>4. CASE Frame \/ Overhear
  BY <1>4 DEF Frame, StartTransmit, NoMemory, FrameRefused, FrameTaken, Recycled, NotRecycled,
     ListenEnds, Overhear
<1>5. CASE Mnp \/ MnpDeliver
  BY <1>5 DEF Mnp, MnpOpen, MnpPolled, MnpTimeout, MnpLook, MnpCancel, MnpClose, MnpDeliver,
     MnpUnchanged
<1>6. CASE StartAsking \/ AskDriver \/ Caller \/ DriverAnswered \/ DriverSilent
  BY <1>6 DEF StartAsking, AskDriver, Caller, DriverAnswered, DriverSilent, ArpUnchanged,
     ArpOpen, ArpOpenFails, ArpConsume, ArpCaller, ArpRequest, ArpPolled, ArpPollsSpent,
     ArpCloseEvent, ArpWithdraw
<1>7. CASE AskFilters \/ AskRaw \/ RawAnswered \/ RawSilent \/ NobodyAnswers
  BY <1>7 DEF AskFilters, AskRaw, RawAnswered, RawSilent, NobodyAnswers, ArpUnchanged
<1>8. CASE Cycle
  BY <1>8 DEF Cycle, CycleDown, CycleUp, CycleFails, CycleUndo, CycleRestore, CycleOver, Takes,
     Tries, Judged, Then, Gives,
     CycleUnchanged
<1>9. CASE ArpTraffic \/ (Nic /\ UNCHANGED <<arpVars, testVars, seenVars>>)
  BY <1>9 DEF ArpTraffic, Nic, ArpDriver, ArpReply, ArpGiveUp
<1> QED
  BY <1>1, <1>2, <1>3, <1>4, <1>5, <1>6, <1>7, <1>8, <1>9
  DEF Next, Program, Firmware, Asking

LEMMA BusyKept ==
  ASSUME TypeOK, Kinds, Located, Busy, Next
  PROVE  Busy'
  BY OwnKept, NicKept, HeldKept, PartsKept DEF Busy

-----------------------------------------------------------------------------
(* What the test has done, and what it says *)

LEMMA DoneKept ==
  ASSUME Kinds, Located, Told, Next
  PROVE  (/\ stage \in Before => ~sent
          /\ stage \notin Before \cup Cycling \cup {"rest"} /\ test \in Transmitters => sent
          /\ stage = "await" => sent
          /\ stage \notin Undoing \cup Restoring \cup {"over", "rest"} => seen = {})'
<1> USE DEF Kinds, Located, Told, Before, Detects, Transmitters, Reception, Undoing, Restoring,
   Cycling, Live, Goto,
        Return, snpVars, arpVars, testVars, seenVars
<1>1. CASE \E t \in Tests, c \in {"menu", "report"} : Begin(t, c)
  BY <1>1 DEF Begin
<1>2. CASE LookOnly \/ NotInitialized \/ Filters
  BY <1>2 DEF LookOnly, NotInitialized, Filters
<1>3. CASE Link
  BY <1>3 DEF Link, SenseLink, MediaUp, MediaDown, ProbeRefused, ProbeTaken
<1>4. CASE Frame \/ Overhear
  BY <1>4 DEF Frame, StartTransmit, NoMemory, FrameRefused, FrameTaken, Recycled, NotRecycled,
     ListenEnds, Overhear
<1>5. CASE Mnp \/ MnpDeliver
  BY <1>5 DEF Mnp, MnpOpen, MnpPolled, MnpTimeout, MnpLook, MnpCancel, MnpClose, MnpDeliver,
     MnpUnchanged
<1>6. CASE StartAsking \/ AskDriver \/ Caller \/ DriverAnswered \/ DriverSilent
  BY <1>6 DEF StartAsking, AskDriver, Caller, DriverAnswered, DriverSilent, ArpUnchanged
<1>7. CASE AskFilters \/ AskRaw \/ RawAnswered \/ RawSilent \/ NobodyAnswers
  BY <1>7 DEF AskFilters, AskRaw, RawAnswered, RawSilent, NobodyAnswers, ArpUnchanged
<1>8. CASE Cycle
  BY <1>8 DEF Cycle, CycleDown, CycleUp, CycleFails, CycleUndo, CycleRestore, CycleOver, Takes,
     Tries, Judged, Then, Gives,
     CycleUnchanged
<1>9. CASE ArpTraffic \/ (Nic /\ UNCHANGED <<arpVars, testVars, seenVars>>)
  BY <1>9 DEF ArpTraffic, Nic
<1> QED
  BY <1>1, <1>2, <1>3, <1>4, <1>5, <1>6, <1>7, <1>8, <1>9
  DEF Next, Program, Firmware, Asking

\* Nothing is judged while a test runs, and nothing changes between two tests.
LEMMA RunningIs ==
  ASSUME stage' # "rest"
  PROVE  VerdictHonest' /\ CycleRestores'
  BY DEF VerdictHonest, CycleRestores, Done

LEMMA RestingIs ==
  ASSUME Kinds, Busy, Next, stage = "rest", stage' = "rest"
  PROVE  UNCHANGED <<snp, setup, test, verdict, origin, smooth, sent, seen, delivered, kept, stage>>
<1> USE DEF Busy, Reception, Goto, Return, snpVars, arpVars, testVars, seenVars
<1>1. CASE \E t \in Tests, c \in {"menu", "report"} : Begin(t, c)
  BY <1>1 DEF Begin
<1>2. CASE LookOnly \/ NotInitialized \/ Filters
  BY <1>2 DEF LookOnly, NotInitialized, Filters
<1>3. CASE Link
  BY <1>3 DEF Link, SenseLink, MediaUp, MediaDown, ProbeRefused, ProbeTaken
<1>4. CASE Frame \/ Overhear
  BY <1>4 DEF Frame, StartTransmit, NoMemory, FrameRefused, FrameTaken, Recycled, NotRecycled,
     ListenEnds, Overhear
<1>5. CASE Mnp \/ MnpDeliver
  BY <1>5 DEF Mnp, MnpOpen, MnpPolled, MnpTimeout, MnpLook, MnpCancel, MnpClose, MnpDeliver
<1>6. CASE Asking
  BY <1>6 DEF Asking, StartAsking, AskDriver, Caller, DriverAnswered, DriverSilent, AskFilters,
     AskRaw, RawAnswered, RawSilent, NobodyAnswers
<1>7. CASE Cycle
  BY <1>7 DEF Cycle, CycleDown, CycleUp, CycleFails, CycleUndo, CycleRestore, CycleOver, Takes,
     Tries, Judged
<1>8. CASE ArpTraffic \/ (Nic /\ UNCHANGED <<arpVars, testVars, seenVars>>)
  BY <1>8 DEF ArpTraffic, Nic
<1> QED
  BY <1>1, <1>2, <1>3, <1>4, <1>5, <1>6, <1>7, <1>8 DEF Next, Program, Firmware

LEMMA VerdictKept ==
  ASSUME Kinds, ArpTypeOK, Located, Busy, Counted, Cycled, Told, Next, stage # "rest", stage' = "rest"
  PROVE  VerdictHonest' /\ CycleRestores'
<1> USE DEF Kinds, Located, Busy, Counted, Cycled, Told, VerdictHonest, CycleRestores, Done,
        Before, Detects, Reception, Undoing, Restoring, Cycling, Live, Transmitters,
        NeedInitialized, Goto, Return, Sees
<1>1. CASE LookOnly
  BY <1>1 DEF LookOnly
<1>2. CASE NotInitialized
  BY <1>2 DEF NotInitialized
<1>3. CASE Filters
  BY <1>3 DEF Filters
<1>4. CASE MediaUp
  BY <1>4 DEF MediaUp
<1>5. CASE ProbeRefused
  <2>1. /\ UNCHANGED <<test, setup, origin, sent, seen>> /\ smooth' = FALSE
        /\ test \in Detects /\ origin = "initialized" /\ ~sent /\ seen = {}
    BY <1>5 DEF ProbeRefused
  <2>2. /\ test = "NicStatus" => verdict' = "WARN" /\ setup.media
        /\ test = "LinkDetect" => verdict' = IF setup.media THEN "FAIL" ELSE "WARN"
    BY <1>5 DEF ProbeRefused
  <2> QED
    BY <2>1, <2>2
<1>6. CASE NoMemory
  BY <1>6 DEF NoMemory
<1>7. CASE FrameRefused
  BY <1>7 DEF FrameRefused
<1>8. CASE Recycled
  BY <1>8 DEF Recycled, MtuVerdicts
<1>9. CASE NotRecycled
  BY <1>9 DEF NotRecycled, MtuVerdicts
<1>10. CASE ListenEnds
  BY <1>10 DEF ListenEnds
<1>11. CASE MnpClose
  BY <1>11 DEF MnpClose
<1>12. CASE DriverAnswered
  BY <1>12 DEF DriverAnswered, ArpTypeOK
<1>13. CASE RawAnswered \/ NobodyAnswers
  BY <1>13 DEF RawAnswered, NobodyAnswers
<1>14. CASE CycleDown \/ CycleUp \/ CycleFails
  BY <1>14 DEF CycleDown, CycleUp, CycleFails, Then, Gives, Judged, CycleUnchanged
<1>15. CASE CycleUndo \/ CycleRestore
  BY <1>15 DEF CycleUndo, CycleRestore, Then
<1>16. CASE CycleOver
  BY <1>16 DEF CycleOver, Gives, CycleUnchanged
<1>17. CASE (\E t \in Tests, c \in {"menu", "report"} : Begin(t, c)) \/ MnpDeliver \/ Overhear
            \/ ArpTraffic \/ (Nic /\ UNCHANGED <<arpVars, testVars, seenVars>>)
  BY <1>17 DEF Begin, MnpDeliver, MnpUnchanged, Overhear, ArpTraffic, testVars
<1>18. CASE SenseLink \/ MediaDown \/ ProbeTaken \/ StartTransmit \/ FrameTaken
  BY <1>18 DEF SenseLink, MediaDown, ProbeTaken, StartTransmit, FrameTaken
<1>19. CASE MnpOpen \/ MnpPolled \/ MnpTimeout \/ MnpLook \/ MnpCancel
  BY <1>19 DEF MnpOpen, MnpPolled, MnpTimeout, MnpLook, MnpCancel
<1>20. CASE StartAsking \/ AskDriver \/ Caller \/ DriverSilent \/ AskFilters \/ AskRaw \/ RawSilent
  BY <1>20 DEF StartAsking, AskDriver, Caller, DriverSilent, AskFilters, AskRaw, RawSilent, testVars
<1> QED
  BY <1>1, <1>2, <1>3, <1>4, <1>5, <1>6, <1>7, <1>8, <1>9, <1>10, <1>11, <1>12, <1>13, <1>14,
     <1>15, <1>16, <1>17, <1>18, <1>19, <1>20 DEF Next, Program, Firmware, Link, Frame, Mnp,
     Asking, Cycle

-----------------------------------------------------------------------------
(* The invariant *)

\* The histories that are truth values.
Booleans == smooth \in BOOLEAN /\ sent \in BOOLEAN

LEMMA BooleansNext ==
  ASSUME Booleans, Next
  PROVE  Booleans'
<1>1. smooth' \in BOOLEAN
  <2>1. smooth' \in {smooth, FALSE, TRUE}
    BY DEF Next, Begin, Program, LookOnly, NotInitialized, Filters, Firmware, Overhear, MnpDeliver,
       MnpUnchanged, ArpTraffic, seenVars, Link, SenseLink, MediaUp, MediaDown, ProbeRefused, ProbeTaken,
       Frame, StartTransmit, NoMemory, FrameRefused, FrameTaken, Recycled, NotRecycled, ListenEnds,
       Mnp, MnpOpen, MnpPolled, MnpTimeout, MnpLook, MnpCancel, MnpClose,
       Asking, StartAsking, AskDriver, Caller, DriverAnswered, DriverSilent, AskFilters, AskRaw,
       RawAnswered, RawSilent, NobodyAnswers,
       Cycle, CycleDown, CycleUp, CycleFails, CycleUndo, CycleRestore, CycleOver, Takes, Tries, Judged
  <2> QED
    BY <2>1 DEF Booleans
<1>2. sent' \in {sent, FALSE, TRUE}
  BY DEF Next, Begin, Program, LookOnly, NotInitialized, Filters, Firmware, Overhear, MnpDeliver,
     MnpUnchanged, ArpTraffic, seenVars, Link, SenseLink, MediaUp, MediaDown, ProbeRefused, ProbeTaken,
     Frame, StartTransmit, NoMemory, FrameRefused, FrameTaken, Recycled, NotRecycled, ListenEnds,
     Mnp, MnpOpen, MnpPolled, MnpTimeout, MnpLook, MnpCancel, MnpClose,
     Asking, StartAsking, AskDriver, Caller, DriverAnswered, DriverSilent, AskFilters, AskRaw,
     RawAnswered, RawSilent, NobodyAnswers,
     Cycle, CycleDown, CycleUp, CycleFails, CycleUndo, CycleRestore, CycleOver,
     Takes, Tries, Judged, Then, Gives, CycleUnchanged
<1> QED
  BY <1>1, <1>2 DEF Booleans

LEMMA TypesAre ==
  TypeOK <=> Kinds /\ ArpTypeOK /\ Booleans /\ frames <= MaxFrames /\ kept <= MaxFrames
  BY MaxFramesAssumption, SMT DEF TypeOK, Kinds, Booleans

LEMMA Accounted ==
  ASSUME NEW most \in Nat, NEW all \in 0..most, NEW a \in Nat, NEW b \in Nat, NEW t,
         all = a + b + (IF t = "frame" THEN 1 ELSE 0)
  PROVE  a <= most /\ b <= most
<1>1. CASE t = "frame"
  BY <1>1
<1>2. CASE t # "frame"
  BY <1>2
<1> QED
  BY <1>1, <1>2

LEMMA LinkingInit == Init => Linking
<1> SUFFICES ASSUME Init
             PROVE  Linking
  OBVIOUS
<1> USE DEF Init, SnpInit, ArpInit
<1>1. TypeOK
  <2>1. asks \in Seq(Questions)
    OBVIOUS
  <2>2. Kinds
    <3>1. test \in Tests /\ stage \in Stages
      BY DEF Tests, Stages
    <3>2. SnpTypeOK
      BY DEF SnpTypeOK
    <3>3. delivered \in 0..MaxFrames
      BY MaxFramesAssumption
    <3> QED
      BY <2>1, <3>1, <3>2, <3>3 DEF Kinds
  <2>3. ArpTypeOK /\ Booleans
    BY DEF ArpTypeOK, Booleans
  <2> QED
    BY <2>2, <2>3, TypesAre, MaxFramesAssumption
<1>2. Located /\ Busy
  BY DEF Located, Busy, ArpOwned, Undoing, Restoring, Cycling, Live, Reception
<1>3. Counted /\ Cycled
  BY DEF Counted, Before, Cycled, Undoing, Restoring, Cycling
<1>4. Told
  BY DEF Told, Before, Cycling, VerdictHonest, CycleRestores, Done, NeedInitialized, Transmitters
<1> QED
  BY <1>1, <1>2, <1>3, <1>4 DEF Linking

LEMMA LinkingNext == Linking /\ [Next]_vars => Linking'
<1> SUFFICES ASSUME Linking, [Next]_vars
             PROVE  Linking'
  OBVIOUS
<1>0. Kinds /\ ArpTypeOK /\ Booleans
  BY TypesAre DEF Linking
<1>1. CASE Next
  <2>1. Located' /\ Busy' /\ Counted' /\ Cycled' /\ Kinds' /\ ArpTypeOK' /\ Booleans'
    BY <1>0, <1>1, LocatedKept, BusyKept, CountedKept, CycledKept, KindsKept, PartsKept,
       BooleansNext
    DEF Linking
  <2>2. VerdictHonest' /\ CycleRestores'
    <3>1. CASE stage' # "rest"
      BY <3>1, RunningIs
    <3>2. CASE stage = "rest" /\ stage' = "rest"
      BY <1>0, <1>1, <3>2, RestingIs DEF Linking, Told, VerdictHonest, CycleRestores, Done
    <3>3. CASE stage # "rest" /\ stage' = "rest"
      BY <1>0, <1>1, <3>3, VerdictKept DEF Linking
    <3> QED
      BY <3>1, <3>2, <3>3
  <2>3. Told'
    BY <1>0, <1>1, <2>2, DoneKept DEF Linking, Told
  <2>4. frames' <= MaxFrames /\ kept' <= MaxFrames
    <3>1. delivered' = frames' + kept' + (IF token' = "frame" THEN 1 ELSE 0)
      BY <2>1 DEF Counted
    <3>2. frames' \in Nat /\ kept' \in Nat /\ delivered' \in 0..MaxFrames
      BY <2>1 DEF Kinds
    <3> QED
      BY <3>1, <3>2, MaxFramesAssumption, Accounted
  <2> QED
    BY <2>1, <2>3, <2>4, TypesAre DEF Linking, Kinds, ArpTypeOK, Booleans, TypeOK
<1>2. CASE UNCHANGED vars
  BY <1>2 DEF Linking, vars, snpVars, arpVars, testVars, seenVars, TypeOK, SnpTypeOK, ArpTypeOK,
     Located, Busy, ArpOwned, Counted, Cycled, Told, VerdictHonest, CycleRestores, Done
<1> QED
  BY <1>1, <1>2

LEMMA LinkingAlways == Spec => []Linking
  BY LinkingInit, LinkingNext, PTL DEF Spec

-----------------------------------------------------------------------------
(* What a step hands to the NIC, and what a step of a report leaves alone *)

LEMMA FramesLive ==
  ASSUME Kinds, Located, Busy, Next
  PROVE  \A b \in {"own", "stale"} : b \in ring' \ ring => stage \in Live
<1> USE DEF Located, Busy, Detects, Reception, Undoing, Restoring, Cycling, Live, Queue, Reported,
   Reset, Goto,
        Return, snpVars, arpVars, testVars, seenVars
<1>1. CASE \E t \in Tests, c \in {"menu", "report"} : Begin(t, c)
  BY <1>1 DEF Begin
<1>2. CASE LookOnly \/ NotInitialized \/ Filters
  BY <1>2, AbandonIs DEF LookOnly, NotInitialized, Filters
<1>3. CASE Link
  BY <1>3, AbandonIs DEF Link, SenseLink, MediaUp, MediaDown, ProbeRefused, ProbeTaken
<1>4. CASE Frame \/ Overhear
  BY <1>4, AbandonIs DEF Frame, StartTransmit, NoMemory, FrameRefused, FrameTaken, Recycled,
     NotRecycled, ListenEnds, Overhear
<1>5. CASE Mnp \/ MnpDeliver
  BY <1>5, AbandonIs DEF Mnp, MnpOpen, MnpPolled, MnpTimeout, MnpLook, MnpCancel, MnpClose,
     MnpDeliver, MnpUnchanged
<1>6. CASE StartAsking \/ AskDriver \/ Caller \/ DriverAnswered \/ DriverSilent
  BY <1>6, AbandonIs DEF StartAsking, AskDriver, Caller, DriverAnswered, DriverSilent,
     ArpUnchanged
<1>7. CASE AskFilters \/ AskRaw \/ RawAnswered \/ RawSilent \/ NobodyAnswers
  BY <1>7, AbandonIs DEF AskFilters, AskRaw, RawAnswered, RawSilent, NobodyAnswers, ArpUnchanged
<1>8. CASE Cycle
  BY <1>8, AbandonIs DEF Cycle, CycleDown, CycleUp, CycleFails, CycleUndo, CycleRestore,
     CycleOver, Takes, Tries, Judged, Then,
     Gives, CycleUnchanged
<1>9. CASE ArpTraffic \/ (Nic /\ UNCHANGED <<arpVars, testVars, seenVars>>)
  BY <1>9 DEF ArpTraffic, Nic
<1> QED
  BY <1>1, <1>2, <1>3, <1>4, <1>5, <1>6, <1>7, <1>8, <1>9
  DEF Next, Program, Firmware, Asking

\* The tests of a report neither reset the NIC nor ask a driver.
LEMMA GentleTests ==
  ASSUME NEW t \in Tests, ReportRuns(t)
  PROVE  t \in {"NicStatus", "LinkDetect", "LinkNegotiation", "MacAddressValid"}
  BY DEF ReportRuns, EstimatedTimeMs, Tests, RequiresTarget, Performance

LEMMA GentleIs ==
  ASSUME Kinds, Located, Busy, Next, caller = "report", stage # "rest"
  PROVE  UNCHANGED <<snp, request>> /\ token' = "none"
<1>0. /\ test \in {"NicStatus", "LinkDetect", "LinkNegotiation", "MacAddressValid"}
      /\ stage \in {"start", "media", "probe", "await"} /\ token = "none" /\ arp = "idle"
  BY GentleTests DEF Kinds, Located, Busy, Detects, Reception, Undoing, Restoring, Cycling, Live,
     Transmitters
<1> USE <1>0 DEF Busy, ArpOwned, Transmitters, NeedInitialized, Goto, Return, snpVars, arpVars, testVars,
        seenVars
<1>1. CASE \E t \in Tests, c \in {"menu", "report"} : Begin(t, c)
  BY <1>1 DEF Begin
<1>2. CASE LookOnly \/ NotInitialized \/ Filters
  BY <1>2 DEF LookOnly, NotInitialized, Filters
<1>3. CASE Link
  BY <1>3 DEF Link, SenseLink, MediaUp, MediaDown, ProbeRefused, ProbeTaken
<1>4. CASE Frame \/ Overhear
  BY <1>4 DEF Frame, StartTransmit, NoMemory, FrameRefused, FrameTaken, Recycled, NotRecycled,
     ListenEnds, Overhear
<1>5. CASE Mnp \/ MnpDeliver
  BY <1>5 DEF Mnp, MnpOpen, MnpPolled, MnpTimeout, MnpLook, MnpCancel, MnpClose, MnpDeliver,
     MnpUnchanged
<1>6. CASE StartAsking \/ AskDriver \/ Caller \/ DriverAnswered \/ DriverSilent
  BY <1>6 DEF StartAsking, AskDriver, Caller, DriverAnswered, DriverSilent, ArpUnchanged,
     ArpCaller, ArpRequest, ArpPolled, ArpPollsSpent, ArpCloseEvent, ArpWithdraw
<1>7. CASE AskFilters \/ AskRaw \/ RawAnswered \/ RawSilent \/ NobodyAnswers
  BY <1>7 DEF AskFilters, AskRaw, RawAnswered, RawSilent, NobodyAnswers, ArpUnchanged
<1>8. CASE Cycle
  BY <1>8 DEF Cycle, CycleDown, CycleUp, CycleFails, CycleUndo, CycleRestore, CycleOver, Takes,
     Tries, Judged, Then, Gives,
     CycleUnchanged
<1>9. CASE ArpTraffic \/ (Nic /\ UNCHANGED <<arpVars, testVars, seenVars>>)
  BY <1>9 DEF ArpTraffic, Nic, ArpDriver, ArpReply, ArpGiveUp
<1> QED
  BY <1>1, <1>2, <1>3, <1>4, <1>5, <1>6, <1>7, <1>8, <1>9
  DEF Next, Program, Firmware, Asking

-----------------------------------------------------------------------------

\* Every variable of the layer 1 and 2 tests keeps its type, and the program
\* never counts a frame more than were delivered.
THEOREM TypeOKAlways == Spec => []TypeOK
<1>1. Linking => TypeOK
  BY DEF Linking
<1> QED
  BY <1>1, LinkingAlways, PTL

\* The verdicts of layers 1 and 2 say what the NIC and the network did, as far
\* as the code looks: a link is up that the NIC reported, that took a frame, or,
\* in NicStatus, of which a NIC that cannot tell has said nothing.
THEOREM VerdictHonestAlways == Spec => []VerdictHonest
<1>1. Linking => VerdictHonest
  BY DEF Linking, Told
<1> QED
  BY <1>1, LinkingAlways, PTL

\* A cycle passes if and only if it has seen the NIC initialised; it leaves the
\* NIC as it found it unless a call failed, and unless a call of the restoring
\* failed wherever Initialize was tried.
THEOREM CycleRestoresAlways == Spec => []CycleRestores
<1>1. Linking => CycleRestores
  BY DEF Linking, Told
<1> QED
  BY <1>1, LinkingAlways, PTL

\* MNP and ARP hold nothing of a test that has returned, and no test loses more
\* than one of MNP's frames.
THEOREM DriversLetGoAlways == Spec => []DriversLetGo
<1>1. Linking => DriversLetGo
  BY DEF Linking, Located, Busy, ArpOwned, Counted, Kinds, TypeOK, Reception, DriversLetGo
<1> QED
  BY <1>1, LinkingAlways, PTL

\* No frame is handed to a NIC that is not initialised, by no test in no state.
THEOREM FramesNeedNicAlways == Spec => FramesNeedNic
<1>1. ASSUME Linking, [Next]_vars
      PROVE  [\A b \in {"own", "stale"} : b \in ring' \ ring => snp = "initialized"]_vars
  <2>1. CASE UNCHANGED vars
    BY <2>1
  <2>2. CASE Next
    <3>1. \A b \in {"own", "stale"} : b \in ring' \ ring => stage \in Live
      BY <1>1, <2>2, FramesLive, TypesAre DEF Linking
    <3> QED
      BY <1>1, <3>1 DEF Linking, Busy
  <2> QED
    BY <1>1, <2>1, <2>2
<1> QED
  BY <1>1, LinkingAlways, PTL DEF Spec, FramesNeedNic

\* A report changes neither the state of a NIC nor what a driver holds.
THEOREM ReportGentleAlways == Spec => ReportGentle
<1>1. ASSUME Linking, [Next]_vars
      PROVE  [caller = "report" /\ stage # "rest" =>
                UNCHANGED <<snp, request>> /\ token' = "none"]_vars
  <2>1. CASE UNCHANGED vars
    BY <2>1
  <2>2. CASE Next
    BY <1>1, <2>2, GentleIs, TypesAre DEF Linking
  <2> QED
    BY <1>1, <2>1, <2>2
<1> QED
  BY <1>1, LinkingAlways, PTL DEF Spec, ReportGentle

=============================================================================
