------------------------------ MODULE LinkTests ------------------------------
(***************************************************************************)
(* The layer 1 and layer 2 tests, Source/Layer1Physical.c and              *)
(* Source/Layer2DataLink.c, called by the test menu or by the report,      *)
(* Source/ReportExporter.c.  They work on the NIC itself (SnpNic), ask for *)
(* addresses through the ARP driver (ArpChild) and receive through MNP,    *)
(* while the firmware's stack goes on using the same NIC.                  *)
(***************************************************************************)
EXTENDS SnpNic, ArpChild, Naturals, Sequences

CONSTANTS
  Setups,      \* what a NIC and a configuration offer, see SetupsAssumption
  MaxFrames    \* bound: frames delivered to one test

ASSUME SetupsAssumption ==
  Setups \subseteq [media : BOOLEAN,      \* Mode->MediaPresentSupported
                    mnp : BOOLEAN,        \* Nic->HasMnp
                    arp : BOOLEAN,        \* Nic->HasArp
                    gateway : BOOLEAN,    \* Nic->Gateway is set
                    target : BOOLEAN,     \* Config->TargetIp is set
                    other : BOOLEAN]      \* Config->Gateway is set
ASSUME MaxFramesAssumption == MaxFrames \in Nat

VARIABLES
  setup, caller, test,
  stage,      \* what the test does next, "rest" when none runs
  asks,       \* the questions TestL2ArpRequestReply has left
  token,      \* MNP receive token: "none", "queued", "frame", "error"
  frames,     \* RxCount
  verdict,    \* Result->StatusCode
  origin,     \* history: snp when the test began
  smooth,     \* history: no call of the NIC has failed in this test
  sent,       \* history: the NIC has taken a frame of this test
  seen,       \* history: what the test has seen of the world
  delivered,  \* history: frames the firmware has delivered to this test
  kept        \* history: frames of MNP that were not given back

testVars == <<setup, caller, test, stage, asks, token, frames, verdict>>
seenVars == <<origin, smooth, sent, seen, delivered, kept>>
vars == <<snpVars, arpVars, testVars, seenVars>>

Tests == {"NicStatus", "LinkDetect", "NicInitCycle", "Loopback", "LinkNegotiation",
          "MacAddressValid", "ArpRequestReply", "ArpCache", "BroadcastFrame",
          "FrameTxRx", "MtuDetection", "ReceiveFilter"}
Transmitters == {"Loopback", "BroadcastFrame", "FrameTxRx", "MtuDetection"}
NeedInitialized == Transmitters \cup {"ArpRequestReply", "ReceiveFilter"}

Stages == {"rest", "start", "media", "probe", "await", "transmit", "listen",
           "mnp", "polling", "look", "cancel", "close", "ask", "answer", "raw",
           "stop", "startup", "initialize", "undo", "restart", "reinitialize",
           "restore", "lower", "over"}
Questions == {"gateway", "target", "other", "filters", "raw gateway", "raw target"}
Sights == {"media", "recycled", "mac", "zero", "reply", "filters",
           "initialized", "uninitialized", "refused"}

TypeOK ==
  /\ SnpTypeOK /\ ArpTypeOK
  /\ setup \in Setups
  /\ caller \in {"menu", "report"}
  /\ test \in Tests
  /\ stage \in Stages
  /\ asks \in Seq(Questions)
  /\ token \in {"none", "queued", "frame", "error"}
  /\ frames \in 0..MaxFrames
  /\ verdict \in {"none", "PASS", "WARN", "FAIL", "SKIP", "ERROR"}
  /\ origin \in {"stopped", "started", "initialized"}
  /\ smooth \in BOOLEAN /\ sent \in BOOLEAN
  /\ seen \in SUBSET Sights
  /\ delivered \in 0..MaxFrames /\ kept \in 0..MaxFrames

Init ==
  /\ SnpInit /\ ArpInit
  /\ setup \in Setups
  /\ caller = "menu"
  /\ test = "NicStatus"
  /\ stage = "rest"
  /\ asks = <<>>
  /\ token = "none"
  /\ frames = 0
  /\ verdict = "none"
  /\ origin = snp
  /\ smooth = TRUE /\ sent = FALSE
  /\ seen = {}
  /\ delivered = 0 /\ kept = 0

-----------------------------------------------------------------------------
(* Calling a test *)

\* What the registry says of the tests' duration and type.
EstimatedTimeMs ==
  [t \in Tests |-> CASE t \in {"NicStatus", "MacAddressValid"} -> 500
                     [] t \in {"LinkDetect", "LinkNegotiation"} -> 1000
                     [] t \in {"Loopback", "ArpCache", "BroadcastFrame"} -> 2000
                     [] t \in {"NicInitCycle", "FrameTxRx", "ReceiveFilter"} -> 3000
                     [] t = "MtuDetection" -> 5000
                     [] t = "ArpRequestReply" -> 7000]
RequiresTarget == {"FrameTxRx", "MtuDetection"}
Performance == {"MtuDetection"}

\* Slip: three seconds are short enough for a report.
ReportRunsLonger(t) ==
  ~(t \in RequiresTarget \/ EstimatedTimeMs[t] > 3000 \/ t \in Performance)

\* ReportRunTests passes over the other tests.
ReportRuns(t) ==
  ~(t \in RequiresTarget \/ EstimatedTimeMs[t] > 1000 \/ t \in Performance)

\* RunSingleTest, for a NIC that has the Simple Network Protocol.
Begin(t, c) ==
  /\ stage = "rest"
  /\ c = "report" => ReportRuns(t)
  /\ t \in RequiresTarget => setup.target
  /\ test' = t
  /\ caller' = c
  /\ stage' = "start"
  /\ verdict' = "none"
  /\ frames' = 0
  /\ origin' = snp
  /\ smooth' = TRUE /\ sent' = FALSE
  /\ seen' = {}
  /\ delivered' = 0 /\ kept' = 0
  /\ UNCHANGED <<setup, asks, token, snpVars, arpVars>>

\* The test returns with a verdict.
Return(v) ==
  /\ verdict' = v
  /\ stage' = "rest"
  /\ asks' = <<>>
  /\ Abandon
  /\ UNCHANGED <<setup, caller, test, token, origin, delivered, kept>>

Goto(s) ==
  /\ stage' = s
  /\ UNCHANGED <<setup, caller, test, asks, token, frames, verdict, origin, delivered, kept>>

Sees(sights) == seen' = seen \cup sights

-----------------------------------------------------------------------------
(* Tests that only look *)

\* TestL1LinkNegotiation, TestL2MacAddressValid and TestL2ArpCache: the values
\* of the mode data and of the address are good, odd or, for the address,
\* impossible.
LookOnly ==
  /\ stage = "start"
  /\ \/ /\ test = "LinkNegotiation"
        /\ \E v \in {"PASS", "WARN"} : Return(v)
     \/ /\ test = "MacAddressValid"
        /\ \E v \in {"PASS", "WARN", "FAIL"} : Return(v)
     \/ test = "ArpCache" /\ Return(IF setup.arp THEN "PASS" ELSE "WARN")
  /\ UNCHANGED <<snp, filter, arpVars, frames, smooth, sent, seen>>

\* The first lines of the tests that need an initialised NIC; of NicStatus and
\* LinkDetect.
NotInitialized ==
  /\ stage = "start"
  /\ snp # "initialized"
  /\ \/ test \in NeedInitialized /\ Return("SKIP")
     \/ test = "NicStatus" /\ Return(IF snp = "started" THEN "WARN" ELSE "FAIL")
     \/ test = "LinkDetect" /\ Return("WARN")
  /\ UNCHANGED <<snp, filter, arpVars, frames, smooth, sent, seen>>

-----------------------------------------------------------------------------
(* Link: PollMediaPresent and ProbeLinkViaTx *)

\* NicStatus polls whether or not the NIC can tell; LinkDetect only if it can.
SenseLink ==
  /\ stage = "start"
  /\ snp = "initialized"
  /\ test \in {"NicStatus", "LinkDetect"}
  /\ IF test = "LinkDetect" /\ ~setup.media
       THEN Goto("probe") /\ UNCHANGED filter
       ELSE Goto("media") /\ SetFilter
  /\ UNCHANGED <<snp, ring, recycled, arpVars, smooth, sent, seen>>

\* A NIC that cannot tell is up without having said anything.
MediaUp ==
  /\ stage = "media"
  /\ Return("PASS")
  /\ \/ setup.media /\ Sees({"media"})
     \/ ~setup.media /\ UNCHANGED seen
  /\ UNCHANGED <<snp, filter, arpVars, frames, smooth, sent>>

MediaDown ==
  /\ stage = "media"
  /\ setup.media
  /\ Goto("probe")
  /\ UNCHANGED <<snpVars, arpVars, smooth, sent, seen>>

ProbeRefused ==
  /\ stage = "probe"
  /\ Return(CASE test = "NicStatus" -> "WARN"
              [] test = "LinkDetect" /\ setup.media -> "FAIL"
              [] test = "LinkDetect" /\ ~setup.media -> "WARN")
  /\ smooth' = FALSE
  /\ UNCHANGED <<snp, filter, arpVars, frames, sent, seen>>

\* Up whether or not the buffer is reported within 40 polls.
ProbeTaken ==
  /\ stage = "probe"
  /\ Queue("own")
  /\ sent' = TRUE
  /\ Goto("await")
  /\ UNCHANGED <<snp, filter, recycled, arpVars, smooth, seen>>

-----------------------------------------------------------------------------
(* Frames: Loopback, BroadcastFrame, FrameTxRx, MtuDetection *)

\* Slip: without the first lines of the test.
StartTransmitAnyState ==
  /\ stage = "start"
  /\ test \in Transmitters
  /\ Goto("transmit")
  /\ UNCHANGED <<snpVars, arpVars, smooth, sent, seen>>

\* FrameTxRx sets the filters first.
StartTransmit ==
  /\ stage = "start"
  /\ snp = "initialized"
  /\ test \in Transmitters
  /\ IF test = "FrameTxRx" THEN SetFilter ELSE UNCHANGED filter
  /\ Goto("transmit")
  /\ UNCHANGED <<snp, ring, recycled, arpVars, smooth, sent, seen>>

\* MtuDetection finds no memory for its frame.
NoMemory ==
  /\ stage = "start"
  /\ snp = "initialized"
  /\ test = "MtuDetection"
  /\ Return("ERROR")
  /\ UNCHANGED <<snp, filter, arpVars, frames, smooth, sent, seen>>

FrameRefused ==
  /\ stage = "transmit"
  /\ Return(IF test = "MtuDetection" THEN "WARN" ELSE "FAIL")
  /\ smooth' = FALSE
  /\ UNCHANGED <<snp, filter, arpVars, frames, sent, seen>>

FrameTaken ==
  /\ stage = "transmit"
  /\ Queue("own")
  /\ sent' = TRUE
  /\ Goto(IF test # "FrameTxRx" THEN "await"
          ELSE IF setup.mnp THEN "mnp" ELSE "listen")
  /\ UNCHANGED <<snp, filter, recycled, arpVars, smooth, seen>>

\* A frame of the largest size has gone out; that size is standard or less.
MtuVerdicts == {"PASS", "WARN"}

\* GetStatus reports a buffer, whoever's it is.
Recycled ==
  /\ stage = "await"
  /\ \E b \in recycled :
       LET rest == recycled \ {b}
       IN /\ recycled' = {IF o = "own" THEN "stale" ELSE o : o \in rest}
          /\ ring' = {IF o = "own" THEN "stale" ELSE o : o \in ring}
  /\ \E v \in MtuVerdicts :
       /\ test # "MtuDetection" => v = "PASS"
       /\ verdict' = v
  /\ stage' = "rest"
  /\ Sees({"recycled"})
  /\ UNCHANGED <<setup, caller, test, asks, token, frames, origin, delivered, kept,
                 snp, filter, arpVars, smooth, sent>>

\* Slip: a frame that was not seen to leave is not sent.
NotRecycledFails ==
  /\ stage = "await"
  /\ Return("FAIL")
  /\ UNCHANGED <<snp, filter, arpVars, frames, smooth, sent, seen>>

NotRecycled ==
  /\ stage = "await"
  /\ \E v \in MtuVerdicts :
       Return(CASE test = "Loopback" -> "WARN"
                [] test = "MtuDetection" -> v
                [] OTHER -> "PASS")
  /\ UNCHANGED <<snp, filter, arpVars, frames, smooth, sent, seen>>

\* Snp->Receive, for two seconds.
Overhear ==
  /\ stage = "listen"
  /\ delivered < MaxFrames
  /\ delivered' = delivered + 1
  /\ frames' = frames + 1
  /\ UNCHANGED <<setup, caller, test, stage, asks, token, verdict, origin, kept,
                 snpVars, arpVars, smooth, sent, seen>>

ListenEnds ==
  /\ stage = "listen"
  /\ Return(IF frames > 0 THEN "PASS" ELSE "WARN")
  /\ UNCHANGED <<snp, filter, arpVars, frames, smooth, sent, seen>>

-----------------------------------------------------------------------------
(* TryReceiveViaMnp *)

MnpUnchanged == UNCHANGED <<setup, caller, test, asks, verdict, origin, smooth,
                            sent, seen, snpVars, arpVars>>

MnpOpen ==
  /\ stage = "mnp"
  /\ \/ token' = "queued" /\ stage' = "polling"
     \/ stage' = "listen" /\ UNCHANGED token
  /\ UNCHANGED <<frames, delivered, kept>>
  /\ MnpUnchanged

\* The driver, in Poll or from its timer event.
MnpDeliver ==
  /\ token = "queued"
  /\ \/ /\ delivered < MaxFrames
        /\ token' = "frame"
        /\ delivered' = delivered + 1
     \/ token' = "error" /\ UNCHANGED delivered
  /\ UNCHANGED <<stage, frames, kept>>
  /\ MnpUnchanged

\* A frame is counted and its buffer given back; the token is queued again,
\* unless Receive refuses it.
MnpPolled ==
  /\ stage = "polling"
  /\ token \in {"frame", "error"}
  /\ frames' = IF token = "frame" THEN frames + 1 ELSE frames
  /\ \/ token' = "queued" /\ UNCHANGED stage
     \/ token' = "none" /\ stage' = "look"
  /\ UNCHANGED <<delivered, kept>>
  /\ MnpUnchanged

MnpTimeout ==
  /\ stage = "polling"
  /\ stage' = "look"
  /\ UNCHANGED <<token, frames, delivered, kept>>
  /\ MnpUnchanged

\* The last look at the token; a frame that has come since the loop, or comes
\* before Cancel, is lost to the test and to the driver's pool.
MnpLook ==
  /\ stage = "look"
  /\ stage' = IF token \in {"queued", "none"} THEN "cancel" ELSE "close"
  /\ UNCHANGED <<token, frames, delivered, kept>>
  /\ MnpUnchanged

MnpCancel ==
  /\ stage = "cancel"
  /\ token' = IF token = "queued" THEN "none" ELSE token
  /\ stage' = "close"
  /\ UNCHANGED <<frames, delivered, kept>>
  /\ MnpUnchanged

\* Configure(NULL), CloseEvent, DestroyChild; without a frame the test goes on
\* to listen on the NIC itself.
MnpClose ==
  /\ stage = "close"
  /\ kept' = IF token = "frame" THEN kept + 1 ELSE kept
  /\ token' = "none"
  /\ IF frames > 0
       THEN /\ stage' = "rest"
            /\ verdict' = "PASS"
            /\ Abandon
       ELSE stage' = "listen" /\ UNCHANGED <<verdict, ring, recycled>>
  /\ UNCHANGED <<setup, caller, test, asks, frames, origin, smooth, sent, seen,
                 delivered, snp, filter, arpVars>>

-----------------------------------------------------------------------------
(* TestL2ArpRequestReply *)

\* Through the driver, the NIC's gateway, the target and the configured gateway;
\* then on the NIC itself, after its filters are set, the first two again.
Asked(question, wanted) == IF wanted THEN <<question>> ELSE <<>>

Plan ==
  Asked("gateway", setup.arp /\ setup.gateway) \o Asked("target", setup.arp /\ setup.target)
    \o Asked("other", setup.arp /\ setup.other) \o <<"filters">>
    \o Asked("raw gateway", setup.gateway) \o Asked("raw target", setup.target)

ArpUnchanged == UNCHANGED <<setup, caller, test, token, frames, verdict, origin,
                            delivered, kept>>

StartAsking ==
  /\ stage = "start"
  /\ snp = "initialized"
  /\ test = "ArpRequestReply"
  /\ asks' = Plan
  /\ stage' = "ask"
  /\ UNCHANGED <<snpVars, arpVars, smooth, sent, seen>>
  /\ ArpUnchanged

AskDriver ==
  /\ stage = "ask"
  /\ asks # <<>>
  /\ Head(asks) \in {"gateway", "target", "other"}
  /\ ArpOpen \/ ArpOpenFails
  /\ stage' = "answer"
  /\ UNCHANGED <<asks, snpVars, smooth, sent, seen>>
  /\ ArpUnchanged

Caller == ArpCaller /\ UNCHANGED <<snpVars, testVars, seenVars>>
ArpTraffic == ArpDriver /\ UNCHANGED <<snpVars, testVars, seenVars>>

\* TryArpViaProtocol has returned; whatever signalled the event resolves.
DriverAnswered ==
  /\ stage = "answer"
  /\ resolved = "SUCCESS"
  /\ ArpConsume
  /\ Sees({address})
  /\ Return("PASS")
  /\ UNCHANGED <<snp, filter, frames, smooth, sent>>

DriverSilent ==
  /\ stage = "answer"
  /\ resolved # "SUCCESS"
  /\ ArpConsume
  /\ asks' = Tail(asks)
  /\ stage' = "ask"
  /\ UNCHANGED <<snpVars, smooth, sent, seen>>
  /\ ArpUnchanged

AskFilters ==
  /\ stage = "ask"
  /\ asks # <<>>
  /\ Head(asks) = "filters"
  /\ SetFilter
  /\ asks' = Tail(asks)
  /\ UNCHANGED <<stage, snp, ring, recycled, arpVars, smooth, sent, seen>>
  /\ ArpUnchanged

\* TryArpViaSnp, whose transmit buffer ends with it.
AskRaw ==
  /\ stage = "ask"
  /\ asks # <<>>
  /\ Head(asks) \in {"raw gateway", "raw target"}
  /\ asks' = Tail(asks)
  /\ \/ smooth' = FALSE /\ UNCHANGED <<stage, ring, sent>>
     \/ /\ Queue("own")
        /\ sent' = TRUE
        /\ stage' = "raw"
        /\ UNCHANGED smooth
  /\ UNCHANGED <<snp, filter, recycled, arpVars, seen>>
  /\ ArpUnchanged

RawAnswered ==
  /\ stage = "raw"
  /\ Sees({"reply"})
  /\ Return("PASS")
  /\ UNCHANGED <<snp, filter, arpVars, frames, smooth, sent>>

RawSilent ==
  /\ stage = "raw"
  /\ Abandon
  /\ stage' = "ask"
  /\ UNCHANGED <<asks, snp, filter, arpVars, smooth, sent, seen>>
  /\ ArpUnchanged

NobodyAnswers ==
  /\ stage = "ask"
  /\ asks = <<>>
  /\ Return("WARN")
  /\ UNCHANGED <<snp, filter, arpVars, frames, smooth, sent, seen>>

-----------------------------------------------------------------------------
(* TestL1NicInitCycle and TestL2ReceiveFilter *)

CycleUnchanged == UNCHANGED <<arpVars, frames, sent>>

Then(s) ==
  /\ Goto(s)
  /\ CycleUnchanged

Gives(v) ==
  /\ Return(v)
  /\ CycleUnchanged

\* Shutdown, Stop, Start or Initialize, which take the NIC from one state to
\* the next and fail in any other; and such a call of which nobody looks at the
\* status.
Takes(from, to) ==
  /\ snp = from
  /\ snp' = to
  /\ IF from = "initialized" THEN Reset ELSE UNCHANGED <<filter, ring, recycled>>

Tries(from, to) ==
  \/ Takes(from, to) /\ UNCHANGED <<smooth, seen>>
  \/ UNCHANGED snpVars /\ smooth' = FALSE /\ Sees({"refused"})

\* Shutdown and Stop, each only in the state that calls for it.
CycleDown ==
  /\ \/ /\ stage = "start" /\ test = "NicInitCycle"
        /\ Takes("initialized", "started") \/ (snp # "initialized" /\ UNCHANGED snpVars)
        /\ Then("stop")
     \/ /\ stage = "stop"
        /\ Takes("started", "stopped") \/ (snp # "started" /\ UNCHANGED snpVars)
        /\ Then("startup")
  /\ UNCHANGED <<smooth, seen>>

\* The verdict is written before the original state is restored.
Judged(v, s) ==
  /\ verdict' = v
  /\ stage' = s
  /\ UNCHANGED <<setup, caller, test, asks, token, origin, delivered, kept>>
  /\ CycleUnchanged

\* Start and Initialize; the state is looked at afterwards, and a NIC that says
\* it was initialised and is not fails.
CycleUp ==
  \/ /\ stage = "startup"
     /\ Takes("stopped", "started")
     /\ Then("initialize")
     /\ UNCHANGED <<smooth, seen>>
  \/ /\ stage = "initialize"
     /\ Takes("started", "initialized")
     /\ Judged("PASS", IF origin = "initialized" THEN "over" ELSE "restore")
     /\ Sees({"initialized"})
     /\ UNCHANGED smooth
  \/ /\ stage = "initialize"
     /\ Gives("FAIL")
     /\ smooth' = FALSE
     /\ UNCHANGED <<snp, filter, seen>>

\* A call fails: the test returns as things are, except after Initialize.
CycleFails ==
  /\ smooth' = FALSE
  /\ \/ /\ \/ stage = "start" /\ test = "NicInitCycle" /\ snp = "initialized"
           \/ stage = "stop" /\ snp = "started"
           \/ stage = "startup"
        /\ Gives("FAIL")
        /\ UNCHANGED <<snp, filter, seen>>
     \/ /\ stage = "initialize"
        /\ Judged("FAIL", "undo")
        /\ Sees({"uninitialized"})
        /\ UNCHANGED snpVars

\* Initialize has failed: Stop, and up again to the original state.
CycleUndo ==
  \/ /\ stage = "undo"
     /\ Tries("started", "stopped")
     /\ Then(IF origin = "stopped" THEN "over" ELSE "restart")
  \/ /\ stage = "restart"
     /\ Tries("stopped", "started")
     /\ Then(IF origin = "initialized" THEN "reinitialize" ELSE "over")
  \/ /\ stage = "reinitialize"
     /\ Tries("started", "initialized")
     /\ Then("over")

\* Slip: a NIC that was found stopped is only shut down.
CycleRestoreStarted ==
  /\ stage = "restore"
  /\ Tries("initialized", "started")
  /\ Then("over")

\* The cycle has passed: Shutdown and, for a NIC that was stopped, Stop.
CycleRestore ==
  \/ /\ stage = "restore"
     /\ Tries("initialized", "started")
     /\ Then(IF origin = "stopped" THEN "lower" ELSE "over")
  \/ /\ stage = "lower"
     /\ Tries("started", "stopped")
     /\ Then("over")

\* The test returns with the verdict it has written.
CycleOver ==
  /\ stage = "over"
  /\ Gives(verdict)
  /\ UNCHANGED <<snp, filter, smooth, seen>>

Filters ==
  /\ stage = "start"
  /\ snp = "initialized"
  /\ test = "ReceiveFilter"
  /\ \/ /\ filter' = TRUE
        /\ Sees({"filters"})
        /\ Return("PASS")
     \/ /\ UNCHANGED <<filter, seen>>
        /\ Return("WARN")
  /\ UNCHANGED <<snp, arpVars, frames, smooth, sent>>

-----------------------------------------------------------------------------

Link == SenseLink \/ MediaUp \/ MediaDown \/ ProbeRefused \/ ProbeTaken

Frame ==
  \/ StartTransmit \/ NoMemory \/ FrameRefused \/ FrameTaken
  \/ Recycled \/ NotRecycled \/ ListenEnds

Mnp == MnpOpen \/ MnpPolled \/ MnpTimeout \/ MnpLook \/ MnpCancel \/ MnpClose

Asking ==
  \/ StartAsking \/ AskDriver \/ Caller \/ DriverAnswered \/ DriverSilent
  \/ AskFilters \/ AskRaw \/ RawAnswered \/ RawSilent \/ NobodyAnswers

Cycle ==
  \/ CycleDown \/ CycleUp \/ CycleFails
  \/ CycleUndo \/ CycleRestore \/ CycleOver

Program == LookOnly \/ NotInitialized \/ Link \/ Frame \/ Mnp \/ Asking \/ Cycle \/ Filters

Firmware ==
  \/ Nic /\ UNCHANGED <<arpVars, testVars, seenVars>>
  \/ Overhear \/ MnpDeliver \/ ArpTraffic

Next ==
  \/ \E t \in Tests, c \in {"menu", "report"} : Begin(t, c)
  \/ Program
  \/ Firmware

Spec == Init /\ [][Next]_vars

-----------------------------------------------------------------------------

Done(t) == stage = "rest" /\ test = t /\ verdict # "none"

\* The verdicts tell what the NIC and the network did.  A link is up if the NIC
\* said so or took a frame; NicStatus also passes every initialised NIC that
\* cannot tell, about which nothing is known.  A frame test passes on what was
\* delivered to the program, not on what it lost, an address is resolved when
\* the driver's event was signalled or any reply was overheard, and nothing is
\* judged on a NIC that is not initialised.  That is what the code does; where
\* its headers promise more, the formula follows the code.  NicStatus wants the
\* media present (Layer1Physical.c:117), LinkDetect promises WARN where the
\* detection is not supported and FAIL where the media is not present (197-198)
\* and passes both if the NIC takes a frame, Loopback passes on a buffer of
\* anybody's (396).  ArpRequestReply wants a valid MAC and fails where nothing
\* can be sent (Layer2DataLink.c:344-346): it passes on zeros and warns;
\* FrameTxRx counts any frame as the response (791), MtuDetection warns where
\* its frame is refused (926), and ReceiveFilter never fails (1034).
VerdictHonest ==
  /\ Done("NicStatus") =>
       (verdict = "PASS" <=>
          origin = "initialized" /\ (sent \/ "media" \in seen \/ ~setup.media))
  /\ Done("LinkDetect") =>
       /\ verdict = "PASS" <=> sent \/ "media" \in seen
       /\ verdict = "FAIL" => setup.media /\ ~smooth
  /\ Done("Loopback") =>
       /\ verdict = "PASS" <=> "recycled" \in seen
       /\ verdict = "FAIL" <=> origin = "initialized" /\ ~sent
  /\ Done("BroadcastFrame") => (verdict = "PASS" <=> sent)
  /\ Done("FrameTxRx") =>
       /\ verdict = "PASS" <=> delivered > kept
       /\ verdict = "FAIL" <=> origin = "initialized" /\ ~sent
  /\ Done("MtuDetection") => (verdict = "PASS" => sent)
  /\ Done("ReceiveFilter") => (verdict = "PASS" <=> "filters" \in seen)
  /\ Done("ArpRequestReply") =>
       (verdict = "PASS" <=> seen \cap {"mac", "zero", "reply"} # {})
  /\ test \in NeedInitialized /\ origin # "initialized" /\ stage = "rest" => verdict = "SKIP"

\* No driver holds a token, a request or an event of a test that has returned,
\* nor of one question when the next is asked, however the waits ended; and of
\* all the frames that MNP delivers, at whatever moment, at most the one that
\* comes after the last look at the token is not given back.
DriversLetGo ==
  /\ stage \in {"rest", "start", "ask", "listen"} => token = "none" /\ arp = "idle"
  /\ arp = "idle" => request = "none"
  /\ kept <= 1

\* Whatever tests were run before, in whatever state they left the NIC, frames
\* are handed to an initialised NIC only.
FramesNeedNic == [][\A b \in {"own", "stale"} : b \in ring' \ ring => snp = "initialized"]_vars

\* The cycle passes exactly when it has seen the NIC initialised, and if all its
\* calls succeed it does, and leaves the NIC in the state it found it in.  Once
\* Initialize has been tried, with or without success, the NIC is in that state
\* again unless one of the calls that restore it was refused, which the test
\* does not report; and no cycle that fails leaves a NIC initialised that was
\* not.
CycleRestores ==
  Done("NicInitCycle") =>
    /\ verdict = "PASS" <=> "initialized" \in seen
    /\ smooth => verdict = "PASS" /\ snp = origin
    /\ seen \cap {"initialized", "uninitialized"} # {} /\ "refused" \notin seen => snp = origin
    /\ verdict = "FAIL" /\ snp = "initialized" => origin = "initialized"

\* What a report runs leaves the NIC in its state and asks no driver for
\* anything, whatever state it is in.
ReportGentle == [][caller = "report" /\ stage # "rest" =>
                     UNCHANGED <<snp, request>> /\ token' = "none"]_vars

=============================================================================
