------------------------------- MODULE EchoProbe -------------------------------
(***************************************************************************)
(* The echo tests of the main screen: RunProtocolEchoTest of Source/Main.c *)
(* probes the companion once a second by ARP, ICMP, UDP or TCP, until ESC  *)
(* is pressed, through ProbeExecuteOnce of Source/ProtocolProbe.c.  A probe *)
(* makes a child of a firmware driver, exchanges one echo through it       *)
(* (ArpChild, IcmpChild, TokenIo) and gives it back; its result goes to    *)
(* the statistics (ProbeStats).                                            *)
(***************************************************************************)
EXTENDS ProbeStats, ArpChild, IcmpChild, TokenIo

CONSTANTS
  Protocols,    \* those that ProbeIsAvailable finds
  MaxProbes,    \* bound: probes of one test
  MaxOwed       \* bound: echoes on their way

ASSUME ProtocolsAssumption == Protocols \subseteq {"ARP", "ICMP", "UDP", "TCP"}
ASSUME BoundsAssumption == MaxProbes \in Nat /\ MaxOwed \in Nat
ASSUME OutcomesAssumption == Outcomes = {"SUCCESS", "EMPTY", "WRONG", "ERROR", "ABORTED"}

VARIABLES
  protocol,   \* Stats.Protocol
  stage,      \* what the probe does next; "menu" without a test, "shown" between probes
  child,      \* a UDP4 or TCP4 child exists
  answer,     \* Status of the TCP probe until its connection is closed
  status,     \* what the probe returned, "none" until it has
  filter,     \* the NIC has been told the filters of a probe, in place of the stack's
  ring,       \* whose frames the NIC still reads: "own", of the probe that runs, and
              \* "stale", of one that has returned and its stack frame with it
  inbox,      \* the NIC's received frame: "empty", "reply" to the request of the
              \* probe that runs, or "stray", an ARP reply to anybody else
  owed,       \* requests, of any probe, that may yet be echoed
  left,       \* history: a request of this probe has left
  reach,      \* history: what reached this probe, see Reaches
  missed      \* history: one of this probe's waits ran out

\* An "echo" is what the network has sent back, to this request or an earlier one;
\* "hollow" is an answer of the driver without one, or a stray reply.
Reaches == {"nothing", "echo", "hollow"}

childVars == <<arpVars, icmpVars, ioVars>>
nicVars == <<filter, ring, inbox>>
probeVars == <<protocol, stage, child, answer, status>>
wireVars == <<owed, left, reach, missed>>
vars == <<statsVars, childVars, nicVars, probeVars, wireVars>>

TypeOK ==
  /\ StatsTypeOK /\ ArpTypeOK /\ IcmpTypeOK /\ IoTypeOK
  /\ protocol \in Protocols
  /\ stage \in {"menu", "start", "arp", "raw", "overhear", "icmp", "transmit", "listen",
                "connect", "send", "receive", "close", "destroy", "record", "shown"}
  /\ child \in BOOLEAN
  /\ answer \in {"none", "SUCCESS", "TIMEOUT", "ERROR"}
  /\ status \in {"none", "SUCCESS", "TIMEOUT", "ERROR"}
  /\ owed \in 0..MaxOwed
  /\ filter \in BOOLEAN
  /\ ring \in SUBSET {"own", "stale"}
  /\ inbox \in {"empty", "reply", "stray"}
  /\ left \in BOOLEAN /\ reach \in Reaches /\ missed \in BOOLEAN

Init ==
  /\ StatsInit /\ ArpInit /\ IcmpInit /\ IoInit
  /\ protocol \in Protocols
  /\ stage = "menu"
  /\ child = FALSE
  /\ answer = "none" /\ status = "none"
  /\ filter = FALSE /\ ring = {} /\ inbox = "empty"
  /\ owed = 0
  /\ left = FALSE /\ reach = "nothing" /\ missed = FALSE

-----------------------------------------------------------------------------
(* The test *)

NewProbe ==
  /\ stage' = "start"
  /\ answer' = "none" /\ status' = "none"
  /\ left' = FALSE /\ reach' = "nothing" /\ missed' = FALSE

\* A key of the main screen.
Begin(p) ==
  /\ stage = "menu"
  /\ protocol' = p
  /\ ProbeInit
  /\ NewProbe
  /\ UNCHANGED <<child, owed, childVars, nicVars>>

\* A second has passed without ESC.
Again ==
  /\ stage = "shown"
  /\ sent < MaxProbes
  /\ NewProbe
  /\ UNCHANGED <<statsVars, protocol, child, owed, childVars, nicVars>>

Escape ==
  /\ stage = "shown"
  /\ stage' = "menu"
  /\ UNCHANGED <<statsVars, protocol, child, answer, status, wireVars, childVars, nicVars>>

Goto(s) == stage' = s /\ UNCHANGED <<protocol, child, answer, status>>

Return(s) ==
  /\ stage' = "record"
  /\ status' = s
  /\ UNCHANGED <<protocol, answer>>

Result ==
  CASE status = "SUCCESS" -> "PASS"
    [] status = "TIMEOUT" -> "TIMEOUT"
    [] status = "ERROR" -> "FAIL"

\* The end of ProbeExecuteOnce; the screen is drawn again.
Record ==
  /\ stage = "record"
  /\ ProbeRecordResult(Result)
  /\ stage' = "shown"
  /\ UNCHANGED <<protocol, child, answer, status, wireVars, childVars, nicVars>>

-----------------------------------------------------------------------------
(* The network *)

Leaves ==
  /\ left' = TRUE
  /\ owed' = IF owed < MaxOwed THEN owed + 1 ELSE owed

\* Something arrives; late is what nobody waits for any more.
Arrives(what, late) ==
  /\ what = "echo" => owed > 0
  /\ owed' = IF what = "echo" THEN owed - 1 ELSE owed
  /\ reach' = IF late THEN reach ELSE what

-----------------------------------------------------------------------------
(* ProbeArpViaProtocol and ProbeArpViaSnp *)

ArpKept == UNCHANGED <<statsVars, icmpVars, ioVars, owed, left>>

\* The driver is asked first, if there is one; else there is a NIC to use.
ArpProbe ==
  /\ stage = "start"
  /\ protocol = "ARP"
  /\ \/ (ArpOpen \/ ArpOpenFails) /\ Goto("arp")
     \/ Goto("raw") /\ UNCHANGED arpVars
  /\ UNCHANGED <<reach, missed, nicVars>>
  /\ ArpKept

\* An address that Request still finds in its cache, although the probe has had it
\* deleted, comes from no reply to this probe.
ArpWork ==
  /\ ArpCaller
  /\ reach' = IF arp = "asking" /\ resolved' = "SUCCESS" THEN "hollow" ELSE reach
  /\ missed' = (missed \/ (arp = "polling" /\ request = "pending"))
  /\ UNCHANGED <<probeVars, nicVars>>
  /\ ArpKept

\* The event is signalled for a reply and for a request given up alike.
ArpNetwork ==
  /\ \/ ArpReply /\ reach' = IF arp = "polling" THEN "echo" ELSE reach
     \/ ArpGiveUp /\ reach' = IF arp = "polling" THEN "hollow" ELSE reach
  /\ UNCHANGED <<missed, probeVars, nicVars>>
  /\ ArpKept

\* An error of the driver's way leads to the NIC, if that can be used.
ArpReturned ==
  /\ stage = "arp"
  /\ \/ resolved = "SUCCESS" /\ Return("SUCCESS") /\ UNCHANGED child
     \/ resolved # "SUCCESS" /\ Goto("raw")
     \/ resolved = "TIMEOUT" /\ Return("TIMEOUT") /\ UNCHANGED child
     \/ resolved \in {"ERROR", "UNSUPPORTED"} /\ Return("ERROR") /\ UNCHANGED child
  /\ ArpConsume
  /\ UNCHANGED <<reach, missed, nicVars>>
  /\ ArpKept

\* The probe replaces the NIC's filters, which are not put back, and hands it a
\* frame on its own stack.  A reply that lies there already will do.
ArpByHand ==
  /\ stage = "raw"
  /\ filter' = TRUE
  /\ \/ Return("ERROR") /\ UNCHANGED <<child, ring, reach>>
     \/ /\ Goto("overhear")
        /\ ring' = ring \cup {"own"}
        /\ reach' = IF inbox = "empty" THEN reach ELSE "hollow"
  /\ UNCHANGED <<arpVars, inbox, missed>>
  /\ ArpKept

\* Any ARP reply passes.  The frame that was sent may be in the NIC's ring still:
\* GetStatus is never asked.
ArpOverheard ==
  /\ stage = "overhear"
  /\ \/ inbox # "empty" /\ Return("SUCCESS") /\ UNCHANGED missed
     \/ inbox = "empty" /\ Return("TIMEOUT") /\ missed' = TRUE
  /\ inbox' = "empty"
  /\ ring' = {"stale" : b \in ring}
  /\ UNCHANGED <<arpVars, child, filter, reach>>
  /\ ArpKept

\* The NIC sends a frame, and the stack, which polls it, collects the buffer.
NicSends ==
  /\ \E b \in ring : ring' = ring \ {b}
  /\ UNCHANGED <<arpVars, filter, inbox, probeVars, reach, missed>>
  /\ ArpKept

\* A reply that the stack leaves to the probe; between two probes the stack takes it
\* or it is there for the next.
NicReceives ==
  /\ \/ /\ stage = "overhear" /\ inbox = "empty"
        /\ \/ inbox' = "reply" /\ reach' = "echo"
           \/ inbox' = "stray" /\ reach' = "hollow"
     \/ /\ stage = "shown" /\ protocol = "ARP"
        /\ inbox' \in {"empty", "stray"}
        /\ UNCHANGED reach
  /\ UNCHANGED <<arpVars, filter, ring, probeVars, missed>>
  /\ ArpKept

-----------------------------------------------------------------------------
(* ProbeIcmpViaIp4, whose buffer is on the stack *)

IcmpProbe ==
  /\ stage = "start"
  /\ protocol = "ICMP"
  /\ IcmpOpen
  /\ Goto("icmp")
  /\ UNCHANGED <<statsVars, arpVars, ioVars, nicVars, wireVars>>

IcmpWork ==
  /\ IcmpCaller(FALSE, FALSE)
  /\ missed' = (missed \/ icmp = "cancelling")
  /\ UNCHANGED <<statsVars, arpVars, ioVars, nicVars, probeVars, owed, left, reach>>

Weight(message) ==
  CASE message = "echo" -> "echo"
    [] message = "empty" -> "hollow"
    [] OTHER -> "nothing"

IcmpNetwork ==
  /\ \/ /\ IcmpDriver
        /\ IF tx' = "sent" THEN Leaves ELSE UNCHANGED <<left, owed>>
        /\ UNCHANGED reach
     \/ /\ \E message \in Received :
             /\ IcmpDeliver(message)
             /\ Arrives(Weight(message), icmp # "listening")
        /\ UNCHANGED left
  /\ UNCHANGED <<statsVars, arpVars, ioVars, nicVars, probeVars, missed>>

\* Any echo passes; a message without data is taken for silence.
IcmpReturned ==
  /\ stage = "icmp"
  /\ Return(CASE outcome = "echo" -> "SUCCESS"
              [] outcome \in {"silent", "empty"} -> "TIMEOUT"
              [] OTHER -> "ERROR")
  /\ IcmpConsume
  /\ UNCHANGED <<statsVars, arpVars, ioVars, nicVars, child, wireVars>>

-----------------------------------------------------------------------------
(* ProbeUdpEcho and ProbeTcpEcho *)

SockKept == UNCHANGED <<statsVars, arpVars, icmpVars, nicVars>>

\* A child that cannot be opened or configured is destroyed at once.
SockProbe ==
  /\ stage = "start"
  /\ protocol \in {"UDP", "TCP"}
  /\ \/ Return("ERROR") /\ UNCHANGED child
     \/ /\ child' = TRUE
        /\ stage' = IF protocol = "UDP" THEN "transmit" ELSE "connect"
        /\ UNCHANGED <<protocol, answer, status>>
  /\ SockKept
  /\ UNCHANGED <<ioVars, wireVars>>

Timed == {"transmit", "listen", "connect", "send", "receive"}

\* The close is timed by its polls.
SockStart ==
  /\ \/ /\ stage \in Timed
        /\ Refuse("ERROR") \/ Accept(TRUE)
     \/ /\ stage = "close"
        /\ Refuse("ERROR") \/ Accept(FALSE)
  /\ SockKept
  /\ UNCHANGED <<probeVars, wireVars>>

\* After Cancel and Poll the TCP probe reads the status of the token again: the
\* driver has aborted it, or had completed it before.
CancelReread ==
  /\ io = "cancelling"
  /\ result' = IF token = "queued" THEN "ABORTED" ELSE token
  /\ token' = "none"
  /\ io' = "idle"
  /\ UNCHANGED clock

SockWait ==
  /\ \/ LeaveLoop \/ LastLook
     \/ stage \in {"send", "receive"} /\ CancelReread
     \/ stage \notin {"send", "receive"} /\ Cancel
  /\ missed' = (missed \/ (io = "cancelling" /\ stage # "close"))
  /\ SockKept
  /\ UNCHANGED <<probeVars, owed, left, reach>>

SockTick ==
  /\ Tick
  /\ SockKept
  /\ UNCHANGED <<probeVars, wireVars>>

\* What the driver does with a token, by the operation it belongs to.  Every
\* datagram to the probe's port that begins with DDTECHO is an echo; a segment
\* belongs to its connection.
SockDriver ==
  /\ \/ /\ stage \in {"connect", "close"}
        /\ Complete("SUCCESS") \/ Complete("ERROR")
        /\ UNCHANGED wireVars
     \/ /\ stage \in {"transmit", "send"}
        /\ \/ Complete("ERROR") /\ UNCHANGED <<left, owed>>
           \/ Complete("SUCCESS") /\ stage = "transmit" /\ Leaves
           \/ Complete("SUCCESS") /\ stage = "send" /\ left' = TRUE /\ UNCHANGED owed
        /\ UNCHANGED <<reach, missed>>
     \/ /\ stage = "listen"
        /\ \/ Complete("SUCCESS") /\ Arrives("echo", io = "cancelling")
           \/ Complete("EMPTY") /\ Arrives("hollow", io = "cancelling")
           \/ (Complete("WRONG") \/ Complete("ERROR")) /\ Arrives("nothing", FALSE)
        /\ UNCHANGED <<left, missed>>
     \/ /\ stage = "receive"
        /\ \/ Complete("SUCCESS") /\ reach' = "echo"
           \/ (Complete("WRONG") \/ Complete("ERROR")) /\ UNCHANGED reach
        /\ UNCHANGED <<owed, left, missed>>
  /\ SockKept
  /\ UNCHANGED probeVars

\* The status of a probe by UDP or TCP, which its child outlives.
Decide(s, then) ==
  /\ answer' = s
  /\ stage' = then
  /\ UNCHANGED <<protocol, child, status>>

UdpReturned ==
  /\ \/ stage = "transmit" /\ result = "SUCCESS" /\ Goto("listen")
     \/ stage = "listen" /\ result \in {"SUCCESS", "EMPTY"} /\ Decide("SUCCESS", "destroy")
     \/ stage \in {"transmit", "listen"} /\ result = "TIMEOUT" /\ Decide("TIMEOUT", "destroy")
     \/ stage \in {"transmit", "listen"} /\ result \in {"WRONG", "ERROR"} /\ Decide("ERROR", "destroy")
  /\ Consume
  /\ SockKept
  /\ UNCHANGED wireVars

\* Only a connection that is not made times out; a transmission or an echo that
\* does not come is an error, since its token was aborted.
TcpReturned ==
  /\ \/ stage = "connect" /\ result = "SUCCESS" /\ Goto("send")
     \/ stage = "connect" /\ result = "TIMEOUT" /\ Decide("TIMEOUT", "destroy")
     \/ stage = "connect" /\ result = "ERROR" /\ Decide("ERROR", "destroy")
     \/ stage = "send" /\ result = "SUCCESS" /\ Goto("receive")
     \/ stage = "receive" /\ result = "SUCCESS" /\ Decide("SUCCESS", "close")
     \/ stage \in {"send", "receive"} /\ result # "SUCCESS" /\ result # "none" /\ Decide("ERROR", "close")
     \/ stage = "close" /\ result # "none" /\ Goto("destroy")
  /\ Consume
  /\ SockKept
  /\ UNCHANGED wireVars

\* Slip: a time-out returns at once and leaves the child.
DestroyAnswered ==
  /\ stage = "destroy"
  /\ child' = (answer = "TIMEOUT")
  /\ Return(answer)
  /\ SockKept
  /\ UNCHANGED <<ioVars, wireVars>>

\* Configure(NULL), then DestroyChild.
Destroy ==
  /\ stage = "destroy"
  /\ child' = FALSE
  /\ Return(answer)
  /\ SockKept
  /\ UNCHANGED <<ioVars, wireVars>>

-----------------------------------------------------------------------------
(* The specification *)

User == (\E p \in Protocols : Begin(p)) \/ Again \/ Escape

Program ==
  \/ ArpProbe \/ ArpWork \/ ArpReturned \/ ArpByHand \/ ArpOverheard
  \/ IcmpProbe \/ IcmpWork \/ IcmpReturned
  \/ SockProbe \/ SockStart \/ SockWait \/ UdpReturned \/ TcpReturned \/ Destroy
  \/ Record

Firmware == ArpNetwork \/ NicSends \/ NicReceives \/ IcmpNetwork \/ SockDriver \/ SockTick

Next == User \/ Program \/ Firmware

\* The polling loops of the program are never blocked; the firmware signals a timer.
Spec == Init /\ [][Next]_vars /\ WF_vars(Program) /\ WF_vars(SockTick)

-----------------------------------------------------------------------------
(* Properties *)

\* A probe passes exactly when an echo has reached it, of its own request or of an
\* earlier one, except that three answers pass without an echo: an ARP request that the
\* driver gave up or found in its cache, an ARP reply to somebody else, overheard on
\* the NIC, and a UDP token without data.  An answer between the last look at a token
\* and its cancellation reaches a probe by TCP, which reads the status again, and none
\* of the others.  No probe that must hand over a request passes before it has left
\* (ARP reports no departure).  TIMEOUT says that a wait has run out, except that ICMP
\* takes a message without data for one.
ResultHonest ==
  stage = "record" =>
    /\ status = "SUCCESS" <=>
         reach = "echo" \/ (reach = "hollow" /\ protocol \in {"ARP", "UDP"})
    /\ status = "SUCCESS" /\ protocol # "ARP" => left
    /\ status = "TIMEOUT" => missed \/ (protocol = "ICMP" /\ reach = "hollow")

\* Between two probes no driver holds a token, a request or a child of an earlier
\* probe, whichever way it ended: their memory was the probe's stack.  The NIC is no
\* driver: its ring may hold the frame of a probe that has returned.
DriversLetGo ==
  stage \in {"menu", "start", "record", "shown"} =>
    ~child /\ token = "none" /\ request = "none" /\ tx = "none" /\ rx = "none"

\* Every probe ends and is shown, whatever the drivers and the network do; only a
\* wait for which no timer could be made may last for ever.
ProbeEnds == (stage \notin {"menu", "shown"}) ~> (stage = "shown" \/ clock = "missing")

Log ==
  INSTANCE ProbeLog
    WITH log <- Displayed, Rows <- IF HistorySize < ScreenRows THEN HistorySize ELSE ScreenRows

\* The ring and the counters show what a plain log of the probes would: the newest
\* results first, under their own numbers, none missing and none twice, also after
\* the ring has wrapped and after the test was begun again.
ImplementsLog == Log!Spec

=============================================================================
