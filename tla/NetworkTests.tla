----------------------------- MODULE NetworkTests -----------------------------
(***************************************************************************)
(* The layer 3 tests, Source/Layer3Network.c: ten tests that the test      *)
(* runner calls one at a time.  A ping goes through a child of the IP4     *)
(* driver (IcmpChild) and, when that neither succeeds nor times out,       *)
(* through the NIC itself, after the next hop's address has been resolved  *)
(* by the ARP driver (ArpChild) or by hand.  Neither way compares the      *)
(* sequence number of a reply with that of the request, so that the echo   *)
(* of any earlier request answers.                                         *)
(***************************************************************************)
EXTENDS IcmpChild, ArpChild, FiniteSets

CONSTANTS
  Setups,                   \* what a NIC and its network offer
  Count,                    \* pings of the sweep: Config->Iterations, or 5
  MaxTtl,                   \* 16
  MinPayload, MaxPayload,   \* 8 and 1472
  MaxOwed                   \* bound: echoes on their way

ASSUME SetupsAssumption ==
  Setups \subseteq [ip4 : BOOLEAN,       \* Nic->HasIp4
                    config : BOOLEAN,    \* Nic->HasIpConfig
                    gateway : {"none", "near", "far"},  \* on the subnet or not
                    arp : BOOLEAN,       \* Nic->HasArp
                    snp : BOOLEAN,       \* an initialised Simple Network Protocol
                    carries : Nat,       \* largest payload the path passes whole
                    rival : BOOLEAN]     \* another host has our address
ASSUME CountAssumption == Count \in 1..10
ASSUME MaxTtlAssumption == MaxTtl \in Nat \ {0}
ASSUME PayloadAssumption ==
  /\ MinPayload \in Nat \ {0}
  /\ MaxPayload \in Nat
  /\ MinPayload <= MaxPayload
ASSUME MaxOwedAssumption == MaxOwed \in Nat

VARIABLES
  setup, test,
  stage,      \* what the test does next, "rest" when none runs
  round,      \* I of the sweep, Ttl - 1
  replies,    \* Received of the sweep, HopsResponded
  search,     \* Lo, Hi and LargestOk
  status,     \* what L3Ping returned, "none" until it has
  verdict,    \* Result->StatusCode; PASS is 0
  owed,       \* requests on the wire, of any test, that may yet be echoed
  asked,      \* history: requests of this test that have left
  heard,      \* history: messages delivered to this test while it waited
  echoed,     \* history: those that are echoes
  fits,       \* history: payloads of this test that an echo answered
  fails,      \* history: payloads that none did
  claims      \* history: who answered for our address or the gateway's; "nobody"
              \* where the driver gave up and left zeros

pingVars == <<icmpVars, arpVars>>
testVars == <<setup, test, stage, round, replies, search, status, verdict>>
wireVars == <<owed, asked, heard, echoed, claims>>
vars == <<pingVars, testVars, wireVars, fits, fails>>

Pings == {"IcmpEcho", "IcmpSweep", "TtlHopDiscovery", "MtuPathDiscovery", "IpFragmentation"}
Tests == Pings \cup {"IpConfigCheck", "Ipv6Nd", "IpHeaderValid", "RoutingTable", "DuplicateIp"}
Sizes == MinPayload..MaxPayload
Rounds == CASE test = "IcmpSweep" -> Count
            [] test = "TtlHopDiscovery" -> MaxTtl
            [] OTHER -> 1

TypeOK ==
  /\ IcmpTypeOK /\ ArpTypeOK
  /\ setup \in Setups
  /\ test \in Tests
  /\ stage \in {"rest", "start", "ip4", "ping", "hop", "resolve", "arp", "rawask", "rawarp",
                "raw", "overhear", "answered", "evaluate", "header", "claim", "listen"}
  /\ round \in 0..Rounds
  /\ replies \in 0..round
  /\ search \in [lo : MinPayload..(MaxPayload + 1), hi : (MinPayload - 1)..MaxPayload,
                 best : {0} \cup Sizes]
  /\ status \in {"none", "TIMEOUT", "NOT_READY"} \cup Messages
  /\ verdict \in {"none", "PASS", "WARN", "FAIL", "SKIP", "ERROR"}
  /\ owed \in 0..MaxOwed
  /\ asked \in Nat /\ heard \in Nat /\ echoed \in Nat
  /\ fits \subseteq Sizes /\ fails \subseteq Sizes
  /\ claims \subseteq {"gateway", "other", "own", "rival", "nobody"}

Init ==
  /\ IcmpInit /\ ArpInit
  /\ setup \in Setups
  /\ test = "IpConfigCheck"
  /\ stage = "rest"
  /\ round = 0 /\ replies = 0
  /\ search = [lo |-> MinPayload, hi |-> MaxPayload, best |-> 0]
  /\ status = "none"
  /\ verdict = "none"
  /\ owed = 0
  /\ asked = 0 /\ heard = 0 /\ echoed = 0
  /\ fits = {} /\ fails = {}
  /\ claims = {}

-----------------------------------------------------------------------------
(* Calling a test *)

\* RunSingleTest; two tests are skipped on a NIC without IPv4.
Begin(t) ==
  /\ stage = "rest"
  /\ t \in {"IpConfigCheck", "RoutingTable"} => setup.ip4
  /\ test' = t
  /\ stage' = IF t \in Pings THEN "ping" ELSE "start"
  /\ round' = 0 /\ replies' = 0
  /\ search' = [lo |-> MinPayload, hi |-> MaxPayload, best |-> 0]
  /\ status' = "none"
  /\ verdict' = "none"
  /\ asked' = 0 /\ heard' = 0 /\ echoed' = 0
  /\ fits' = {} /\ fails' = {}
  /\ claims' = {}
  /\ UNCHANGED <<setup, owed, pingVars>>

Goto(s) == stage' = s /\ UNCHANGED <<setup, test, round, replies, search, status, verdict>>

Return(v) ==
  /\ stage' = "rest"
  /\ verdict' = v
  /\ status' = "none"
  /\ UNCHANGED <<setup, test, round, replies, search>>

\* TestL3IpConfigCheck; TestL3Ipv6Nd says whether the IP6 driver is there.
LookOnly ==
  /\ stage = "start"
  /\ \/ /\ test = "IpConfigCheck"
        /\ Return(CASE ~setup.config -> "FAIL"
                    [] setup.config /\ setup.gateway = "none" -> "WARN"
                    [] setup.config /\ setup.gateway # "none" -> "PASS")
     \/ /\ test = "Ipv6Nd"
        /\ \E v \in {"PASS", "WARN"} : Return(v)
  /\ UNCHANGED <<pingVars, wireVars, fits, fails>>

-----------------------------------------------------------------------------
(* L3Ping *)

Mid == (search.lo + search.hi) \div 2

\* A request leaves.  What goes through the IP4 driver may be fragmented on its
\* way; what is built by hand has the DF bit and is dropped where it does not fit.
Leaves(whole) ==
  /\ asked' = asked + 1
  /\ owed' = IF owed < MaxOwed /\ (test = "MtuPathDiscovery" /\ whole => Mid <= setup.carries)
               THEN owed + 1 ELSE owed

\* What the present test can make something of: for the header test any packet.
Heedable == Messages \cup (IF test = "IpHeaderValid" THEN {"short"} ELSE {})

\* A message arrives; late is one that comes after the caller has stopped waiting.
Arrives(message, late) ==
  /\ message = "echo" => owed > 0
  /\ owed' = IF message = "echo" THEN owed - 1 ELSE owed
  /\ heard' = IF message \in Heedable /\ ~late THEN heard + 1 ELSE heard
  /\ echoed' = IF message = "echo" /\ ~late THEN echoed + 1 ELSE echoed

\* Method 1 is for a NIC with an IPv4 address: L3SendIcmpViaIp4.
PingIp4 ==
  /\ stage = "ping"
  /\ setup.ip4 /\ setup.config
  /\ IcmpOpen
  /\ Goto("ip4")
  /\ UNCHANGED <<arpVars, wireVars, fits, fails>>

PingNoIp4 ==
  /\ stage = "ping"
  /\ ~(setup.ip4 /\ setup.config)
  /\ Goto("hop")
  /\ UNCHANGED <<pingVars, wireVars, fits, fails>>

\* The header test does the same on its own, and transmits once.
Ip4Caller ==
  /\ IcmpCaller(stage = "header", TRUE)
  /\ UNCHANGED <<testVars, arpVars, wireVars, fits, fails>>

Ip4Driver ==
  /\ IcmpDriver
  /\ IF tx' = "sent" THEN Leaves(FALSE) ELSE UNCHANGED <<asked, owed>>
  /\ UNCHANGED <<testVars, arpVars, heard, echoed, claims, fits, fails>>

Ip4Deliver ==
  /\ \E message \in Received :
       /\ IcmpDeliver(message)
       /\ Arrives(message, icmp # "listening")
  /\ UNCHANGED <<testVars, arpVars, asked, claims, fits, fails>>

Answer(s) ==
  /\ status' = s
  /\ stage' = "answered"
  /\ UNCHANGED <<setup, test, round, replies, search, verdict>>

\* A message, or the time-out that an empty message is taken for, ends the ping.
PingByIp4 ==
  /\ stage = "ip4"
  /\ CASE outcome \in Messages -> Answer(outcome)
       [] outcome \in {"silent", "empty"} -> Answer("TIMEOUT")
       [] OTHER -> Goto("hop")
  /\ IcmpConsume
  /\ UNCHANGED <<arpVars, wireVars, fits, fails>>

\* Method 2 needs the NIC itself.
Hop ==
  /\ stage = "hop"
  /\ IF setup.snp THEN Goto("resolve") ELSE Answer("NOT_READY")
  /\ UNCHANGED <<pingVars, wireVars, fits, fails>>

-----------------------------------------------------------------------------
(* L3ResolveTargetMac *)

\* The routing test has its verdict; a ping goes on, or returns.
Resolved(s) ==
  CASE test = "RoutingTable" -> Return(IF s = "SUCCESS" THEN "PASS" ELSE "FAIL")
    [] test # "RoutingTable" /\ s = "SUCCESS" -> Goto("raw")
    [] test # "RoutingTable" /\ s # "SUCCESS" -> Answer(s)

ByHand == IF setup.snp THEN Goto("rawask") ELSE Resolved("NOT_READY")

Resolve ==
  /\ stage = "resolve"
  /\ IF setup.arp
       THEN (ArpOpen \/ ArpOpenFails) /\ Goto("arp")
       ELSE ByHand /\ UNCHANGED arpVars
  /\ UNCHANGED <<icmpVars, wireVars, fits, fails>>

Driver == ArpDriver /\ UNCHANGED <<icmpVars, testVars, wireVars, fits, fails>>
Caller == ArpCaller /\ UNCHANGED <<icmpVars, testVars, wireVars, fits, fails>>

ResolveByDriver ==
  /\ stage = "arp"
  /\ IF resolved = "SUCCESS"
       THEN /\ Resolved("SUCCESS")
            /\ claims' = claims \cup {IF address = "mac" THEN "gateway" ELSE "nobody"}
       ELSE ByHand /\ UNCHANGED claims
  /\ ArpConsume
  /\ UNCHANGED <<icmpVars, owed, asked, heard, echoed, fits, fails>>

\* L3ArpResolveViaSnp; any ARP reply will do, of the gateway or of another host.
ResolveByHand ==
  /\ \/ /\ stage = "rawask"
        /\ Goto("rawarp") \/ Resolved("NOT_READY")
        /\ UNCHANGED claims
     \/ /\ stage = "rawarp"
        /\ \/ Resolved("SUCCESS") /\ \E who \in {"gateway", "other"} : claims' = claims \cup {who}
           \/ Resolved("TIMEOUT") /\ UNCHANGED claims
  /\ UNCHANGED <<pingVars, owed, asked, heard, echoed, fits, fails>>

-----------------------------------------------------------------------------
(* L3SendIcmpViaSnp *)

PingByHand ==
  /\ stage = "raw"
  /\ \/ Answer("NOT_READY") /\ UNCHANGED <<asked, owed>>
     \/ Leaves(TRUE) /\ Goto("overhear")
  /\ UNCHANGED <<pingVars, heard, echoed, claims, fits, fails>>

\* An echo with the identifier of all layer 3 tests, or an error from anyone.
Overhear ==
  /\ stage = "overhear"
  /\ \/ \E message \in Messages : Arrives(message, FALSE) /\ Answer(message)
     \/ Answer("TIMEOUT") /\ UNCHANGED <<owed, heard, echoed>>
  /\ UNCHANGED <<pingVars, asked, claims, fits, fails>>

-----------------------------------------------------------------------------
(* What the tests make of a ping *)

Replied == status \in Messages

\* TestL3IcmpEcho and TestL3IpFragmentation.
Single ==
  /\ test \in {"IcmpEcho", "IpFragmentation"}
  /\ Return(CASE status = "echo" -> "PASS"
              [] status = "unreachable" -> (IF test = "IcmpEcho" THEN "FAIL" ELSE "WARN")
              [] status = "exceeded" -> "WARN"
              [] status = "TIMEOUT" -> (IF test = "IcmpEcho" THEN "FAIL" ELSE "WARN")
              [] status = "NOT_READY" -> (IF test = "IcmpEcho" THEN "SKIP" ELSE "FAIL"))
  /\ UNCHANGED <<fits, fails>>

NextRound(more) ==
  /\ round' = round + 1
  /\ stage' = IF more /\ round + 1 < Rounds THEN "ping" ELSE "evaluate"
  /\ UNCHANGED <<setup, test, search, status, verdict>>

\* Slip: whatever is answered counts as a reply.
SweepAny ==
  /\ test = "IcmpSweep"
  /\ replies' = replies + (IF Replied THEN 1 ELSE 0)
  /\ NextRound(TRUE)
  /\ UNCHANGED <<fits, fails>>

Sweep ==
  /\ test = "IcmpSweep"
  /\ replies' = replies + (IF status = "echo" THEN 1 ELSE 0)
  /\ NextRound(TRUE)
  /\ UNCHANGED <<fits, fails>>

\* An echo ends the discovery.
Ttl ==
  /\ test = "TtlHopDiscovery"
  /\ replies' = replies + (IF Replied THEN 1 ELSE 0)
  /\ NextRound(status # "echo")
  /\ UNCHANGED <<fits, fails>>

\* Slip: the upper end is taken down too far.
NextSizeFar ==
  IF status = "echo"
    THEN [search EXCEPT !.best = Mid, !.lo = Mid + 1]
    ELSE [search EXCEPT !.hi = IF Mid > MinPayload THEN Mid - 2 ELSE Mid - 1]

NextSize ==
  IF status = "echo"
    THEN [search EXCEPT !.best = Mid, !.lo = Mid + 1]
    ELSE [search EXCEPT !.hi = Mid - 1]

Mtu ==
  /\ test = "MtuPathDiscovery"
  /\ search' = NextSize
  /\ fits' = IF status = "echo" THEN fits \cup {Mid} ELSE fits
  /\ fails' = IF status = "echo" THEN fails ELSE fails \cup {Mid}
  /\ stage' = IF search'.lo <= search'.hi THEN "ping" ELSE "evaluate"
  /\ UNCHANGED <<setup, test, round, replies, status, verdict>>

React ==
  /\ stage = "answered"
  /\ Single \/ Sweep \/ Ttl \/ Mtu
  /\ UNCHANGED <<pingVars, wireVars>>

Judged ==
  CASE test = "IcmpSweep" ->
         (CASE replies = Count -> "PASS"
            [] replies \in 1..(Count - 1) -> "WARN"
            [] replies = 0 -> "FAIL")
    [] test = "TtlHopDiscovery" ->
         (CASE status = "echo" -> "PASS"
            [] status # "echo" /\ replies > 0 -> "WARN"
            [] status # "echo" /\ replies = 0 -> "FAIL")
    [] test = "MtuPathDiscovery" ->
         (CASE search.best = MaxPayload -> "PASS"
            [] search.best \in 1..(MaxPayload - 1) -> "WARN"
            [] search.best = 0 -> "FAIL")

Evaluate ==
  /\ stage = "evaluate"
  /\ Return(Judged)
  /\ UNCHANGED <<pingVars, wireVars, fits, fails>>

-----------------------------------------------------------------------------
(* The tests that do not ping *)

\* TestL3IpHeaderValid: the version, length and TTL of the reply's header are
\* good, bad or odd; where no event can be created, or the token comes without
\* data, the verdict stays as RunSingleTest has cleared it.
HeaderVerdicts ==
  CASE outcome = "no child" -> {"SKIP"}
    [] outcome = "no memory" -> {"ERROR"}
    [] outcome \in {"no event", "empty"} -> {"PASS"}
    [] outcome \in {"refused", "deaf", "silent", "error"} -> {"FAIL"}
    [] OTHER -> {"PASS", "WARN", "FAIL"}

HeaderStart ==
  /\ stage = "start"
  /\ test = "IpHeaderValid"
  /\ IF setup.ip4 /\ setup.config
       THEN IcmpOpen /\ Goto("header")
       ELSE Return("SKIP") /\ UNCHANGED icmpVars
  /\ UNCHANGED <<arpVars, wireVars, fits, fails>>

HeaderReturn ==
  /\ stage = "header"
  /\ \E v \in HeaderVerdicts : Return(v)
  /\ IcmpConsume
  /\ UNCHANGED <<arpVars, wireVars, fits, fails>>

\* TestL3RoutingTable; it asks for the gateway of the NIC.
Route ==
  /\ stage = "start"
  /\ test = "RoutingTable"
  /\ IF setup.gateway = "near" THEN Goto("resolve") ELSE Return("WARN")
  /\ UNCHANGED <<pingVars, wireVars, fits, fails>>

\* TestL3DuplicateIp, through the ARP driver; on the NIC, whose probe may be
\* refused; or not at all.
Claim ==
  /\ stage = "start"
  /\ test = "DuplicateIp"
  /\ \/ setup.arp /\ (ArpOpen \/ ArpOpenFails) /\ Goto("claim")
     \/ ~setup.arp /\ setup.snp /\ (Goto("listen") \/ Return("WARN")) /\ UNCHANGED arpVars
     \/ ~setup.arp /\ ~setup.snp /\ Return("PASS") /\ UNCHANGED arpVars
  /\ UNCHANGED <<icmpVars, wireVars, fits, fails>>

\* Only an answer with another address than the NIC's fails the test; the zeros
\* of a driver that has given up are another address.
ClaimAnswered ==
  /\ stage = "claim"
  /\ \E who \in {"nobody", "own", "rival", "no answer"} :
       /\ who = "no answer" <=> resolved # "SUCCESS"
       /\ who = "nobody" <=> resolved = "SUCCESS" /\ address = "zero"
       /\ who = "rival" => setup.rival
       /\ claims' = claims \cup ({who} \ {"no answer"})
       /\ Return(IF who \in {"nobody", "rival"} THEN "FAIL" ELSE "PASS")
  /\ ArpConsume
  /\ UNCHANGED <<icmpVars, owed, asked, heard, echoed, fits, fails>>

\* Replies of other hosts, for other addresses, are passed over.
ClaimOverheard ==
  /\ stage = "listen"
  /\ \/ setup.rival /\ Return("FAIL") /\ claims' = claims \cup {"rival"}
     \/ Return("PASS") /\ UNCHANGED claims
  /\ UNCHANGED <<pingVars, owed, asked, heard, echoed, fits, fails>>

-----------------------------------------------------------------------------

Ping == PingIp4 \/ PingNoIp4 \/ Ip4Caller \/ PingByIp4 \/ Hop \/ PingByHand \/ Overhear
Resolution == Resolve \/ Caller \/ ResolveByDriver \/ ResolveByHand
Alone == LookOnly \/ HeaderStart \/ HeaderReturn \/ Route \/ Claim \/ ClaimAnswered \/ ClaimOverheard
Program == Ping \/ Resolution \/ React \/ Evaluate \/ Alone
Firmware == Ip4Driver \/ Ip4Deliver \/ Driver

Next == (\E t \in Tests : Begin(t)) \/ Program \/ Firmware

\* The program runs on, every wait of it is counted; the network and the drivers
\* promise nothing.
Spec == Init /\ [][Next]_vars /\ WF_vars(Program)

-----------------------------------------------------------------------------

Done(t) == stage = "rest" /\ test = t /\ verdict # "none"

\* The verdicts tell what came back while the tests were waiting, whichever way
\* each ping took and whatever failed on the first; and a test counts no more
\* replies than requests of its own have left, whatever the driver kept, refused
\* or lost.  Where a header and the code give different verdicts, the clause is
\* the code's:
\*   IcmpEcho         time exceeded is a WARN (1211) and no way to send a SKIP
\*                    (1174); the header knows PASS and FAIL (1142).
\*   TtlHopDiscovery  silent hops do not keep an echo from being a PASS (1378),
\*                    and a target that was not reached is a WARN if any hop
\*                    answered (1388); the header says WARN and FAIL (1324).
\*   IpFragmentation  a next hop that cannot be resolved is a WARN (1571),
\*                    where nothing was sent; the header says FAIL (1518).
\*   IpHeaderValid    without an event, or with a token without data, the
\*                    verdict stays PASS (1810, 1854, 1898), hence no clause on
\*                    PASS; the header says "FAIL: Invalid header or no reply"
\*                    (1637).
\*   RoutingTable     whatever ARP reply comes first is a PASS (283), the zeros
\*                    of a driver that gave up too ("nobody"), and a gateway off
\*                    the subnet is a WARN (2039); the header has PASS for a
\*                    gateway that is reachable, WARN for none (1980).
\*   DuplicateIp      those zeros are a FAIL (2130); the header says "Another
\*                    host claims our IP address" (2091).
VerdictHonest ==
  /\ replies <= asked /\ Cardinality(fits) <= asked
  /\ stage = "rest" /\ test \in {"IcmpEcho", "IpFragmentation"} /\ verdict = "PASS" => asked > 0
  /\ Done("IcmpEcho") =>
       /\ verdict = "PASS" <=> echoed = 1
       /\ verdict = "SKIP" => heard = 0
  /\ Done("IcmpSweep") =>
       /\ verdict = "PASS" <=> echoed = Count
       /\ verdict = "FAIL" <=> echoed = 0
  /\ Done("TtlHopDiscovery") =>
       /\ verdict = "PASS" <=> echoed = 1
       /\ verdict = "FAIL" <=> heard = 0
       /\ heard = replies
  /\ Done("MtuPathDiscovery") => (verdict = "FAIL" <=> echoed = 0)
  /\ Done("IpFragmentation") => (verdict = "PASS" <=> echoed = 1)
  /\ Done("IpHeaderValid") =>
       /\ verdict = "WARN" => heard = 1
       /\ verdict \in {"SKIP", "ERROR"} => asked = 0 /\ heard = 0
  /\ Done("RoutingTable") =>
       (verdict = "PASS" <=> claims # {}) /\ (setup.gateway # "near" <=> verdict = "WARN")
  /\ Done("DuplicateIp") => (verdict = "FAIL" <=> claims \cap {"rival", "nobody"} # {})

\* No driver holds a token of a test that has returned, or of a ping that has
\* gone on to the NIC itself, however often the token was handed over again.
DriversLetGo ==
  /\ stage \notin {"ip4", "header"} => icmp = "idle" /\ tx = "none" /\ rx = "none"
  /\ stage \notin {"arp", "claim"} => arp = "idle" /\ request = "none"

\* Whatever is lost, and in whatever order sizes fail and succeed, the size that
\* is reported was answered, and the next larger one was tried and was not.
MtuBracketed ==
  Done("MtuPathDiscovery") =>
    /\ search.best # 0 => search.best \in fits
    /\ search.best # MaxPayload =>
         (IF search.best = 0 THEN MinPayload ELSE search.best + 1) \in fails

\* Every test returns, whatever the drivers and the network omit to do.
TestsEnd == stage # "rest" ~> stage = "rest"

-----------------------------------------------------------------------------
(* What the documentation says, and the code does not do *)

\* README.md:147 and TestRegistry.c:215: the path MTU is discovered with the DF
\* bit set.
MtuOfThePath ==
  Done("MtuPathDiscovery") /\ verdict = "PASS" => setup.carries >= MaxPayload

=============================================================================
