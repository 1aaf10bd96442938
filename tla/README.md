# Verification of DDTSoftNetTest

DDTSoftNetTest is two programs. The **EFI application** (C, `src/Source`, run
from the UEFI shell of the machine under test) finds network interfaces,
exercises them layer by layer, and shows and stores the results. The
**companion** (Python, `src/Companion`, run on a Linux machine at the other end
of the cable) answers the probes and is steered over a small UDP text protocol
on port 9999, the *control channel*.

This directory holds TLA+ models of the parts of both programs whose behaviour
depends on order, failure or accumulated state, the TLC runs that check them on
small instances, and proofs for every instance. `PROJECT.json` is the index:
components, runs, the source lines behind every definition, known hazards.

    tlc -config Network.cfg MCNetworkTests      # one run
    tlapm NetworkProofs.tla                     # the proofs of a component

## 1. Inventory

### The control channel (modelled)

| Part | State | Operations |
|---|---|---|
| **Companion link**, `Source/CompanionLink.c`, `COMPANION_LINK` in `DDTSoftNetTest.h` | UDP4 and MNP children, `State`, `MessageId`, target MAC | `CompanionInit`, `Connect`, `Prepare`, `Start`, `Stop`, `GetResult`, `Disconnect`, `Destroy`, over the blocking helpers `CompanionSendCommand` and `CompanionReceiveResponse` |
| **Control server**, `Companion/services/control_server.py` | `connected`, `session_id`, the socket, one listener thread | HELLO, PREPARE, START, STOP, RESULT, DONE, answered with ACK, READY, CONFIRM, REPORT or ERROR |

The link sends one text datagram and waits for one. **No datagram carries an
identifier**: an answer is recognised by its source address, its port and its
first word. Hard: lost, delayed and repeated datagrams, the HELLO that is
repeated, a transmission cancelled after it has left, either machine restarting
while the other believes in the session. Correct means: success is reported only
for what the companion has done, every call returns, and the two ends agree on
the session whenever the network lets them.

### The layer tests (all five modelled)

* **Layers 1 and 2**, `Layer1Physical.c`, `Layer2DataLink.c`: twelve tests on the
  NIC itself, through the Simple Network Protocol (SNP), the ARP driver and MNP.
  State: the SNP's state and receive filters, the frames in its transmit ring, a
  request or token in a driver, and the counters of the result.
* **Layer 3**, `Layer3Network.c`: ten tests. A ping goes through a child of the IP4
  driver and, when that fails half-way, by hand through the NIC. State: two tokens
  and their retries, the address resolution, sweeps, hops and a binary search.
* **Layer 4**, `Layer4Transport.c`: eight tests over TCP4 and UDP4 children. State:
  the child handle, a completion token and a timer event per operation, the counters
  of the result.
* **Layer 7**, `Layer7Application.c`: six tests over DHCP4, DNS4 and HTTP children.
  State as in layer 4, and the DHCP driver's own state, which is one per interface and
  outlives the test.

A driver owns the token or the event on the caller's stack from the call until it
completes it or a cancellation takes it back; it may complete it at any instant. Hard:
the race of completion, last look and cancellation; a step failing after others have
succeeded; counters that must add up over rounds that fail in different ways; a NIC
shared with the firmware's own stack. Correct means: no token, child, connection or
request is left behind, the NIC is left as it was found, every test ends, and the
verdict tells what the network did.

### What runs the tests, and the echo probes (modelled)

* **Test runner and registry**, `TestRunner.c`, `TestRegistry.c`: a table of 36 tests
  with what each needs; `RunSingleTest` checks that, clears the result, runs the test.
* **Quick scan**, `QuickScan.c`: two tests per layer, bottom up; a tally and a status
  per layer, totals, progress, and a diagnosis that names the broken layer. Hard: a
  layer left out, a test that skips itself and a test that fails without a verdict all
  have to be told from one that passed.
* **Report**, `ReportExporter.c`: runs those tests that are said to be harmless. Of it,
  only that choice is modelled.
* **Echo probes**, `ProtocolProbe.c`, `RunProtocolEchoTest` of `Main.c`: one probe a
  second by ARP, ICMP, UDP or TCP, statistics and a ring of the last results. Hard:
  which answer is counted, the many exits of a probe, the ring at its limit.

### The companion process (lifecycle modelled)

`Companion/companion.py` gives the interface its address, starts seven services
(`arp`, `icmp`, `tcp`, `udp`, `dhcp`, `dns`, `http`) and then the control server,
each with sockets and a daemon thread, sleeps until SIGINT or SIGTERM, stops them
in the order control, arp, ..., http, and takes the address away. `dhcp` runs
dnsmasq, or a server of its own where that is not installed. `link` and `frames`
are objects without a thread; the capture is never started. Hard: ports taken by
others or by each other, signals in the middle of the start, threads still running
when their socket closes, dnsmasq leaving early. Correct means: the machine is
left as it was found, a signal ends the process, nothing is promised by a
companion that is being stopped.

### The other parts

§6 says why they are not modelled.

| Part | State and operations | Hard, and what would be correct |
|---|---|---|
| DHCP server of the companion, `dhcp_manager.py` | leases, next offset; DISCOVER, REQUEST | ACK and OFFER take different addresses; one address for two clients |
| Answering services, `udp_echo.py`, `icmp_handler.py`, `arp_responder.py` ... | counters read by RESULT and cleared by PREPARE in another thread | counters changed outside the lock |
| Stress test, `StressTest.c`; `Utils.c` | counters, RTT ring, clock | clock across midnight; percentages at 0; ring at its limit |
| Menus, `Main.c` | screen, selection, scroll offset, results, filters | the selection stays visible and in range |
| NIC discovery, `NicDiscovery.c` | array of NICs, protocol flags, media state | handles without protocols; arrays at their limit |
| Packet builder and parser | none | lengths and checksums of foreign frames |
| Text of the report, `ReportExporter.c` | file handle, sections | failure in the middle of a report |
| Logger, `Logger.c` | ring of entries | index, count and position stay consistent |
| PCI, driver and system information | read-only walks over firmware tables | no behaviour over time |
| Screen rendering, build scripts, `OsiAnalyzer.c` | none; the last is a stub | nothing |

### How the parts interact

```
 Main.c --calls--> TestRunner / QuickScan / ReportExporter --call--> Layer1..7 tests --tokens--> firmware drivers
    |--calls--> ProtocolProbe --tokens, requests--> firmware drivers (ARP, IP4, UDP4, TCP4)
    \--calls--> CompanionLink ==UDP 9999==> control_server --callbacks--> companion.py --start/stop--> services
                                                                                <==probes== layer tests
```

The application has one thread; concurrency comes from drivers (timer callbacks),
the NIC and the network. The companion has one thread per service; the control thread
calls back into `companion.py`. The layer tests and the companion share nothing
but the wire.

## 2. Modules

### Control channel and companion

| Module | Models | Correspondence |
|---|---|---|
| `ControlNetwork` | the datagrams and the two directions of the network (external) | sets of datagrams, hence reordering; `Faults` names what may go wrong; `flood` says that frames of others follow each other without a pause |
| `CompanionLink` | `CompanionLink.c` | `link`, `state`, `messageId` are fields of `COMPANION_LINK`; a call is `op`, its position `pc`, the HELLO loop `attempt`. Each function up to its first message is an action; `Transmit...` is `CompanionSendCommand`, `Receive...` is `CompanionReceiveResponse`, and `Answered`, `NotAnswered`, `NotSent` are the code after them |
| `ControlServer` | `control_server.py` | `serving` is where the listener thread is, `connected` the session; one `Handle...` per command. DONE is answered before the session is closed, hence `EndSession` |
| `ControlChannel` | the three together | `LinkStep`, `ServerStep`, `Environment`; all properties of the channel |
| `ControlSession` | what the channel promises its caller | abstract: a remote procedure call in lockstep, which may fail |
| `ControlRefinement` | the refinement mapping | `Turn`, `Answer`, `Session` |
| `CompanionLifecycle` | `companion.py` and start and stop of every service | `main` and `pos` are where `run()` is; `running`, `looping`, `held` are flag, thread and sockets of each service |
| `MCCompanionLifecycle` | the ports of `config/default.conf` | `DefaultPorts`, and `SeparatePorts` for a configuration that keeps them apart |

### Firmware, as the tests use it

| Module | Models | Correspondence |
|---|---|---|
| `TokenIo` | one asynchronous operation: queue, poll, last look, cancel | `token`, `clock`, `io`, `result`; layers 4 and 7 and the UDP and TCP probes |
| `ArpChild` | one address resolution through the ARP driver | the caller's position `arp`, the driver's `request`, the buffer `address`. The driver signals the event when a reply has come *and* when it gives up |
| `IcmpChild` | one echo through a child of the IP4 driver: three transmissions of one token, then one reception | `tx` and `rx` are the two tokens, `icmp` the position; used by `L3SendIcmpViaIp4`, the header test and `ProbeIcmpViaIp4` |
| `SnpNic` | the NIC: state, filters, and whose buffers it reads | `ring` and `recycled` are sets of owners: the running test, one that has returned (`stale`), the firmware's stack |

### The tests and their callers

| Module | Models | Correspondence |
|---|---|---|
| `LinkTests` | `Layer1Physical.c`, `Layer2DataLink.c`, `ReportRunTests` | composes `SnpNic` and `ArpChild`; `stage` is what the test does next, `asks` the addresses still to be asked for, `token` and `frames` the MNP receive loop. Each call of the NIC's cycle and of its undoing is a step of its own that may fail (`Takes`, `Tries`) |
| `NetworkTests` | `Layer3Network.c` | composes `IcmpChild` and `ArpChild`; `stage` walks through `L3Ping` and `L3ResolveTargetMac`, `round`, `replies` and `search` are the loops of sweep, hops and MTU |
| `TransportTests` | `Layer4Transport.c` | composes `TokenIo`; `round` is `I`, `count` the fields of the result and the local counters, `verdict` is `StatusCode` |
| `ApplicationTests` | `Layer7Application.c` | as above; `dhcp` is the driver's state, `static` is `Nic->HasIpConfig` |
| `TestRunner` | `RunSingleTest`, prerequisites, rows of the registry | an operator from what a test returns to the status it ends with |
| `QuickScan` | `QuickScan.c` | `tally`, `status`, `progress` are fields of the result; `fault` is the lowest broken layer of the network |
| `ProbeStats` | `PROBE_STATS`, `ProbeInit`, `ProbeRecordResult`, and how `Main.c` reads the ring | `history`, `head`, `next` and the three counters |
| `EchoProbe` | `ProtocolProbe.c`, `RunProtocolEchoTest` | composes `ProbeStats`, `ArpChild`, `IcmpChild`, `TokenIo`; `stage` is the position in the probe; `filter`, `ring` and `inbox` are what the ARP probe by hand uses of the NIC |
| `ProbeLog` | what an echo test promises to show | abstract: a sequence of results, newest first, cut to the screen |
| `MCLinkTests`, `MCNetworkTests`, `MCEchoProbe` | set-ups of NIC and network for the runs | see Bounds |

Proofs are in `ControlChannelProofs`, `CompanionLifecycleProofs`, `LinkProofs`,
`NetworkProofs`, `TransportProofs`, `ApplicationProofs`, `ProbeProofs` and
`QuickScanProofs`. `IoLeft`, `ArpLeft` and `IcmpLeft` in the firmware's modules are
measures the proofs use: how many steps a caller still has to make.

Variables marked *history* are read by no action of the program. Definitions
marked *Slip* are plausible mistakes; no specification uses them. `PROJECT.json`
pairs each with the property that notices it.

## 3. Runs

Passing runs:

| Run | Configuration | Shows |
|---|---|---|
| `channel_faulty` | datagrams delayed, repeated, never delivered; frames of others without a pause; sends fail, SNP fails, the machine is switched off | `SuccessIsEarned`: no EFI_SUCCESS is made up, whatever the network does. `CallsReturn`: every call returns if the other frames pause now and then |
| `channel_session` | datagrams lost but not delayed, sends fail, the machine is switched off | `QuietBetweenCalls`, `SuccessIsGenuine`, `TimeoutMeansSilence`: no call meets another call's answer. `ConnectedMeansSession`: the ends agree. `ImplementsSession`: the caller may think of `ControlSession` |
| `channel_clean` | nothing lost, both machines restart | `ConnectSucceeds`: an old session is never in the way. `ImplementsSession` also across restarts of the companion |
| `link` | the twelve tests of layers 1 and 2 in any order, from the menu or from a report, on a NIC found in any state | `VerdictHonest`: which of the things the NIC and the network did a PASS stands for, the silence of a NIC that cannot detect its link included. `DriversLetGo`: nothing is left in MNP or ARP, at most one frame is lost. `CycleRestores`: a cycle passes just when the NIC was initialised, and goes back to where it was unless a call that restores it is refused. `FramesNeedNic`: what a cycle that fails in the middle leaves behind is not used. `ReportGentle`: a report never resets the NIC |
| `network` | the ten tests of layer 3 in any order | `VerdictHonest`: verdict and counters follow what was received in time, over both ways of a ping, and count no more replies than requests have left. `DriversLetGo`: a token that was handed over again is still taken back. `MtuBracketed`: the size reported was answered and the next was not, whatever was lost. `TestsEnd` |
| `transport` | the eight tests of layer 4 in any order, four iterations of the stress test | `TokenOwned`, `ChildrenReturned`, `ClosedBeforeDestroyed`, `VerdictHonest`, `TestsEnd` |
| `application` | the six tests of layer 7 in any order, DHCP state carried from test to test | `ChildrenReturned`, `VerdictHonest`, `TestsEnd`; the polls are counted and no wait can hang |
| `quick_scan` | every result the tests over a network broken at any layer may have | `BlamesTheFault`: nobody is sent to a layer that works. `HealthyMeansTested`: what was left out or failed without a verdict is not called healthy. `BarsInRange`: the totals, in which a skipped test may be counted twice, still give a percentage |
| `probe` | echo tests of all four protocols, begun again and again | `ResultHonest`: the result says whether an echo, or one of the hollow answers the code accepts, reached the probe while it waited. `DriversLetGo`, `ProbeEnds`. `ImplementsLog`: the ring shows what a plain log would |
| `lifecycle` | launched again and again; three sockets possibly taken; signals and dnsmasq exits at any instant | `AddressAsFound`, `NoOrphan`, `ReadyBeforeStopping`, `SignalEnds` |

Runs that find a disagreement between the code and what it says of itself:

| Run | Property | Counterexample |
|---|---|---|
| `lifecycle_signal` | `SignalEnds` | with separate ports the HTTP server runs, and `shutdown()` waits for a `serve_forever()` nobody called |
| `network_mtu` | `MtuOfThePath` | requests through the IP4 driver leave without the DF bit and are fragmented: MTU Path Discovery passes with 1472 bytes over a path that carries less |

`SignalEnds` therefore holds in `lifecycle` only because, with the default
configuration, the TCP listener has taken port 80 and the HTTP server never runs
(`JoinAlwaysReturns` proves this for every such configuration).

### Bounds

* `MaxSends`: transmissions in a behaviour. A call starts only when all of its
  transmissions still fit, so that the bound never cuts a call short. 3 allows a
  whole Connect with its three HELLOs or a Connect and two further commands; 5 allows
  two sessions, or a session followed by a Connect that uses all its attempts. Within
  the bound every interleaving is explored.
* `Faults`: what the environment may do. `late` lets a wait expire while the answer
  is on its way, and lets a datagram stay in flight for ever, so that it includes
  `loss`; `channel_faulty` therefore leaves `loss` out. The companion's `restart`
  is left to `channel_clean` and, for every other combination, to the theorem
  `EarnedAlways`. What `channel_session` shows of stale answers and of a delayed DONE
  is that they do not arise on a network that neither delays nor repeats; with `late` or
  `dup` they do, and the code cannot tell them from fresh ones (§5).
* `Setups` of `link`: a NIC with everything, one with neither media sense nor drivers
  above it, and one with an ARP driver but no address; of `network`: the stack alone,
  stack and NIC with a gateway off the subnet and a rival for the address, the NIC
  alone, and a NIC nothing can be sent by. Between them every branch on a flag is
  taken both ways; the theorems hold for every set-up.
* `MaxFrames` (3): frames delivered to one test. Two fill the token before and after the
  last look, a third is overheard after it.
* `Count` and `MaxTtl` (3 each; the code has 1 to 10, and 16): none, some and all of the
  rounds answered. `MinPayload`..`MaxPayload` (1..5; 8..1472): a search of up to three
  steps, with both ends and the middle as results. `MaxOwed` (2): echoes that may still
  come, of any earlier request.
* `HistorySize` 3, `ScreenRows` 2, `MaxProbes` 4 (12, 9 and no limit): the ring wraps, and
  is longer than the screen as it is in the code; the theorem holds for all sizes.
* `Nics` of `quick_scan`: one with all protocols, one that lacks those of layers 3 and 4.
* `Iterations`: the code takes 1 to 50. Four reach every verdict of the stress
  test (none, less than half, exactly half, more than half, all), and the loops over ports have
  their real lengths (4, 6, 3).
* `Contested`: a TCP, a UDP and the control port; each may be taken or free. The
  other TCP ports of the configuration behave alike and one stands for them.
* Layer 7 has its three paths, all classes of status codes and all ways a token
  can complete.

### Fairness

Only the program under study is fair. In `ControlChannel`: a running call goes on, and
so does the listener thread; no datagram need arrive. The wait of
`CompanionReceiveResponse` counts only the pauses it sleeps through
(`CompanionLink.c:543`, 549), and nothing for the frames it drops (562-623). The model
has such traffic (`flood`): while it lasts the wait does not expire. The pauses of one
wait add up, so that the call is strongly fair: with pauses again and again, however
short, it goes on. `CallsReturn` asks for these pauses, and does not hold without them.
In `TransportTests` and
`ApplicationTests`: the test runs on and its clock advances, the driver promises
nothing. In `NetworkTests` the waits are counted polls, so that the program alone is
fair. In `EchoProbe`: the program, and the firmware's timer, which ends the waits of
the UDP and TCP probes. Where a timer event could not be created, which layer 4 and the
probes do not check, the wait ends only when the driver ends it, and `TestsEnd` and
`ProbeEnds` say so (`clock = "missing"`). In `CompanionLifecycle`: the main thread runs
on; no other thread promises anything, so that every `join` may time out. `LinkTests`
and `QuickScan` state no liveness: their loops have constant bounds, and no step of
theirs waits for anybody.

No run switches the deadlock check off: a caller, an operator or a restart can
always go on.

## 4. Proofs

`tlapm` checks every proof from nothing. The theorems hold for all values of the
constants that satisfy the named assumptions (`MaxSends` positive, `Faults` a set of
known faults, `Iterations` in 1..50, `Outcomes` the ones named, `Ports` a function on
the services, `Contested` some of them; any `Setups`, `MaxFrames`, `Count` in 1..10,
`MaxTtl` positive, any range of payloads, any size of ring and screen, any `Nics`).

Control channel and companion:

* **`TypeCorrect`** (channel). `TypeOK` with `Counted` (`MessageId` never passes the
  number of transmissions, without which its bound is not inductive).
* **`EarnedAlways`**, for every set of faults. `SuccessIsEarned` alone is not
  inductive, because a call succeeds on a reply already in flight; `RepliesEarned`
  says that every such reply, unless an ERROR, comes from a command carried out,
  and that READY answers PREPARE. `LastStep` states once how a step may change what
  the last call returned.
* **`QuietAlways`, `GenuineAlways`, `SilenceAlways`**, assuming `Timely` (no `late`,
  `dup`, `nic`). The strengthening is `Lockstep`: at most one datagram is in flight, only
  while a call waits, and it is the command that call sent last or the answer to it.
  `SilenceAlways` adds `Unheard`: while a Connect is still trying, none of its HELLOs has
  been answered by a datagram that arrived.
* **`SessionAlways`**, assuming also that the companion is not restarted.
  `SessionOpen` adds that a test command runs only in an open session, and that an
  ACK on its way to Connect comes from one.
* **`ChannelIsSession`**, assuming `Timely`: the channel implements the safety part of
  `ControlSession` (`Session!Safety`), with companion restarts and reboots. Initial
  states map to initial states (`SessionInit`), and each step to a step or a stutter:
  `CallMaps`, `NotSentMaps`, `TimeoutMaps`, `ReplyMaps`, `HandleMaps`, `LossMaps`. Besides
  `Lockstep`, which makes the mapping of `Turn` and `Answer` well defined, it needs
  `Believing`: a call that exchanges messages runs on a connected link, and the
  companion answers ERROR to test commands only, so that a HELLO or a DONE that is
  answered is answered well.
* **`FirstHelloSuffices`**, assuming that nothing is lost, delayed or refused (the
  machines may restart): Connect never sends a second HELLO and ends connected.
  `Expecting` says that a call that waits always has a datagram on its way, so that no
  wait runs out.
* **`AddressAlways`, `NoOrphanAlways`, `ReadyAlways`, `TypeCorrect`** (companion), for
  every assignment of ports. `AddressFollowed` says that, unless a signal has killed a
  launch, the address was found if and only if it was not added; `DnsmasqFollowed`
  where `stop` has still to come for dnsmasq; `ControlFollowed` that the control
  socket is closed once the next service is being stopped.
* **`JoinAlwaysReturns`** (companion), assuming that the ports of the HTTP server are
  ports of the TCP listener too: the main thread never comes to the `shutdown()` that
  does not return. `TcpFirst` says that none of those ports is free once the TCP
  listener has been started, that a service holds nothing before it is, and hence
  that the HTTP server never gets a socket.

Tests and probes. `TypeOKAlways` and, except for the probes, `VerdictHonestAlways` of
every layer are proved; a verdict is judged at the end, so the invariant has to say what
it will be judged on at every stage before:

* **Layers 1 and 2**: `Linking`. `Located` says which tests come to a stage, `Busy`
  where a driver or the ring can hold something of the test's, `Counted` that every
  frame delivered is counted, in the token or lost, `Cycled` how far the NIC has come
  in its cycle and on its way back, and which calls have failed, `Told` what has been sent
  and seen. It gives `VerdictHonestAlways`,
  `CycleRestoresAlways`, `DriversLetGoAlways`, and the action properties
  `FramesNeedNicAlways` (the NIC stays initialised between two stages of one test)
  and `ReportGentleAlways` (which stages the tests of a report can come to).
* **Layer 3**: `Testing`. `Placed` ties the two children to the stages; `Bracketed` is the
  loop invariant of the binary search, which gives `MtuBracketedAlways`; `Told` says
  that all messages of a test have been counted but the one the present ping is about to
  return (`Coming`), and that each of those was preceded by a request (`Sent`).
* **Layers 4 and 7**: `Owned` ties the position of the operation to that of the test and
  gives `TokenOwnedAlways` and `ChildrenReturnedAlways`; `Tended` (layer 4) says where a
  connection may be open and gives `ClosedAlways`; `Reckoned` relates the counters, per
  stage and test, to what the drivers completed in time, and gives `VerdictHonestAlways`.
* **Echo probes**: `Probing`. `ToldIcmp` and `ToldSock` say what the tokens and the stage
  tell of the answer (an echo, a hollow one or none), and give `ResultHonestAlways`; `Located` gives `DriversLetGoAlways`.
  **`RingImplementsLog`** proves that `EchoProbe` implements `ProbeLog`, for every size of
  ring and screen: initial states map to initial states, and each step to a step
  (`RecordStep`, `ClearStep`) or a stutter. The arithmetic is in `IndexIs` and `Moved`:
  after the head has advanced, the i-th newest result is where the (i-1)-th was.
* **Quick scan**: `ScanInv`. `LayerOK` says of every layer whether the scan is past it, in
  the middle of it or has still to come to it; `Agrees` ties its tally to what its tests
  found, and says that nothing below the broken layer was found bad. It gives **`ScanTyped`**, **`BlameIsRight`** (nobody is
  sent to a layer that works), **`HealthIsTested`** and **`BarsStayInRange`**, for any set
  of protocol stacks.

Bounded steps. That something ends is liveness, which this prover cannot do; but what
makes it true in this code is that every loop counts, and that is an action property.
Each of these theorems gives a number `StepsLeft`, its bound, and `EveryStepCounts`: a
step of the program, or of a timer, lowers it, and no step of the driver, the server or
the network raises it. What remains for TLC is only that, under the fairness stated, some
step that lowers it is possible until the end.

| Theorem | Bound | The part of |
|---|---|---|
| `CallsAreBounded` (channel, any network) | two per attempt, six at most; a whole wait is one step, however long | `CallsReturn` |
| `FirstHelloSuffices` (channel, nothing lost) | one attempt | `ConnectSucceeds` |
| `TestsAreBounded` (layer 3) | 30, and 29 for every further ping; also `EveryPingHalves`: each ping of the MTU search leaves at most half of the sizes | `TestsEnd` |
| `TestsAreBounded` (layer 4) | 1, and 26 for every round | `TestsEnd` |
| `TestsAreBounded` (layer 7) | 43 | `TestsEnd` |
| `ProbesAreBounded` | 27 | `ProbeEnds` |
| `MainIsBounded` (companion), with `JoinAlwaysReturns` | 27 from a launch | `SignalEnds` |

They rest on the invariants above and on one more (`AtHelper`, `Timed`, `Awaited`,
`Ordered`): where a call stands, and that a clock runs only while its operation is
waited for, so that no expiry is counted twice. For layers 1 and 2 there is no such
number: the receive loop of MNP ends by its clock, which the model leaves open, and until
then the driver may complete the token any number of times.

Only model-checked: liveness itself (`CallsReturn`, `ConnectSucceeds`, `TestsEnd`,
`ProbeEnds`, `SignalEnds`) and, of `ImplementsSession`, the fairness of
`ControlSession`: fairness and ENABLED are beyond this prover. Every invariant and every
action property of the runs is also proved, as is `ImplementsLog`.

## 5. What the models leave out, and what was noticed

Left out of the modules above:

* The bytes of frames, texts, log lines and diagnostics; round-trip times, whose clock
  counts whole seconds.
* Inside `CompanionInit` and `CompanionDestroy`: the children are created and
  destroyed in one step.
* `_cleanup_interface_ip`: `ip addr del` is taken to succeed.
* Lifetime of events (layer 7 closes some before the operation they were given to is
  stopped), and of memory: that a driver or NIC still reads a buffer whose owner has
  returned is visible in the models (`stale` in `SnpNic`, `withdrawing` in the children),
  and no property excludes it, because the code does allow it.
* The UDP and TCP probes leave by one clean-up (`Destroy`) where the code has a dozen
  exits; one that missed its clean-up would not show.
* A companion that a signal interrupts before it waits for signals (`companion.py:290-312`)
  leaves address and dnsmasq behind; `AddressAsFound` and `NoOrphan` exempt it.

Disagreements and weaknesses noticed while reading; the models contain these behaviours
unless the entry says otherwise, but have no run of their own for them:

* *Control channel.* CompanionStart promises "Companion acknowledged START"
  (`CompanionLink.c:936`), but the second answer to a repeated HELLO is an ACK too and is
  taken for it (964). Connect succeeds on a late ACK whose session a late DONE then closes,
  against "Handshake completed, companion connected" (665, 723). Both need a network that
  delays. A wait of TimeoutMs (`CompanionLink.c:526`) does not end while frames that do not
  match follow each other without a pause.
* *Layers 1 and 2.* NicStatus passes every initialised NIC that cannot detect its link,
  because the detection then answers TRUE (`Layer1Physical.c:104`), against "SNP initialized,
  media present" (117). LinkDetect sends a frame where detection is not supported or says
  no, and passes if the NIC takes it, against the WARN and the FAIL of 197-198; Loopback
  passes on a buffer of anybody's (396). NicInitCycle "Restores the NIC to its original
  state afterward" (276): calls of the restoring that fail (352-358, 380-385) are not reported,
  and after a Stop or a Start that failed nothing is restored. ARP Request/Reply passes on zeros
  and on any reply, against "valid MAC", and warns where nothing could be sent, against
  "FAIL: TX failed" (`Layer2DataLink.c:344-346`). FrameTxRx takes any frame for the response
  (791), MtuDetection warns where its frame is refused (926), ReceiveFilter never fails (1034).
* *Layers 1 and 2, side effects.* A report is said to "Skip ALL tests that perform hardware I/O
  (Transmit, Receive, ... ReceiveFilters)" (`ReportExporter.c:1308`), and runs NicStatus and
  LinkDetect (1313), which transmit a frame and set receive filters. Buffers on the stack
  or in the pool stay in the transmit ring of the NIC after the test (`Layer1Physical.c:46`, `Layer2DataLink.c:1002`).
* *ARP.* A resolution the driver has given up leaves zeros in the buffer and is reported as
  a resolution (`Layer2DataLink.c:252`) or as a duplicate of our address
  (`Layer3Network.c:2130`, against 2091). Without an ARP driver and a NIC,
  Duplicate IP passes without asking anybody.
* *Layer 3.* TTL/Hop Discovery passes with silent hops and warns where the target was not
  reached (`Layer3Network.c:1378-1402`), against WARN and FAIL (1324-1325). Routing Table passes
  on whatever ARP reply comes first, zeros too (283), against "reachable" (1980). IP Fragmentation
  warns where the next hop cannot be resolved and nothing was sent (1571), against FAIL (1518).
  ICMP Echo has a WARN and a SKIP its header does not know (1142). IP Header Validation passes without a reply when an event cannot be created or
  the token has no data (`Layer3Network.c:1853`, 1898): 0 is PASS. The packet of a
  transmission that was never cancelled is freed before `Configure(NULL)` (723).
* *Layer 4.* TCP Multi-Port warns where some of its ports connect
  (`Layer4Transport.c:942-951`), against "PASS: At least one port connected" (880). TCP Stress
  fails at exactly half, against "Majority of connections failed" (1438). All datagrams sent and none answered is a FAIL, because the time-out of the
  answer is the status of the whole (`Layer4Transport.c:1297`), against the WARN the comment
  at 1323 intends; a datagram without data makes it a WARN without a reply, against 1251. UDP Send/Receive is a WARN where nothing was sent (1232 against 1167).
* *Layer 7.* DHCP Discover gives its lease back (`Layer7Application.c:490`), so that the
  suggestion to run it before Lease Verify (601) leads nowhere; Lease Verify passes in state
  Stopped with a static address (607 against 499). HTTP GET passes with every status
  from 200 to 206 (1340), against "PASS: Received HTTP 200 OK response" (1055), and does not
  look at the status of the response token (1330); HTTP Status Codes does, and so discards a 404 that the driver
  reports with an error (1615).
* *Quick scan.* A layer left out is not a failed one, so that layers 3 and 4 are tested over
  a layer 2 that was not (`QuickScan.c:644`); skipped tests enter the total twice (701).
* *Echo probes.* An ARP probe passes on a request that the driver gave up or answers from its
  cache, against "ARP reply received" (`ProtocolProbe.c:180`) and the ARP reply that
  `docs/PROTOCOL_ECHO_TEST.md:42` asks for; by hand, on any ARP reply to anybody (388). That
  way replaces the receive filters (365) and leaves a buffer of its stack in the NIC's ring
  (374): the model has both, `DriversLetGo` speaks of drivers only. A UDP token without data
  passes (952), against "received and validated" (738), and an ICMP message without data is
  shown as TIMEOUT (682). A TCP echo that comes after the last look is still counted, because
  the status is read again after Cancel (1283-1288). A TCP echo that does not come is shown as FAIL, against `EFI_TIMEOUT`
  of `ProtocolProbe.c:1016`, because the aborted token's status is read again. Of
  the "last PROBE_HISTORY_SIZE results" (`Main.c:679`), which are 12, nine fit the screen.
* *Companion.* With the default configuration the TCP listener takes port 80 before the HTTP
  server asks for it (`http_server.py:73`), which `README.md:366` lists as a service. PREPARE
  is answered READY for services that do not run (`companion.py:203`); a dnsmasq that exits
  is not replaced (`dhcp_manager.py:106`).

## 6. Not modelled

| Part | Reason |
|---|---|
| DHCP server and answering services of the companion | one request is answered by one callback, mostly from constants. The address assignment (`dhcp_manager.py:191`) and the counters changed outside the lock (`icmp_handler.py:119`) are the behaviours worth a model; both are listed below |
| Stress test, `Utils.c` | numbers over time, measured with a clock of whole seconds; its pings are those of layer 3 |
| Menus of `Main.c`, screen rendering, system information views | reaction to one key at a time, without concurrency or failure |
| NIC discovery, PCI, driver and system information | one pass over firmware tables at the start; its result is the constants `Setups`, `Nics` and `Protocols` |
| Packet builder and parser | layout of bytes; the models have frames as values |
| Text of the report, logger | output; no other state depends on it |
| Capture and validation of the companion | never started |
| `RunLayerTests`, `RunAllTests` | loops over `RunSingleTest` without state of their own |
| Build files and scripts, `OsiAnalyzer.c` | no program state; a stub |

What is left to do, the most useful first:

| Module | Question | Composed with |
|---|---|---|
| `DhcpServer` | one address, one client; does ACK agree with OFFER | `CompanionLifecycle` |
| `EchoServices` | counters read and cleared from two threads | `ControlServer` |
| `LinkResources` | steps of `CompanionInit`, what a failure leaves behind, the interface's IPv4 policy | `CompanionLink` |
| `StressTiming`, `LogRing`, `NicListView` | rings at their limit, the clock at midnight, selection and scrolling | `ProbeLog` as abstract ring |
| `PacketChecks`, `NicDiscovery` | checksums against a reference, arrays at their limit | |
