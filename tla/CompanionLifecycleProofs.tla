----------------------- MODULE CompanionLifecycleProofs -----------------------
(***************************************************************************)
(* What the companion leaves behind on its machine, for every assignment   *)
(* of ports, every set of sockets held by others and every timing of its   *)
(* threads.  Three small inductive invariants follow the address, dnsmasq  *)
(* and the control socket along the path of the main thread.               *)
(***************************************************************************)
EXTENDS CompanionLifecycle, TLAPS

LEMMA OrderFacts ==
  /\ Len(Order) = 8
  /\ \A i \in 1..8 : Order[i] \in Services
  /\ \A i \in 1..8 : Order[i] = "dhcp" <=> i = 6
  /\ \A i \in 1..8 : Order[i] = "control" <=> i = 1
  BY DEF Order, Services

\* Binding keeps the types of what a service owns.
LEMMA BindType ==
  ASSUME TypeOK, NEW s \in Services, Bind(s)
  PROVE  /\ running' \subseteq Services
         /\ looping' \subseteq Services
         /\ held' \in [Services -> SUBSET AllPorts]
  BY DEF TypeOK, Bind, Free

LEMMA TypeStart ==
  ASSUME TypeOK, Launch \/ Start
  PROVE  TypeOK'
<1>1. CASE Launch
  <2>1. 2 \in 1..Len(Order)
    BY OrderFacts
  <2> QED
    BY <1>1, <2>1 DEF TypeOK, Launch, Stages, serviceVars, machineVars
<1>2. CASE EnsureInterfaceIp
  BY <1>2 DEF TypeOK, EnsureInterfaceIp, Stages, serviceVars, machineVars
<1>3. CASE StartService
  <2>1. Order[pos] \in Services
    BY OrderFacts DEF TypeOK
  <2>2. /\ running' \subseteq Services
        /\ looping' \subseteq Services
        /\ held' \in [Services -> SUBSET AllPorts]
        /\ dnsmasq' \subseteq {"ours", "orphan"}
    BY <1>3, <2>1, BindType DEF TypeOK, StartService, StartDhcp, serviceVars
  <2>3. pos' \in 1..Len(Order) /\ main' \in Stages
    BY <1>3, OrderFacts DEF TypeOK, StartService, Stages
  <2> QED
    BY <1>3, <2>2, <2>3 DEF TypeOK, StartService, machineVars
<1>4. CASE StartControl
  <2>1. "control" \in Services
    BY OrderFacts
  <2>2. /\ running' \subseteq Services
        /\ looping' \subseteq Services
        /\ held' \in [Services -> SUBSET AllPorts]
    BY <1>4, <2>1, BindType DEF StartControl
  <2> QED
    BY <1>4, <2>2 DEF TypeOK, StartControl, Stages, machineVars
<1> QED
  BY <1>1, <1>2, <1>3, <1>4 DEF Start

LEMMA TypeStop ==
  ASSUME TypeOK, Stop
  PROVE  TypeOK'
<1>1. CASE LeaveServing
  BY <1>1 DEF TypeOK, LeaveServing, Stages, serviceVars, machineVars
<1>2. CASE TellStop
  BY <1>2 DEF TypeOK, TellStop, Stages, machineVars
<1>3. CASE Join
  BY <1>3, OrderFacts DEF TypeOK, Join, Stages, machineVars
<1>4. CASE Cleanup
  BY <1>4 DEF TypeOK, Cleanup, CleanupInterfaceIp, ProcessGone, NothingHeld, Stages, machineVars
<1> QED
  BY <1>1, <1>2, <1>3, <1>4 DEF Stop

LEMMA TypeAround ==
  ASSUME TypeOK,
         \/ Signal \/ DnsmasqExits
         \/ \E s \in Services : LeaveLoop(s)
         \/ \E t \in Targets : HandlePrepare(t)
  PROVE  TypeOK'
<1>1. CASE Signal
  BY <1>1 DEF TypeOK, Signal, ProcessGone, NothingHeld, Stages, serviceVars, machineVars
<1>2. CASE DnsmasqExits
  BY <1>2 DEF TypeOK, DnsmasqExits, serviceVars, machineVars
<1>3. ASSUME NEW s \in Services, LeaveLoop(s) PROVE TypeOK'
  BY <1>3 DEF TypeOK, LeaveLoop, machineVars
<1>4. ASSUME NEW t \in Targets, HandlePrepare(t) PROVE TypeOK'
  BY <1>4 DEF TypeOK, HandlePrepare, serviceVars, machineVars
<1> QED
  BY <1>1, <1>2, <1>3, <1>4

\* Every variable keeps its type: the position never leaves the list of
\* services (companion.py:182-201), a socket is one the service asked for.
THEOREM TypeCorrect == Spec => []TypeOK
<1>1. ASSUME Init PROVE TypeOK
  <2>1. 2 \in 1..Len(Order)
    BY OrderFacts
  <2>2. held \in [Services -> SUBSET AllPorts]
    BY <1>1 DEF Init, NothingHeld
  <2>3. {installed, address, added, signalled, found, interrupted} \subseteq BOOLEAN
    BY <1>1 DEF Init
  <2> QED
    BY <1>1, <2>1, <2>2, <2>3 DEF Init, TypeOK, Stages
<1>2. TypeOK /\ [Next]_vars => TypeOK'
  <2> SUFFICES ASSUME TypeOK, [Next]_vars PROVE TypeOK'
    OBVIOUS
  <2>1. CASE UNCHANGED vars
    BY <2>1 DEF TypeOK, vars, serviceVars, machineVars
  <2> QED
    BY <2>1, TypeStart, TypeStop, TypeAround DEF Next
<1> QED
  BY <1>1, <1>2, PTL DEF Spec

-----------------------------------------------------------------------------
(* The address *)

Up == {"services", "control", "serving", "telling", "joining", "cleanup"}

\* From the step that ensures the address on it is there, and it is marked as
\* added exactly where the first launch did not find it.
AddressFollowed ==
  /\ main \in Stages
  /\ {address, added, found} \subseteq BOOLEAN
  /\ main = "address" => ~added
  /\ main = "killed" => interrupted
  /\ ~interrupted /\ main \in {"address", "ended"} => address = found
  /\ ~interrupted /\ main \in Up => address /\ added = ~found

\* The companion takes away the address it has added and no other
\* (companion.py:91-144), for every port assignment and thread timing.
THEOREM AddressAlways == Spec => []AddressAsFound
<1>1. Init => AddressFollowed
  BY DEF Init, AddressFollowed, Stages, Up
<1>2. AddressFollowed /\ [Next]_vars => AddressFollowed'
  <2> SUFFICES ASSUME AddressFollowed, [Next]_vars PROVE AddressFollowed'
    OBVIOUS
  <2> USE DEF AddressFollowed, Stages, Up, machineVars
  <2>1. CASE Launch
    BY <2>1 DEF Launch
  <2>2. CASE EnsureInterfaceIp
    BY <2>2 DEF EnsureInterfaceIp
  <2>3. CASE StartService \/ StartControl
    BY <2>3 DEF StartService, StartControl
  <2>4. CASE LeaveServing \/ TellStop \/ Join
    BY <2>4 DEF LeaveServing, TellStop, Join
  <2>5. CASE Cleanup
    BY <2>5 DEF Cleanup, CleanupInterfaceIp
  <2>6. CASE Signal
    BY <2>6 DEF Signal
  <2>7. CASE \/ DnsmasqExits
             \/ \E s \in Services : LeaveLoop(s)
             \/ \E t \in Targets : HandlePrepare(t)
    BY <2>7 DEF DnsmasqExits, LeaveLoop, HandlePrepare
  <2>8. CASE UNCHANGED vars
    BY <2>8 DEF vars
  <2> QED
    BY <2>1, <2>2, <2>3, <2>4, <2>5, <2>6, <2>7, <2>8 DEF Next, Start, Stop
<1>3. AddressFollowed => AddressAsFound
  BY DEF AddressFollowed, AddressAsFound
<1> QED
  BY <1>1, <1>2, <1>3, PTL DEF Spec

-----------------------------------------------------------------------------
(* dnsmasq *)

\* The companion has a dnsmasq at most until it tells DhcpManager, the sixth
\* in the order, to stop.
DnsmasqFollowed ==
  /\ "ours" \in dnsmasq =>
       \/ main \in {"services", "control", "serving"}
       \/ main = "telling" /\ pos <= 6
       \/ main = "joining" /\ pos <= 5
  /\ "orphan" \in dnsmasq => interrupted
  /\ main \in {"control", "serving"} => pos = 1

\* No companion that ends by itself leaves its dnsmasq behind
\* (dhcp_manager.py:61-80), whatever its threads do.
THEOREM NoOrphanAlways == Spec => []NoOrphan
<1>1. Init => DnsmasqFollowed
  BY DEF Init, DnsmasqFollowed
<1>2. TypeOK /\ DnsmasqFollowed /\ [Next]_vars => DnsmasqFollowed'
  <2> SUFFICES ASSUME TypeOK, DnsmasqFollowed, [Next]_vars PROVE DnsmasqFollowed'
    OBVIOUS
  <2>0. pos \in 1..8 /\ Len(Order) = 8 /\ (Order[pos] = "dhcp" <=> pos = 6)
    BY OrderFacts DEF TypeOK
  <2> USE DEF DnsmasqFollowed
  <2>1. CASE Launch \/ EnsureInterfaceIp
    BY <2>1 DEF Launch, EnsureInterfaceIp
  <2>2. CASE StartService
    BY <2>0, <2>2 DEF StartService, StartDhcp
  <2>3. CASE StartControl
    BY <2>3 DEF StartControl
  <2>4. CASE LeaveServing
    BY <2>4 DEF LeaveServing
  <2>5. CASE TellStop
    BY <2>0, <2>5 DEF TellStop
  <2>6. CASE Join
    BY <2>0, <2>6 DEF Join
  <2>7. CASE Cleanup
    BY <2>7 DEF Cleanup
  <2>8. CASE Signal
    BY <2>8 DEF Signal
  <2>9. CASE \/ DnsmasqExits
             \/ \E s \in Services : LeaveLoop(s)
             \/ \E t \in Targets : HandlePrepare(t)
    BY <2>9 DEF DnsmasqExits, LeaveLoop, HandlePrepare
  <2>10. CASE UNCHANGED vars
    BY <2>10 DEF vars
  <2> QED
    BY <2>1, <2>2, <2>3, <2>4, <2>5, <2>6, <2>7, <2>8, <2>9, <2>10 DEF Next, Start, Stop
<1>3. DnsmasqFollowed => NoOrphan
  BY DEF DnsmasqFollowed, NoOrphan
<1> QED
  BY <1>1, <1>2, <1>3, TypeCorrect, PTL DEF Spec

-----------------------------------------------------------------------------
(* The control socket *)

\* The control server has a socket only while it is the one to be stopped next.
ControlFollowed ==
  /\ pos # 1 => held["control"] = {}
  /\ main \in {"control", "serving"} => pos = 1
  /\ main \in {"address", "services"} => pos # 1
  /\ main \in {"address", "services", "ended", "killed"} => held["control"] = {}

\* No READY is sent once the services are being stopped, because the control
\* server is stopped first (companion.py:326-331) and its stop closes the
\* socket also where join has timed out (control_server.py:46-54).
THEOREM ReadyAlways == Spec => ReadyBeforeStopping
<1>1. Init => ControlFollowed
  BY OrderFacts DEF Init, ControlFollowed, NothingHeld
<1>2. TypeOK /\ ControlFollowed /\ [Next]_vars => ControlFollowed'
  <2> SUFFICES ASSUME TypeOK, ControlFollowed, [Next]_vars PROVE ControlFollowed'
    OBVIOUS
  <2>0. /\ pos \in 1..8 /\ Len(Order) = 8
        /\ Order[pos] \in Services /\ "control" \in Services
        /\ Order[pos] = "control" <=> pos = 1
        /\ held \in [Services -> SUBSET AllPorts]
    BY OrderFacts DEF TypeOK
  <2> USE DEF ControlFollowed
  <2>1. CASE Launch \/ EnsureInterfaceIp
    BY <2>1 DEF Launch, EnsureInterfaceIp, serviceVars
  <2>2. CASE StartService
    <3>1. held'["control"] = {}
      BY <2>0, <2>2 DEF StartService, StartDhcp, Bind, serviceVars
    <3> QED
      BY <2>0, <2>2, <3>1 DEF StartService
  <2>3. CASE StartControl
    BY <2>3 DEF StartControl
  <2>4. CASE LeaveServing
    BY <2>4 DEF LeaveServing, serviceVars
  <2>5. CASE TellStop
    BY <2>0, <2>5 DEF TellStop
  <2>6. CASE Join
    BY <2>0, <2>6 DEF Join
  <2>7. CASE Cleanup
    BY <2>0, <2>7 DEF Cleanup, ProcessGone, NothingHeld
  <2>8. CASE Signal
    BY <2>0, <2>8 DEF Signal, ProcessGone, NothingHeld, serviceVars
  <2>9. CASE \/ DnsmasqExits
             \/ \E s \in Services : LeaveLoop(s)
             \/ \E t \in Targets : HandlePrepare(t)
    BY <2>9 DEF DnsmasqExits, LeaveLoop, HandlePrepare, serviceVars
  <2>10. CASE UNCHANGED vars
    BY <2>10 DEF vars, serviceVars
  <2> QED
    BY <2>1, <2>2, <2>3, <2>4, <2>5, <2>6, <2>7, <2>8, <2>9, <2>10 DEF Next, Start, Stop
<1>3. ControlFollowed /\ [Next]_vars
        => [promised' \notin {promised, "none"} => pos = 1]_vars
  <2> SUFFICES ASSUME ControlFollowed, Next, promised' \notin {promised, "none"}
               PROVE  pos = 1
    OBVIOUS
  <2>1. \E t \in Targets : HandlePrepare(t)
    BY DEF Next, Launch, Start, EnsureInterfaceIp, StartService, StartControl, Stop,
       LeaveServing, TellStop, Join, Cleanup, Signal, DnsmasqExits, LeaveLoop
  <2> QED
    BY <2>1 DEF HandlePrepare, ControlFollowed
<1> QED
  BY <1>1, <1>2, <1>3, TypeCorrect, PTL DEF Spec, ReadyBeforeStopping

-----------------------------------------------------------------------------
(* The way to the end *)

\* The TCP listener is started before the HTTP server and takes what it can, so
\* that none of its ports is free any more when the HTTP server asks for one.
TcpFirst ==
  /\ main \in {"address", "ended", "killed"} => held = NothingHeld
  /\ main = "services" => \A i \in pos..8 : held[Order[i]] = {}
  /\ main = "services" /\ pos >= 5 => Ports["tcp"] \cap Free = {}
  /\ held["http"] = {}

\* What is left of the path of the main thread: a service is told to stop and
\* then waited for.
StepsLeft ==
  CASE main = "address" -> 27
    [] main = "services" -> 28 - pos
    [] main = "control" -> 19
    [] main = "serving" -> 18
    [] main = "telling" -> 19 - 2 * pos
    [] main = "joining" -> 18 - 2 * pos
    [] main = "cleanup" -> 1
    [] main \in {"ended", "killed"} -> 0

\* Only a new launch begins the path again; everything else the machine does
\* leaves the main thread where it is or ends it.
EveryStepCounts ==
  /\ Start \/ Stop => StepsLeft' < StepsLeft
  /\ main \notin {"ended", "killed"} => StepsLeft' <= StepsLeft

\* Where the main thread is in the list of services.
Ordered ==
  /\ main = "address" => pos = 2
  /\ main = "services" => pos \in 2..8
  /\ main \in {"control", "serving"} => pos = 1

LEMMA OrderedInit == Init => Ordered
  BY DEF Init, Ordered

LEMMA OrderedStep == TypeOK /\ Ordered /\ [Next]_vars => Ordered'
<1> SUFFICES ASSUME TypeOK, Ordered, [Next]_vars PROVE Ordered'
  OBVIOUS
<1>1. pos \in 1..8 /\ Len(Order) = 8
  BY OrderFacts DEF TypeOK
<1> USE DEF Ordered
<1>2. CASE Launch \/ Start
  <2>1. CASE Launch \/ EnsureInterfaceIp
    BY <2>1 DEF Launch, EnsureInterfaceIp
  <2>2. CASE StartService \/ StartControl
    BY <1>1, <2>2 DEF StartService, StartControl
  <2> QED
    BY <1>2, <2>1, <2>2 DEF Start
<1>3. CASE Stop
  BY <1>1, <1>3 DEF Stop, LeaveServing, TellStop, Join, Cleanup
<1>4. CASE Signal
  BY <1>4 DEF Signal
<1>5. CASE \/ DnsmasqExits
           \/ \E s \in Services : LeaveLoop(s)
           \/ \E t \in Targets : HandlePrepare(t)
  BY <1>5 DEF DnsmasqExits, LeaveLoop, HandlePrepare
<1>6. CASE UNCHANGED vars
  BY <1>6 DEF vars
<1> QED
  BY <1>2, <1>3, <1>4, <1>5, <1>6 DEF Next

LEMMA StepsLeftIs == ASSUME TypeOK, Ordered PROVE StepsLeft \in 0..27
<1>1. pos \in 1..8 /\ main \in Stages
  BY OrderFacts DEF TypeOK
<1> QED
  BY <1>1 DEF Stages, Ordered, StepsLeft

LEMMA MainCounts ==
  ASSUME TypeOK, Ordered, [Next]_vars
  PROVE  EveryStepCounts
<1>1. pos \in 1..8 /\ Len(Order) = 8 /\ main \in Stages
  BY OrderFacts DEF TypeOK
<1>2. StepsLeft \in 0..27
  BY StepsLeftIs
<1>3. ASSUME EnsureInterfaceIp \/ StartService \/ StartControl PROVE StepsLeft' < StepsLeft
  BY <1>1, <1>3 DEF EnsureInterfaceIp, StartService, StartControl, Ordered, StepsLeft
<1>4. ASSUME LeaveServing \/ TellStop \/ Join \/ Cleanup PROVE StepsLeft' < StepsLeft
  BY <1>1, <1>4 DEF LeaveServing, TellStop, Join, Cleanup, Ordered, StepsLeft
<1>5. Start \/ Stop => StepsLeft' < StepsLeft
  BY <1>3, <1>4 DEF Start, Stop
<1>6. CASE Start \/ Stop
  <2>1. StepsLeft' <= StepsLeft
    <3>1. CASE Start
      BY <1>1, <1>6, <3>1 DEF Start, EnsureInterfaceIp, StartService, StartControl, Ordered, StepsLeft
    <3>2. CASE Stop
      BY <1>1, <1>6, <3>2 DEF Stop, LeaveServing, TellStop, Join, Cleanup, Ordered, StepsLeft
    <3> QED
      BY <1>6, <3>1, <3>2
  <2> QED
    BY <1>5, <2>1 DEF EveryStepCounts
<1>7. CASE Signal
  <2>1. \/ main' = "killed"
        \/ main' = main /\ pos' = pos
    BY <1>7 DEF Signal
  <2>2. StepsLeft' = 0 \/ StepsLeft' = StepsLeft
    BY <2>1 DEF StepsLeft
  <2>3. StepsLeft' <= StepsLeft
    BY <1>2, <2>2
  <2> QED
    BY <1>5, <2>3 DEF EveryStepCounts
<1>8. CASE UNCHANGED <<main, pos>>
  <2>1. StepsLeft' = StepsLeft
    BY <1>8 DEF StepsLeft
  <2> QED
    BY <1>2, <1>5, <2>1 DEF EveryStepCounts
<1>9. CASE Launch
  BY <1>5, <1>9 DEF Launch, EveryStepCounts
<1> QED
  BY <1>6, <1>7, <1>8, <1>9 DEF Next, DnsmasqExits, LeaveLoop, HandlePrepare, vars

\* From a launch to its end the main thread takes at most 27 steps, for every
\* assignment of ports and every timing of the other threads, and nothing sends it
\* back: no wait of companion.py is begun twice.
THEOREM MainIsBounded ==
  Spec => /\ [](StepsLeft \in 0..27)
          /\ [][EveryStepCounts]_vars
<1>1. TypeOK /\ Ordered => StepsLeft \in 0..27
  BY StepsLeftIs
<1>2. TypeOK /\ Ordered /\ [Next]_vars => EveryStepCounts
  BY MainCounts
<1> QED
  BY <1>1, <1>2, OrderedInit, OrderedStep, TypeCorrect, PTL DEF Spec

\* A service that binds takes nothing away from the others and gives nothing back.
LEMMA BindHolds ==
  ASSUME TypeOK, NEW s \in Services, held[s] = {}, Bind(s)
  PROVE  /\ held'[s] = Ports[s] \cap Free
         /\ \A r \in Services \ {s} : held'[r] = held[r]
         /\ foreign' = foreign => Free' = Free \ Ports[s]
<1>1. /\ held \in [Services -> SUBSET AllPorts]
      /\ held' = [held EXCEPT ![s] = Ports[s] \cap Free]
  BY DEF TypeOK, Bind
<1>2. held'[s] = Ports[s] \cap Free /\ \A r \in Services \ {s} : held'[r] = held[r]
  BY <1>1
<1>3. UNION {held'[r] : r \in Services} = (UNION {held[r] : r \in Services}) \cup (Ports[s] \cap Free)
  BY <1>2
<1>4. foreign' = foreign => Free' = Free \ Ports[s]
  BY <1>3 DEF Free
<1> QED
  BY <1>2, <1>4

LEMMA TcpFirstStep ==
  ASSUME Ports["http"] \subseteq Ports["tcp"], TypeOK, Ordered, TcpFirst, [Next]_vars
  PROVE  TcpFirst'
<1>1. /\ pos \in 1..8 /\ Len(Order) = 8
      /\ \A i \in 1..8 : Order[i] \in Services
      /\ \A i, j \in 1..8 : Order[i] = Order[j] => i = j
      /\ Order[4] = "tcp" /\ Order[8] = "http" /\ Order[6] = "dhcp" /\ Order[1] = "control"
      /\ held \in [Services -> SUBSET AllPorts]
  BY OrderFacts DEF TypeOK, Order
<1> USE DEF TcpFirst
<1>2. CASE Launch
  BY <1>1, <1>2 DEF Launch, serviceVars, NothingHeld
<1>3. CASE EnsureInterfaceIp
  BY <1>1, <1>3 DEF EnsureInterfaceIp, serviceVars, NothingHeld, Ordered
<1>4. CASE StartService
  <2>1. pos \in 2..8 /\ held[Order[pos]] = {} /\ foreign' = foreign /\ Order[pos] \in Services
    BY <1>1, <1>4 DEF Ordered, StartService, machineVars
  <2>2. CASE Bind(Order[pos])
    <3>1. /\ held'[Order[pos]] = Ports[Order[pos]] \cap Free
          /\ \A r \in Services \ {Order[pos]} : held'[r] = held[r]
          /\ Free' = Free \ Ports[Order[pos]]
      BY <2>1, <2>2, BindHolds
    <3>2. held'["http"] = {}
      <4>1. CASE pos = 8
        BY <1>1, <1>4, <3>1, <4>1 DEF StartService
      <4>2. CASE pos # 8
        BY <1>1, <3>1, <4>2
      <4> QED
        BY <4>1, <4>2
    <3>3. main' = "services" => pos' = pos + 1 /\ pos' \in 3..8
      BY <1>1, <1>4, <2>1 DEF StartService
    <3>4. main' = "services" => \A i \in pos'..8 : held'[Order[i]] = {}
      BY <1>1, <1>4, <2>1, <3>1, <3>3 DEF StartService
    <3>5. main' = "services" /\ pos' >= 5 => Ports["tcp"] \cap Free' = {}
      BY <1>1, <1>4, <3>1, <3>3 DEF StartService
    <3>6. main' \in {"services", "control"}
      BY <1>4 DEF StartService
    <3> QED
      BY <3>2, <3>4, <3>5, <3>6
  <2>3. CASE Order[pos] = "dhcp" /\ UNCHANGED serviceVars
    <3>1. pos = 6 /\ held' = held
      BY <1>1, <2>3 DEF serviceVars
    <3>2. Free' = Free
      BY <2>1, <3>1 DEF Free
    <3> QED
      BY <1>1, <1>4, <3>1, <3>2 DEF StartService
  <2> QED
    BY <1>4, <2>2, <2>3 DEF StartService, StartDhcp
<1>5. CASE StartControl
  BY <1>1, <1>5 DEF StartControl, Bind
<1>6. CASE LeaveServing
  BY <1>6 DEF LeaveServing, serviceVars
<1>7. CASE TellStop
  BY <1>1, <1>7 DEF TellStop
<1>8. CASE Join
  BY <1>1, <1>8 DEF Join
<1>9. CASE Cleanup
  BY <1>1, <1>9 DEF Cleanup, ProcessGone, NothingHeld
<1>10. CASE Signal
  <2>1. CASE ProcessGone /\ main' = "killed"
    BY <1>1, <2>1 DEF ProcessGone, NothingHeld
  <2>2. CASE main \notin {"address", "services", "ended", "killed"} /\ UNCHANGED <<main, serviceVars>>
    BY <2>2 DEF serviceVars
  <2> QED
    BY <1>10, <2>1, <2>2 DEF Signal
<1>11. CASE UNCHANGED <<main, pos, held, foreign>>
  <2>1. Free' = Free
    BY <1>11 DEF Free
  <2> QED
    BY <1>11, <2>1
<1>12. CASE \/ DnsmasqExits
            \/ \E s \in Services : LeaveLoop(s)
            \/ \E t \in Targets : HandlePrepare(t)
            \/ UNCHANGED vars
  BY <1>11, <1>12 DEF DnsmasqExits, LeaveLoop, HandlePrepare, vars, serviceVars, machineVars
<1> QED
  BY <1>2, <1>3, <1>4, <1>5, <1>6, <1>7, <1>8, <1>9, <1>10, <1>12 DEF Next, Start, Stop

\* Where every port of the HTTP server is also a port of the TCP listener, as in
\* Companion/config/default.conf, the HTTP server never gets a socket, and the main
\* thread never comes to the httpd.shutdown() that does not return
\* (http_server.py:86-91): a companion that stops waits for no service for ever.
THEOREM JoinAlwaysReturns ==
  ASSUME Ports["http"] \subseteq Ports["tcp"]
  PROVE  Spec => [](main = "joining" => JoinReturns)
<1>1. Init => TcpFirst
  BY OrderFacts DEF Init, TcpFirst, NothingHeld, Services, Order
<1>2. TypeOK /\ Ordered /\ TcpFirst /\ [Next]_vars => TcpFirst'
  BY TcpFirstStep
<1>3. TcpFirst => JoinReturns
  BY DEF TcpFirst, JoinReturns, ShutdownHangs
<1> QED
  BY <1>1, <1>2, <1>3, OrderedInit, OrderedStep, TypeCorrect, PTL DEF Spec

=============================================================================
