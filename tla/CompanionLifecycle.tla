-------------------------- MODULE CompanionLifecycle --------------------------
(***************************************************************************)
(* The life of the companion process, Companion/companion.py: it gives the *)
(* interface its address, starts seven services and the control server,    *)
(* each with a socket and a thread of its own, waits for a signal, stops   *)
(* all of them one after the other and takes the address away again.  The  *)
(* process may be launched any number of times on one machine.             *)
(***************************************************************************)
EXTENDS Integers, Sequences

CONSTANTS
  Ports,       \* the sockets each service asks for
  Contested    \* bound: sockets that another process may hold

VARIABLES
  main,        \* where run() is
  pos,         \* the service that is started or stopped next
  running,     \* services whose running flag is set
  looping,     \* services whose thread is in its loop
  held,        \* the sockets each service has bound
  dnsmasq,     \* the dnsmasq processes: "ours", "orphan" of a killed companion
  installed,   \* dnsmasq is installed on the machine
  foreign,     \* sockets held by other processes
  address,     \* the interface has the configured address
  added,       \* _ip_was_added
  signalled,   \* SIGINT or SIGTERM has reached the handler
  promised,    \* what the last READY answered to PREPARE was for
  found,       \* history: the address was there before the first launch
  interrupted  \* history: a signal has killed a process that had no handler yet

machineVars == <<installed, foreign, found>>
serviceVars == <<running, looping, held>>
vars == <<main, pos, serviceVars, dnsmasq, machineVars, address, added,
          signalled, promised, interrupted>>

\* The control server is started last and stopped first; the others are
\* stopped in the order in which they are started.  LinkControl,
\* FrameGenerator and PacketCapture are never started.
Order == <<"control", "arp", "icmp", "tcp", "udp", "dhcp", "dns", "http">>
Services == {Order[i] : i \in 1..Len(Order)}

AllPorts == UNION {Ports[s] : s \in Services}

ASSUME PortsAssumption == DOMAIN Ports = Services
ASSUME ContestedAssumption == Contested \subseteq AllPorts

\* What PREPARE can be about.
Targets == (Services \ {"control"}) \cup {"link", "frames"}

Stages == {"address", "services", "control", "serving", "telling", "joining",
           "cleanup", "ended", "killed"}

TypeOK ==
  /\ main \in Stages
  /\ pos \in 1..Len(Order)
  /\ running \subseteq Services
  /\ looping \subseteq Services
  /\ held \in [Services -> SUBSET AllPorts]
  /\ dnsmasq \subseteq {"ours", "orphan"}
  /\ foreign \subseteq Contested
  /\ {installed, address, added, signalled, found, interrupted} \subseteq BOOLEAN
  /\ promised \in Targets \cup {"none"}

NothingHeld == [s \in Services |-> {}]

Init ==
  /\ main = "address"
  /\ pos = 2
  /\ running = {} /\ looping = {} /\ held = NothingHeld
  /\ dnsmasq = {}
  /\ installed \in BOOLEAN
  /\ foreign \in SUBSET Contested
  /\ address \in BOOLEAN
  /\ added = FALSE
  /\ signalled = FALSE
  /\ promised = "none"
  /\ found = address
  /\ interrupted = FALSE

-----------------------------------------------------------------------------
(* Starting *)

Launch ==
  /\ main \in {"ended", "killed"}
  /\ main' = "address"
  /\ pos' = 2
  /\ added' = FALSE
  /\ signalled' = FALSE
  /\ promised' = "none"
  /\ UNCHANGED <<serviceVars, dnsmasq, machineVars, address, interrupted>>

\* Without the address run() returns at once.
EnsureInterfaceIp ==
  /\ main = "address"
  /\ \/ main' = "services" /\ address' = TRUE /\ added' = ~address
     \/ main' = "ended" /\ UNCHANGED <<address, added>>
  /\ UNCHANGED <<pos, serviceVars, dnsmasq, machineVars, signalled, promised, interrupted>>

\* bind succeeds for what nobody else holds; SO_REUSEADDR does not help
\* against a listener.
Free == AllPorts \ (foreign \cup UNION {held[s] : s \in Services})

\* The service binds what it can, and has a thread if that is anything.  Two
\* of them set their flag first.
Bind(s) ==
  LET got == Ports[s] \cap Free IN
  /\ held' = [held EXCEPT ![s] = got]
  /\ running' = IF got # {} \/ s \in {"icmp", "tcp"} THEN running \cup {s} ELSE running
  /\ looping' = IF got # {} THEN looping \cup {s} ELSE looping

\* dnsmasq has been started when Popen has returned.
StartDhcp ==
  \/ /\ installed
     /\ dnsmasq' = dnsmasq \cup {"ours"}
     /\ UNCHANGED serviceVars
  \/ Bind("dhcp") /\ UNCHANGED dnsmasq

\* Slip: the list of services is overrun.
StartServiceOverrun ==
  /\ main = "services"
  /\ Bind(Order[pos])
  /\ pos' = pos + 1
  /\ main' = IF pos < Len(Order) THEN main ELSE "control"
  /\ UNCHANGED <<dnsmasq, machineVars, address, added, signalled, promised, interrupted>>

\* A service that cannot start is reported and left out.
StartService ==
  /\ main = "services"
  /\ IF Order[pos] = "dhcp" THEN StartDhcp ELSE Bind(Order[pos]) /\ UNCHANGED dnsmasq
  /\ IF pos < Len(Order)
       THEN pos' = pos + 1 /\ UNCHANGED main
       ELSE pos' = 1 /\ main' = "control"    \* the signal handlers are installed
  /\ UNCHANGED <<machineVars, address, added, signalled, promised, interrupted>>

\* A control port that is taken ends the program, through its finally clause.
StartControl ==
  /\ main = "control"
  /\ Bind("control")
  /\ main' = IF held'["control"] # {} THEN "serving" ELSE "telling"
  /\ UNCHANGED <<pos, dnsmasq, machineVars, address, added, signalled, promised, interrupted>>

-----------------------------------------------------------------------------
(* Stopping *)

LeaveServing ==
  /\ main = "serving"
  /\ signalled
  /\ main' = "telling"
  /\ UNCHANGED <<pos, serviceVars, dnsmasq, machineVars, address, added, signalled,
                 promised, interrupted>>

\* Slip: dnsmasq is asked to terminate and not waited for.
TellStopPolitely ==
  /\ main = "telling"
  /\ main' = "joining"
  /\ running' = running \ {Order[pos]}
  /\ held' = IF Order[pos] = "tcp" THEN [held EXCEPT !["tcp"] = {}] ELSE held
  /\ UNCHANGED <<pos, looping, dnsmasq, machineVars, address, added, signalled, promised,
                 interrupted>>

\* stop() up to join.  The TCP listener closes its sockets first; dnsmasq is
\* terminated, and killed when it has not gone after three seconds.
TellStop ==
  /\ main = "telling"
  /\ main' = "joining"
  /\ running' = running \ {Order[pos]}
  /\ held' = IF Order[pos] = "tcp" THEN [held EXCEPT !["tcp"] = {}] ELSE held
  /\ dnsmasq' = IF Order[pos] = "dhcp" THEN dnsmasq \ {"ours"} ELSE dnsmasq
  /\ UNCHANGED <<pos, looping, machineVars, address, added, signalled, promised, interrupted>>

\* httpd.shutdown() waits for serve_forever(), which nobody has called.
ShutdownHangs == Order[pos] = "http" /\ held["http"] # {}

\* Slip: join has no time-out.
JoinReturnsAtLast == ~ShutdownHangs /\ Order[pos] \notin looping

JoinReturns == ~ShutdownHangs

\* Slip: the socket stays open.
JoinUnclosed ==
  /\ main = "joining"
  /\ JoinReturns
  /\ IF pos < Len(Order)
       THEN pos' = pos + 1 /\ main' = "telling"
       ELSE UNCHANGED pos /\ main' = "cleanup"
  /\ UNCHANGED <<serviceVars, dnsmasq, machineVars, address, added, signalled,
                 promised, interrupted>>

\* The thread has ended, or join has timed out; the socket is closed.
Join ==
  /\ main = "joining"
  /\ JoinReturns
  /\ held' = [held EXCEPT ![Order[pos]] = {}]
  /\ IF pos < Len(Order)
       THEN pos' = pos + 1 /\ main' = "telling"
       ELSE UNCHANGED pos /\ main' = "cleanup"
  /\ UNCHANGED <<running, looping, dnsmasq, machineVars, address, added, signalled,
                 promised, interrupted>>

\* Slip: the address is removed whoever has added it.
CleanupAlways == address' = FALSE

CleanupInterfaceIp == address' = (address /\ ~added)

\* The process ends, and its daemon threads and sockets with it.
ProcessGone == running' = {} /\ looping' = {} /\ held' = NothingHeld

Cleanup ==
  /\ main = "cleanup"
  /\ CleanupInterfaceIp
  /\ main' = "ended"
  /\ ProcessGone
  /\ UNCHANGED <<pos, dnsmasq, machineVars, added, signalled, promised, interrupted>>

-----------------------------------------------------------------------------
(* Threads, signals, and the processes around it *)

\* The loop of a thread ends when it sees the flag, or its socket closed.
LeaveLoop(s) ==
  /\ s \in looping
  /\ s \notin running \/ held[s] = {}
  /\ looping' = looping \ {s}
  /\ UNCHANGED <<main, pos, running, held, dnsmasq, machineVars, address, added,
                 signalled, promised, interrupted>>

\* The control thread answers PREPARE with READY, whatever the service does.
HandlePrepare(target) ==
  /\ "control" \in looping
  /\ held["control"] # {}
  /\ promised' = target
  /\ UNCHANGED <<main, pos, serviceVars, dnsmasq, machineVars, address, added,
                 signalled, interrupted>>

\* Before the handlers are installed a signal ends the process, but not its
\* dnsmasq, which is in a process group of its own.
Signal ==
  /\ \/ /\ main \in {"address", "services"}
        /\ main' = "killed"
        /\ interrupted' = TRUE
        /\ dnsmasq' = {"orphan" : d \in dnsmasq}
        /\ ProcessGone
        /\ UNCHANGED signalled
     \/ /\ main \in {"control", "serving", "telling", "joining", "cleanup"}
        /\ signalled' = TRUE
        /\ UNCHANGED <<main, serviceVars, dnsmasq, interrupted>>
  /\ UNCHANGED <<pos, machineVars, address, added, promised>>

\* dnsmasq gives up, for instance because it cannot bind its ports either.
DnsmasqExits ==
  /\ \E d \in dnsmasq : dnsmasq' = dnsmasq \ {d}
  /\ UNCHANGED <<main, pos, serviceVars, machineVars, address, added, signalled,
                 promised, interrupted>>

-----------------------------------------------------------------------------

Stop == LeaveServing \/ TellStop \/ Join \/ Cleanup

Start == EnsureInterfaceIp \/ StartService \/ StartControl

Next ==
  \/ Launch \/ Start \/ Stop \/ Signal \/ DnsmasqExits
  \/ \E s \in Services : LeaveLoop(s)
  \/ \E t \in Targets : HandlePrepare(t)

\* The main thread runs on; the other threads promise nothing.
Spec == Init /\ [][Next]_vars /\ WF_vars(Start \/ Stop)

-----------------------------------------------------------------------------

\* A companion that ends by itself leaves the interface as the first launch
\* found it: it takes away the address it has added, and no other.
AddressAsFound == main = "ended" /\ ~interrupted => address = found

\* It leaves no dnsmasq behind either; an orphan means that a signal has
\* killed a companion before its handlers were installed.
NoOrphan ==
  /\ main = "ended" => "ours" \notin dnsmasq
  /\ "orphan" \in dnsmasq => interrupted

\* No READY is sent once the services are being stopped: the control server
\* has closed its socket by then, even where its thread is still running.
ReadyBeforeStopping == [][promised' \notin {promised, "none"} => pos = 1]_vars

\* A signal ends the companion, however long its threads take.
SignalEnds == (signalled /\ main # "ended") ~> (main = "ended")

=============================================================================
