---------------------------- MODULE ControlServer ----------------------------
(***************************************************************************)
(* The companion's end of the control channel: control_server.py, whose    *)
(* single listener thread takes one datagram at a time, and the handlers   *)
(* companion.py gives it.  dut_addr is written together with connected and *)
(* never read, so connected stands for both.                               *)
(***************************************************************************)
EXTENDS ControlNetwork

VARIABLES
  connected,   \* ControlServer.connected
  serving,     \* the listener: "listening", or "ending" between the CONFIRM
               \* it has sent and the end of the session
  performed    \* history: commands whose handler has run successfully

serverVars == <<connected, serving, performed>>

ServerTypeOK ==
  /\ connected \in BOOLEAN
  /\ serving \in {"listening", "ending"}
  /\ performed \subseteq Request

ServerInit ==
  /\ connected = FALSE
  /\ serving = "listening"
  /\ performed = {}

Tests == {"PREPARE", "START", "STOP", "RESULT"}

\* The reply to a command whose handler succeeds.
PositiveReply(cmd) ==
  CASE cmd = "PREPARE" -> "READY"
    [] cmd = "RESULT"  -> "REPORT"
    [] cmd = "DONE"    -> "CONFIRM"
    [] OTHER           -> "ACK"

Send(c, rsp) == toClient' = toClient \cup {[re |-> c, rsp |-> rsp]}

Take(c) ==
  /\ serving = "listening"
  /\ c \in toServer
  /\ toServer' \in Remaining(toServer, c)
  /\ UNCHANGED sends

\* Slip: a second HELLO is refused while a session is open.
HandleHelloOnce(c) ==
  /\ c.cmd = "HELLO"
  /\ Take(c)
  /\ connected' = TRUE
  /\ performed' = IF connected THEN performed ELSE performed \cup {c}
  /\ Send(c, IF connected THEN "ERROR" ELSE "ACK")
  /\ UNCHANGED serving

HandleHello(c) ==
  /\ c.cmd = "HELLO"
  /\ Take(c)
  /\ connected' = TRUE
  /\ performed' = performed \cup {c}
  /\ Send(c, "ACK")
  /\ UNCHANGED serving

\* PREPARE, START, STOP, RESULT.  Outside a session the handler is not run;
\* the one for START cannot fail, the others may refuse or raise.
HandleTest(c) ==
  /\ c.cmd \in Tests
  /\ Take(c)
  /\ \/ /\ connected
        /\ performed' = performed \cup {c}
        /\ Send(c, PositiveReply(c.cmd))
     \/ /\ ~connected \/ c.cmd # "START"
        /\ UNCHANGED performed
        /\ Send(c, "ERROR")
  /\ UNCHANGED <<connected, serving>>

\* Slip: DONE is confirmed and the session stays open.
HandleDoneKeepsSession(c) ==
  /\ c.cmd = "DONE"
  /\ Take(c)
  /\ performed' = performed \cup {c}
  /\ Send(c, "CONFIRM")
  /\ UNCHANGED <<serving, connected>>

\* CONFIRM leaves before the session is closed.
HandleDone(c) ==
  /\ c.cmd = "DONE"
  /\ Take(c)
  /\ performed' = performed \cup {c}
  /\ Send(c, "CONFIRM")
  /\ serving' = "ending"
  /\ UNCHANGED connected

EndSession ==
  /\ serving = "ending"
  /\ connected' = FALSE
  /\ serving' = "listening"
  /\ UNCHANGED performed
  /\ UNCHANGED netVars

\* The operator stops the companion and starts it again.
Restart ==
  /\ "restart" \in Faults
  /\ connected' = FALSE
  /\ serving' = "listening"
  /\ UNCHANGED performed
  /\ UNCHANGED netVars

Handle == \E c \in toServer : HandleHello(c) \/ HandleTest(c) \/ HandleDone(c)

=============================================================================
