--------------------------- MODULE ControlChannel ---------------------------
(***************************************************************************)
(* The EFI application and the companion, joined by the network.           *)
(***************************************************************************)
EXTENDS CompanionLink, ControlServer

vars == <<linkVars, serverVars, netVars, flood>>

Init == NetInit /\ LinkInit /\ ServerInit /\ flood = FALSE

LinkStep    == (Call \/ Progress) /\ UNCHANGED serverVars
ServerStep  == (Handle \/ EndSession) /\ UNCHANGED linkVars
Environment ==
  \/ (LoseRequest \/ LoseReply) /\ UNCHANGED <<linkVars, serverVars>>
  \/ Restart /\ UNCHANGED linkVars
  \/ Reboot /\ UNCHANGED serverVars

\* During a wait the other traffic of the segment sets in, or makes a pause.
FloodChanges ==
  /\ "flood" \in Faults
  /\ pc = "receive"
  /\ flood' = ~flood
  /\ UNCHANGED <<linkVars, serverVars, netVars>>

\* Outside a wait nobody looks at that traffic.
FloodStays == flood' = (flood /\ pc' = "receive")

Next ==
  \/ (LinkStep \/ ServerStep \/ Environment) /\ FloodStays
  \/ FloodChanges

(***************************************************************************)
(* The listener thread goes on, and so does a running call, as far as it   *)
(* can.  CompanionReceiveResponse adds up the pauses between frames and    *)
(* never starts again from 0, so that a wait with pauses again and again   *)
(* expires although no pause need be long: strong fairness.  A wait whose  *)
(* frames never pause is not enabled to expire, and nothing says that they *)
(* ever pause.  Nothing makes a driver fail, the caller call, the network  *)
(* lose, or an operator restart either machine.                            *)
(***************************************************************************)
CallGoesOn ==
  /\ Transmit \/ ReceiveReply \/ ReceiveTimeout
  /\ UNCHANGED serverVars
  /\ FloodStays

Fairness ==
  /\ SF_vars(CallGoesOn)
  /\ WF_vars(ServerStep /\ FloodStays)

Spec == Init /\ [][Next]_vars /\ Fairness

-----------------------------------------------------------------------------
(* Safety, whatever the network does *)

\* Every variable has its type (Link, ControlServer, the datagrams).
TypeOK == NetTypeOK /\ LinkTypeOK /\ ServerTypeOK /\ flood \in BOOLEAN

Succeeded(o) == last.op = o /\ last.status = "SUCCESS"

\* EFI_SUCCESS from Connect, Prepare, Start or Stop rests on a reply the
\* companion sent after really running a handler for some command of this
\* machine, and for Prepare that command was a PREPARE: lost, repeated, late
\* and reordered datagrams, restarts and failing sends never make one up.
SuccessIsEarned ==
  \A o \in {"Connect", "Prepare", "Start", "Stop"} :
    Succeeded(o) =>
      /\ last.reply # NoReply
      /\ last.reply.re \in performed
      /\ o = "Prepare" => last.reply.re.cmd = "PREPARE"

\* A function of the interface returns to its caller, whatever the network and
\* the companion do, provided that the NIC has no frame now and then.  Without that it need not: the loop of CompanionLink.c:526 has
\* no bound on the frames it drops (562-623), and while they follow each other
\* without a pause TimeoutMs never passes.
CallsReturn == []<>~flood => ((op # NoOp) ~> (op = NoOp))

-----------------------------------------------------------------------------
(* Safety, when no wait expires early: Faults has neither "late", "dup" nor  *)
(* "nic".  Replies carry no identifier, so this is what CompanionLink relies *)
(* on to tell the reply to one command from the reply to another.            *)

\* Between two calls nothing is in flight, so no later call can meet a stale
\* reply (CompanionDisconnect waits for CONFIRM although it ignores it).
QuietBetweenCalls == op = NoOp => Settled

\* The reply on which a call bases EFI_SUCCESS answers the command that this
\* very call sent last, and the companion has carried that command out.
SuccessIsGenuine ==
  \A o \in {"Connect"} \cup Exchange :
    Succeeded(o) /\ op = NoOp =>
      /\ last.reply.re = [id |-> cur, cmd |-> CommandOf(o)]
      /\ last.reply.re \in performed

\* Also without "restart": while no call is running, a link in the CONNECTED
\* state has an open session at the companion, even after lost DONEs, lost
\* CONFIRMs, reconnections and reboots of the machine under test.
ConnectedMeansSession ==
  op = NoOp /\ state = "CONNECTED" => connected /\ serving = "listening"

\* EFI_TIMEOUT from CompanionConnect means that the companion answered none of
\* its HELLOs (CompanionLink.c:666): no attempt is spent on the answer to
\* another command.
TimeoutMeansSilence ==
  op = NoOp /\ last.op = "Connect" /\ last.status = "TIMEOUT" => ~heard

\* With nothing lost, a Connect succeeds, whatever session an earlier program
\* left open at the companion and however often the companion is restarted
\* (unless the machine under test is switched off meanwhile).
ConnectSucceeds == (op = "Connect") ~> (state = "CONNECTED" \/ link = "none")

=============================================================================
