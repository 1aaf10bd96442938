---------------------------- MODULE CompanionLink ----------------------------
(***************************************************************************)
(* The EFI end of the control channel: Source/CompanionLink.c.             *)
(*                                                                         *)
(* Each function of its interface is a call that an unspecified caller may *)
(* make whenever no other call is running (UEFI runs one thread).  A call  *)
(* that exchanges messages goes through the two blocking helpers,          *)
(* CompanionSendCommand (pc = "send") and CompanionReceiveResponse         *)
(* (pc = "receive"); between those two the network and the companion move. *)
(***************************************************************************)
EXTENDS ControlNetwork

VARIABLES
  link,       \* Udp4 and Mnp: "none", "noMnp" (Mnp = NULL) or "ready"
  state,      \* Link->State
  messageId,  \* Link->MessageId
  op,         \* the interface function being executed, NoOp if none
  pc,         \* where that call stands: "idle", "send" or "receive"
  attempt,    \* CompanionConnect's Attempt, counted from 1; 0 elsewhere
  cur,        \* history: id of the datagram this call sent last, 0 if none
  heard,      \* history: this call has received a reply
  last        \* history: how the last call returned, and the reply it accepted;
              \* forgotten when the next one that exchanges messages begins

linkVars == <<link, state, messageId, op, pc, attempt, cur, heard, last>>

NoOp     == "None"
Exchange == {"Prepare", "Start", "Stop", "GetResult"}
Closing  == {"Disconnect", "Destroy"}
Ops      == {"Init", "Connect"} \cup Exchange \cup Closing
States   == {"DISCONNECTED", "CONNECTING", "CONNECTED", "ERROR"}
Statuses == {"SUCCESS", "TIMEOUT", "DEVICE_ERROR", "NOT_READY",
             "INVALID_PARAMETER", "UNSUPPORTED"}
NoReply  == [rsp |-> "none"]
NoReturn == [op |-> NoOp, status |-> "SUCCESS", reply |-> NoReply]
MaxAttempts == 3    \* the HELLO loop of CompanionConnect

\* The text each function passes to CompanionSendCommand.
CommandOf(o) ==
  CASE o = "Connect"   -> "HELLO"
    [] o = "Prepare"   -> "PREPARE"
    [] o = "Start"     -> "START"
    [] o = "Stop"      -> "STOP"
    [] o = "GetResult" -> "RESULT"
    [] OTHER           -> "DONE"

LinkTypeOK ==
  /\ link \in {"none", "noMnp", "ready"}
  /\ state \in States
  /\ messageId \in 0..MaxSends
  /\ op \in Ops \cup {NoOp}
  /\ pc \in {"idle", "send", "receive"}
  /\ attempt \in 0..MaxAttempts
  /\ cur \in 0..MaxSends
  /\ heard \in BOOLEAN
  /\ last \in [op : Ops \cup {NoOp}, status : Statuses,
               reply : Reply \cup {NoReply}]

LinkInit ==
  /\ link = "none"
  /\ state = "DISCONNECTED"
  /\ messageId = 0
  /\ op = NoOp
  /\ pc = "idle"
  /\ attempt = 0
  /\ cur = 0
  /\ heard = FALSE
  /\ last = NoReturn

-----------------------------------------------------------------------------
(* Entering and leaving a call *)

Idle == op = NoOp

\* Bound: a call starts only when all its transmissions fit in MaxSends.
Room(n) == sends + n <= MaxSends

Enter(o) ==
  /\ op' = o
  /\ pc' = "send"
  /\ cur' = 0
  /\ heard' = FALSE
  /\ last' = NoReturn

Return(status, reply) ==
  /\ op' = NoOp
  /\ pc' = "idle"
  /\ attempt' = 0
  /\ last' = [op |-> op, status |-> status, reply |-> reply]

\* A call that returns without exchanging a message; which one is forgotten.
Immediate(status) ==
  /\ last' = [op |-> NoOp, status |-> status, reply |-> NoReply]
  /\ UNCHANGED <<op, pc, attempt, cur, heard>>

-----------------------------------------------------------------------------
(* The interface functions, up to their first message *)

(***************************************************************************)
(* CompanionInit ends with a usable UDP4 child, with or without an MNP     *)
(* child, or with none of them; its own steps are not told apart.  It      *)
(* is called on a COMPANION_LINK that holds nothing.                       *)
(***************************************************************************)
CompanionInit(outcome) ==
  /\ Idle
  /\ link = "none"
  /\ link' = outcome
  /\ messageId' = 0
  /\ state' = IF outcome = "none" THEN "ERROR" ELSE "DISCONNECTED"
  /\ Immediate(IF outcome = "none" THEN "DEVICE_ERROR" ELSE "SUCCESS")
  /\ UNCHANGED netVars

CompanionConnect ==
  /\ Idle
  /\ link = "ready"
  /\ Room(MaxAttempts)
  /\ Enter("Connect")
  /\ state' = "CONNECTING"
  /\ attempt' = 1
  /\ UNCHANGED <<link, messageId>>
  /\ UNCHANGED netVars

ConnectRefused ==
  /\ Idle
  /\ \/ /\ link = "none"
        /\ state' = state
        /\ Immediate("INVALID_PARAMETER")
     \/ /\ link = "noMnp"
        /\ state' = "ERROR"
        /\ Immediate("UNSUPPORTED")
  /\ UNCHANGED <<link, messageId>>
  /\ UNCHANGED netVars

\* CompanionPrepare, Start, Stop and GetResult, CompanionDisconnect, and
\* CompanionDestroy, which disconnects first: all on a connected link.
BeginConnected(o) ==
  /\ Idle
  /\ state = "CONNECTED"
  /\ Room(1)
  /\ Enter(o)
  /\ UNCHANGED <<link, state, messageId, attempt>>
  /\ UNCHANGED netVars

ExchangeRefused(o) ==
  /\ Idle
  /\ state # "CONNECTED"
  /\ Immediate(IF o = "GetResult" THEN "INVALID_PARAMETER" ELSE "NOT_READY")
  /\ UNCHANGED <<link, state, messageId>>
  /\ UNCHANGED netVars

CompanionDisconnect ==
  /\ Idle
  /\ state # "CONNECTED"
  /\ IF link = "none"
       THEN /\ Immediate("INVALID_PARAMETER")
            /\ UNCHANGED state
       ELSE /\ Immediate("SUCCESS")
            /\ state' = "DISCONNECTED"
  /\ UNCHANGED <<link, messageId>>
  /\ UNCHANGED netVars

CompanionDestroy ==
  /\ Idle
  /\ state # "CONNECTED"
  /\ Immediate("SUCCESS")
  /\ state' = "DISCONNECTED"
  /\ link' = "none"
  /\ UNCHANGED messageId
  /\ UNCHANGED netVars

-----------------------------------------------------------------------------
(* What the functions do with the outcome of their exchange *)

\* Slip: whatever is not an ERROR is taken for success.
AcceptsAnyAnswer(o, rsp) == o \in Exchange /\ rsp # "ERROR"

\* Replies for which Prepare, Start, Stop and GetResult return EFI_SUCCESS.
Accepts(o, rsp) ==
  \/ o = "Prepare" /\ rsp = "READY"
  \/ o \in {"Start", "Stop"} /\ rsp = "ACK"
  \/ o = "GetResult" /\ rsp # "ERROR"

\* Slip: one HELLO more than MaxAttempts.
NextAttemptOneMore ==
  \/ /\ attempt <= MaxAttempts
     /\ attempt' = attempt + 1
     /\ pc' = "send"
     /\ UNCHANGED <<link, state, op, last>>
  \/ /\ attempt > MaxAttempts
     /\ state' = "ERROR"
     /\ Return("TIMEOUT", NoReply)
     /\ UNCHANGED link

\* Slip: an attempt that fails is repeated without being counted.
NextAttemptUncounted ==
  /\ pc' = "send"
  /\ UNCHANGED <<link, state, op, last, attempt>>

\* CompanionConnect: the next HELLO, or giving up after the third.
NextAttempt ==
  \/ /\ attempt < MaxAttempts
     /\ attempt' = attempt + 1
     /\ pc' = "send"
     /\ UNCHANGED <<link, state, op, last>>
  \/ /\ attempt = MaxAttempts
     /\ state' = "ERROR"
     /\ Return("TIMEOUT", NoReply)
     /\ UNCHANGED link

ConnectAnswered(r) ==
  \/ /\ r.rsp = "ACK"
     /\ state' = "CONNECTED"
     /\ Return("SUCCESS", r)
     /\ UNCHANGED link
  \/ /\ r.rsp = "ERROR"
     /\ state' = "ERROR"
     /\ Return("DEVICE_ERROR", r)
     /\ UNCHANGED link
  \/ /\ r.rsp \notin {"ACK", "ERROR"}
     /\ NextAttempt

\* Prepare, Start, Stop and GetResult leave State alone, whatever comes.
ExchangeEnds(status, reply) ==
  /\ Return(status, reply)
  /\ UNCHANGED <<link, state>>

\* Slip: the link is disconnected only when something came back.
FinishClosingWhenHeard ==
  /\ state' = IF heard' THEN "DISCONNECTED" ELSE state
  /\ link' = IF op = "Destroy" THEN "none" ELSE link
  /\ Return("SUCCESS", NoReply)

\* DONE is best effort: whatever came of it, the link is disconnected.
FinishClosing ==
  /\ state' = "DISCONNECTED"
  /\ link' = IF op = "Destroy" THEN "none" ELSE link
  /\ Return("SUCCESS", NoReply)

Answered(r) ==
  /\ heard' = TRUE
  /\ \/ op = "Connect" /\ ConnectAnswered(r)
     \/ /\ op \in Exchange
        /\ ExchangeEnds(IF Accepts(op, r.rsp) THEN "SUCCESS" ELSE "DEVICE_ERROR", r)
     \/ op \in Closing /\ FinishClosing

NotAnswered(status) ==
  /\ UNCHANGED heard
  /\ \/ op = "Connect" /\ NextAttempt
     \/ op \in Exchange /\ ExchangeEnds(status, NoReply)
     \/ op \in Closing /\ FinishClosing

\* Disconnect and Destroy wait for CONFIRM even when DONE was not sent.
NotSent(status) ==
  \/ op \notin Closing /\ NotAnswered(status)
  \/ /\ op \in Closing
     /\ pc' = "receive"
     /\ UNCHANGED <<link, state, op, attempt, heard, last>>

-----------------------------------------------------------------------------
(* CompanionSendCommand *)

Issued == [id |-> sends + 1, cmd |-> CommandOf(op)]

Issue ==
  /\ sends < MaxSends
  /\ sends' = sends + 1
  /\ cur' = sends + 1
  /\ UNCHANGED toClient

\* Slip: DONE is sent and its CONFIRM is not waited for.
TransmitWithoutWaiting ==
  /\ pc = "send"
  /\ Issue
  /\ toServer' = toServer \cup {Issued}
  /\ messageId' = messageId + 1
  /\ heard' = heard
  /\ \/ /\ op \notin Closing
        /\ pc' = "receive"
        /\ UNCHANGED <<link, state, op, attempt, last>>
     \/ /\ op \in Closing
        /\ FinishClosing

Transmit ==
  /\ pc = "send"
  /\ Issue
  /\ toServer' = toServer \cup {Issued}
  /\ messageId' = messageId + 1
  /\ pc' = "receive"
  /\ UNCHANGED <<link, state, op, attempt, heard, last>>

\* UDP4 refuses the datagram, or its token is cancelled in time.
TransmitRefused ==
  /\ "xmit" \in Faults
  /\ pc = "send"
  /\ \E status \in {"DEVICE_ERROR", "TIMEOUT"} : NotSent(status)
  /\ UNCHANGED <<messageId, cur>>
  /\ UNCHANGED netVars

\* The token completes with an error status: MessageId counts it all the same.
TransmitError ==
  /\ "xmit" \in Faults
  /\ pc = "send"
  /\ Issue
  /\ messageId' = messageId + 1
  /\ NotSent("DEVICE_ERROR")
  /\ UNCHANGED toServer

\* The token times out and is cancelled after the frame has left the NIC.
TransmitCancelledLate ==
  /\ {"xmit", "late"} \subseteq Faults
  /\ pc = "send"
  /\ Issue
  /\ toServer' = toServer \cup {Issued}
  /\ NotSent("TIMEOUT")
  /\ UNCHANGED messageId

-----------------------------------------------------------------------------
(* CompanionReceiveResponse *)

\* The first datagram of the companion to this port ends the wait.
ReceiveReply ==
  /\ pc = "receive"
  /\ \E r \in toClient :
       /\ toClient' \in Remaining(toClient, r)
       /\ Answered(r)
  /\ UNCHANGED <<messageId, cur, toServer, sends>>

\* The wait counts the 2 ms it sleeps when the NIC has no frame, and nothing for
\* a frame it drops: while frames keep coming it does not expire.
ReceiveTimeout ==
  /\ pc = "receive"
  /\ ~flood
  /\ MayGiveUp
  /\ NotAnswered("TIMEOUT")
  /\ UNCHANGED <<messageId, cur>>
  /\ UNCHANGED netVars

\* SNP is missing or not initialized.
ReceiveFails ==
  /\ "nic" \in Faults
  /\ pc = "receive"
  /\ \E status \in {"UNSUPPORTED", "NOT_READY"} : NotAnswered(status)
  /\ UNCHANGED <<messageId, cur>>
  /\ UNCHANGED netVars

-----------------------------------------------------------------------------

\* What the caller may start.
Call ==
  \/ \E outcome \in {"none", "noMnp", "ready"} : CompanionInit(outcome)
  \/ CompanionConnect
  \/ ConnectRefused
  \/ \E o \in Exchange \cup Closing : BeginConnected(o)
  \/ \E o \in Exchange : ExchangeRefused(o)
  \/ CompanionDisconnect
  \/ CompanionDestroy

\* The steps of the call that is running.
Progress ==
  \/ Transmit
  \/ TransmitRefused
  \/ TransmitError
  \/ TransmitCancelledLate
  \/ ReceiveReply
  \/ ReceiveTimeout
  \/ ReceiveFails

(***************************************************************************)
(* The machine is switched off in the middle of anything; the next program *)
(* to use the link starts with CompanionInit.                              *)
(***************************************************************************)
Reboot ==
  /\ "reboot" \in Faults
  /\ MayGiveUp
  /\ link' = "none"
  /\ state' = "DISCONNECTED"
  /\ messageId' = 0
  /\ op' = NoOp
  /\ pc' = "idle"
  /\ attempt' = 0
  /\ cur' = 0
  /\ heard' = FALSE
  /\ last' = NoReturn
  /\ UNCHANGED netVars

=============================================================================
