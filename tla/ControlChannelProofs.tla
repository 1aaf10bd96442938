------------------------ MODULE ControlChannelProofs ------------------------
(***************************************************************************)
(* Proofs about the control channel, for every number of datagrams and     *)
(* every set of faults.                                                    *)
(***************************************************************************)
EXTENDS ControlRefinement, TLAPS

-----------------------------------------------------------------------------
(* Lemmas about the operators of the two programs *)

\* Every function of the interface sends one of the six commands.
LEMMA CommandOfType == \A o : CommandOf(o) \in Commands
  BY DEF CommandOf, Commands

\* Every command has a reply, and only PREPARE is answered by READY.
LEMMA PositiveReplyType ==
  \A cmd \in Commands :
    /\ PositiveReply(cmd) \in Responses \ {"ERROR"}
    /\ PositiveReply(cmd) = "READY" => cmd = "PREPARE"
  BY DEF PositiveReply, Commands, Responses

\* Delivery takes a datagram out of its channel or leaves the channel alone;
\* a network that does not duplicate takes it out.
LEMMA RemainingFacts ==
  ASSUME NEW channel, NEW m, NEW rest \in Remaining(channel, m)
  PROVE  /\ rest \subseteq channel
         /\ "dup" \notin Faults => rest = channel \ {m}
  BY DEF Remaining

-----------------------------------------------------------------------------
(* Types *)

LEMMA TypeInit == Init => TypeOK
<1> SUFFICES ASSUME Init PROVE TypeOK
  OBVIOUS
<1>1. NetTypeOK
  BY MaxSendsAssumption DEF Init, NetInit, NetTypeOK
<1>2. LinkTypeOK
  <2>1. 0 \in 0..MaxSends /\ 0 \in 0..MaxAttempts
    BY MaxSendsAssumption DEF MaxAttempts
  <2>2. last \in [op : Ops \cup {NoOp}, status : Statuses,
                  reply : Reply \cup {NoReply}]
    BY DEF Init, LinkInit, NoReturn, Statuses
  <2>3. QED
    BY <2>1, <2>2 DEF Init, LinkInit, LinkTypeOK, States
<1>3. ServerTypeOK
  BY DEF Init, ServerInit, ServerTypeOK
<1>4. flood \in BOOLEAN
  BY DEF Init
<1>5. QED
  BY <1>1, <1>2, <1>3, <1>4 DEF TypeOK

\* What every ending of a call sets has its type.
LEMMA ReturnType ==
  ASSUME LinkTypeOK,
         NEW status \in Statuses, NEW reply \in Reply \cup {NoReply},
         Return(status, reply)
  PROVE  /\ op' \in Ops \cup {NoOp}
         /\ pc' \in {"idle", "send", "receive"}
         /\ attempt' \in 0..MaxAttempts
         /\ last' \in [op : Ops \cup {NoOp}, status : Statuses,
                       reply : Reply \cup {NoReply}]
  BY DEF LinkTypeOK, Return, MaxAttempts

\* The variables that an exchange's outcome sets, by name.
Outcome ==
  /\ link \in {"none", "noMnp", "ready"}
  /\ state \in States
  /\ op \in Ops \cup {NoOp}
  /\ pc \in {"idle", "send", "receive"}
  /\ attempt \in 0..MaxAttempts
  /\ heard \in BOOLEAN
  /\ last \in [op : Ops \cup {NoOp}, status : Statuses,
               reply : Reply \cup {NoReply}]

LEMMA NextAttemptType ==
  ASSUME LinkTypeOK, NextAttempt, heard' \in BOOLEAN
  PROVE  Outcome'
<1>1. CASE attempt < MaxAttempts /\ attempt' = attempt + 1
           /\ pc' = "send" /\ UNCHANGED <<link, state, op, last>>
  BY <1>1 DEF LinkTypeOK, Outcome, MaxAttempts
<1>2. CASE state' = "ERROR" /\ Return("TIMEOUT", NoReply) /\ UNCHANGED link
  BY <1>2, ReturnType DEF LinkTypeOK, Outcome, Statuses, States
<1>3. QED
  BY <1>1, <1>2 DEF NextAttempt

LEMMA NotAnsweredType ==
  ASSUME LinkTypeOK, NEW status \in Statuses, NotAnswered(status)
  PROVE  Outcome'
<1>0. heard' \in BOOLEAN
  BY DEF NotAnswered, LinkTypeOK
<1>1. CASE op = "Connect" /\ NextAttempt
  BY <1>0, <1>1, NextAttemptType
<1>2. CASE ExchangeEnds(status, NoReply)
  BY <1>0, <1>2, ReturnType DEF ExchangeEnds, LinkTypeOK, Outcome
<1>3. CASE FinishClosing
  BY <1>0, <1>3, ReturnType DEF FinishClosing, LinkTypeOK, Outcome, Statuses, States
<1>4. QED
  BY <1>1, <1>2, <1>3 DEF NotAnswered

LEMMA AnsweredType ==
  ASSUME LinkTypeOK, NEW r \in Reply, Answered(r)
  PROVE  Outcome'
<1>0. heard' \in BOOLEAN
  BY DEF Answered
<1>1. CASE ConnectAnswered(r)
  <2>1. CASE state' = "CONNECTED" /\ Return("SUCCESS", r) /\ UNCHANGED link
    BY <1>0, <2>1, ReturnType DEF LinkTypeOK, Outcome, Statuses, States
  <2>2. CASE state' = "ERROR" /\ Return("DEVICE_ERROR", r) /\ UNCHANGED link
    BY <1>0, <2>2, ReturnType DEF LinkTypeOK, Outcome, Statuses, States
  <2>3. CASE NextAttempt
    BY <1>0, <2>3, NextAttemptType
  <2>4. QED
    BY <1>1, <2>1, <2>2, <2>3 DEF ConnectAnswered
<1>2. CASE ExchangeEnds(IF Accepts(op, r.rsp) THEN "SUCCESS" ELSE "DEVICE_ERROR", r)
  <2>1. (IF Accepts(op, r.rsp) THEN "SUCCESS" ELSE "DEVICE_ERROR") \in Statuses
    BY DEF Statuses
  <2>2. QED
    BY <1>0, <1>2, <2>1, ReturnType DEF ExchangeEnds, LinkTypeOK, Outcome
<1>3. CASE FinishClosing
  BY <1>0, <1>3, ReturnType DEF FinishClosing, LinkTypeOK, Outcome, Statuses, States
<1>4. QED
  BY <1>1, <1>2, <1>3 DEF Answered

LEMMA NotSentType ==
  ASSUME LinkTypeOK, NEW status \in Statuses, NotSent(status)
  PROVE  Outcome'
<1>1. CASE NotAnswered(status)
  BY <1>1, NotAnsweredType
<1>2. CASE pc' = "receive" /\ UNCHANGED <<link, state, op, attempt, heard, last>>
  BY <1>2 DEF LinkTypeOK, Outcome
<1>3. QED
  BY <1>1, <1>2 DEF NotSent

\* A datagram sent by the running call.
LEMMA IssueType ==
  ASSUME NetTypeOK, LinkTypeOK, Issue
  PROVE  /\ Issued \in Request
         /\ sends' \in 0..MaxSends
         /\ cur' \in 0..MaxSends
<1>1. CommandOf(op) \in Commands
  BY CommandOfType
<1>2. sends + 1 \in 1..MaxSends
  BY MaxSendsAssumption DEF NetTypeOK, Issue
<1>3. QED
  BY <1>1, <1>2, MaxSendsAssumption DEF Issue, Issued, Request

\* What the start of a call that exchanges messages sets has its type.
LEMMA EnterType ==
  ASSUME NEW o \in Ops, Enter(o)
  PROVE  /\ op' \in Ops \cup {NoOp}
         /\ pc' \in {"idle", "send", "receive"}
         /\ cur' \in 0..MaxSends
         /\ heard' \in BOOLEAN
         /\ last' \in [op : Ops \cup {NoOp}, status : Statuses,
                       reply : Reply \cup {NoReply}]
<1>1. 0 \in 0..MaxSends /\ "SUCCESS" \in Statuses
  BY MaxSendsAssumption DEF Statuses
<1>2. QED
  BY <1>1 DEF Enter, NoReturn

\* The number of transmissions that MessageId counts never passes the number
\* of datagrams.
Counted == messageId <= sends

LEMMA CallType ==
  ASSUME TypeOK, Call
  PROVE  LinkTypeOK' /\ NetTypeOK' /\ (Counted => Counted')
<1>0. NetTypeOK' /\ sends' = sends
  BY DEF Call, CompanionInit, CompanionConnect, ConnectRefused, BeginConnected,
         ExchangeRefused, CompanionDisconnect, CompanionDestroy, TypeOK,
         NetTypeOK, netVars
<1>1. ASSUME NEW status \in Statuses, Immediate(status)
      PROVE  /\ op' = op /\ pc' = pc /\ attempt' = attempt
             /\ cur' = cur /\ heard' = heard
             /\ last' \in [op : Ops \cup {NoOp}, status : Statuses,
                           reply : Reply \cup {NoReply}]
  BY <1>1 DEF Immediate
<1>2. ASSUME NEW outcome \in {"none", "noMnp", "ready"}, CompanionInit(outcome)
      PROVE  LinkTypeOK' /\ (Counted => Counted')
  <2>1. Immediate(IF outcome = "none" THEN "DEVICE_ERROR" ELSE "SUCCESS")
    BY <1>2 DEF CompanionInit
  <2>2. (IF outcome = "none" THEN "DEVICE_ERROR" ELSE "SUCCESS") \in Statuses
    BY DEF Statuses
  <2>3. messageId' = 0 /\ link' = outcome /\ state' \in States
    BY <1>2 DEF CompanionInit, States
  <2>4. QED
    BY <1>0, <1>1, <2>1, <2>2, <2>3, MaxSendsAssumption
    DEF TypeOK, NetTypeOK, LinkTypeOK, Counted
<1>3. CASE CompanionConnect
  <2>1. Enter("Connect") /\ "Connect" \in Ops
    BY <1>3 DEF CompanionConnect, Ops
  <2>2. state' \in States /\ attempt' \in 0..MaxAttempts
    BY <1>3 DEF CompanionConnect, States, MaxAttempts
  <2>3. UNCHANGED <<link, messageId>>
    BY <1>3 DEF CompanionConnect
  <2>4. QED
    BY <1>0, <2>1, <2>2, <2>3, EnterType DEF TypeOK, LinkTypeOK, Counted
<1>4. CASE ConnectRefused
  <2>1. PICK status \in {"INVALID_PARAMETER", "UNSUPPORTED"} : Immediate(status)
    BY <1>4 DEF ConnectRefused
  <2>2. status \in Statuses
    BY DEF Statuses
  <2>3. link' = link /\ messageId' = messageId /\ state' \in States
    BY <1>4 DEF ConnectRefused, TypeOK, LinkTypeOK, States
  <2>4. QED
    BY <1>0, <1>1, <2>1, <2>2, <2>3 DEF TypeOK, LinkTypeOK, Counted
<1>5. ASSUME NEW o \in Exchange \cup Closing, BeginConnected(o)
      PROVE  LinkTypeOK' /\ (Counted => Counted')
  <2>1. Enter(o) /\ o \in Ops
    BY <1>5 DEF BeginConnected, Ops
  <2>2. UNCHANGED <<link, state, messageId, attempt>>
    BY <1>5 DEF BeginConnected
  <2>3. QED
    BY <1>0, <2>1, <2>2, EnterType DEF TypeOK, LinkTypeOK, Counted
<1>6. ASSUME NEW o \in Exchange, ExchangeRefused(o)
      PROVE  LinkTypeOK' /\ (Counted => Counted')
  <2>1. PICK status \in {"INVALID_PARAMETER", "NOT_READY"} : Immediate(status)
    BY <1>6 DEF ExchangeRefused
  <2>2. status \in Statuses
    BY DEF Statuses
  <2>3. link' = link /\ messageId' = messageId /\ state' = state
    BY <1>6 DEF ExchangeRefused
  <2>4. QED
    BY <1>0, <1>1, <2>1, <2>2, <2>3 DEF TypeOK, LinkTypeOK, Counted
<1>7. CASE CompanionDisconnect
  <2>1. PICK status \in {"INVALID_PARAMETER", "SUCCESS"} : Immediate(status)
    BY <1>7 DEF CompanionDisconnect
  <2>2. status \in Statuses
    BY DEF Statuses
  <2>3. link' = link /\ messageId' = messageId /\ state' \in States
    BY <1>7 DEF CompanionDisconnect, TypeOK, LinkTypeOK, States
  <2>4. QED
    BY <1>0, <1>1, <2>1, <2>2, <2>3 DEF TypeOK, LinkTypeOK, Counted
<1>8. CASE CompanionDestroy
  <2>1. Immediate("SUCCESS") /\ "SUCCESS" \in Statuses
    BY <1>8 DEF CompanionDestroy, Statuses
  <2>2. link' = "none" /\ messageId' = messageId /\ state' \in States
    BY <1>8 DEF CompanionDestroy, States
  <2>3. QED
    BY <1>0, <1>1, <2>1, <2>2 DEF TypeOK, LinkTypeOK, Counted
<1>9. QED
  BY <1>0, <1>2, <1>3, <1>4, <1>5, <1>6, <1>7, <1>8 DEF Call

LEMMA ProgressType ==
  ASSUME TypeOK, Counted, Progress
  PROVE  LinkTypeOK' /\ NetTypeOK' /\ Counted'
<1> USE DEF TypeOK, Counted
<1>0. ASSUME Outcome', messageId' \in 0..MaxSends, cur' \in 0..MaxSends
      PROVE  LinkTypeOK'
  BY <1>0 DEF Outcome, LinkTypeOK
<1>1. CASE Transmit
  <2>1. Issued \in Request /\ sends' \in 0..MaxSends /\ cur' \in 0..MaxSends
    BY <1>1, IssueType DEF Transmit
  <2>2. NetTypeOK'
    BY <1>1, <2>1 DEF Transmit, Issue, NetTypeOK
  <2>3. messageId' \in 0..MaxSends /\ Counted'
    BY <1>1, MaxSendsAssumption DEF Transmit, Issue, NetTypeOK, LinkTypeOK
  <2>4. QED
    BY <1>0, <1>1, <2>1, <2>2, <2>3 DEF Transmit, LinkTypeOK, Outcome
<1>2. CASE TransmitRefused
  BY <1>0, <1>2, NotSentType DEF TransmitRefused, Statuses, netVars, NetTypeOK, LinkTypeOK
<1>3. CASE TransmitError
  <2>1. sends' \in 0..MaxSends /\ cur' \in 0..MaxSends
    BY <1>3, IssueType DEF TransmitError
  <2>2. Outcome'
    BY <1>3, NotSentType DEF TransmitError, Statuses
  <2>3. messageId' \in 0..MaxSends /\ Counted'
    BY <1>3, MaxSendsAssumption DEF TransmitError, Issue, NetTypeOK, LinkTypeOK
  <2>4. QED
    BY <1>0, <1>3, <2>1, <2>2, <2>3 DEF TransmitError, Issue, NetTypeOK
<1>4. CASE TransmitCancelledLate
  <2>1. Issued \in Request /\ sends' \in 0..MaxSends /\ cur' \in 0..MaxSends
    BY <1>4, IssueType DEF TransmitCancelledLate
  <2>2. Outcome'
    BY <1>4, NotSentType DEF TransmitCancelledLate, Statuses
  <2>3. messageId' \in 0..MaxSends /\ Counted'
    BY <1>4 DEF TransmitCancelledLate, Issue, NetTypeOK, LinkTypeOK
  <2>4. QED
    BY <1>0, <1>4, <2>1, <2>2, <2>3 DEF TransmitCancelledLate, Issue, NetTypeOK
<1>5. CASE ReceiveReply
  <2>1. PICK r \in toClient : toClient' \in Remaining(toClient, r) /\ Answered(r)
    BY <1>5 DEF ReceiveReply
  <2>2. Outcome'
    BY <2>1, AnsweredType DEF NetTypeOK
  <2>3. toClient' \subseteq toClient
    BY <2>1, RemainingFacts
  <2>4. QED
    BY <1>0, <1>5, <2>2, <2>3 DEF ReceiveReply, NetTypeOK, LinkTypeOK
<1>6. CASE ReceiveTimeout
  BY <1>0, <1>6, NotAnsweredType DEF ReceiveTimeout, Statuses, netVars, NetTypeOK, LinkTypeOK
<1>7. CASE ReceiveFails
  BY <1>0, <1>7, NotAnsweredType DEF ReceiveFails, Statuses, netVars, NetTypeOK, LinkTypeOK
<1>8. QED
  BY <1>1, <1>2, <1>3, <1>4, <1>5, <1>6, <1>7 DEF Progress

LEMMA HandleType ==
  ASSUME TypeOK, Handle
  PROVE  ServerTypeOK' /\ NetTypeOK'
<1> USE DEF TypeOK
<1>1. PICK c \in toServer : HandleHello(c) \/ HandleTest(c) \/ HandleDone(c)
  BY DEF Handle
<1>2. c \in Request /\ c.cmd \in Commands
  BY DEF NetTypeOK, Request
<1>3. toServer' \subseteq toServer /\ sends' = sends
  BY <1>1, RemainingFacts DEF HandleHello, HandleTest, HandleDone, Take
<1>4. ASSUME NEW rsp \in Responses, Send(c, rsp)
      PROVE  toClient' \subseteq Reply
  BY <1>2, <1>4 DEF Send, Reply, NetTypeOK
<1>5. toClient' \subseteq Reply
  BY <1>1, <1>2, <1>4, PositiveReplyType
  DEF HandleHello, HandleTest, HandleDone, Responses
<1>6. ServerTypeOK'
  BY <1>1, <1>2 DEF HandleHello, HandleTest, HandleDone, ServerTypeOK
<1>7. QED
  BY <1>3, <1>5, <1>6 DEF NetTypeOK

\* TypeOK and Counted are kept by every step.
LEMMA TypeStep == TypeOK /\ Counted /\ [Next]_vars => TypeOK' /\ Counted'
<1> SUFFICES ASSUME TypeOK, Counted, [Next]_vars
             PROVE  TypeOK' /\ Counted'
  OBVIOUS
<1>0. flood' \in BOOLEAN
  BY DEF TypeOK, Next, FloodStays, FloodChanges, vars
<1>1. CASE LinkStep
  <2>1. ServerTypeOK'
    BY <1>1 DEF LinkStep, serverVars, TypeOK, ServerTypeOK
  <2>2. QED
    BY <1>0, <1>1, <2>1, CallType, ProgressType DEF LinkStep, TypeOK
<1>2. CASE ServerStep
  <2>1. LinkTypeOK' /\ messageId' = messageId
    BY <1>2 DEF ServerStep, linkVars, TypeOK, LinkTypeOK
  <2>2. CASE Handle
    <3>1. sends' = sends
      BY <2>2 DEF Handle, HandleHello, HandleTest, HandleDone, Take
    <3>2. QED
      BY <1>0, <2>1, <2>2, <3>1, HandleType DEF TypeOK, Counted
  <2>3. CASE EndSession
    BY <1>0, <2>1, <2>3
    DEF EndSession, netVars, TypeOK, NetTypeOK, ServerTypeOK, Counted
  <2>4. QED
    BY <1>2, <2>2, <2>3 DEF ServerStep
<1>3. CASE Environment
  <2>1. CASE (LoseRequest \/ LoseReply) /\ UNCHANGED <<linkVars, serverVars>>
    BY <1>0, <2>1 DEF LoseRequest, LoseReply, linkVars, serverVars, TypeOK, NetTypeOK,
                LinkTypeOK, ServerTypeOK, Counted
  <2>2. CASE Restart /\ UNCHANGED linkVars
    BY <1>0, <2>2 DEF Restart, linkVars, netVars, TypeOK, NetTypeOK, LinkTypeOK,
                ServerTypeOK, Counted
  <2>3. CASE Reboot /\ UNCHANGED serverVars
    <3>1. last' \in [op : Ops \cup {NoOp}, status : Statuses,
                     reply : Reply \cup {NoReply}]
      BY <2>3 DEF Reboot, NoReturn, Statuses
    <3>2. NetTypeOK' /\ ServerTypeOK'
      BY <2>3 DEF Reboot, netVars, serverVars, TypeOK, NetTypeOK, ServerTypeOK
    <3>3. 0 \in 0..MaxSends /\ 0 \in 0..MaxAttempts
      BY MaxSendsAssumption DEF MaxAttempts
    <3>4. LinkTypeOK'
      BY <2>3, <3>1, <3>3 DEF Reboot, LinkTypeOK, States
    <3>5. Counted'
      BY <2>3, <3>2, MaxSendsAssumption DEF Reboot, NetTypeOK, Counted
    <3>6. QED
      BY <1>0, <3>2, <3>4, <3>5 DEF TypeOK
  <2>4. QED
    BY <1>3, <2>1, <2>2, <2>3 DEF Environment
<1>4. CASE UNCHANGED <<linkVars, serverVars, netVars>>
  BY <1>0, <1>4 DEF linkVars, netVars, serverVars, TypeOK, NetTypeOK, LinkTypeOK,
              ServerTypeOK, Counted
<1>5. QED
  BY <1>1, <1>2, <1>3, <1>4 DEF Next, FloodChanges, vars

\* Type correctness: whatever the network does, every variable of the client,
\* of the companion's server and of the network keeps its type.
THEOREM TypeCorrect == Spec => []TypeOK
<1>1. Init => TypeOK /\ Counted
  BY TypeInit DEF Init, NetInit, LinkInit, Counted
<1>2. QED
  BY <1>1, TypeStep, PTL DEF Spec

-----------------------------------------------------------------------------
(* Success is earned *)

\* What makes SuccessIsEarned inductive: a datagram that the companion has sent
\* and that says anything but ERROR is the positive reply to a command whose
\* handler has run.  This survives losses, repetitions and restarts because
\* performed only grows.
RepliesEarned ==
  \A r \in toClient :
    r.rsp # "ERROR" => r.re \in performed /\ r.rsp = PositiveReply(r.re.cmd)

EarnedInv == TypeOK /\ Counted /\ RepliesEarned /\ SuccessIsEarned

\* How a step may change what the last call returned: it ends no call that
\* must be earned, or it ends one with a reply that is in flight.
LastStep ==
  \/ last' = last
  \/ last'.status # "SUCCESS"
  \/ last'.op \notin {"Connect", "Prepare", "Start", "Stop"}
  \/ \E r \in toClient :
       /\ last'.reply = r
       /\ r.rsp # "ERROR"
       /\ last'.op = "Prepare" => r.rsp = "READY"

LEMMA NotAnsweredLast ==
  ASSUME NEW status \in Statuses \ {"SUCCESS"}, NotAnswered(status)
  PROVE  LastStep
<1>1. CASE op = "Connect" /\ NextAttempt
  BY <1>1 DEF NextAttempt, Return, LastStep
<1>2. CASE ExchangeEnds(status, NoReply)
  BY <1>2 DEF ExchangeEnds, Return, LastStep
<1>3. CASE op \in Closing /\ FinishClosing
  BY <1>3 DEF FinishClosing, Return, LastStep, Closing
<1>4. QED
  BY <1>1, <1>2, <1>3 DEF NotAnswered

LEMMA NotSentLast ==
  ASSUME NEW status \in Statuses \ {"SUCCESS"}, NotSent(status)
  PROVE  LastStep
<1>1. CASE NotAnswered(status)
  BY <1>1, NotAnsweredLast
<1>2. CASE last' = last
  BY <1>2 DEF LastStep
<1>3. QED
  BY <1>1, <1>2 DEF NotSent

LEMMA AnsweredLast ==
  ASSUME NEW r \in toClient, Answered(r)
  PROVE  LastStep
<1>1. CASE op = "Connect" /\ ConnectAnswered(r)
  BY <1>1 DEF ConnectAnswered, NextAttempt, Return, LastStep
<1>2. CASE /\ op \in Exchange
           /\ ExchangeEnds(IF Accepts(op, r.rsp) THEN "SUCCESS" ELSE "DEVICE_ERROR", r)
  BY <1>2 DEF ExchangeEnds, Return, LastStep, Accepts, Exchange
<1>3. CASE op \in Closing /\ FinishClosing
  BY <1>3 DEF FinishClosing, Return, LastStep, Closing
<1>4. QED
  BY <1>1, <1>2, <1>3 DEF Answered

LEMMA CallLast == ASSUME Call PROVE LastStep
<1>1. ASSUME NEW status, Immediate(status) PROVE LastStep
  BY <1>1 DEF Immediate, LastStep, NoOp
<1>2. QED
  BY <1>1 DEF Call, CompanionInit, CompanionConnect, ConnectRefused,
     BeginConnected, ExchangeRefused, CompanionDisconnect, CompanionDestroy,
     Enter, NoReturn, NoOp, LastStep

LEMMA ProgressLast == ASSUME Progress PROVE LastStep
<1>1. {"DEVICE_ERROR", "TIMEOUT", "UNSUPPORTED", "NOT_READY"} \subseteq
        Statuses \ {"SUCCESS"}
  BY DEF Statuses
<1>2. CASE Transmit
  BY <1>2 DEF Transmit, LastStep
<1>3. CASE TransmitRefused \/ TransmitError \/ TransmitCancelledLate
  BY <1>1, <1>3, NotSentLast
  DEF TransmitRefused, TransmitError, TransmitCancelledLate
<1>4. CASE ReceiveReply
  BY <1>4, AnsweredLast DEF ReceiveReply
<1>5. CASE ReceiveTimeout \/ ReceiveFails
  BY <1>1, <1>5, NotAnsweredLast DEF ReceiveTimeout, ReceiveFails
<1>6. QED
  BY <1>2, <1>3, <1>4, <1>5 DEF Progress

LEMMA NextLast == ASSUME [Next]_vars PROVE LastStep
<1>1. CASE LinkStep
  BY <1>1, CallLast, ProgressLast DEF LinkStep
<1>2. CASE last' = last
  BY <1>2 DEF LastStep
<1>3. CASE Reboot
  BY <1>3 DEF Reboot, NoReturn, LastStep, NoOp
<1>4. QED
  BY <1>1, <1>2, <1>3
  DEF Next, FloodChanges, vars, linkVars, ServerStep, Environment

\* performed only grows, and what reaches the client was earned.
LEMMA RepliesStep ==
  ASSUME TypeOK, RepliesEarned, [Next]_vars
  PROVE  performed \subseteq performed' /\ RepliesEarned'
<1>1. CASE UNCHANGED performed /\ toClient' \subseteq toClient
  BY <1>1 DEF RepliesEarned
<1>2. CASE Handle
  <2>1. PICK c \in toServer : HandleHello(c) \/ HandleTest(c) \/ HandleDone(c)
    BY <1>2 DEF Handle
  <2>2. c.cmd \in Commands
    BY DEF TypeOK, NetTypeOK, Request
  <2>3. performed \subseteq performed'
    BY <2>1 DEF HandleHello, HandleTest, HandleDone
  <2>4. PICK rsp : /\ Send(c, rsp)
                   /\ rsp # "ERROR" => c \in performed' /\ rsp = PositiveReply(c.cmd)
    <3>1. CASE HandleHello(c)
      BY <3>1 DEF HandleHello, PositiveReply
    <3>2. CASE HandleTest(c)
      BY <3>2 DEF HandleTest
    <3>3. CASE HandleDone(c)
      BY <3>3 DEF HandleDone, PositiveReply
    <3>4. QED
      BY <2>1, <3>1, <3>2, <3>3
  <2>5. QED
    BY <2>3, <2>4 DEF Send, RepliesEarned
<1>3. CASE LinkStep
  <2>1. toClient' \subseteq toClient
    BY <1>3, RemainingFacts
    DEF LinkStep, Call, Progress, CompanionInit, CompanionConnect,
        ConnectRefused, BeginConnected, ExchangeRefused, CompanionDisconnect,
        CompanionDestroy, Transmit, TransmitRefused, TransmitError,
        TransmitCancelledLate, Issue, ReceiveReply, ReceiveTimeout,
        ReceiveFails, netVars
  <2>2. QED
    BY <1>1, <1>3, <2>1 DEF LinkStep, serverVars
<1>4. QED
  BY <1>1, <1>2, <1>3
  DEF Next, FloodChanges, vars, serverVars, netVars, ServerStep, EndSession, Environment,
      LoseRequest, LoseReply, Restart, Reboot

LEMMA EarnedStep == EarnedInv /\ [Next]_vars => EarnedInv'
<1> SUFFICES ASSUME EarnedInv, [Next]_vars PROVE EarnedInv'
  OBVIOUS
<1>1. TypeOK' /\ Counted'
  BY TypeStep DEF EarnedInv
<1>2. performed \subseteq performed' /\ RepliesEarned'
  BY RepliesStep DEF EarnedInv
<1>3. SuccessIsEarned'
  <2>1. CASE last' = last
    BY <1>2, <2>1 DEF EarnedInv, SuccessIsEarned, Succeeded
  <2>2. CASE \/ last'.status # "SUCCESS"
             \/ last'.op \notin {"Connect", "Prepare", "Start", "Stop"}
    BY <2>2 DEF SuccessIsEarned, Succeeded
  <2>3. ASSUME NEW r \in toClient, last'.reply = r, r.rsp # "ERROR",
               last'.op = "Prepare" => r.rsp = "READY"
        PROVE  SuccessIsEarned'
    <3>1. r \in Reply /\ r.re.cmd \in Commands /\ r # NoReply
      BY DEF EarnedInv, TypeOK, NetTypeOK, Reply, Request, Responses, NoReply
    <3>2. r.re \in performed' /\ r.rsp = PositiveReply(r.re.cmd)
      BY <1>2, <2>3 DEF EarnedInv, RepliesEarned
    <3>3. last'.op = "Prepare" => r.re.cmd = "PREPARE"
      BY <2>3, <3>1, <3>2, PositiveReplyType
    <3>4. QED
      BY <2>3, <3>1, <3>2, <3>3 DEF SuccessIsEarned, Succeeded
  <2>4. QED
    BY <2>1, <2>2, <2>3, NextLast DEF LastStep
<1>4. QED
  BY <1>1, <1>2, <1>3 DEF EarnedInv

\* EFI_SUCCESS from Connect, Prepare, Start or Stop always rests on a command
\* that the companion has really carried out, however the network loses,
\* repeats, delays and reorders, and whichever machine restarts.
THEOREM EarnedAlways == Spec => []SuccessIsEarned
<1>1. Init => EarnedInv
  <2>1. Init => TypeOK /\ Counted
    BY TypeInit DEF Init, NetInit, LinkInit, Counted
  <2>2. Init => RepliesEarned /\ SuccessIsEarned
    BY DEF Init, NetInit, LinkInit, RepliesEarned, SuccessIsEarned, Succeeded,
       NoReturn, NoOp
  <2>3. QED
    BY <2>1, <2>2 DEF EarnedInv
<1>2. EarnedInv => SuccessIsEarned
  BY DEF EarnedInv
<1>3. QED
  BY <1>1, <1>2, EarnedStep, PTL DEF Spec

-----------------------------------------------------------------------------
(* A timely network keeps the two programs in lockstep *)

Timely == Faults \cap {"late", "dup", "nic"} = {}

\* At most one datagram is in flight, only while a call is waiting, and it is
\* the command that call sent last or the answer to it.  QuietBetweenCalls
\* alone is not inductive: a call that sends a second HELLO must know that the
\* first one and its answer are gone.
Lockstep ==
  /\ op = NoOp <=> pc = "idle"
  /\ pc # "receive" => Settled
  /\ \A c \in toServer : c = [id |-> cur, cmd |-> CommandOf(op)]
  /\ \A r \in toClient : r.re = [id |-> cur, cmd |-> CommandOf(op)]
  /\ toServer = {} \/ toClient = {}
  /\ \A r, s \in toClient : r = s

TimelyInv == TypeOK /\ Counted /\ RepliesEarned /\ Lockstep /\ SuccessIsGenuine

\* What makes ConnectedMeansSession inductive: a test command runs only in an
\* open session, and an ACK on its way to Connect comes from one.
SessionOpen ==
  /\ op = NoOp /\ state = "CONNECTED" => connected /\ serving = "listening"
  /\ op \in Exchange => state = "CONNECTED" /\ connected /\ serving = "listening"
  /\ op = "Connect" /\ (\E r \in toClient : r.rsp = "ACK") =>
       connected /\ serving = "listening"

LEMMA SettledLockstep ==
  ASSUME Settled', op' = NoOp <=> pc' = "idle"
  PROVE  Lockstep'
  BY DEF Settled, Lockstep

\* A call that got no answer ends without success, or sends another HELLO.
LEMMA NotAnsweredControl ==
  ASSUME NEW status \in Statuses \ {"SUCCESS"}, NotAnswered(status)
  PROVE  \/ /\ op' = NoOp /\ pc' = "idle"
            /\ last'.status # "SUCCESS" \/ last'.op \in Closing
         \/ op' = "Connect" /\ pc' = "send"
<1>1. CASE op = "Connect" /\ NextAttempt
  BY <1>1 DEF NextAttempt, Return
<1>2. CASE ExchangeEnds(status, NoReply)
  BY <1>2 DEF ExchangeEnds, Return
<1>3. CASE op \in Closing /\ FinishClosing
  BY <1>3 DEF FinishClosing, Return
<1>4. QED
  BY <1>1, <1>2, <1>3 DEF NotAnswered

LEMMA NotSentControl ==
  ASSUME NEW status \in Statuses \ {"SUCCESS"}, NotSent(status)
  PROVE  \/ /\ op' = NoOp /\ pc' = "idle"
            /\ last'.status # "SUCCESS" \/ last'.op \in Closing
         \/ op' \in {"Connect"} \cup Closing /\ pc' \in {"send", "receive"}
<1>1. CASE NotAnswered(status)
  BY <1>1, NotAnsweredControl
<1>2. CASE op \in Closing /\ pc' = "receive" /\ op' = op
  BY <1>2
<1>3. QED
  BY <1>1, <1>2 DEF NotSent

\* A call that got an answer ends, with success only on that answer, or sends
\* another HELLO.
LEMMA AnsweredControl ==
  ASSUME NEW r, Answered(r)
  PROVE  \/ /\ op' = NoOp /\ pc' = "idle"
            /\ \/ last'.status # "SUCCESS"
               \/ last'.op \in Closing
               \/ last'.op = op /\ last'.reply = r /\ r.rsp # "ERROR"
         \/ op' = "Connect" /\ pc' = "send"
<1>1. CASE op = "Connect" /\ ConnectAnswered(r)
  BY <1>1 DEF ConnectAnswered, NextAttempt, Return
<1>2. CASE ExchangeEnds(IF Accepts(op, r.rsp) THEN "SUCCESS" ELSE "DEVICE_ERROR", r)
  BY <1>2 DEF ExchangeEnds, Return, Accepts
<1>3. CASE op \in Closing /\ FinishClosing
  BY <1>3 DEF FinishClosing, Return
<1>4. QED
  BY <1>1, <1>2, <1>3 DEF Answered

LEMMA CallControl ==
  ASSUME Call
  PROVE  /\ op = NoOp /\ UNCHANGED netVars
         /\ \/ op' = NoOp /\ pc' = pc /\ last'.op = NoOp
            \/ op' # NoOp /\ pc' = "send"
<1>1. ASSUME NEW status, Immediate(status), op = NoOp
      PROVE  op' = NoOp /\ pc' = pc /\ last'.op = NoOp
  BY <1>1 DEF Immediate
<1>2. NoOp \notin {"Connect"} \cup Exchange \cup Closing
  BY DEF NoOp, Exchange, Closing
<1>3. QED
  BY <1>1, <1>2 DEF Call, CompanionInit, CompanionConnect, ConnectRefused,
     BeginConnected, ExchangeRefused, CompanionDisconnect, CompanionDestroy,
     Idle, Enter

LEMMA LockstepStep ==
  ASSUME Timely, TypeOK, Lockstep, [Next]_vars
  PROVE  Lockstep'
<1> USE DEF Lockstep
<1>0. {"DEVICE_ERROR", "TIMEOUT", "UNSUPPORTED", "NOT_READY"} \subseteq
        Statuses \ {"SUCCESS"}
  BY DEF Statuses
<1>1. NoOp \notin {"Connect"} \cup Closing
  BY DEF NoOp, Closing
<1>2. CASE Call
  BY <1>2, CallControl, SettledLockstep DEF netVars, Settled
<1>3. CASE Transmit
  BY <1>3 DEF Transmit, Issue, Issued, Settled
<1>4. CASE TransmitRefused \/ TransmitError
  <2>1. Settled'
    BY <1>4 DEF TransmitRefused, TransmitError, Issue, Settled, netVars
  <2>2. op' = NoOp <=> pc' = "idle"
    BY <1>0, <1>1, <1>4, NotSentControl DEF TransmitRefused, TransmitError
  <2>3. QED
    BY <2>1, <2>2, SettledLockstep
<1>5. CASE ReceiveReply
  <2>1. PICK r \in toClient : toClient' \in Remaining(toClient, r) /\ Answered(r)
    BY <1>5 DEF ReceiveReply
  <2>2. toClient' = toClient \ {r} /\ toServer' = toServer
    BY <1>5, <2>1, RemainingFacts DEF Timely, ReceiveReply
  <2>3. Settled'
    BY <2>1, <2>2 DEF Settled
  <2>4. op' = NoOp <=> pc' = "idle"
    BY <1>1, <2>1, AnsweredControl
  <2>5. QED
    BY <2>3, <2>4, SettledLockstep
<1>6. CASE ReceiveTimeout
  <2>1. Settled'
    BY <1>6 DEF ReceiveTimeout, MayGiveUp, Timely, Settled, netVars
  <2>2. op' = NoOp <=> pc' = "idle"
    BY <1>0, <1>1, <1>6, NotAnsweredControl DEF ReceiveTimeout
  <2>3. QED
    BY <2>1, <2>2, SettledLockstep
<1>7. CASE Handle /\ UNCHANGED linkVars
  <2>1. PICK c \in toServer : HandleHello(c) \/ HandleTest(c) \/ HandleDone(c)
    BY <1>7 DEF Handle
  <2>2. Take(c) /\ \E rsp : Send(c, rsp)
    BY <2>1 DEF HandleHello, HandleTest, HandleDone
  <2>3. toServer' = toServer \ {c}
    BY <2>2, RemainingFacts DEF Take, Timely
  <2>4. toServer' = {} /\ toClient = {} /\ pc = "receive"
    BY <2>3 DEF Settled
  <2>5. PICK rsp : toClient' = {[re |-> c, rsp |-> rsp]}
    BY <2>2, <2>4 DEF Send
  <2>6. QED
    BY <1>7, <2>4, <2>5 DEF linkVars, Settled
<1>8. CASE (LoseRequest \/ LoseReply) /\ UNCHANGED <<linkVars, serverVars>>
  BY <1>8 DEF LoseRequest, LoseReply, linkVars, Settled
<1>9. CASE UNCHANGED <<linkVars, netVars>>
  BY <1>9 DEF linkVars, netVars, Settled
<1>10. CASE Reboot
  BY <1>10, SettledLockstep DEF Reboot, MayGiveUp, Timely, Settled, netVars
<1>11. QED
  BY <1>2, <1>3, <1>4, <1>5, <1>6, <1>7, <1>8, <1>9, <1>10
  DEF Next, FloodChanges, vars, LinkStep, Progress, ServerStep, Environment, EndSession,
      Restart, Timely, TransmitCancelledLate, ReceiveFails

\* How a step may touch what SuccessIsGenuine speaks of.
GenuineStep ==
  \/ UNCHANGED <<last, op, cur>>
  \/ last'.status # "SUCCESS"
  \/ last'.op \notin {"Connect"} \cup Exchange
  \/ op' # NoOp
  \/ \E r \in toClient :
       last'.reply = r /\ r.rsp # "ERROR" /\ last'.op = op /\ cur' = cur

LEMMA NextGenuine ==
  ASSUME Timely, Lockstep, [Next]_vars
  PROVE  GenuineStep
<1> USE DEF GenuineStep
<1>0. {"DEVICE_ERROR", "TIMEOUT", "UNSUPPORTED", "NOT_READY"} \subseteq
        Statuses \ {"SUCCESS"}
  BY DEF Statuses
<1>1. NoOp \notin {"Connect"} \cup Exchange \cup Closing
  BY DEF NoOp, Exchange, Closing
<1>2. Closing \cap ({"Connect"} \cup Exchange) = {}
  BY DEF Exchange, Closing
<1>3. CASE Call
  BY <1>1, <1>3, CallControl
<1>4. CASE Transmit
  BY <1>4 DEF Transmit, Lockstep
<1>5. CASE TransmitRefused \/ TransmitError
  BY <1>0, <1>1, <1>2, <1>5, NotSentControl DEF TransmitRefused, TransmitError
<1>6. CASE ReceiveReply
  BY <1>1, <1>2, <1>6, AnsweredControl DEF ReceiveReply
<1>7. CASE ReceiveTimeout
  BY <1>0, <1>1, <1>2, <1>7, NotAnsweredControl DEF ReceiveTimeout
<1>8. CASE UNCHANGED linkVars
  BY <1>8 DEF linkVars
<1>9. CASE Reboot
  BY <1>1, <1>9 DEF Reboot, NoReturn
<1>10. QED
  BY <1>3, <1>4, <1>5, <1>6, <1>7, <1>8, <1>9
  DEF Next, FloodChanges, vars, LinkStep, Progress, ServerStep, Environment, Timely,
      TransmitCancelledLate, ReceiveFails

LEMMA TimelyStep == Timely /\ TimelyInv /\ [Next]_vars => TimelyInv'
<1> SUFFICES ASSUME Timely, TimelyInv, [Next]_vars PROVE TimelyInv'
  OBVIOUS
<1> USE DEF TimelyInv
<1>1. TypeOK' /\ Counted'
  BY TypeStep
<1>2. performed \subseteq performed' /\ RepliesEarned'
  BY RepliesStep
<1>3. Lockstep'
  BY LockstepStep
<1>4. SuccessIsGenuine'
  <2>1. CASE UNCHANGED <<last, op, cur>>
    BY <1>2, <2>1 DEF SuccessIsGenuine, Succeeded
  <2>2. CASE \/ last'.status # "SUCCESS"
             \/ last'.op \notin {"Connect"} \cup Exchange
             \/ op' # NoOp
    BY <2>2 DEF SuccessIsGenuine, Succeeded
  <2>3. ASSUME NEW r \in toClient, last'.reply = r, r.rsp # "ERROR",
               last'.op = op, cur' = cur
        PROVE  SuccessIsGenuine'
    <3>1. r.re = [id |-> cur, cmd |-> CommandOf(op)] /\ r.re \in performed'
      BY <1>2, <2>3 DEF Lockstep, RepliesEarned
    <3>2. QED
      BY <2>3, <3>1 DEF SuccessIsGenuine, Succeeded
  <2>4. QED
    BY <2>1, <2>2, <2>3, NextGenuine DEF GenuineStep
<1>5. QED
  BY <1>1, <1>2, <1>3, <1>4

LEMMA TimelyInit == Init => TimelyInv
<1>1. Init => TypeOK /\ Counted
  BY TypeInit DEF Init, NetInit, LinkInit, Counted
<1>2. Init => RepliesEarned /\ Lockstep
  BY DEF Init, NetInit, LinkInit, RepliesEarned, Lockstep, Settled
<1>3. Init => SuccessIsGenuine
  BY DEF Init, LinkInit, SuccessIsGenuine, Succeeded, NoReturn, NoOp, Exchange
<1>4. QED
  BY <1>1, <1>2, <1>3 DEF TimelyInv

\* Over a timely network no datagram is in flight between two calls, so a stale
\* reply cannot reach a later call, although replies carry no identifier.
THEOREM QuietAlways == ASSUME Timely PROVE Spec => []QuietBetweenCalls
<1>1. TimelyInv => QuietBetweenCalls
  BY DEF TimelyInv, Lockstep, QuietBetweenCalls
<1>2. TimelyInv /\ [Next]_vars => TimelyInv'
  BY TimelyStep
<1>3. QED
  BY <1>1, <1>2, TimelyInit, PTL DEF Spec

\* Over a timely network EFI_SUCCESS from Connect, Prepare, Start, Stop or
\* GetResult means that the companion has carried out the very command that
\* this call sent last.
THEOREM GenuineAlways == ASSUME Timely PROVE Spec => []SuccessIsGenuine
<1>1. TimelyInv => SuccessIsGenuine
  BY DEF TimelyInv
<1>2. TimelyInv /\ [Next]_vars => TimelyInv'
  BY TimelyStep
<1>3. QED
  BY <1>1, <1>2, TimelyInit, PTL DEF Spec

-----------------------------------------------------------------------------
(* A connected link has a session *)

LEMMA CommandOfFacts ==
  /\ CommandOf("Connect") = "HELLO"
  /\ \A o \in Exchange : CommandOf(o) \in Tests
<1>1. CommandOf("Connect") = "HELLO"
  BY DEF CommandOf
<1>2. \A o \in Exchange : CommandOf(o) \in Tests
  BY DEF CommandOf, Exchange, Tests
<1>3. QED
  BY <1>1, <1>2

\* A call begins, or returns at once, without ever making State CONNECTED.
LEMMA CallState ==
  ASSUME Call
  PROVE  /\ state' = "CONNECTED" => state = "CONNECTED"
         /\ op' \in Exchange => state = "CONNECTED" /\ state' = "CONNECTED"
<1>1. NoOp \notin Exchange /\ "Connect" \notin Exchange
  BY DEF NoOp, Exchange
<1>2. QED
  BY <1>1 DEF Call, CompanionInit, CompanionConnect, ConnectRefused,
     BeginConnected, ExchangeRefused, CompanionDisconnect, CompanionDestroy,
     Idle, Enter, Immediate

LEMMA NotAnsweredState ==
  ASSUME NEW status, NotAnswered(status), op' = NoOp, state' = "CONNECTED"
  PROVE  op \in Exchange /\ state' = state
<1>1. CASE op = "Connect" /\ NextAttempt
  BY <1>1 DEF NextAttempt, NoOp
<1>2. CASE op \in Exchange /\ ExchangeEnds(status, NoReply)
  BY <1>2 DEF ExchangeEnds
<1>3. CASE FinishClosing
  BY <1>3 DEF FinishClosing
<1>4. QED
  BY <1>1, <1>2, <1>3 DEF NotAnswered

LEMMA AnsweredState ==
  ASSUME NEW r, Answered(r), op' = NoOp, state' = "CONNECTED"
  PROVE  \/ op \in Exchange /\ state' = state
         \/ op = "Connect" /\ r.rsp = "ACK"
<1>1. CASE op = "Connect" /\ ConnectAnswered(r)
  BY <1>1 DEF ConnectAnswered, NextAttempt, NoOp
<1>2. CASE op \in Exchange /\ UNCHANGED state
  BY <1>2
<1>3. CASE FinishClosing
  BY <1>3 DEF FinishClosing
<1>4. QED
  BY <1>1, <1>2, <1>3 DEF Answered, ExchangeEnds

LEMMA SessionStep ==
  ASSUME Timely, "restart" \notin Faults, TypeOK, Lockstep, Lockstep',
         SessionOpen, [Next]_vars
  PROVE  SessionOpen'
<1>0. {"DEVICE_ERROR", "TIMEOUT", "UNSUPPORTED", "NOT_READY"} \subseteq
        Statuses \ {"SUCCESS"}
  BY DEF Statuses
<1>1. /\ NoOp \notin {"Connect"} \cup Exchange \cup Closing
      /\ Exchange \cap ({"Connect"} \cup Closing) = {}
      /\ "Connect" \notin Closing
  BY DEF NoOp, Exchange, Closing
<1>2. CASE Call /\ UNCHANGED serverVars
  <2>1. toClient' = {}
    BY <1>2, CallControl DEF Lockstep, Settled, netVars
  <2>2. QED
    BY <1>1, <1>2, <2>1, CallState, CallControl DEF SessionOpen, serverVars
<1>3. CASE Transmit /\ UNCHANGED serverVars
  <2>1. toClient' = {}
    BY <1>3 DEF Transmit, Issue, Lockstep, Settled
  <2>2. QED
    BY <1>3, <2>1 DEF Transmit, SessionOpen, serverVars
<1>4. ASSUME NEW status \in Statuses \ {"SUCCESS"}, NotSent(status),
             toClient' = {}, UNCHANGED serverVars
      PROVE  SessionOpen'
  <2>1. CASE NotAnswered(status)
    BY <1>1, <1>4, <2>1, NotAnsweredState, NotAnsweredControl
    DEF SessionOpen, serverVars
  <2>2. CASE op \in Closing /\ op' = op
    BY <1>1, <1>4, <2>2 DEF SessionOpen
  <2>3. QED
    BY <1>4, <2>1, <2>2 DEF NotSent
<1>5. CASE (TransmitRefused \/ TransmitError) /\ UNCHANGED serverVars
  <2>1. toClient' = {}
    BY <1>5 DEF TransmitRefused, TransmitError, Issue, Lockstep, Settled, netVars
  <2>2. QED
    BY <1>0, <1>4, <1>5, <2>1 DEF TransmitRefused, TransmitError
<1>6. CASE ReceiveReply /\ UNCHANGED serverVars
  <2>1. PICK r \in toClient : toClient' \in Remaining(toClient, r) /\ Answered(r)
    BY <1>6 DEF ReceiveReply
  <2>2. toClient' = {}
    BY <2>1, RemainingFacts DEF Lockstep, Timely
  <2>3. QED
    BY <1>1, <1>6, <2>1, <2>2, AnsweredState, AnsweredControl
    DEF SessionOpen, serverVars
<1>7. CASE ReceiveTimeout /\ UNCHANGED serverVars
  <2>1. toClient' = {} /\ NotAnswered("TIMEOUT")
    BY <1>7 DEF ReceiveTimeout, MayGiveUp, Timely, Settled, netVars
  <2>2. QED
    BY <1>0, <1>1, <1>7, <2>1, NotAnsweredState, NotAnsweredControl
    DEF SessionOpen, serverVars
<1>8. CASE Handle /\ UNCHANGED linkVars
  <2>1. PICK c \in toServer : HandleHello(c) \/ HandleTest(c) \/ HandleDone(c)
    BY <1>8 DEF Handle
  <2>2. c.cmd = CommandOf(op) /\ op # NoOp
    BY DEF Lockstep, Settled
  <2>3. UNCHANGED <<op, state>>
    BY <1>8 DEF linkVars
  <2>4. CASE HandleHello(c)
    BY <2>2, <2>3, <2>4, CommandOfFacts
    DEF HandleHello, Take, SessionOpen, Tests
  <2>5. CASE HandleTest(c)
    BY <2>2, <2>3, <2>5, CommandOfFacts DEF HandleTest, SessionOpen, Tests
  <2>6. CASE HandleDone(c)
    BY <2>2, <2>3, <2>6, CommandOfFacts DEF HandleDone, SessionOpen, Tests
  <2>7. QED
    BY <2>1, <2>4, <2>5, <2>6
<1>9. CASE EndSession /\ UNCHANGED linkVars
  BY <1>9 DEF EndSession, linkVars, netVars, SessionOpen
<1>10. CASE (LoseRequest \/ LoseReply) /\ UNCHANGED <<linkVars, serverVars>>
  BY <1>10 DEF LoseRequest, LoseReply, linkVars, serverVars, SessionOpen
<1>11. CASE Reboot
  BY <1>1, <1>11 DEF Reboot, SessionOpen
<1>12. CASE UNCHANGED <<linkVars, serverVars, netVars>>
  BY <1>12 DEF linkVars, serverVars, netVars, SessionOpen
<1>13. QED
  BY <1>2, <1>3, <1>5, <1>6, <1>7, <1>8, <1>9, <1>10, <1>11, <1>12
  DEF Next, FloodChanges, vars, LinkStep, Progress, ServerStep, Environment, Restart, Timely,
      TransmitCancelledLate, ReceiveFails

\* Over a timely network, and while the companion keeps running, a link that is
\* CONNECTED between two calls has an open session at the companion: a lost
\* DONE, a lost CONFIRM or a reboot never leaves the two sides disagreeing the
\* dangerous way.
THEOREM SessionAlways ==
  ASSUME Timely, "restart" \notin Faults
  PROVE  Spec => []ConnectedMeansSession
<1>1. Init => TimelyInv /\ SessionOpen
  <2>1. Init => SessionOpen
    BY DEF Init, LinkInit, NetInit, SessionOpen, NoOp, Exchange
  <2>2. QED
    BY <2>1, TimelyInit
<1>2. TimelyInv /\ SessionOpen /\ [Next]_vars => TimelyInv' /\ SessionOpen'
  BY TimelyStep, SessionStep DEF TimelyInv
<1>3. SessionOpen => ConnectedMeansSession
  BY DEF SessionOpen, ConnectedMeansSession
<1>4. QED
  BY <1>1, <1>2, <1>3, PTL DEF Spec

-----------------------------------------------------------------------------
(* A Connect that times out has heard nothing *)

\* What makes TimeoutMeansSilence inductive: as long as Connect goes on, nothing
\* has reached it, because whatever reaches it ends it.
Unheard ==
  /\ op = "Connect" => ~heard
  /\ TimeoutMeansSilence

LEMMA CallHears ==
  ASSUME Call, op' # NoOp
  PROVE  ~heard'
  BY DEF Call, CompanionInit, CompanionConnect, ConnectRefused, BeginConnected, ExchangeRefused,
     CompanionDisconnect, CompanionDestroy, Idle, Enter, Immediate

\* Without an answer nothing is heard, and what a call reports is its own.
LEMMA NotAnsweredHears ==
  ASSUME NEW status, NotAnswered(status)
  PROVE  /\ heard' = heard
         /\ \/ op' = NoOp /\ last'.op = op
            \/ op' = op
<1>1. CASE op = "Connect" /\ NextAttempt
  BY <1>1 DEF NextAttempt, Return, NotAnswered
<1>2. CASE ExchangeEnds(status, NoReply)
  BY <1>2 DEF ExchangeEnds, Return, NotAnswered
<1>3. CASE FinishClosing
  BY <1>3 DEF FinishClosing, Return, NotAnswered
<1> QED
  BY <1>1, <1>2, <1>3 DEF NotAnswered

LEMMA NotSentHears ==
  ASSUME NEW status, NotSent(status)
  PROVE  /\ heard' = heard
         /\ \/ op' = NoOp /\ last'.op = op
            \/ op' = op
  BY NotAnsweredHears DEF NotSent

\* The companion answers a HELLO with ACK or with ERROR, and both end Connect.
LEMMA AnsweredHears ==
  ASSUME TypeOK, RepliesEarned, Lockstep, NEW r \in toClient, Answered(r)
  PROVE  /\ op' = NoOp
         /\ last'.op = "Connect" => last'.status # "TIMEOUT"
<1>0. "Connect" \notin Exchange \cup Closing
  BY DEF Exchange, Closing
<1>1. CASE op = "Connect" /\ ConnectAnswered(r)
  <2>1. r.re.cmd = "HELLO"
    BY <1>1, CommandOfFacts DEF Lockstep
  <2>2. r.rsp \in {"ACK", "ERROR"}
    BY <2>1 DEF RepliesEarned, PositiveReply
  <2> QED
    BY <1>1, <2>2 DEF ConnectAnswered, Return
<1>2. CASE /\ op \in Exchange
           /\ ExchangeEnds(IF Accepts(op, r.rsp) THEN "SUCCESS" ELSE "DEVICE_ERROR", r)
  BY <1>0, <1>2 DEF ExchangeEnds, Return
<1>3. CASE op \in Closing /\ FinishClosing
  BY <1>0, <1>3 DEF FinishClosing, Return
<1> QED
  BY <1>1, <1>2, <1>3 DEF Answered

LEMMA UnheardStep ==
  ASSUME Timely, TimelyInv, Unheard, [Next]_vars
  PROVE  Unheard'
<1> USE DEF Unheard, TimeoutMeansSilence
<1>0. NoOp # "Connect"
  BY DEF NoOp
<1>1. CASE Call
  BY <1>0, <1>1, CallControl, CallHears
<1>2. CASE Transmit
  BY <1>2 DEF Transmit
<1>3. ASSUME heard' = heard, (op' = NoOp /\ last'.op = op) \/ op' = op, op # NoOp
      PROVE  Unheard'
  BY <1>0, <1>3
<1>4. CASE TransmitRefused \/ TransmitError
  BY <1>3, <1>4, NotSentHears DEF TransmitRefused, TransmitError, TimelyInv, Lockstep
<1>5. CASE ReceiveReply
  BY <1>0, <1>5, AnsweredHears DEF ReceiveReply, TimelyInv
<1>6. CASE ReceiveTimeout
  BY <1>3, <1>6, NotAnsweredHears DEF ReceiveTimeout, TimelyInv, Lockstep
<1>7. CASE UNCHANGED linkVars
  BY <1>7 DEF linkVars
<1>8. CASE Reboot
  BY <1>0, <1>8 DEF Reboot
<1> QED
  BY <1>1, <1>2, <1>4, <1>5, <1>6, <1>7, <1>8
  DEF Next, FloodChanges, vars, LinkStep, Progress, ServerStep, Environment, Timely,
      TransmitCancelledLate, ReceiveFails

\* Over a timely network EFI_TIMEOUT from CompanionConnect means that none of its
\* HELLOs was answered: no attempt is spent on the answer to another command.
THEOREM SilenceAlways == ASSUME Timely PROVE Spec => []TimeoutMeansSilence
<1>1. Init => TimelyInv /\ Unheard
  <2>1. Init => Unheard
    BY DEF Init, LinkInit, Unheard, TimeoutMeansSilence, NoOp
  <2> QED
    BY <2>1, TimelyInit
<1>2. TimelyInv /\ Unheard /\ [Next]_vars => TimelyInv' /\ Unheard'
  BY TimelyStep, UnheardStep
<1>3. Unheard => TimeoutMeansSilence
  BY DEF Unheard
<1> QED
  BY <1>1, <1>2, <1>3, PTL DEF Spec

-----------------------------------------------------------------------------
(* The channel is a remote procedure call: it implements ControlSession *)

\* What the state of the link says about the call that is running, and that the
\* companion refuses only test commands.  This holds over any network.
Believing ==
  /\ op \in {NoOp, "Connect"} \cup Exchange \cup Closing
  /\ op = "Connect" => state = "CONNECTING" /\ link = "ready"
  /\ op \in Exchange \cup Closing => state = "CONNECTED"
  /\ state = "CONNECTED" => link = "ready"
  /\ \A r \in toClient : r.rsp = "ERROR" => r.re.cmd \in Tests

\* The part of it that the link's own variables decide.
Belief ==
  /\ op \in {NoOp, "Connect"} \cup Exchange \cup Closing
  /\ op = "Connect" => state = "CONNECTING" /\ link = "ready"
  /\ op \in Exchange \cup Closing => state = "CONNECTED"
  /\ state = "CONNECTED" => link = "ready"

LEMMA OpsApart ==
  /\ NoOp \notin {"Connect"} \cup Exchange \cup Closing
  /\ Exchange \cap ({"Connect"} \cup Closing) = {}
  /\ "Connect" \notin Closing
  BY DEF NoOp, Exchange, Closing

LEMMA CallBelief ==
  ASSUME Belief, Call
  PROVE  Belief'
BY OpsApart
DEF Belief, Call, CompanionInit, CompanionConnect, ConnectRefused, BeginConnected,
    ExchangeRefused, CompanionDisconnect, CompanionDestroy, Idle, Enter, Immediate

LEMMA NotAnsweredBelief ==
  ASSUME Belief, NEW status, NotAnswered(status)
  PROVE  Belief'
<1>1. CASE op = "Connect" /\ NextAttempt
  BY <1>1, OpsApart DEF Belief, NextAttempt, Return
<1>2. CASE op \in Exchange /\ ExchangeEnds(status, NoReply)
  BY <1>2, OpsApart DEF Belief, ExchangeEnds, Return
<1>3. CASE op \in Closing /\ FinishClosing
  BY <1>3, OpsApart DEF Belief, FinishClosing, Return
<1> QED
  BY <1>1, <1>2, <1>3 DEF NotAnswered

LEMMA AnsweredBelief ==
  ASSUME Belief, NEW r, Answered(r)
  PROVE  Belief'
<1>1. CASE op = "Connect" /\ ConnectAnswered(r)
  BY <1>1, OpsApart DEF Belief, ConnectAnswered, NextAttempt, Return
<1>2. CASE op \in Exchange /\ ExchangeEnds(IF Accepts(op, r.rsp) THEN "SUCCESS" ELSE "DEVICE_ERROR", r)
  BY <1>2, OpsApart DEF Belief, ExchangeEnds, Return
<1>3. CASE op \in Closing /\ FinishClosing
  BY <1>3, OpsApart DEF Belief, FinishClosing, Return
<1> QED
  BY <1>1, <1>2, <1>3 DEF Answered

LEMMA NotSentBelief ==
  ASSUME Belief, NEW status, NotSent(status)
  PROVE  Belief'
BY NotAnsweredBelief DEF NotSent, Belief

LEMMA BelievingStep == Believing /\ [Next]_vars => Believing'
<1> SUFFICES ASSUME Believing, [Next]_vars PROVE Believing'
  OBVIOUS
<1>1. Belief'
  <2>1. CASE Call
    BY <2>1, CallBelief DEF Believing, Belief
  <2>2. CASE Transmit
    BY <2>2 DEF Transmit, Believing, Belief
  <2>3. CASE TransmitRefused \/ TransmitError \/ TransmitCancelledLate
    BY <2>3, NotSentBelief
    DEF TransmitRefused, TransmitError, TransmitCancelledLate, Believing, Belief
  <2>4. CASE ReceiveReply
    BY <2>4, AnsweredBelief DEF ReceiveReply, Believing, Belief
  <2>5. CASE ReceiveTimeout \/ ReceiveFails
    BY <2>5, NotAnsweredBelief DEF ReceiveTimeout, ReceiveFails, Believing, Belief
  <2>6. CASE Reboot
    BY <2>6, OpsApart DEF Reboot, Belief
  <2>7. CASE UNCHANGED linkVars
    BY <2>7 DEF linkVars, Believing, Belief
  <2> QED
    BY <2>1, <2>2, <2>3, <2>4, <2>5, <2>6, <2>7
    DEF Next, FloodChanges, vars, LinkStep, Progress, ServerStep, Environment
<1>2. \A r \in toClient' : r.rsp = "ERROR" => r.re.cmd \in Tests
  <2>1. CASE toClient' \subseteq toClient
    BY <2>1 DEF Believing
  <2>2. CASE Handle
    <3>1. PICK c \in toServer : HandleHello(c) \/ HandleTest(c) \/ HandleDone(c)
      BY <2>2 DEF Handle
    <3>2. PICK rsp : Send(c, rsp) /\ (rsp = "ERROR" => c.cmd \in Tests)
      BY <3>1 DEF HandleHello, HandleTest, HandleDone
    <3> QED
      BY <3>2 DEF Send, Believing
  <2>3. CASE Call \/ Progress
    BY <2>1, <2>3, RemainingFacts
    DEF Call, Progress, CompanionInit, CompanionConnect, ConnectRefused, BeginConnected,
        ExchangeRefused, CompanionDisconnect, CompanionDestroy, Transmit, TransmitRefused,
        TransmitError, TransmitCancelledLate, Issue, ReceiveReply, ReceiveTimeout,
        ReceiveFails, netVars
  <2> QED
    BY <2>1, <2>2, <2>3
    DEF Next, FloodChanges, vars, netVars, LinkStep, ServerStep, EndSession, Environment, LoseRequest,
        LoseReply, Restart, Reboot
<1> QED
  BY <1>1, <1>2 DEF Belief, Believing

\* Where the running call stands, read off a channel that is in lockstep.
LEMMA TurnIs ==
  ASSUME Lockstep
  PROVE  /\ op = NoOp => Turn = "idle"
         /\ op # NoOp /\ pc = "send" => Turn = "ask"
         /\ op # NoOp /\ pc # "send" /\ Settled => Turn = "lost"
         /\ toServer # {} => Turn = "companion"
         /\ toClient # {} => Turn = "answer"
         /\ toClient = {} => Answer = "none"
  BY DEF Lockstep, Settled, Turn, Answer

LEMMA AnswerIs ==
  ASSUME NEW r, toClient = {r}
  PROVE  Answer = r.rsp
<1>1. (CHOOSE x \in toClient : TRUE) \in toClient
  OBVIOUS
<1> QED
  BY <1>1 DEF Answer

\* The same of the next state.
LEMMA TurnNext ==
  ASSUME Lockstep'
  PROVE  /\ op' = NoOp => Turn' = "idle"
         /\ op' # NoOp /\ pc' = "send" => Turn' = "ask"
         /\ op' # NoOp /\ pc' # "send" /\ Settled' => Turn' = "lost"
         /\ toServer' # {} => Turn' = "companion"
         /\ toClient' # {} => Turn' = "answer"
         /\ toClient' = {} => Answer' = "none"
  BY DEF Lockstep, Settled, Turn, Answer

LEMMA AnswerNext ==
  ASSUME NEW r, toClient' = {r}
  PROVE  Answer' = r.rsp
<1>1. (CHOOSE x \in toClient' : TRUE) \in toClient'
  OBVIOUS
<1> QED
  BY <1>1 DEF Answer

\* A call that exchanges messages begins the remote call of its name, and any
\* other leaves the companion alone.
LEMMA CallMaps ==
  ASSUME Lockstep, Lockstep', Believing, Call, UNCHANGED serverVars
  PROVE  Session!Next
<1>1. Turn = "idle" /\ Answer = "none" /\ Answer' = "none" /\ op = NoOp
  BY TurnIs, TurnNext, CallControl DEF Lockstep, Settled, netVars
<1>2. UNCHANGED <<connected, serving>>
  BY DEF serverVars
<1>3. ASSUME NEW status, Immediate(status), state # "CONNECTED", state' # "CONNECTED"
      PROVE  Session!Local
  <2>1. Turn' = "idle"
    BY <1>1, <1>3, TurnNext DEF Immediate
  <2> QED
    BY <1>1, <1>2, <1>3, <2>1 DEF Session!Local, Session!Unknown, Immediate, NoOp
<1>4. ASSUME NEW o \in {"Connect"} \cup Exchange \cup Closing, Enter(o),
             IF o = "Connect" THEN state' # "CONNECTED"
                              ELSE state = "CONNECTED" /\ state' = "CONNECTED"
      PROVE  Session!Begin(o)
  <2>1. Turn' = "ask"
    BY <1>4, TurnNext, OpsApart DEF Enter
  <2> QED
    BY <1>1, <1>2, <1>4, <2>1 DEF Session!Begin, Session!Unknown, Enter, NoReturn, NoOp
<1>5. ASSUME NEW result \in {"none", "noMnp", "ready"}, CompanionInit(result)
      PROVE  Session!Local
  BY <1>3, <1>5 DEF CompanionInit, Believing
<1>6. CASE CompanionConnect
  BY <1>4, <1>6 DEF CompanionConnect, Session!Next
<1>7. CASE ConnectRefused
  BY <1>3, <1>7 DEF ConnectRefused, Believing, Session!Next
<1>8. ASSUME NEW o \in Exchange \cup Closing, BeginConnected(o)
      PROVE  Session!Next
  BY <1>4, <1>8, OpsApart DEF BeginConnected, Session!Next
<1>9. ASSUME NEW o \in Exchange, ExchangeRefused(o)
      PROVE  Session!Local
  BY <1>3, <1>9 DEF ExchangeRefused
<1>10. CASE CompanionDisconnect
  BY <1>3, <1>10 DEF CompanionDisconnect, Session!Next
<1>11. CASE CompanionDestroy
  BY <1>3, <1>11 DEF CompanionDestroy, Session!Next
<1> QED
  BY <1>5, <1>6, <1>7, <1>8, <1>9, <1>10, <1>11 DEF Call, Session!Next

\* A command that could not be sent: Connect tries again or gives up, a test
\* command fails, and DONE counts as lost.
LEMMA NotSentMaps ==
  ASSUME Lockstep, Lockstep', Believing, pc = "send", op # NoOp,
         NEW status \in Statuses \ {"SUCCESS"}, NotSent(status),
         Settled', UNCHANGED serverVars
  PROVE  [Session!Next]_(Session!vars)
<1>1. /\ Turn = "ask" /\ Answer = "none" /\ Answer' = "none"
      /\ UNCHANGED <<connected, serving>>
  BY TurnIs, TurnNext DEF Lockstep, Settled, serverVars
<1>2. CASE op = "Connect" /\ NextAttempt
  <2>1. CASE pc' = "send" /\ UNCHANGED <<link, state, op, last>>
    <3>1. Turn' = "ask"
      BY <1>2, <2>1, TurnNext, OpsApart
    <3> QED
      BY <1>1, <2>1, <3>1 DEF Session!vars
  <2>2. CASE state' = "ERROR" /\ Return("TIMEOUT", NoReply)
    <3>1. Turn' = "idle"
      BY <2>2, TurnNext DEF Return
    <3>2. Session!Fail
      BY <1>1, <1>2, <2>2, <3>1, OpsApart
      DEF Session!Fail, Session!Return, Return, Believing, NoOp
    <3> QED
      BY <3>2 DEF Session!Next, Session!Proceed
  <2> QED
    BY <1>2, <2>1, <2>2 DEF NextAttempt
<1>3. CASE op \in Exchange /\ ExchangeEnds(status, NoReply)
  <2>1. Turn' = "idle"
    BY <1>3, TurnNext DEF ExchangeEnds, Return
  <2>2. Session!Fail
    BY <1>1, <1>3, <2>1, OpsApart
    DEF Session!Fail, Session!Return, ExchangeEnds, Return, NoOp
  <2> QED
    BY <2>2 DEF Session!Next, Session!Proceed
<1>4. CASE op \in Closing /\ pc' = "receive" /\ UNCHANGED <<link, state, op, attempt, heard, last>>
  <2>1. Turn' = "lost"
    BY <1>4, TurnNext, OpsApart
  <2>2. Session!Lose
    BY <1>1, <1>4, <2>1 DEF Session!Lose
  <2> QED
    BY <2>2 DEF Session!Next, Session!Proceed
<1> QED
  BY <1>2, <1>3, <1>4, OpsApart DEF NotSent, NotAnswered

\* A wait that ends without an answer: Connect asks again or gives up, a test
\* command fails, and closing succeeds all the same.
LEMMA TimeoutMaps ==
  ASSUME Timely, Lockstep, Lockstep', Believing, ReceiveTimeout, UNCHANGED serverVars
  PROVE  Session!Next
<1>1. Settled /\ Settled' /\ op # NoOp
  BY DEF ReceiveTimeout, MayGiveUp, Timely, netVars, Settled, Lockstep
<1>2. /\ Turn = "lost" /\ Answer = "none" /\ Answer' = "none"
      /\ UNCHANGED <<connected, serving>>
  BY <1>1, TurnIs, TurnNext DEF Settled, serverVars, ReceiveTimeout
<1>3. CASE op = "Connect" /\ NextAttempt
  <2>1. CASE pc' = "send" /\ UNCHANGED <<link, state, op, last>>
    <3>1. Turn' = "ask"
      BY <1>1, <2>1, TurnNext
    <3>2. Session!AskAgain
      BY <1>2, <1>3, <2>1, <3>1 DEF Session!AskAgain
    <3> QED
      BY <3>2 DEF Session!Next, Session!Proceed
  <2>2. CASE state' = "ERROR" /\ Return("TIMEOUT", NoReply)
    <3>1. Turn' = "idle"
      BY <2>2, TurnNext DEF Return
    <3>2. Session!Fail
      BY <1>2, <1>3, <2>2, <3>1, OpsApart
      DEF Session!Fail, Session!Return, Return, Believing, NoOp
    <3> QED
      BY <3>2 DEF Session!Next, Session!Proceed
  <2> QED
    BY <1>3, <2>1, <2>2 DEF NextAttempt
<1>4. CASE op \in Exchange /\ ExchangeEnds("TIMEOUT", NoReply)
  <2>1. Turn' = "idle"
    BY <1>4, TurnNext DEF ExchangeEnds, Return
  <2>2. Session!Fail
    BY <1>2, <1>4, <2>1, OpsApart
    DEF Session!Fail, Session!Return, ExchangeEnds, Return, NoOp
  <2> QED
    BY <2>2 DEF Session!Next, Session!Proceed
<1>5. CASE op \in Closing /\ FinishClosing
  <2>1. Turn' = "idle"
    BY <1>5, TurnNext DEF FinishClosing, Return
  <2>2. Session!GiveUpSession
    BY <1>2, <1>5, <2>1 DEF Session!GiveUpSession, Session!Return, FinishClosing, Return, NoOp
  <2> QED
    BY <2>2 DEF Session!Next, Session!Proceed
<1> QED
  BY <1>3, <1>4, <1>5 DEF ReceiveTimeout, NotAnswered

\* The positive reply to its own command is the one a function accepts.
LEMMA AcceptsItsReply ==
  ASSUME NEW o \in Exchange, NEW rsp, rsp \in {"ERROR", PositiveReply(CommandOf(o))}
  PROVE  Accepts(o, rsp) <=> rsp # "ERROR"
  BY DEF Exchange, Accepts, PositiveReply, CommandOf

\* The answer that reaches a call is the answer to its command, and ends it:
\* with success just when the companion has obeyed.
LEMMA ReplyMaps ==
  ASSUME Timely, RepliesEarned, Lockstep, Lockstep', Believing, ReceiveReply,
         UNCHANGED serverVars
  PROVE  Session!Next
<1>1. PICK r \in toClient : toClient' \in Remaining(toClient, r) /\ Answered(r)
  BY DEF ReceiveReply
<1>2. /\ toClient = {r} /\ toClient' = {} /\ op # NoOp
      /\ r.re.cmd = CommandOf(op)
      /\ UNCHANGED <<connected, serving>>
  BY <1>1, RemainingFacts DEF Timely, Lockstep, ReceiveReply, serverVars
<1>3. Turn = "answer" /\ Answer = r.rsp /\ Answer' = "none"
  BY <1>2, TurnIs, TurnNext, AnswerIs
<1>4. r.rsp \in {"ERROR", PositiveReply(CommandOf(op))}
  BY <1>1, <1>2 DEF RepliesEarned
<1>5. r.rsp = "ERROR" => CommandOf(op) \in Tests
  BY <1>1, <1>2 DEF Believing
<1>6. Positive(op) = PositiveReply(CommandOf(op)) /\ Positive(op) # "ERROR"
  BY CommandOfType, PositiveReplyType DEF Positive
<1>7. CASE op = "Connect" /\ ConnectAnswered(r)
  <2>1. r.rsp = "ACK" /\ Positive(op) = "ACK"
    BY <1>4, <1>5, <1>6, <1>7, CommandOfFacts DEF PositiveReply, Tests
  <2>2. state' = "CONNECTED" /\ Return("SUCCESS", r)
    BY <1>7, <2>1 DEF ConnectAnswered
  <2>3. Turn' = "idle"
    BY <2>2, TurnNext DEF Return
  <2>4. Session!Succeed
    BY <1>2, <1>3, <1>7, <2>1, <2>2, <2>3, OpsApart
    DEF Session!Succeed, Session!Return, Return, NoOp
  <2> QED
    BY <2>4 DEF Session!Next, Session!Proceed
<1>8. CASE /\ op \in Exchange
           /\ ExchangeEnds(IF Accepts(op, r.rsp) THEN "SUCCESS" ELSE "DEVICE_ERROR", r)
  <2>1. Turn' = "idle" /\ UNCHANGED state /\ state = "CONNECTED"
    BY <1>8, TurnNext DEF ExchangeEnds, Return, Believing
  <2>2. CASE r.rsp = "ERROR"
    <3>1. Return("DEVICE_ERROR", r)
      BY <1>4, <1>8, <2>2, AcceptsItsReply DEF ExchangeEnds
    <3>2. Session!Fail
      BY <1>2, <1>3, <1>8, <2>1, <2>2, <3>1, OpsApart
      DEF Session!Fail, Session!Return, Return, NoOp
    <3> QED
      BY <3>2 DEF Session!Next, Session!Proceed
  <2>3. CASE r.rsp # "ERROR"
    <3>1. Return("SUCCESS", r)
      BY <1>4, <1>8, <2>3, AcceptsItsReply DEF ExchangeEnds
    <3>2. Session!Succeed
      BY <1>2, <1>3, <1>4, <1>6, <1>8, <2>1, <2>3, <3>1, OpsApart
      DEF Session!Succeed, Session!Return, Return, NoOp
    <3> QED
      BY <3>2 DEF Session!Next, Session!Proceed
  <2> QED
    BY <2>2, <2>3
<1>9. CASE op \in Closing /\ FinishClosing
  <2>1. CommandOf(op) \notin Tests
    BY <1>9 DEF Closing, CommandOf, Tests
  <2>2. Turn' = "idle" /\ state' = "DISCONNECTED" /\ Return("SUCCESS", NoReply)
    BY <1>9, TurnNext DEF FinishClosing, Return
  <2>3. Session!Succeed
    BY <1>2, <1>3, <1>4, <1>5, <1>6, <1>9, <2>1, <2>2
    DEF Session!Succeed, Session!Return, Return, NoOp
  <2> QED
    BY <2>3 DEF Session!Next, Session!Proceed
<1> QED
  BY <1>1, <1>7, <1>8, <1>9 DEF Answered

\* The companion takes the one command in flight, and obeys or refuses it.
LEMMA HandleMaps ==
  ASSUME Timely, TypeOK, Lockstep, Lockstep', Believing, Handle, UNCHANGED linkVars
  PROVE  Session!Next
<1>1. PICK c \in toServer : HandleHello(c) \/ HandleTest(c) \/ HandleDone(c)
  BY DEF Handle
<1>2. /\ c.cmd = CommandOf(op) /\ op # NoOp /\ toClient = {}
      /\ Turn = "companion" /\ Answer = "none"
  BY <1>1, TurnIs DEF Lockstep, Settled
<1>3. UNCHANGED <<op, state, last>>
  BY DEF linkVars
<1>4. ASSUME NEW rsp, Send(c, rsp)
      PROVE  Turn' = "answer" /\ Answer' = rsp
  <2>1. toClient' = {[re |-> c, rsp |-> rsp]}
    BY <1>2, <1>4 DEF Send
  <2>2. Answer' = [re |-> c, rsp |-> rsp].rsp
    BY <2>1, AnswerNext
  <2>3. Turn' = "answer"
    BY <2>1, TurnNext
  <2> QED
    BY <2>2, <2>3
<1>5. op \in {"Connect"} \cup Exchange \cup Closing
  BY <1>2 DEF Believing
<1>6. Positive(op) = PositiveReply(c.cmd)
  BY <1>2 DEF Positive
<1>7. CASE HandleHello(c)
  <2>1. op = "Connect" /\ Positive(op) = "ACK"
    BY <1>2, <1>5, <1>6, <1>7, CommandOfFacts
    DEF HandleHello, Tests, CommandOf, Closing, PositiveReply
  <2>2. serving = "listening" /\ connected' = TRUE /\ serving' = serving /\ Send(c, "ACK")
    BY <1>7 DEF HandleHello, Take
  <2>3. Session!Serve
    BY <1>2, <1>3, <1>4, <2>1, <2>2 DEF Session!Serve
  <2> QED
    BY <2>3 DEF Session!Next, Session!Proceed
<1>8. CASE HandleTest(c)
  <2>1. op \in Exchange
    BY <1>2, <1>5, <1>8, CommandOfFacts DEF HandleTest, Tests, CommandOf, Closing
  <2>2. serving = "listening" /\ UNCHANGED <<connected, serving>>
    BY <1>8 DEF HandleTest, Take
  <2>3. (connected /\ Send(c, PositiveReply(c.cmd))) \/ Send(c, "ERROR")
    BY <1>8 DEF HandleTest
  <2>4. Session!Serve
    <3>1. CASE connected /\ Send(c, PositiveReply(c.cmd))
      BY <1>2, <1>3, <1>4, <1>6, <2>1, <2>2, <3>1 DEF Session!Serve
    <3>2. CASE Send(c, "ERROR")
      BY <1>2, <1>3, <1>4, <2>1, <2>2, <3>2 DEF Session!Serve
    <3> QED
      BY <2>3, <3>1, <3>2
  <2> QED
    BY <2>4 DEF Session!Next, Session!Proceed
<1>9. CASE HandleDone(c)
  <2>1. op \in Closing /\ Positive(op) = "CONFIRM"
    BY <1>2, <1>5, <1>6, <1>9, CommandOfFacts DEF HandleDone, Tests, PositiveReply
  <2>2. serving' = "ending" /\ Send(c, "CONFIRM")
    BY <1>9 DEF HandleDone
  <2>3. Session!Serve
    BY <1>2, <1>3, <1>4, <2>1, <2>2 DEF Session!Serve
  <2> QED
    BY <2>3 DEF Session!Next, Session!Proceed
<1> QED
  BY <1>1, <1>7, <1>8, <1>9

LEMMA LossMaps ==
  ASSUME Lockstep, Lockstep', LoseRequest \/ LoseReply, UNCHANGED <<linkVars, serverVars>>
  PROVE  Session!Next
<1>1. UNCHANGED <<op, pc, state, last, connected, serving>> /\ op # NoOp /\ pc # "send"
  BY DEF linkVars, serverVars, LoseRequest, LoseReply, Lockstep, Settled
<1>2. Settled'
  BY DEF LoseRequest, LoseReply, Lockstep, Settled
<1>3. Turn \in {"companion", "answer"} /\ Turn' = "lost" /\ Answer' = "none"
  BY <1>1, <1>2, TurnIs, TurnNext DEF LoseRequest, LoseReply, Settled
<1>4. Session!Lose
  BY <1>1, <1>3 DEF Session!Lose
<1> QED
  BY <1>4 DEF Session!Next, Session!Proceed

\* Every step of the channel over a timely network is a step of the remote
\* procedure call, or invisible in it.
LEMMA SessionMaps ==
  ASSUME Timely, TimelyInv, TimelyInv', Believing, [Next]_vars
  PROVE  [Session!Next]_(Session!vars)
<1> USE DEF TimelyInv
<1>0. {"DEVICE_ERROR", "TIMEOUT", "UNSUPPORTED", "NOT_READY"} \subseteq
        Statuses \ {"SUCCESS"}
  BY DEF Statuses
<1>1. CASE Call /\ UNCHANGED serverVars
  BY <1>1, CallMaps
<1>2. CASE Transmit /\ UNCHANGED serverVars
  <2>1. /\ Turn = "ask" /\ Answer = "none" /\ Answer' = "none" /\ Turn' = "companion"
        /\ UNCHANGED <<op, state, last, connected, serving>>
    BY <1>2, TurnIs, TurnNext DEF Transmit, Issue, Lockstep, Settled, serverVars
  <2>2. Session!Ask
    BY <2>1 DEF Session!Ask
  <2> QED
    BY <2>2 DEF Session!Next, Session!Proceed
<1>3. CASE (TransmitRefused \/ TransmitError) /\ UNCHANGED serverVars
  <2>1. /\ Settled' /\ pc = "send" /\ op # NoOp
        /\ NotSent("DEVICE_ERROR") \/ NotSent("TIMEOUT")
    BY <1>3 DEF TransmitRefused, TransmitError, Issue, Lockstep, Settled, netVars
  <2> QED
    BY <1>0, <1>3, <2>1, NotSentMaps
<1>4. CASE ReceiveReply /\ UNCHANGED serverVars
  BY <1>4, ReplyMaps
<1>5. CASE ReceiveTimeout /\ UNCHANGED serverVars
  BY <1>5, TimeoutMaps
<1>6. CASE Handle /\ UNCHANGED linkVars
  BY <1>6, HandleMaps
<1>7. CASE EndSession /\ UNCHANGED linkVars
  <2>1. UNCHANGED <<op, Turn, Answer, state, last>> /\ serving # "listening" /\ ~connected'
    BY <1>7 DEF EndSession, linkVars, netVars, Turn, Answer
  <2> QED
    BY <2>1 DEF Session!vars
<1>8. CASE (LoseRequest \/ LoseReply) /\ UNCHANGED <<linkVars, serverVars>>
  BY <1>8, LossMaps
<1>9. CASE Restart /\ UNCHANGED linkVars
  <2>1. UNCHANGED <<op, Turn, Answer, state, last>> /\ ~connected'
    BY <1>9 DEF Restart, linkVars, netVars, Turn, Answer
  <2>2. Session!CompanionRestarts
    BY <2>1 DEF Session!CompanionRestarts
  <2> QED
    BY <2>2 DEF Session!Next
<1>10. CASE Reboot /\ UNCHANGED serverVars
  <2>1. Settled /\ Settled' /\ op' = NoOp
    BY <1>10 DEF Reboot, MayGiveUp, Timely, netVars, Settled
  <2>2. Turn \in {"idle", "ask", "lost"} /\ Turn' = "idle" /\ Answer' = "none"
    BY <2>1, TurnIs, TurnNext DEF Settled
  <2>3. Session!CallerReboots
    BY <1>10, <2>1, <2>2
    DEF Session!CallerReboots, Session!Unknown, Reboot, serverVars, NoReturn, NoOp
  <2> QED
    BY <2>3 DEF Session!Next
<1>11. CASE UNCHANGED <<linkVars, serverVars, netVars>>
  BY <1>11 DEF linkVars, netVars, serverVars, Turn, Answer, Session!vars
<1> QED
  BY <1>1, <1>2, <1>3, <1>4, <1>5, <1>6, <1>7, <1>8, <1>9, <1>10, <1>11
  DEF Next, FloodChanges, vars, LinkStep, Progress, ServerStep, Environment, Timely,
      TransmitCancelledLate, ReceiveFails

LEMMA SessionInit == Init => Session!Init
<1> SUFFICES ASSUME Init PROVE Session!Init
  OBVIOUS
<1> QED
  BY DEF Init, NetInit, LinkInit, ServerInit, Session!Init, Session!Unknown,
     Turn, Answer, NoReturn, NoOp

\* Over a timely network, with losses, failing transmissions and restarts of
\* either machine, the channel keeps every safety promise of ControlSession:
\* the functions of CompanionLink.c and the handlers of companion.py together
\* are a remote procedure call.
THEOREM ChannelIsSession == ASSUME Timely PROVE Spec => Session!Safety
<1>1. Init => TimelyInv /\ Believing /\ Session!Init
  <2>1. Init => Believing
    BY OpsApart DEF Init, NetInit, LinkInit, Believing
  <2> QED
    BY <2>1, TimelyInit, SessionInit
<1>2. TimelyInv /\ Believing /\ [Next]_vars =>
        TimelyInv' /\ Believing' /\ [Session!Next]_(Session!vars)
  BY TimelyStep, BelievingStep, SessionMaps
<1> QED
  BY <1>1, <1>2, PTL DEF Spec, Session!Safety

-----------------------------------------------------------------------------
(* A call has a bounded number of steps *)

\* The steps the running call can still take: two for each HELLO it may send, or
\* one transmission and one wait.
StepsLeft ==
  IF op = NoOp THEN 0
  ELSE (IF op = "Connect" THEN 2 * (MaxAttempts - attempt) ELSE 0)
       + (IF pc = "send" THEN 2 ELSE 1)

\* Whatever the running call does brings its return nearer.
EveryStepCounts == op # NoOp => StepsLeft' < StepsLeft \/ UNCHANGED linkVars

\* A call is running just when it stands at one of the two helpers, and Connect
\* is at its first attempt or a later one.
AtHelper ==
  /\ op = NoOp <=> pc = "idle"
  /\ op = "Connect" => attempt > 0

\* No answer: the call ends, or it is a Connect with one attempt less to go.
LEMMA NotAnsweredCounts ==
  ASSUME NEW status, NotAnswered(status), attempt \in 0..MaxAttempts
  PROVE  \/ op' = NoOp
         \/ /\ attempt < MaxAttempts /\ attempt' = attempt + 1
            /\ op = "Connect" /\ op' = op /\ pc' = "send"
<1>1. CASE op = "Connect" /\ NextAttempt
  BY <1>1 DEF NextAttempt, Return
<1>2. CASE op \in Exchange /\ ExchangeEnds(status, NoReply)
  BY <1>2 DEF ExchangeEnds, Return
<1>3. CASE op \in Closing /\ FinishClosing
  BY <1>3 DEF FinishClosing, Return
<1> QED
  BY <1>1, <1>2, <1>3 DEF NotAnswered

LEMMA AnsweredCounts ==
  ASSUME NEW r, Answered(r), attempt \in 0..MaxAttempts
  PROVE  \/ op' = NoOp
         \/ /\ attempt < MaxAttempts /\ attempt' = attempt + 1
            /\ op = "Connect" /\ op' = op /\ pc' = "send"
<1>1. CASE op = "Connect" /\ ConnectAnswered(r)
  BY <1>1 DEF ConnectAnswered, NextAttempt, Return
<1>2. CASE op \in Exchange /\ ExchangeEnds(IF Accepts(op, r.rsp) THEN "SUCCESS" ELSE "DEVICE_ERROR", r)
  BY <1>2 DEF ExchangeEnds, Return
<1>3. CASE op \in Closing /\ FinishClosing
  BY <1>3 DEF FinishClosing, Return
<1> QED
  BY <1>1, <1>2, <1>3 DEF Answered

LEMMA CallCounts ==
  ASSUME Call, op' = "Connect"
  PROVE  attempt' = 1
BY OpsApart
DEF Call, CompanionInit, CompanionConnect, ConnectRefused, BeginConnected, ExchangeRefused,
    CompanionDisconnect, CompanionDestroy, Idle, Enter, Immediate

LEMMA AtHelperStep ==
  ASSUME TypeOK, AtHelper, [Next]_vars
  PROVE  AtHelper'
<1> USE DEF AtHelper
<1>0. /\ {"DEVICE_ERROR", "TIMEOUT", "UNSUPPORTED", "NOT_READY"} \subseteq
           Statuses \ {"SUCCESS"}
      /\ attempt \in 0..MaxAttempts /\ attempt \in Nat /\ NoOp # "Connect"
  BY DEF Statuses, TypeOK, LinkTypeOK, MaxAttempts, NoOp
<1>1. CASE Call
  BY <1>0, <1>1, CallControl, CallCounts
<1>2. CASE Transmit
  BY <1>2 DEF Transmit
<1>3. CASE TransmitRefused \/ TransmitError \/ TransmitCancelledLate
  <2>1. PICK status \in {"DEVICE_ERROR", "TIMEOUT"} : NotSent(status)
    BY <1>3 DEF TransmitRefused, TransmitError, TransmitCancelledLate
  <2>2. op' = NoOp <=> pc' = "idle"
    BY <1>0, <2>1, OpsApart, NotSentControl
  <2>3. op' = "Connect" => attempt' > 0
    BY <1>0, <2>1, NotAnsweredCounts DEF NotSent
  <2> QED
    BY <2>2, <2>3
<1>4. CASE ReceiveReply
  BY <1>0, <1>4, OpsApart, AnsweredControl, AnsweredCounts DEF ReceiveReply
<1>5. CASE ReceiveTimeout \/ ReceiveFails
  BY <1>0, <1>5, OpsApart, NotAnsweredControl, NotAnsweredCounts DEF ReceiveTimeout, ReceiveFails
<1>6. CASE Reboot
  BY <1>0, <1>6 DEF Reboot
<1>7. CASE UNCHANGED linkVars
  BY <1>7 DEF linkVars
<1> QED
  BY <1>1, <1>2, <1>3, <1>4, <1>5, <1>6, <1>7
  DEF Next, FloodChanges, vars, LinkStep, Progress, ServerStep, Environment

LEMMA CountingStep ==
  ASSUME TypeOK, AtHelper, [Next]_vars
  PROVE  EveryStepCounts
<1> SUFFICES ASSUME op # NoOp PROVE StepsLeft' < StepsLeft \/ UNCHANGED linkVars
  BY DEF EveryStepCounts
<1>1. attempt \in 0..MaxAttempts /\ MaxAttempts \in Nat /\ pc \in {"send", "receive"}
  BY DEF TypeOK, LinkTypeOK, AtHelper, MaxAttempts
<1>2. StepsLeft \in Nat \ {0}
  BY <1>1 DEF StepsLeft
<1>3. CASE op' = NoOp
  BY <1>2, <1>3 DEF StepsLeft
<1>4. CASE pc = "send" /\ pc' = "receive" /\ op' = op /\ attempt' = attempt
  BY <1>1, <1>4 DEF StepsLeft
<1>5. CASE /\ attempt < MaxAttempts /\ attempt' = attempt + 1
           /\ op = "Connect" /\ op' = op /\ pc' = "send"
  BY <1>1, <1>5 DEF StepsLeft
<1>6. ASSUME NEW status, NotSent(status), pc = "send"
      PROVE  StepsLeft' < StepsLeft \/ UNCHANGED linkVars
  <2>1. CASE NotAnswered(status)
    BY <1>1, <1>3, <1>5, <2>1, NotAnsweredCounts
  <2> QED
    BY <1>4, <1>6, <2>1 DEF NotSent
<1>7. CASE Transmit
  BY <1>4, <1>7 DEF Transmit
<1>8. CASE TransmitRefused \/ TransmitError \/ TransmitCancelledLate
  BY <1>6, <1>8 DEF TransmitRefused, TransmitError, TransmitCancelledLate
<1>9. CASE ReceiveReply
  BY <1>1, <1>3, <1>5, <1>9, AnsweredCounts DEF ReceiveReply
<1>10. CASE ReceiveTimeout \/ ReceiveFails
  BY <1>1, <1>3, <1>5, <1>10, NotAnsweredCounts DEF ReceiveTimeout, ReceiveFails
<1>11. CASE Call
  BY <1>11, CallControl
<1>12. CASE Reboot
  BY <1>3, <1>12 DEF Reboot
<1>13. CASE UNCHANGED linkVars
  BY <1>13
<1> QED
  BY <1>7, <1>8, <1>9, <1>10, <1>11, <1>12, <1>13
  DEF Next, FloodChanges, vars, LinkStep, Progress, ServerStep, Environment

\* The part of CallsReturn that is safety: over any network, with any faults,
\* each step of a running call lowers a natural number that starts at no more
\* than six.  A whole wait is one step here, and how long it takes is what this
\* theorem leaves open: CallsReturn needs the pauses in the traffic.
THEOREM CallsAreBounded ==
  Spec => /\ [](StepsLeft \in 0..2 * MaxAttempts)
          /\ [][EveryStepCounts]_vars
<1>1. Init => TypeOK /\ Counted /\ AtHelper
  BY TypeInit DEF Init, NetInit, LinkInit, Counted, AtHelper, NoOp
<1>2. TypeOK /\ Counted /\ AtHelper /\ [Next]_vars =>
        TypeOK' /\ Counted' /\ AtHelper' /\ EveryStepCounts
  BY TypeStep, AtHelperStep, CountingStep
<1>3. TypeOK /\ AtHelper => StepsLeft \in 0..2 * MaxAttempts
  BY DEF TypeOK, LinkTypeOK, AtHelper, StepsLeft, MaxAttempts
<1> QED
  BY <1>1, <1>2, <1>3, PTL DEF Spec

-----------------------------------------------------------------------------
(* Where nothing is lost, the first HELLO is enough *)

\* The machines may be restarted; the network delivers.
Lossless == Faults \subseteq {"restart", "reboot"}

\* A call that waits has a datagram on its way, its command or the answer, so that
\* no wait runs out; and Connect has not come to a second HELLO.
Expecting ==
  /\ pc = "receive" => ~Settled
  /\ op = "Connect" => attempt = 1
  /\ last.op = "Connect" => last.status = "SUCCESS"

\* However Connect ends, it is connected, or the machine was switched off.
ConnectEndsWell == op = "Connect" /\ op' # "Connect" => state' = "CONNECTED" \/ link' = "none"

\* The answer to a HELLO is an ACK, and Connect takes it.
LEMMA HelloIsAcknowledged ==
  ASSUME TypeOK, RepliesEarned, Lockstep, Believing, NEW r \in toClient, Answered(r)
  PROVE  /\ op' = NoOp /\ pc' = "idle" /\ last'.op = op
         /\ op = "Connect" => last'.status = "SUCCESS" /\ state' = "CONNECTED"
<1>1. CASE op = "Connect" /\ ConnectAnswered(r)
  <2>1. r.re.cmd = "HELLO"
    BY <1>1, CommandOfFacts DEF Lockstep
  <2>2. r.rsp = "ACK"
    BY <2>1 DEF RepliesEarned, PositiveReply, Believing, Tests
  <2> QED
    BY <1>1, <2>2 DEF ConnectAnswered, Return
<1>2. CASE /\ op \in Exchange
           /\ ExchangeEnds(IF Accepts(op, r.rsp) THEN "SUCCESS" ELSE "DEVICE_ERROR", r)
  BY <1>2, OpsApart DEF ExchangeEnds, Return
<1>3. CASE op \in Closing /\ FinishClosing
  BY <1>3, OpsApart DEF FinishClosing, Return
<1> QED
  BY <1>1, <1>2, <1>3 DEF Answered

LEMMA HandleAnswers ==
  ASSUME Handle
  PROVE  ~Settled'
<1>1. PICK c \in toServer : HandleHello(c) \/ HandleTest(c) \/ HandleDone(c)
  BY DEF Handle
<1>2. \E rsp : Send(c, rsp)
  BY <1>1 DEF HandleHello, HandleTest, HandleDone
<1> QED
  BY <1>2 DEF Send, Settled

LEMMA ExpectingStep ==
  ASSUME Lossless, TypeOK, RepliesEarned, Lockstep, Believing, Expecting, [Next]_vars
  PROVE  Expecting' /\ ConnectEndsWell
<1> USE DEF Expecting, ConnectEndsWell
<1>0. NoOp # "Connect"
  BY DEF NoOp
<1>1. CASE Call
  BY <1>0, <1>1, CallControl, CallCounts, OpsApart DEF Lockstep, Call, CompanionInit, CompanionConnect,
     ConnectRefused, BeginConnected, ExchangeRefused, CompanionDisconnect, CompanionDestroy,
     Idle, Enter, NoReturn, Immediate
<1>2. CASE Transmit
  BY <1>2 DEF Transmit, Settled
<1>3. CASE ReceiveReply
  BY <1>0, <1>3, HelloIsAcknowledged DEF ReceiveReply
<1>4. ~ReceiveTimeout
  BY DEF ReceiveTimeout, MayGiveUp, Lossless
<1>5. CASE Reboot
  BY <1>0, <1>5 DEF Reboot, NoReturn
<1>6. CASE Handle /\ UNCHANGED linkVars
  BY <1>6, HandleAnswers DEF linkVars
<1>7. CASE UNCHANGED <<linkVars, netVars>>
  BY <1>7 DEF linkVars, netVars, Settled
<1> QED
  BY <1>1, <1>2, <1>3, <1>4, <1>5, <1>6, <1>7
  DEF Next, FloodChanges, vars, LinkStep, Progress, ServerStep, Environment, EndSession, Restart, Lossless,
      LoseRequest, LoseReply, TransmitRefused, TransmitError, TransmitCancelledLate, ReceiveFails

\* The part of ConnectSucceeds that is safety: where nothing is lost, Connect never
\* sends a second HELLO and never returns an error, whatever session was left open
\* and however often the companion is restarted.
THEOREM FirstHelloSuffices ==
  ASSUME Lossless
  PROVE  Spec => /\ [](op = "Connect" => attempt = 1)
                 /\ [](last.op = "Connect" => last.status = "SUCCESS")
                 /\ [][ConnectEndsWell]_vars
<1>1. Timely
  BY DEF Timely, Lossless
<1>2. Init => TimelyInv /\ Believing /\ Expecting
  <2>1. Init => Expecting
    BY DEF Init, NetInit, LinkInit, Expecting, NoReturn, NoOp
  <2>2. Init => Believing
    BY OpsApart DEF Init, NetInit, LinkInit, Believing
  <2> QED
    BY <2>1, <2>2, TimelyInit
<1>3. TimelyInv /\ Believing /\ Expecting /\ [Next]_vars =>
        TimelyInv' /\ Believing' /\ Expecting' /\ ConnectEndsWell
  BY <1>1, TimelyStep, BelievingStep, ExpectingStep DEF TimelyInv
<1>4. Expecting => /\ op = "Connect" => attempt = 1
                   /\ last.op = "Connect" => last.status = "SUCCESS"
  BY DEF Expecting
<1> QED
  BY <1>2, <1>3, <1>4, PTL DEF Spec

=============================================================================
