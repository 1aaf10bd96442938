-------------------------- MODULE ControlRefinement --------------------------
(***************************************************************************)
(* With timely delivery the control channel implements ControlSession: the *)
(* caller may think of CompanionLink as a remote procedure call.           *)
(***************************************************************************)
EXTENDS ControlChannel

Turn ==
  IF op = NoOp THEN "idle"
  ELSE IF pc = "send" THEN "ask"
  ELSE IF toServer # {} THEN "companion"
  ELSE IF toClient # {} THEN "answer"
  ELSE "lost"

Answer ==
  IF toClient = {} THEN "none" ELSE (CHOOSE r \in toClient : TRUE).rsp

Positive(o) == PositiveReply(CommandOf(o))

Session == INSTANCE ControlSession WITH
  call     <- op,
  turn     <- Turn,
  answer   <- Answer,
  session  <- connected /\ serving = "listening",
  believed <- state = "CONNECTED",
  outcome  <- [op |-> last.op, ok |-> last.status = "SUCCESS" \/ last.op = NoOp]

\* Every behaviour of the program over a network that is timely (it may lose
\* datagrams, and transmissions and machines may fail) is a behaviour of
\* ControlSession: replies never reach the wrong call, success is never
\* reported for a command the companion has not carried out, and every call
\* comes to its end.
ImplementsSession == Session!Spec

=============================================================================
