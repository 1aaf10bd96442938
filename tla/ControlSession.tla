--------------------------- MODULE ControlSession ---------------------------
(***************************************************************************)
(* What the control channel promises the program that calls it: a remote   *)
(* procedure call in lockstep.  One command at a time goes to the          *)
(* companion, which answers it once; the caller is told of success only    *)
(* after the companion has carried out the command of that very call, and  *)
(* believes in a session only while the companion keeps one open (unless   *)
(* the companion was restarted).  A command or an answer may get lost, and *)
(* then the call fails, or asks again when it is a Connect.                *)
(***************************************************************************)
CONSTANTS Exchange, Closing,     \* the calls that exchange messages, Connect apart
          Positive(_)            \* the reply that means success of a call

VARIABLES
  call,       \* the call being executed, "None" if none
  turn,       \* "idle", "ask", "companion", "answer", or "lost"
  answer,     \* what the companion answered, "none" if nothing
  session,    \* the companion has an open session
  believed,   \* the caller believes in one
  outcome     \* which call returned last, and whether with success, until the next

vars == <<call, turn, answer, session, believed, outcome>>

Unknown == [op |-> "None", ok |-> TRUE]

Init ==
  /\ call = "None"
  /\ turn = "idle"
  /\ answer = "none"
  /\ session = FALSE
  /\ believed = FALSE
  /\ outcome = Unknown

\* Connect may be called at any time and puts the earlier session in doubt.
Begin(o) ==
  /\ turn = "idle"
  /\ o = "Connect" \/ believed
  /\ call' = o
  /\ turn' = "ask"
  /\ believed' = (believed /\ o # "Connect")
  /\ outcome' = Unknown
  /\ UNCHANGED <<answer, session>>

\* A call that involves the companion in no way.
Local ==
  /\ turn = "idle"
  /\ ~believed
  /\ outcome' = Unknown
  /\ UNCHANGED <<call, turn, answer, session, believed>>

Ask ==
  /\ turn = "ask"
  /\ turn' = "companion"
  /\ UNCHANGED <<call, answer, session, believed, outcome>>

\* The companion obeys, or refuses without changing its session.
Serve ==
  /\ turn = "companion"
  /\ turn' = "answer"
  /\ \/ /\ call = "Connect"
        /\ session' = TRUE
        /\ answer' = Positive(call)
     \/ /\ call \in Exchange
        /\ session
        /\ answer' = Positive(call)
        /\ UNCHANGED session
     \/ /\ call \in Exchange
        /\ answer' = "ERROR"
        /\ UNCHANGED session
     \/ /\ call \in Closing
        /\ session' = FALSE
        /\ answer' = Positive(call)
  /\ UNCHANGED <<call, believed, outcome>>

Lose ==
  /\ turn \in {"companion", "answer"} \/ (turn = "ask" /\ call \in Closing)
  /\ turn' = "lost"
  /\ answer' = "none"
  /\ UNCHANGED <<call, session, believed, outcome>>

AskAgain ==
  /\ call = "Connect"
  /\ turn = "lost"
  /\ turn' = "ask"
  /\ UNCHANGED <<call, answer, session, believed, outcome>>

Return(ok) ==
  /\ call' = "None"
  /\ turn' = "idle"
  /\ answer' = "none"
  /\ outcome' = [op |-> call, ok |-> ok]
  /\ UNCHANGED session

Succeed ==
  /\ turn = "answer"
  /\ answer = Positive(call)
  /\ Return(TRUE)
  /\ believed' = (call \notin Closing)

Fail ==
  /\ call \notin Closing
  /\ turn \in {"ask", "lost"} \/ (turn = "answer" /\ answer = "ERROR")
  /\ Return(FALSE)
  /\ UNCHANGED believed

\* Closing never fails: the caller stops believing, told or not told.
GiveUpSession ==
  /\ call \in Closing
  /\ turn = "lost"
  /\ Return(TRUE)
  /\ believed' = FALSE

CompanionRestarts ==
  /\ session' = FALSE
  /\ UNCHANGED <<call, turn, answer, believed, outcome>>

CallerReboots ==
  /\ turn \in {"idle", "ask", "lost"}
  /\ call' = "None"
  /\ turn' = "idle"
  /\ answer' = "none"
  /\ believed' = FALSE
  /\ outcome' = Unknown
  /\ UNCHANGED session

Proceed == Ask \/ Serve \/ Lose \/ AskAgain \/ Succeed \/ Fail \/ GiveUpSession

Next ==
  \/ \E o \in {"Connect"} \cup Exchange \cup Closing : Begin(o)
  \/ Local
  \/ Proceed
  \/ CompanionRestarts
  \/ CallerReboots

Safety == Init /\ [][Next]_vars

Spec == Safety /\ WF_vars(Proceed)

=============================================================================
