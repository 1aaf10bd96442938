--------------------------- MODULE ControlNetwork ---------------------------
(***************************************************************************)
(* The UDP control channel (port 9999) between the EFI application and the *)
(* Linux companion: the words the two programs exchange and the two        *)
(* directions of the network between them.  The network is not part of     *)
(* this repository; it is modelled from how CompanionLink.c and            *)
(* control_server.py use it.                                               *)
(*                                                                         *)
(* Datagrams carry no identifier.  The field "id" below is a history       *)
(* value: it says which transmission a command or its answer belongs to,   *)
(* and no action of either program reads it.                               *)
(***************************************************************************)
EXTENDS Naturals, FiniteSets

CONSTANTS
  MaxSends,   \* bound: number of datagrams the EFI side may ever transmit
  Faults      \* what may go wrong, a subset of FaultKinds

FaultKinds == {"loss",     \* a datagram disappears
               "dup",      \* a datagram is delivered and stays in flight
               "late",     \* a wait may expire before the answer arrives
               "xmit",     \* UDP4 Transmit fails or its token times out
               "nic",      \* SNP cannot be read, Receive fails at once
               "flood",    \* frames of others follow each other without a pause
               "restart",  \* the companion process is restarted
               "reboot"}   \* the machine under test is switched off and on

ASSUME MaxSendsAssumption == MaxSends \in Nat \ {0}
ASSUME FaultsAssumption == Faults \subseteq FaultKinds

Commands  == {"HELLO", "PREPARE", "START", "STOP", "RESULT", "DONE"}
Responses == {"ACK", "READY", "ERROR", "REPORT", "CONFIRM"}

Request == [id : 1..MaxSends, cmd : Commands]
Reply   == [re : Request, rsp : Responses]

VARIABLES
  toServer,   \* commands in flight, a set of Request
  toClient,   \* answers in flight or in the NIC's receive ring, a set of Reply
  sends,      \* history: number of datagrams transmitted so far
  flood       \* frames of others reach the EFI side without a pause: whenever the
              \* wait that is running looks, the NIC has one

netVars == <<toServer, toClient, sends>>

NetTypeOK ==
  /\ toServer \subseteq Request
  /\ toClient \subseteq Reply
  /\ sends \in 0..MaxSends

NetInit ==
  /\ toServer = {}
  /\ toClient = {}
  /\ sends = 0

(***************************************************************************)
(* Taking a datagram out of one direction.  A network that duplicates may  *)
(* deliver it and still hold a second copy.                                *)
(***************************************************************************)
Remaining(channel, m) ==
  {channel \ {m}} \cup (IF "dup" \in Faults THEN {channel} ELSE {})

Settled == toServer = {} /\ toClient = {}

\* Without "late", nobody stops waiting while a datagram is on its way.
MayGiveUp == "late" \in Faults \/ Settled

LoseRequest ==
  /\ "loss" \in Faults
  /\ \E c \in toServer : toServer' = toServer \ {c}
  /\ UNCHANGED <<toClient, sends>>

LoseReply ==
  /\ "loss" \in Faults
  /\ \E r \in toClient : toClient' = toClient \ {r}
  /\ UNCHANGED <<toServer, sends>>

=============================================================================
