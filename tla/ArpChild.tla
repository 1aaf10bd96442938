------------------------------- MODULE ArpChild -------------------------------
(***************************************************************************)
(* Address resolution through a child of the firmware's ARP driver, as     *)
(* layer 2, layer 3 and the echo probes perform it: an event and a buffer  *)
(* on the caller's stack are handed to the driver, the caller polls until  *)
(* the event was signalled or its polls have run out.  The driver signals  *)
(* the event when a reply has come, and also when its own retries are      *)
(* used up; then the buffer still holds the zeros the caller put there.    *)
(***************************************************************************)

VARIABLES
  arp,        \* the caller: "idle", "asking", "polling", "closing" the event,
              \* "withdrawing" the request by Configure(NULL) and DestroyChild
  request,    \* the driver: "none", "pending", "answered" or "abandoned"
  resolved,   \* what the helper returned, "none" until it has
  address     \* what is in the caller's buffer: "zero" or "mac"

arpVars == <<arp, request, resolved, address>>

ArpTypeOK ==
  /\ arp \in {"idle", "asking", "polling", "closing", "withdrawing"}
  /\ request \in {"none", "pending", "answered", "abandoned"}
  /\ resolved \in {"none", "SUCCESS", "TIMEOUT", "ERROR", "UNSUPPORTED"}
  /\ address \in {"zero", "mac"}

ArpInit ==
  /\ arp = "idle"
  /\ request = "none"
  /\ resolved = "none"
  /\ address = "zero"

ArpReady == arp = "idle" /\ resolved = "none"

\* No service binding, no child, no protocol on it; or Configure fails.
ArpOpenFails ==
  /\ ArpReady
  /\ resolved' \in {"UNSUPPORTED", "ERROR"}
  /\ UNCHANGED <<arp, request, address>>

ArpOpen ==
  /\ ArpReady
  /\ arp' = "asking"
  /\ address' = "zero"
  /\ UNCHANGED <<request, resolved>>

\* CreateEvent or Request fails; Request finds the address in the cache; or the
\* request is queued.
ArpRequest ==
  /\ arp = "asking"
  /\ \/ /\ resolved' = "ERROR"
        /\ arp' = "closing"
        /\ UNCHANGED <<request, address>>
     \/ /\ resolved' = "SUCCESS"
        /\ address' = "mac"
        /\ arp' = "closing"
        /\ UNCHANGED request
     \/ /\ request' = "pending"
        /\ arp' = "polling"
        /\ UNCHANGED <<resolved, address>>

\* The driver, from a timer event that interrupts the caller at any instant.
ArpReply ==
  /\ request = "pending"
  /\ request' = "answered"
  /\ address' = "mac"
  /\ UNCHANGED <<arp, resolved>>

ArpGiveUp ==
  /\ request = "pending"
  /\ request' = "abandoned"
  /\ UNCHANGED <<arp, resolved, address>>

ArpPolled ==
  /\ arp = "polling"
  /\ request \in {"answered", "abandoned"}
  /\ resolved' = "SUCCESS"
  /\ arp' = "closing"
  /\ UNCHANGED <<request, address>>

ArpPollsSpent ==
  /\ arp = "polling"
  /\ request = "pending"
  /\ resolved' = "TIMEOUT"
  /\ arp' = "closing"
  /\ UNCHANGED <<request, address>>

\* The event is closed while the driver may still hold it.
ArpCloseEvent ==
  /\ arp = "closing"
  /\ arp' = "withdrawing"
  /\ UNCHANGED <<request, resolved, address>>

\* Slip: the child of a request that was not answered is left alone.
ArpWithdrawAnswered ==
  /\ arp = "withdrawing"
  /\ arp' = "idle"
  /\ request' = IF resolved = "TIMEOUT" THEN request ELSE "none"
  /\ UNCHANGED <<resolved, address>>

ArpWithdraw ==
  /\ arp = "withdrawing"
  /\ arp' = "idle"
  /\ request' = "none"
  /\ UNCHANGED <<resolved, address>>

ArpCaller ==
  ArpRequest \/ ArpPolled \/ ArpPollsSpent \/ ArpCloseEvent \/ ArpWithdraw

ArpDriver == ArpReply \/ ArpGiveUp

\* The test looks at what the helper returned.
ArpConsume ==
  /\ arp = "idle"
  /\ resolved # "none"
  /\ resolved' = "none"
  /\ UNCHANGED <<arp, request, address>>

\* How many steps the caller can still take.
ArpLeft ==
  CASE arp = "asking" -> 4
    [] arp = "polling" -> 3
    [] arp = "closing" -> 2
    [] arp = "withdrawing" -> 1
    [] arp = "idle" -> 0

=============================================================================
