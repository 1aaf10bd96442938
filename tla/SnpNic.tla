-------------------------------- MODULE SnpNic --------------------------------
(***************************************************************************)
(* The Simple Network Protocol of a NIC, the part of the firmware that the *)
(* layer 1 to 3 tests call directly.  It is outside the repository: what   *)
(* is modelled is what the tests rely on.                                  *)
(*                                                                         *)
(* Transmit hands a buffer to the NIC, which reads it until GetStatus has  *)
(* reported it as recycled.  The buffers of the tests are locals and pool  *)
(* memory of the running test; the firmware's own stack (MNP) uses the     *)
(* same NIC at the same time, and GetStatus reports a buffer once, to      *)
(* whoever calls next.                                                     *)
(***************************************************************************)

VARIABLES
  snp,        \* Mode->State
  filter,     \* ReceiveFilterSetting is not 0
  ring,       \* whose buffers the NIC still reads
  recycled    \* whose buffers it has sent but not yet reported

snpVars == <<snp, filter, ring, recycled>>

\* "own" is the running test's, "stale" a buffer of a test that has returned,
\* whose memory is not its own any more, "stack" one of the firmware's stack.
Buffers == {"own", "stale", "stack"}

SnpTypeOK ==
  /\ snp \in {"stopped", "started", "initialized"}
  /\ filter \in BOOLEAN
  /\ ring \in SUBSET Buffers
  /\ recycled \in SUBSET Buffers

SnpInit ==
  /\ snp \in {"stopped", "started", "initialized"}
  /\ filter = FALSE
  /\ ring = {}
  /\ recycled = {}

\* Transmit(): the NIC takes the buffer; whether it may refuse is the caller's.
Queue(buffer) == ring' = ring \cup {buffer}

\* GetStatus() with a place for a recycled buffer.
Reported(buffer) ==
  /\ buffer \in recycled
  /\ recycled' = recycled \ {buffer}

\* ReceiveFilters(); an error is never looked at except by ReceiveFilter.
SetFilter == filter' \in {filter, TRUE}

\* Shutdown() forgets what was queued and the filters.
Reset ==
  /\ ring' = {}
  /\ recycled' = {}
  /\ filter' = FALSE

\* A test returns, and with it its buffers.
Abandon ==
  LET Renamed(set) == {IF b = "own" THEN "stale" ELSE b : b \in set}
  IN /\ ring' = Renamed(ring)
     /\ recycled' = Renamed(recycled)

\* The NIC sends, and the stack sends and collects.
Nic ==
  /\ snp = "initialized"
  /\ \/ \E b \in ring : /\ ring' = ring \ {b}
                        /\ recycled' = recycled \cup {b}
     \/ Queue("stack") /\ UNCHANGED recycled
     \/ \E b \in recycled : Reported(b) /\ UNCHANGED ring
  /\ UNCHANGED <<snp, filter>>

=============================================================================
