----------------------------- MODULE MCLinkTests -----------------------------
(* The layer 1 and 2 tests on three NICs. *)
EXTENDS LinkTests

Full == [media |-> TRUE, mnp |-> TRUE, arp |-> TRUE,
         gateway |-> TRUE, target |-> TRUE, other |-> TRUE]
Bare == [media |-> FALSE, mnp |-> FALSE, arp |-> FALSE,
         gateway |-> TRUE, target |-> TRUE, other |-> FALSE]
Lost == [media |-> TRUE, mnp |-> FALSE, arp |-> TRUE,
         gateway |-> FALSE, target |-> FALSE, other |-> TRUE]

MCSetups == {Full, Bare, Lost}

=============================================================================
