---------------------------- MODULE MCNetworkTests ----------------------------
(* The layer 3 tests on four NICs. *)
EXTENDS NetworkTests

Stack == [ip4 |-> TRUE, config |-> TRUE, gateway |-> "near", arp |-> TRUE,
          snp |-> FALSE, carries |-> 3, rival |-> FALSE]
Both == [Stack EXCEPT !.snp = TRUE, !.gateway = "far", !.rival = TRUE]
Bare == [ip4 |-> FALSE, config |-> FALSE, gateway |-> "near", arp |-> FALSE,
         snp |-> TRUE, carries |-> 3, rival |-> TRUE]
Naked == [Bare EXCEPT !.ip4 = TRUE, !.snp = FALSE, !.gateway = "none"]

MCSetups == {Stack, Both, Bare, Naked}

=============================================================================
