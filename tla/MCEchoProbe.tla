----------------------------- MODULE MCEchoProbe -----------------------------
(* The echo tests on a NIC with every protocol. *)
EXTENDS EchoProbe

MCOutcomes == {"SUCCESS", "EMPTY", "WRONG", "ERROR", "ABORTED"}
MCProtocols == {"ARP", "ICMP", "UDP", "TCP"}

=============================================================================
