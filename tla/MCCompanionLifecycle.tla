------------------------- MODULE MCCompanionLifecycle -------------------------
(* CompanionLifecycle with the sockets of Companion/config/default.conf. *)
EXTENDS CompanionLifecycle

\* http_port is one of tcp_ports; the other TCP ports stand for each other.
DefaultPorts ==
  [control |-> {"udp9999"}, arp |-> {"rawArp"}, icmp |-> {"rawIcmp"},
   tcp |-> {"tcp80", "tcp22"}, udp |-> {"udp5000"}, dhcp |-> {"udp67"},
   dns |-> {"udp53"}, http |-> {"tcp80"}]

\* A configuration that keeps them apart.
SeparatePorts == [DefaultPorts EXCEPT !.http = {"tcp8000"}]

=============================================================================
