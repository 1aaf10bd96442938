------------------------------ MODULE TestRunner ------------------------------
(***************************************************************************)
(* Source/TestRunner.c and the rows of Source/TestRegistry.c that the      *)
(* quick scan looks up: what a test needs of the NIC and of the            *)
(* configuration, and which status a test run through RunSingleTest ends   *)
(* with.                                                                   *)
(***************************************************************************)
CONSTANT Nics    \* the protocol stacks a NIC may come with

VARIABLES
  nic,       \* the protocols of the NIC that is tested
  target     \* Config->TargetIp is not 0.0.0.0

runnerVars == <<nic, target>>

Protocols == {"Snp", "Ip4", "Tcp4", "Udp4", "Dhcp4"}

ASSUME NicsAssumption == Nics \subseteq SUBSET Protocols

Codes == {"PASS", "FAIL", "WARN", "SKIP", "ERROR"}

\* The names of the quick scan's tests are all in the registry, which has room
\* for MAX_TESTS = 64 definitions and holds 36.
Needs ==
  [NicStatus |-> {"Snp"}, LinkDetect |-> {"Snp"},
   MacAddressValid |-> {"Snp"}, ArpRequestReply |-> {"Snp"},
   IpConfigCheck |-> {"Ip4"}, IcmpEcho |-> {"Snp"},
   TcpConnect |-> {"Tcp4"}, UdpSendReceive |-> {"Udp4"},
   DnsResolve |-> {"Ip4", "Udp4"}, DhcpLeaseVerify |-> {"Dhcp4"}]

RequiresTarget == {"IcmpEcho", "TcpConnect", "UdpSendReceive"}

RunCheckPrerequisites(t) == Needs[t] \subseteq nic

\* The runner skips the test without executing it.
Skipped(t) == ~RunCheckPrerequisites(t) \/ (t \in RequiresTarget /\ ~target)

(***************************************************************************)
(* The status of test t, whose Execute leaves code in Result->StatusCode   *)
(* and returns an error or not.  The result was cleared before, and 0 is   *)
(* TEST_RESULT_PASS: an error with the code still 0 becomes ERROR.         *)
(***************************************************************************)

\* Slip: the error a test returns is not looked at.
RunSingleTestTrusting(t, code, error) == IF Skipped(t) THEN "SKIP" ELSE code

RunSingleTest(t, code, error) ==
  IF Skipped(t) THEN "SKIP"
  ELSE IF error /\ code = "PASS" THEN "ERROR"
  ELSE code

\* A NIC is chosen in the menu and the configuration edited before a run.
Select ==
  /\ nic' \in Nics
  /\ target' \in BOOLEAN

=============================================================================
