SPECIFICATION Spec
CONSTANTS
  Nics = {{"Snp", "Ip4", "Tcp4", "Udp4", "Dhcp4"}, {"Snp", "Dhcp4"}}
INVARIANTS
TypeOK
BlamesTheFault
HealthyMeansTested
BarsInRange
