SPECIFICATION Spec
CONSTANTS
  Ports <- DefaultPorts
  Contested = {"tcp80", "udp67", "udp9999"}
INVARIANTS
TypeOK
AddressAsFound
NoOrphan
PROPERTIES
ReadyBeforeStopping
SignalEnds
