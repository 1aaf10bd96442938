SPECIFICATION Spec
CONSTANTS
  Ports <- SeparatePorts
  Contested = {"tcp80", "udp67", "udp9999"}
PROPERTIES
SignalEnds
