SPECIFICATION Spec
CONSTANTS
  MaxSends = 5
  Faults = {"restart", "reboot"}
PROPERTIES
  ConnectSucceeds
  ImplementsSession
