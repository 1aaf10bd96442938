SPECIFICATION Spec
CONSTANTS
  MaxSends = 5
  Faults = {"loss", "xmit", "reboot"}
INVARIANTS
  QuietBetweenCalls
  SuccessIsGenuine
  ConnectedMeansSession
  TimeoutMeansSilence
PROPERTIES
  ImplementsSession
