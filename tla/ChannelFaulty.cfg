SPECIFICATION Spec
CONSTANTS
  MaxSends = 3
  Faults = {"dup", "late", "xmit", "nic", "flood", "reboot"}
INVARIANTS
  TypeOK
  SuccessIsEarned
PROPERTIES
  CallsReturn
