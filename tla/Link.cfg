SPECIFICATION Spec
CONSTANTS
  Setups <- MCSetups
  MaxFrames = 3
INVARIANTS
VerdictHonest
DriversLetGo

PROPERTIES
FramesNeedNic
ReportGentle
