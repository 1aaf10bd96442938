SPECIFICATION Spec
CONSTANTS
  HistorySize = 3
  ScreenRows = 2
  Outcomes <- MCOutcomes
  Protocols <- MCProtocols
  MaxProbes = 4
  MaxOwed = 2
INVARIANTS
  ResultHonest
  DriversLetGo
PROPERTIES
  ProbeEnds
  ImplementsLog
