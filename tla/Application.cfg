SPECIFICATION Spec
CONSTANTS
  Outcomes = {"ANSWER", "EMPTY", "NODATA", "NOT_FOUND", "ERROR", "OK2xx", "OK4xx", "OKother", "BAD2xx", "BAD4xx", "BADother", "SENT", "DENIED", "UNSUPPORTED"}
INVARIANTS
VerdictHonest
ChildrenReturned
PROPERTIES
TestsEnd
