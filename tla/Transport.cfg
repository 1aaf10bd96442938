SPECIFICATION Spec
CONSTANTS
  Outcomes = {"SUCCESS", "EMPTY", "ERROR"}
  Iterations = 4
INVARIANTS
TokenOwned
VerdictHonest
ChildrenReturned
PROPERTIES
ClosedBeforeDestroyed
TestsEnd
