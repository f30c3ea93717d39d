SPECIFICATION Spec
CONSTANTS
  Req = {r1, r2, r3}
  Slots = {1, 2}
  NoSlot = NoSlot
  None = None
  CommitModes = {TRUE, FALSE}
  MaxLaunches = 2
  MaxSteps = 4
SYMMETRY Symmetry
INVARIANTS ResultsInOrder TokensAsComputed StashSurvives
CHECK_DEADLOCK FALSE
