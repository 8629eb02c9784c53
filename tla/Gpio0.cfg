SPECIFICATION Spec
CONSTANTS
  Procs = {p1, p2}
  BlinkCount = 1
  MaxLoads = 3
SYMMETRY MCSymmetry
INVARIANTS SettledIsShown EnteredOnlyMapped
CHECK_DEADLOCK FALSE
