SPECIFICATION FairSpec
CONSTANTS
  Cpus = {c1, c2}
  QueueMax = 2
  MaxActs = 4
  MaxRuns = 2
  MaxLoads = 2
INVARIANTS PagesAreFreed HandlersHaveSocket NoFeedback NoSilentGap
PROPERTIES EventsPrinted
CHECK_DEADLOCK FALSE
