SPECIFICATION FairSpec
CONSTANTS
  Cpus = {c1}
  QueueMax = 1
  MaxActs = 1
  MaxRuns = 1
  MaxLoads = 1
PROPERTY StopsWhenAsked
CHECK_DEADLOCK FALSE
