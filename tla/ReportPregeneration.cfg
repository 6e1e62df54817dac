CONSTANTS
  Trigger = {t1, t2}
  Countries = 3
  Skipped = 1
  SkipCache = FALSE
  Months = 2
SPECIFICATION FairSpec
CHECK_DEADLOCK FALSE
INVARIANTS
  TypeOK
  OneRun
  CountersDescribeRun
  SuccessMeansCached
PROPERTIES
  RunEnds
