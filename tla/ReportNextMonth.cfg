CONSTANTS
  Trigger = {t1, t2}
  Countries = 3
  Skipped = 1
  SkipCache = TRUE
  Months = 2
SPECIFICATION Spec
CHECK_DEADLOCK FALSE
INVARIANTS
  PregeneratedForNextMonth

