CONSTANTS
  NoOwner = NoOwner
  SystemOwner = SystemOwner
  user = user
  private = private
  shared = shared
  renamed = renamed
  bad = bad
  base1 = base1
  base2 = base2
  long = long
  even = even
  blank = blank
  Call = {r1, r2}
  Form = {private, shared, renamed, bad, base1, base2}
  Content = {long, even, blank}
  BadMetadata = {bad}
  Fields <- MCFields
  ChunksOf <- MCChunksOf
  BatchSize = 2
  SkipRefresh = FALSE
SPECIFICATION Spec
CHECK_DEADLOCK FALSE
INVARIANT SucceededJobMeansActive
