CONSTANTS
  NoOwner = NoOwner
  SystemOwner = SystemOwner
  NoCopy = NoCopy
  user = user
  other = other
  private = private
  shared = shared
  base = base
  one = one
  two = two
  loose = loose
  held = held
  Call = {r1, r2}
  Form = {private, shared, base}
  Content = {one, two}
  BadMetadata = {}
  Fields <- MCFields
  ChunksOf <- MCChunksOf
  BatchSize = 1
  SkipRefresh = TRUE
  Pdf = {private, base}
  Loose <- MCLoose
  Asks <- MCAsks
  RegionOf <- MCRegionOf
  PageSize = 2
SPECIFICATION FilesSpec
CHECK_DEADLOCK FALSE
INVARIANTS
  CopiesMatchRows
  ReadersMissNothing
