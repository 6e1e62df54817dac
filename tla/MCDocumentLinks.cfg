CONSTANTS
  c1 = c1
  c2 = c2
  k1 = k1
  k2 = k2
  d1 = d1
  d2 = d2
  k3 = k3
  cmr = cmr
  ind = ind
  afr = afr
  glo = glo
  r1 = r1
  r2 = r2
  r3 = r3
  Request = {r1, r2, r3}
  Conversation = {c1, c2, k1, k2, k3}
  OwnOf <- MCOwn
  Document = {d1, d2}
  Base = {d1, d2}
  CodeOf <- MCCode
  RegionOf <- MCRegion
  Global = glo
  Stored <- MCStored
  Call <- MCCall
  OldLink <- MCOldLink
  None = None
SPECIFICATION Spec
CHECK_DEADLOCK FALSE
INVARIANTS
  RefsCountLinks
  UnusedAreReported
  AnswersHold
  ReportsCoverCountry
PROPERTIES
  EveryRequestAnswered
  LinksAreTransactions
