CONSTANTS
  r1 = r1
  r2 = r2
  r3 = r3
  c1 = c1
  c2 = c2
  k1 = k1
  k2 = k2
  k3 = k3
  u1 = u1
  q1 = q1
  q2 = q2
  d1 = d1
  d2 = d2
  system = system
  reader = reader
  None = None
  Request = {r1, r2, r3}
  Conversation = {c1, c2, k1, k2, k3}
  NewOf <- MCNew
  Owner <- MCOwner
  UserOf <- MCUser
  Start = {c1}
  Question = {q1, q2}
  Pillars <- MCPillars
  Document = {d1, d2}
  Scope <- MCScope
  Call <- MCCall
  Reader = {reader}
  Limit = 2
SPECIFICATION Spec
SYMMETRY Alike
CHECK_DEADLOCK FALSE
INVARIANTS
  TurnsStandTogether
  CachedAnswersOnRecord
  AnswersCiteScope
  PagesMissNothing
PROPERTIES
  TurnsAreTransactions
