CONSTANTS
  bob = bob
  root = root
  ann = ann
  ann2 = ann2
  s1 = s1
  s2 = s2
  r1 = r1
  r2 = r2
  r3 = r3
  Request = {s1, s2, r1, r2, r3}
  User = {bob, root, ann, ann2}
  Admin = {root}
  Standing = {bob, root}
  Email <- MCEmail
  OpenedBy <- MCOpenedBy
  AutoActivate = TRUE
  NoToken = NoToken
SPECIFICATION Spec
SYMMETRY Interchangeable
CHECK_DEADLOCK FALSE
INVARIANTS
  ChangeEndsSessions
  NoSessionLost
  SessionsHaveAccounts
PROPERTIES
  SessionsFollowAccounts
