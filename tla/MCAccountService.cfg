\* Three calls of any kind: a start and two requests, or three requests.  The
\* limits are scaled to one registration (from 3), two failed logins and one code
\* (from 5 each), and to two attempts (from 5), so that each is reached; ann1 is
\* the name that is tried after ann.  The stores of counts share nothing, and Redis
\* is one that drops nothing, so one that may drop them has the behaviours of both.
CONSTANTS
  c1 = c1
  c2 = c2
  c3 = c3
  Call = {c1, c2, c3}
  m1 = m1
  Store = {m1}
  Memory = {m1}
  Admin = Admin
  Demo = Demo
  ann = ann
  ann1 = ann1
  Name = {Admin, Demo, ann, ann1}
  Asked = {Admin, ann}
  SsoName = {ann}
  NextName <- MCNextName
  i1 = i1
  Identity = {i1}
  FirstSecret = FirstSecret
  None = None
  MaxRegister = 1
  MaxFailures = 2
  MaxCodes = 1
  DemoEnabled = TRUE
  MaxAttempts = 2
SPECIFICATION Spec
SYMMETRY MCSymmetry
CHECK_DEADLOCK FALSE
INVARIANTS
  IdentityHasOneAccount
  EnrolledUnlessDisturbed
  LimitsUnlessDisturbed
  StartsAreOrdered
PROPERTIES
  LockStands
