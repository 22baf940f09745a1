\* Three questions.  The limits, budgets and times are scaled so that each is
\* reached by two questions and passed by none alone; LastWindow gives a stage
\* the minutes in which its counts begin anew, or a cache's entry runs out.
CONSTANTS
  r1 = r1
  r2 = r2
  r3 = r3
  Request = {r1, r2, r3}
  p1 = p1
  Process = {p1}
  Noone = Noone
  MaxWindow = 4
  LastWindow <- MCLastWindow
  IpLimit = 2
  UserLimit = 1
  Concurrency = 1
  j1 = j1
  Token = {j1}
  Life = 5
  k1 = k1
  k2 = k2
  Other = {k1, k2}
  MaxEntries = 2
  MinTtl = 1
  d1 = d1
  Doc = {d1}
  x = x
  Setting = {x}
  Plain = Plain
  Percent = {0, 1}
  UserBucket = 0
  CacheTtl = 1
  MaxHold = 1
  MaxChanges = 1
  Size = {1, 2}
  History <- MCHistory
  MaxPrompt = 5
  Estimate = 1
  Output = {1, 2}
  MinuteBudget = 12
  DailyBudget = 16
  e1 = e1
  e2 = e2
  Experiment = {e1, e2}
  m1 = m1
  m2 = m2
  Message = {m1, m2}
  Control = Control
SPECIFICATION Spec
SYMMETRY MCSymmetry
CHECK_DEADLOCK FALSE
INVARIANTS
  AdmittedWithinLimits
  PermitsAreReturned
  QuestionIsSent
  ChargeRefusesOnlyRaced
  RatingsAreCounted
PROPERTIES
  StaleForOneTtl
  RevokedStaysRefused
