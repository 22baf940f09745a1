\* Two tasks of a process that runs without Redis, one of a process that uses it,
\* and two sessions, so that the releases of two tasks may cross.
CONSTANTS
  t1 = t1
  t2 = t2
  t3 = t3
  p1 = p1
  p2 = p2
  s1 = s1
  s2 = s2
  Task = {t1, t2, t3}
  Process = {p1, p2}
  Host <- MCHost
  InMemory = {p1}
  Session = {s1, s2}
  NoSession = NoSession
  NoRecord = NoRecord
  MaxHistory = 1

SPECIFICATION MCFairSpec

PROPERTIES
  CallEnds
  LockComesFree
