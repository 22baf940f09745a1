\* Two tasks of one process and two sessions, under the Redis lock: as few as a
\* task needs to release another one's lock.  At most two messages per session
\* (scaled from 50), which is one more than a lost append needs to show.
CONSTANTS
  t1 = t1
  t2 = t2
  t3 = t3
  p1 = p1
  p2 = p2
  s1 = s1
  s2 = s2
  Task = {t1, t2}
  Process = {p1}
  Host <- MCHost
  InMemory = {}
  Session = {s1, s2}
  NoSession = NoSession
  NoRecord = NoRecord
  MaxHistory = 2

SPECIFICATION Spec
SYMMETRY MCSymmetry

INVARIANTS
  ExclusionUnlessRobbed

PROPERTY
  AppendsAreAtomic
