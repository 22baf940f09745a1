\* The tab of MCChatTab.cfg, for the finding.
CONSTANTS
  q1 = q1
  q2 = q2
  s1 = s1
  s2 = s2
  Question = {q1, q2}
  Session = {s1, s2}
  NoSession = NoSession
  MaxTokens = 2
  BufferSize = 2

SPECIFICATION TabSpec
CHECK_DEADLOCK FALSE

INVARIANTS
  InputReturns

