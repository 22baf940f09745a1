\* Two questions and two sessions, two tokens and a buffer of two.
CONSTANTS
  q1 = q1
  q2 = q2
  s1 = s1
  s2 = s2
  Question = {q1, q2}
  Session = {s1, s2}
  NoSession = NoSession
  MaxTokens = 2
  BufferSize = 2

SPECIFICATION TabFairSpec
CHECK_DEADLOCK FALSE

INVARIANT
  BubblesShowTheirAnswer


  
