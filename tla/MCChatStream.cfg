\* Two questions that overlap in one session of two messages (scaled from 50),
\* two providers, three tokens and a buffer of two: one full buffer and a rest.
CONSTANTS
  q1 = q1
  q2 = q2
  s1 = s1
  Question = {q1, q2}
  Session = {s1}
  NoSession = NoSession
  NoRecord = NoRecord
  MaxHistory = 2
  MaxAttempts = 2
  MaxTokens = 3
  BufferSize = 2

SPECIFICATION FairSpec
CHECK_DEADLOCK FALSE

INVARIANTS
  AnswersFollowQuestions
  LastEventIsReply

PROPERTIES
  ImplementsStream
  StreamsEnd
