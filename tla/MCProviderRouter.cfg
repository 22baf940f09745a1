\* Two providers and two concurrent requests; the threshold and the cool-down
\* are scaled from 3 failures and 60 s to 2 and 1.
CONSTANTS
  gemini = gemini
  groq = groq
  Provider <- MCProvider
  Priority <- MCPriority
  Request = {r1, r2}
  NoProvider = NoProvider
  UnknownProvider = UnknownProvider
  MaxFailures = 2
  DegradedTimeout = 1

SPECIFICATION FairSpec

INVARIANTS
  AttemptOrder
  OnlyActiveBypassesBreaker
  ExhaustedMeansAllTried
  AlwaysACandidate

PROPERTY
  RequestSettles
