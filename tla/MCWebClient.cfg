\* The session: two requests open at once, as many as a queue needs, two that the
\* user causes, and one network error, end of the access tokens, or end of the
\* session.  A page: two calls that overlap, over two documents, or over two
\* providers and two processes.
CONSTANTS
  MaxOpen = 2
  MaxStarts = 2
  MaxMishaps = 1
  o1 = o1
  o2 = o2
  Op = {o1, o2}
  d1 = d1
  d2 = d2
  Doc = {d1, d2}
  PageSize = 1
  gemini = gemini
  groq = groq
  Provider = {gemini, groq}
  s1 = s1
  s2 = s2
  Server = {s1, s2}
  Nothing = Nothing
SPECIFICATION ClientSpec
CHECK_DEADLOCK FALSE
INVARIANTS
  LoggedOutStays
  NewestAtRest
PROPERTIES
  LoginPageUnlessDisturbed
  RequestsSettle
  SwitchIsShown
