\* redis_store.py:68 against the code: one token, one logout beside its issue,
\* and a first token to log out with.
CONSTANTS
  Handler = {h1, h2}
  Token = {k1, k2, k3}
  NoToken = NoToken

SPECIFICATION Spec

CHECK_DEADLOCK FALSE

INVARIANT
  ActiveTokensTracked
