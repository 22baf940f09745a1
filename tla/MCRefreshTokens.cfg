\* Two overlapping requests and three tokens in all: enough for one token to be
\* exchanged twice, or stored while a logout revokes another.
CONSTANTS
  Handler = {h1, h2}
  Token = {k1, k2, k3}
  NoToken = NoToken

SPECIFICATION Spec

SYMMETRY MCSymmetry

\* When all tokens are used up and expired there is nothing to do.
CHECK_DEADLOCK FALSE

INVARIANTS
  SingleUseUnlessRaced
  LogoutSweeps
  UntrackedIsExplained
