--------------------------- MODULE MCRefreshTokens ---------------------------
(* The tokens, and the handlers, may be exchanged for one another.           *)
EXTENDS RefreshTokens, TLC

MCSymmetry == {f @@ g : f \in Permutations(Token), g \in Permutations(Handler)}
=============================================================================
