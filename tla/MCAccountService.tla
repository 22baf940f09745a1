-------------------------- MODULE MCAccountService --------------------------
(* The second name of a user, and that calls may be exchanged.              *)
EXTENDS AccountService, TLC

CONSTANTS ann, ann1, m1

MCNextName == [u \in Name |-> IF u = ann THEN ann1 ELSE None]

MCSymmetry == Permutations(Call)
=============================================================================
