---------------------------- MODULE MCRequestPath ----------------------------
(* Histories and minutes for RequestPath; requests may be exchanged.        *)
EXTENDS RequestPath, TLC

MCHistory == {<<>>, <<2>>}

MCLastWindow == [gate |-> 2, access |-> 1, source |-> 4, quota |-> 2, rating |-> 1]

MCSymmetry == Permutations(Request)
=============================================================================
