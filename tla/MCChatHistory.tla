--------------------------- MODULE MCChatHistory ---------------------------
(* Where the tasks run, for the models of ChatHistory, and what in them may  *)
(* be exchanged: the two tasks of one process, and the sessions.  For the    *)
(* liveness, t3 (with Redis) and the two sessions of t1 and t2 (without) are *)
(* taken apart: tasks of different processes meet only at a session's row.   *)
(* The restriction keeps a call from beginning and no call from going on:    *)
(* whatever else happens leaves sess as it is, or empties it.                *)
EXTENDS ChatHistory, TLC

CONSTANTS t1, t2, t3, p1, p2, s1, s2

MCHost == [t \in Task |-> IF t = t3 THEN p2 ELSE p1]

MCSymmetry ==
  {f @@ g : f \in Permutations({t1, t2}), g \in Permutations(Session)}

Apart ==
  sess[t3] # NoSession => sess[t3] = s1 /\ sess[t1] # s2 /\ sess[t2] = NoSession

MCNext == GoOn \/ \E t \in Task, s \in Session : Call(t, s) /\ Apart'

MCFairSpec == Init /\ [][MCNext]_vars /\ Fairness
=============================================================================
