---------------------------- MODULE ChatSession ----------------------------
(***************************************************************************)
(* What the chat history promises: a session is absent or a list of at     *)
(* most MaxHistory messages, each message is added to whatever the list    *)
(* holds at that moment, and a session may be removed at any time.         *)
(* memory/chat_history.py is meant to implement it; see ChatHistory.       *)
(***************************************************************************)
EXTENDS Naturals, Sequences

CONSTANTS Session, Message, NoRecord, MaxHistory

VARIABLE hist  \* the messages of each session, or NoRecord

Messages(s) == IF hist[s] = NoRecord THEN <<>> ELSE hist[s]

\* The last MaxHistory elements: messages[-max_history:].
Trim(l) ==
  IF Len(l) > MaxHistory THEN SubSeq(l, Len(l) - MaxHistory + 1, Len(l)) ELSE l

Add(s, m) == hist' = [hist EXCEPT ![s] = Trim(Append(Messages(s), m))]

Remove(s) == hist' = [hist EXCEPT ![s] = NoRecord]

Init == hist = [s \in Session |-> NoRecord]

Next == \E s \in Session : Remove(s) \/ \E m \in Message : Add(s, m)

Spec == Init /\ [][Next]_hist
=============================================================================
