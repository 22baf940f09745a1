---------------------------- MODULE AnswerStream ----------------------------
(***************************************************************************)
(* What POST /chat promises its caller: events that carry the answer in    *)
(* order, piece by piece, then two events of kind "done" or one of kind    *)
(* "error".  The answer's last tokens, fewer than BufferSize, are in no    *)
(* "token" event.  A caller that goes away gets nothing more.  ChatStream  *)
(* implements this; ChatTab is built on it.                                *)
(***************************************************************************)
EXTENDS Naturals, Sequences

CONSTANTS
  Question,   \* requests that may be open at the same time
  MaxTokens,  \* bound: tokens that reach one question
  BufferSize  \* StreamingSanitizer's buffer_size, in tokens

ASSUME BufferAssumption == BufferSize \in Nat \ {0} /\ MaxTokens \in Nat

VARIABLES
  state,   \* how far the stream has come
  answer,  \* the tokens of the model, numbered in their order
  sent,    \* those that the caller has been given
  events   \* the SSE events so far

streams == <<state, answer, sent, events>>

Text  == Seq(1..MaxTokens)
Event == [kind : {"token", "done", "error"}, text : Text]
Ended == {"done", "failed", "cancelled"}

StreamTypeOK ==
  /\ state \in [Question -> {"idle", "open", "closing"} \cup Ended]
  /\ answer \in [Question -> Text]
  /\ sent \in [Question -> Text]
  /\ events \in [Question -> Seq(Event)]

StreamInit ==
  /\ state = [q \in Question |-> "idle"]
  /\ answer = [q \in Question |-> <<>>]
  /\ sent = [q \in Question |-> <<>>]
  /\ events = [q \in Question |-> <<>>]

Goto(q, s) == state' = [state EXCEPT ![q] = s]

Emit(q, k, t) ==
  events' = [events EXCEPT ![q] = Append(@, [kind |-> k, text |-> t])]

Start(q) ==
  /\ state[q] = "idle"
  /\ Goto(q, "open")
  /\ UNCHANGED <<answer, sent, events>>

\* One more token: it waits, or goes out with all that has waited.
Grow(q) ==
  LET a == Append(answer[q], Len(answer[q]) + 1) IN
  /\ state[q] = "open"
  /\ Len(answer[q]) < MaxTokens
  /\ answer' = [answer EXCEPT ![q] = a]
  /\ \/ /\ Len(a) - Len(sent[q]) < BufferSize
        /\ UNCHANGED <<sent, events>>
     \/ /\ Emit(q, "token", SubSeq(a, Len(sent[q]) + 1, Len(a)))
        /\ sent' = [sent EXCEPT ![q] = a]
  /\ UNCHANGED state

\* The provider's own end of its answer.
Close(q) ==
  /\ state[q] = "open"
  /\ Emit(q, "done", <<>>)
  /\ Goto(q, "closing")
  /\ UNCHANGED <<answer, sent>>

End(q) ==
  /\ state[q] = "closing"
  /\ Emit(q, "done", <<>>)
  /\ Goto(q, "done")
  /\ UNCHANGED <<answer, sent>>

Break(q) ==
  /\ state[q] \in {"open", "closing"}
  /\ Emit(q, "error", <<>>)
  /\ Goto(q, "failed")
  /\ UNCHANGED <<answer, sent>>

Leave(q) ==
  /\ state[q] \in {"open", "closing"}
  /\ Goto(q, "cancelled")
  /\ UNCHANGED <<answer, sent, events>>

Flow(q) == Grow(q) \/ Close(q) \/ End(q) \/ Break(q)

StreamNext == \E q \in Question : Start(q) \/ Flow(q) \/ Leave(q)

StreamSpec == StreamInit /\ [][StreamNext]_streams
=============================================================================
