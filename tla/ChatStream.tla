----------------------------- MODULE ChatStream -----------------------------
(***************************************************************************)
(* The server's side of a question: ChatService.chat_stream between the    *)
(* history, the provider router, the token quota and the caller that       *)
(* iterates over its events, which is the SSE route or the webhook.        *)
(*                                                                         *)
(* The history is ChatSession's: what memory/chat_history.py provides as   *)
(* long as no lock is robbed.  The router is what ProviderRouter lets its  *)
(* caller see: tokens of one provider after the other, then the event that *)
(* ends the last provider's answer, or an exception.  A text is a sequence *)
(* of tokens, which are numbered as they come; masking and moderation      *)
(* change words and not what is told apart here.                           *)
(***************************************************************************)
EXTENDS Naturals, Sequences

CONSTANTS
  Question,     \* requests that may be open at the same time
  Session,
  NoSession,    \* the session of a question not yet asked
  NoRecord,     \* there is no chat_sessions row
  MaxHistory,   \* max_history
  MaxAttempts,  \* how many candidates the router has
  MaxTokens,    \* bound: tokens that reach one question
  BufferSize    \* StreamingSanitizer's buffer_size, in tokens

ASSUME SizeAssumption ==
  /\ MaxHistory \in Nat \ {0}
  /\ MaxAttempts \in Nat \ {0}
  /\ MaxTokens \in Nat
  /\ BufferSize \in Nat \ {0}

ASSUME AbsenceAssumption ==
  /\ NoSession \notin Session
  /\ NoRecord \notin Seq(Question \X {"user", "assistant"})

VARIABLES
  hist,     \* the messages of each session
  pc,       \* where chat_stream stands
  sess,     \* session_id
  attempt,  \* the candidate that the router is at
  before,   \* how many tokens the candidates before it gave
  full,     \* full_response
  buffer,   \* the sanitizer's _buffer
  reply,    \* safe_response
  events,   \* what the generator has yielded, as the route passes it on
  sent,     \* for the properties: the text of the "token" events
  kept,     \* for the properties: the questions whose answer was added to hist
  charged,  \* for the properties: the questions whose tokens were counted
  cut       \* for the properties: the questions that hist has held and lost

streamVars == <<attempt, before, full, buffer, sent>>
ghostVars  == <<kept, charged>>
vars == <<hist, pc, sess, streamVars, reply, events, ghostVars, cut>>

Message == Question \X {"user", "assistant"}
Text    == Seq(1..MaxTokens)
Event   == [kind : {"token", "done", "error"}, text : Text]

Ended == {"done", "failed", "cancelled"}
Open  == {"asked", "ready", "stored", "streaming", "drained", "answered", "charged"}

TypeOK ==
  /\ hist \in [Session -> Seq(Message) \cup {NoRecord}]
  /\ \A s \in Session : hist[s] # NoRecord => Len(hist[s]) \in 1..MaxHistory
  /\ pc \in [Question -> {"idle"} \cup Open \cup Ended]
  /\ sess \in [Question -> Session \cup {NoSession}]
  /\ attempt \in [Question -> 1..MaxAttempts]
  /\ before \in [Question -> 0..MaxTokens]
  /\ full \in [Question -> Text]
  /\ buffer \in [Question -> Text]
  /\ reply \in [Question -> Text]
  /\ events \in [Question -> Seq(Event)]
  /\ sent \in [Question -> Text]
  /\ kept \subseteq Question
  /\ charged \subseteq Question
  /\ cut \subseteq Question

Init ==
  /\ hist = [s \in Session |-> NoRecord]
  /\ pc = [q \in Question |-> "idle"]
  /\ sess = [q \in Question |-> NoSession]
  /\ attempt = [q \in Question |-> 1]
  /\ before = [q \in Question |-> 0]
  /\ full = [q \in Question |-> <<>>]
  /\ buffer = [q \in Question |-> <<>>]
  /\ reply = [q \in Question |-> <<>>]
  /\ events = [q \in Question |-> <<>>]
  /\ sent = [q \in Question |-> <<>>]
  /\ kept = {}
  /\ charged = {}
  /\ cut = {}

History == INSTANCE ChatSession

MoveTo(q, l) == pc' = [pc EXCEPT ![q] = l]

\* event_generator: one SSE event for each event of chat_stream.
Emit(q, k, t) ==
  events' = [events EXCEPT ![q] = Append(@, [kind |-> k, text |-> t])]

Holds(l, m) == l # NoRecord /\ \E i \in 1..Len(l) : l[i] = m

Lost == {q \in Question : \E s \in Session :
           Holds(hist[s], <<q, "user">>) /\ ~Holds(hist'[s], <<q, "user">>)}

-----------------------------------------------------------------------------
(* Before the model is called                                               *)

Post(q, s) ==
  /\ pc[q] = "idle"
  /\ MoveTo(q, "asked")
  /\ sess' = [sess EXCEPT ![q] = s]
  /\ UNCHANGED <<hist, streamVars, reply, events, ghostVars, cut>>

\* The checks of the question, the experiment, the history so far, the rewrite,
\* the retrieval and the checks of what it found: they only read.
Prepare(q) ==
  /\ pc[q] = "asked"
  /\ MoveTo(q, "ready")
  /\ UNCHANGED <<hist, sess, streamVars, reply, events, ghostVars, cut>>

\* Mutant: the question is not stored.
QuestionNotStored(q) ==
  /\ pc[q] = "ready"
  /\ MoveTo(q, "stored")
  /\ UNCHANGED <<hist, cut, sess, streamVars, reply, events, ghostVars>>

AddQuestion(q) ==
  /\ pc[q] = "ready"
  /\ History!Add(sess[q], <<q, "user">>)
  /\ cut' = cut \cup Lost
  /\ MoveTo(q, "stored")
  /\ UNCHANGED <<sess, streamVars, reply, events, ghostVars>>

\* check_only lets it pass and the prompt is cut to the context window.
Begin(q) ==
  /\ pc[q] = "stored"
  /\ MoveTo(q, "streaming")
  /\ UNCHANGED <<hist, sess, streamVars, reply, events, ghostVars, cut>>

-----------------------------------------------------------------------------
(* The loop over the router's events                                        *)

\* Mutant: the buffer is not emptied.
BufferKept(q) ==
  LET b == Append(buffer[q], Len(full[q]) + 1) IN
  /\ full' = [full EXCEPT ![q] = Append(@, Len(@) + 1)]
  /\ buffer' = [buffer EXCEPT ![q] = b]
  /\ IF Len(b) >= BufferSize
     THEN Emit(q, "token", b) /\ sent' = [sent EXCEPT ![q] = @ \o b]
     ELSE UNCHANGED <<events, sent>>

\* process_token: what has gathered is yielded when the buffer is full.
ProcessToken(q) ==
  LET b == Append(buffer[q], Len(full[q]) + 1) IN
  /\ full' = [full EXCEPT ![q] = Append(@, Len(@) + 1)]
  /\ IF Len(b) >= BufferSize
     THEN /\ Emit(q, "token", b)
          /\ sent' = [sent EXCEPT ![q] = @ \o b]
          /\ buffer' = [buffer EXCEPT ![q] = <<>>]
     ELSE /\ buffer' = [buffer EXCEPT ![q] = b]
          /\ UNCHANGED <<events, sent>>

Token(q) ==
  /\ pc[q] = "streaming"
  /\ Len(full[q]) < MaxTokens
  /\ ProcessToken(q)
  /\ UNCHANGED <<hist, pc, sess, attempt, before, reply, ghostVars, cut>>

\* Mutant: after the last candidate comes the first again.
FailOverAround(q) ==
  /\ pc[q] = "streaming"
  /\ attempt' = [attempt EXCEPT ![q] = (@ % MaxAttempts) + 1]
  /\ before' = [before EXCEPT ![q] = Len(full[q])]
  /\ UNCHANGED <<hist, pc, sess, full, buffer, sent, reply, events, ghostVars, cut>>

\* A provider fails, in mid-answer too, and the router goes on to the next:
\* neither full_response nor the buffer is reset.
FailOver(q) ==
  /\ pc[q] = "streaming"
  /\ attempt[q] < MaxAttempts
  /\ attempt' = [attempt EXCEPT ![q] = @ + 1]
  /\ before' = [before EXCEPT ![q] = Len(full[q])]
  /\ UNCHANGED <<hist, pc, sess, full, buffer, sent, reply, events, ghostVars, cut>>

\* The provider's own last event has no token and is passed on as it is, with
\* the text of this provider alone.
ProviderDone(q) ==
  /\ pc[q] = "streaming"
  /\ Emit(q, "done", SubSeq(full[q], before[q] + 1, Len(full[q])))
  /\ MoveTo(q, "drained")
  /\ UNCHANGED <<hist, sess, streamVars, reply, ghostVars, cut>>

-----------------------------------------------------------------------------
(* After the model                                                          *)

\* safe_response begins with what flush() returns, which is also its end.
AddAnswer(q) ==
  /\ pc[q] = "drained"
  /\ reply' = [reply EXCEPT ![q] = buffer[q] \o full[q]]
  /\ buffer' = [buffer EXCEPT ![q] = <<>>]
  /\ History!Add(sess[q], <<q, "assistant">>)
  /\ cut' = cut \cup Lost
  /\ kept' = kept \cup {q}
  /\ MoveTo(q, "answered")
  /\ UNCHANGED <<sess, attempt, before, full, sent, events, charged>>

\* check_and_consume counts the tokens, and only then may raise.
Charge(q) ==
  /\ pc[q] = "answered"
  /\ charged' = charged \cup {q}
  /\ MoveTo(q, "charged")
  /\ UNCHANGED <<hist, sess, streamVars, reply, events, kept, cut>>

\* Mutant: the last event goes out before the tokens are counted.
FinishUncharged(q) ==
  /\ pc[q] \in {"answered", "charged"}
  /\ Emit(q, "done", reply[q])
  /\ MoveTo(q, "done")
  /\ UNCHANGED <<hist, sess, streamVars, reply, ghostVars, cut>>

Finish(q) ==
  /\ pc[q] = "charged"
  /\ Emit(q, "done", reply[q])
  /\ MoveTo(q, "done")
  /\ UNCHANGED <<hist, sess, streamVars, reply, ghostVars, cut>>

\* An exception at any of these places: a refused question, a store that does
\* not answer, a quota, a prompt that is too long, a router out of candidates.
\* The route turns it into the last event; what was stored stays stored.
Fail(q) ==
  /\ pc[q] \in Open
  /\ Emit(q, "error", <<>>)
  /\ MoveTo(q, "failed")
  /\ UNCHANGED <<hist, sess, streamVars, reply, ghostVars, cut>>

\* The caller goes away: CancelledError passes every "except Exception".
Cancel(q) ==
  /\ pc[q] \in Open
  /\ MoveTo(q, "cancelled")
  /\ UNCHANGED <<hist, sess, streamVars, reply, events, ghostVars, cut>>

\* clear_session and the hourly cleanup.
Clear(s) ==
  /\ hist[s] # NoRecord
  /\ History!Remove(s)
  /\ cut' = cut \cup Lost
  /\ UNCHANGED <<pc, sess, streamVars, reply, events, ghostVars>>

-----------------------------------------------------------------------------
Run(q) ==
  \/ Prepare(q)
  \/ AddQuestion(q)
  \/ Begin(q)
  \/ Token(q)
  \/ FailOver(q)
  \/ ProviderDone(q)
  \/ AddAnswer(q)
  \/ Charge(q)
  \/ Finish(q)
  \/ Fail(q)

Next ==
  \/ \E q \in Question :
       (\E s \in Session : Post(q, s)) \/ Run(q) \/ Cancel(q)
  \/ \E s \in Session : Clear(s)

Spec == Init /\ [][Next]_vars

\* An append to the history waits for the lock of its session, in a process
\* without Redis with no limit: no fairness for it, nor for its failure.
Appending == {"ready", "drained"}

FairSpec ==
  Spec /\ \A q \in Question : WF_vars(pc[q] \notin Appending /\ Run(q))

-----------------------------------------------------------------------------
(* No session holds an answer whose question is not before it, unless the   *)
(* question was there and the session has been cleared or trimmed since;    *)
(* and none holds a message twice, whatever requests overlap.               *)
AnswersFollowQuestions ==
  \A s \in Session : hist[s] # NoRecord =>
    \A i \in 1..Len(hist[s]) :
      /\ \A j \in 1..Len(hist[s]) : hist[s][j] = hist[s][i] => j = i
      /\ \A q \in Question \ cut : hist[s][i] = <<q, "assistant">> =>
           \E j \in 1..(i - 1) : hist[s][j] = <<q, "user">>

(* The caller has the last word of the generator, which the webhook takes   *)
(* for its reply: after a question that ended well it is the answer that    *)
(* the history was given, although the provider's own end came before it,   *)
(* and its tokens are counted.                                              *)
LastEventIsReply ==
  \A q \in Question : pc[q] = "done" =>
    /\ q \in kept \cap charged
    /\ events[q][Len(events[q])] = [kind |-> "done", text |-> reply[q]]

(* What the caller sees is AnswerStream's: nothing of an answer is lost,    *)
(* repeated or put out of order on its way through the sanitizer's buffer,  *)
(* from one provider to the next, up to the last buffer; and the stream     *)
(* ends with two "done" events, or an error, or is cut off.                 *)
Stream == INSTANCE AnswerStream WITH
  answer <- full,
  state <- [q \in Question |->
              CASE pc[q] \in Open \ {"drained", "answered", "charged"} -> "open"
                [] pc[q] \in {"drained", "answered", "charged"} -> "closing"
                [] OTHER -> pc[q]],
  events <- [q \in Question |->
               [i \in 1..Len(events[q]) |->
                  IF events[q][i].kind = "done"
                  THEN [kind |-> "done", text |-> <<>>]
                  ELSE events[q][i]]]

ImplementsStream == Stream!StreamSpec

(* Every question's stream ends, over time-outs, fail-overs and whatever    *)
(* the other requests do, or one of its two appends waits for the lock of   *)
(* its session for ever: the router tries each candidate once, with         *)
(* llm_timeout_seconds for each, and only the lock has no limit.            *)
StreamsEnd ==
  \A q \in Question :
    \/ pc[q] \in Open ~> pc[q] \in Ended
    \/ <>[](pc[q] \in Appending)
=============================================================================
