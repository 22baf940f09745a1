------------------------------ MODULE ChatTab -------------------------------
(***************************************************************************)
(* A tab of the web client (services/chatService.ts, store/chatStore.ts)   *)
(* at the other end of an AnswerStream: what is asked in it, and what its  *)
(* store shows of the answers.                                             *)
(***************************************************************************)
EXTENDS AnswerStream

CONSTANTS
  Session,   \* the session ids it may make; one that a reload forgot may stand for a new one
  NoSession  \* activeSession is null; the session of a question not yet asked

ASSUME SessionAssumption == NoSession \notin Session

VARIABLES
  streaming,     \* isStreaming, which disables the input
  activeSession,
  sessions,      \* the ids in the store
  sess,          \* the session a question was asked in
  fetch,         \* sendChatMessage: where the call for a question stands
  read,          \* how many events it has read
  shown          \* the messages of each session of the store

tabVars == <<streaming, activeSession, sessions, sess, fetch, read, shown>>
allVars == <<streams, tabVars>>

Bubble == [of : Question, role : {"user", "assistant"}, text : Text, error : BOOLEAN]

InFlight == {"auth", "open"}

TabTypeOK ==
  /\ StreamTypeOK
  /\ streaming \in BOOLEAN
  /\ activeSession \in sessions \cup {NoSession}
  /\ sessions \subseteq Session
  /\ sess \in [Question -> Session \cup {NoSession}]
  /\ fetch \in [Question -> {"none", "complete", "refused", "lost", "aborted"} \cup InFlight]
  /\ DOMAIN read = Question /\ \A q \in Question : read[q] \in 0..Len(events[q])
  /\ shown \in [Session -> Seq(Bubble)]

TabInit ==
  /\ StreamInit
  /\ streaming = FALSE
  /\ activeSession = NoSession
  /\ sessions = {}
  /\ sess = [q \in Question |-> NoSession]
  /\ fetch = [q \in Question |-> "none"]
  /\ read = [q \in Question |-> 0]
  /\ shown = [s \in Session |-> <<>>]

User(q)    == [of |-> q, role |-> "user", text |-> <<>>, error |-> FALSE]
Partial(q) == [of |-> q, role |-> "assistant", text |-> <<>>, error |-> FALSE]

-----------------------------------------------------------------------------
(* The store                                                                *)

\* addToken and setError change the last message of the session, if that is
\* the assistant's.
AmendLast(s, m) ==
  LET n == Len(shown[s]) IN
  shown' = IF n > 0 /\ shown[s][n].role = "assistant"
           THEN [shown EXCEPT ![s][n] = m]
           ELSE shown

LastOf(s) == shown[s][Len(shown[s])]

AddToken(s, t) ==
  IF shown[s] = <<>>
  THEN UNCHANGED shown
  ELSE AmendLast(s, [LastOf(s) EXCEPT !.text = @ \o t])

SetError(s) ==
  /\ IF shown[s] = <<>>
     THEN UNCHANGED shown
     ELSE AmendLast(s, [LastOf(s) EXCEPT !.text = <<>>, !.error = TRUE])
  /\ streaming' = FALSE

\* "+ nueva" in the sidebar: a random id, which is nobody else's.
NewSession(s) ==
  /\ s \notin sessions
  /\ activeSession' = s
  /\ sessions' = sessions \cup {s}
  /\ UNCHANGED <<streams, streaming, sess, fetch, read, shown>>

\* A session in the sidebar.
SelectSession(s) ==
  /\ s \in sessions
  /\ activeSession' = s
  /\ UNCHANGED <<streams, streaming, sessions, sess, fetch, read, shown>>

-----------------------------------------------------------------------------
(* sendMessage and sendChatMessage                                          *)

\* Mutant: the input is not disabled.
AskAnytime(q, s) ==
  /\ fetch[q] = "none"
  /\ activeSession = s \/ (activeSession = NoSession /\ s \notin sessions)
  /\ activeSession' = s
  /\ sessions' = sessions \cup {s}
  /\ streaming' = TRUE
  /\ shown' = [shown EXCEPT ![s] = @ \o <<User(q), Partial(q)>>]
  /\ sess' = [sess EXCEPT ![q] = s]
  /\ fetch' = [fetch EXCEPT ![q] = "auth"]
  /\ UNCHANGED <<streams, read>>

Ask(q, s) ==
  /\ ~streaming
  /\ fetch[q] = "none"
  /\ activeSession = s \/ (activeSession = NoSession /\ s \notin sessions)
  /\ activeSession' = s
  /\ sessions' = sessions \cup {s}
  /\ streaming' = TRUE
  /\ shown' = [shown EXCEPT ![s] = @ \o <<User(q), Partial(q)>>]
  /\ sess' = [sess EXCEPT ![q] = s]
  /\ fetch' = [fetch EXCEPT ![q] = "auth"]
  /\ UNCHANGED <<streams, read>>

\* getValidToken has a token and the server answers with a stream.
OpenStream(q) ==
  /\ fetch[q] = "auth"
  /\ Start(q)
  /\ fetch' = [fetch EXCEPT ![q] = "open"]
  /\ UNCHANGED <<streaming, activeSession, sessions, sess, read, shown>>

\* There is no token, or the response is not ok.
Refused(q) ==
  /\ fetch[q] = "auth"
  /\ SetError(sess[q])
  /\ fetch' = [fetch EXCEPT ![q] = "refused"]
  /\ UNCHANGED <<streams, activeSession, sessions, sess, read>>

\* fetch() or read() rejects: sendMessage has no catch, and the store is left
\* as it is.
LoseConnection(q) ==
  /\ fetch[q] \in InFlight
  /\ fetch' = [fetch EXCEPT ![q] = "lost"]
  /\ UNCHANGED <<streams, streaming, activeSession, sessions, sess, read, shown>>

\* The parser tells the events apart by their fields.  One with a code is an
\* error; neither the provider's "done" event nor the last one has a field
\* "done", so both are taken for a token without text.
Receive(q) ==
  /\ fetch[q] = "open"
  /\ read[q] < Len(events[q])
  /\ read' = [read EXCEPT ![q] = @ + 1]
  /\ LET e == events[q][read[q] + 1] IN
     \/ e.kind = "error" /\ SetError(sess[q])
     \/ e.kind = "token" /\ AddToken(sess[q], e.text) /\ UNCHANGED streaming
     \/ e.kind = "done" /\ AddToken(sess[q], <<>>) /\ UNCHANGED streaming
  /\ UNCHANGED <<streams, activeSession, sessions, sess, fetch>>


\* The reader is done, and sendChatMessage returns.
Complete(q) ==
  /\ fetch[q] = "open"
  /\ state[q] \in Ended
  /\ read[q] = Len(events[q])
  /\ fetch' = [fetch EXCEPT ![q] = "complete"]
  /\ UNCHANGED <<streams, streaming, activeSession, sessions, sess, read, shown>>

\* The page is loaded anew, by the user or by redirectToLogin: the store, which
\* is in memory, begins empty, and the calls are gone.
Reload ==
  /\ streaming' = FALSE
  /\ activeSession' = NoSession
  /\ sessions' = {}
  /\ shown' = [s \in Session |-> <<>>]
  /\ fetch' = [q \in Question |-> IF fetch[q] \in InFlight THEN "aborted" ELSE fetch[q]]
  /\ sess' = [q \in Question |-> NoSession]
  /\ read' = [q \in Question |-> 0]
  /\ UNCHANGED streams

-----------------------------------------------------------------------------
\* The server notices that the tab has gone.
Disconnect(q) == fetch[q] \in {"lost", "aborted"} /\ Leave(q)

Tab(q) == OpenStream(q) \/ Refused(q) \/ Receive(q) \/ Complete(q)

TabNext ==
  \/ \E q \in Question :
       \/ \E s \in Session : Ask(q, s)
       \/ Tab(q)
       \/ LoseConnection(q)
       \/ (Flow(q) \/ Disconnect(q)) /\ UNCHANGED tabVars
  \/ \E s \in Session : NewSession(s) \/ SelectSession(s)
  \/ Reload

TabSpec == TabInit /\ [][TabNext]_allVars

TabFairSpec ==
  /\ TabSpec
  /\ \A q \in Question : WF_allVars(Tab(q)) /\ WF_allVars(Flow(q) /\ UNCHANGED tabVars)

-----------------------------------------------------------------------------
(* A bubble of the assistant shows a beginning of the answer to its own     *)
(* question, or an error, whatever session is in view meanwhile; once all   *)
(* has been read, it lacks less than a buffer.                              *)
BubblesShowTheirAnswer ==
  \A s \in Session : \A i \in 1..Len(shown[s]) :
    LET b == shown[s][i] IN
    b.role = "assistant" /\ ~b.error =>
      /\ Len(b.text) <= Len(answer[b.of])
      /\ b.text = SubSeq(answer[b.of], 1, Len(b.text))
      /\ fetch[b.of] = "complete" => Len(answer[b.of]) - Len(b.text) < BufferSize


(* README.md:34: "Transmisión continua de tokens desde el backend FastAPI   *)
(* hacia el frontend React para una experiencia conversacional fluida".     *)
(* Violated: the input stays disabled after the first answer, because the   *)
(* parser waits for a field "done" that no event has (chatService.ts:102).  *)
InputReturns ==
  streaming => \E q \in Question : fetch[q] \in InFlight \cup {"lost"}
=============================================================================
