-------------------------- MODULE ChatStream_proofs --------------------------
(***************************************************************************)
(* What a question's stream leaves in the history and shows its caller,    *)
(* for any number of questions that overlap, of sessions, of candidates,   *)
(* and of tokens.                                                          *)
(***************************************************************************)
EXTENDS ChatStream, SequenceTheorems, TLAPS

Unstored == {"idle", "asked", "ready"}
Held     == {"stored", "streaming", "drained"}

\* What the stage of a question says of its session and of the ghosts.
StageInv(q) ==
  /\ pc[q] # "idle" => sess[q] \in Session
  /\ q \in kept => pc[q] \in {"answered", "charged"} \cup Ended
  /\ pc[q] \in {"answered", "charged"} => q \in kept
  /\ pc[q] = "charged" => q \in charged

\* A message in a session is of a question of that session that has come so far.
MessageInv(s) ==
  hist[s] # NoRecord =>
    \A q \in Question :
      /\ Holds(hist[s], <<q, "user">>) => sess[q] = s /\ pc[q] \notin Unstored
      /\ Holds(hist[s], <<q, "assistant">>) => sess[q] = s /\ q \in kept

\* A question that waits for its answer is in its session, unless it was cut.
HeldInv(q) ==
  pc[q] \in Held /\ q \notin cut => Holds(hist[sess[q]], <<q, "user">>)

HistInv ==
  /\ \A q \in Question : StageInv(q) /\ HeldInv(q)
  /\ \A s \in Session : MessageInv(s)
  /\ AnswersFollowQuestions

\* Every token of the answer has been sent or is in the buffer, in its place.
BufferInv(q) ==
  /\ \A i \in 1..Len(full[q]) : full[q][i] = i
  /\ \A i \in 1..Len(sent[q]) : sent[q][i] = i
  /\ pc[q] \in {"idle", "asked", "ready", "stored", "streaming"} =>
       /\ Len(full[q]) = Len(sent[q]) + Len(buffer[q])
       /\ Len(buffer[q]) < BufferSize
       /\ \A i \in 1..Len(buffer[q]) : buffer[q][i] = Len(sent[q]) + i

ChatInv ==
  /\ TypeOK
  /\ HistInv
  /\ LastEventIsReply
  /\ \A q \in Question : BufferInv(q)

LEMMA InitChatInv == Init => ChatInv
BY SizeAssumption, AbsenceAssumption
DEF Init, ChatInv, TypeOK, HistInv, StageInv, HeldInv, MessageInv, AnswersFollowQuestions,
    LastEventIsReply, BufferInv, Held, Ended, Holds, Text, Message, Open

-----------------------------------------------------------------------------
(* The history                                                              *)

(* The last MaxHistory messages of a list that is not empty.                *)
LEMMA TrimProperties ==
  ASSUME NEW l \in Seq(Message), Len(l) >= 1
  PROVE  /\ History!Trim(l) \in Seq(Message)
         /\ Len(History!Trim(l)) \in 1..MaxHistory
         /\ Len(History!Trim(l)) <= Len(l)
         /\ \A i \in 1..Len(History!Trim(l)) :
              History!Trim(l)[i] = l[Len(l) - Len(History!Trim(l)) + i]
<1> USE SizeAssumption
<1>1. CASE Len(l) > MaxHistory
  <2> DEFINE m == Len(l) - MaxHistory + 1
  <2>1. Len(l) \in Nat /\ m \in 1..Len(l)
    BY <1>1
  <2>2. \A i \in m..Len(l) : l[i] \in Message
    BY <2>1, ElementOfSeq
  <2>3. /\ SubSeq(l, m, Len(l)) \in Seq(Message)
        /\ Len(SubSeq(l, m, Len(l))) = MaxHistory
        /\ \A i \in 1..(Len(l) - m + 1) : SubSeq(l, m, Len(l))[i] = l[m + i - 1]
    BY <2>1, <2>2, SubSeqProperties
  <2>4. History!Trim(l) = SubSeq(l, m, Len(l))
    BY <1>1 DEF History!Trim
  <2> HIDE DEF m
  <2>5. Len(l) - m + 1 = MaxHistory /\ \A i \in Nat : Len(l) - MaxHistory + i = m + i - 1
    BY <2>1 DEF m
  <2> QED BY <1>1, <2>1, <2>3, <2>4, <2>5
<1>2. CASE ~(Len(l) > MaxHistory)
  BY <1>2 DEF History!Trim
<1> QED BY <1>1, <1>2

\* A list l of which the first d were dropped and to which m was added.
Shifted(l, t, d, m) ==
  /\ d \in 0..Len(l)
  /\ Len(t) = Len(l) + 1 - d
  /\ \A i \in 1..Len(t) : t[i] = IF i + d <= Len(l) THEN l[i + d] ELSE m

(* What a session holds when a message has been added.                      *)
LEMMA AddProperties ==
  ASSUME TypeOK, NEW s \in Session, NEW m \in Message, History!Add(s, m)
  PROVE  /\ hist' \in [Session -> Seq(Message) \cup {NoRecord}]
         /\ \A r \in Session \ {s} : hist'[r] = hist[r]
         /\ hist'[s] \in Seq(Message) /\ hist'[s] # NoRecord
         /\ Len(hist'[s]) \in 1..MaxHistory
         /\ History!Messages(s) \in Seq(Message)
         /\ \E d \in Nat : Shifted(History!Messages(s), hist'[s], d, m)
<1> DEFINE l == History!Messages(s)
           a == Append(l, m)
           t == History!Trim(a)
<1>1. l \in Seq(Message)
  BY DEF History!Messages, TypeOK
<1> HIDE DEF l
<1>2. /\ a \in Seq(Message)
      /\ Len(a) = Len(l) + 1
      /\ \A i \in 1..Len(l) : a[i] = l[i]
      /\ a[Len(l) + 1] = m
      /\ Len(l) \in Nat
  BY <1>1, AppendProperties
<1>3. hist' = [hist EXCEPT ![s] = t]
  BY DEF History!Add, l
<1> HIDE DEF a
<1>4. /\ t \in Seq(Message) /\ Len(t) \in 1..MaxHistory /\ Len(t) <= Len(l) + 1
      /\ \A i \in 1..Len(t) : t[i] = a[Len(l) + 1 - Len(t) + i]
  <2>1. Len(a) >= 1
    BY <1>2
  <2>2. /\ t \in Seq(Message) /\ Len(t) \in 1..MaxHistory /\ Len(t) <= Len(a)
        /\ \A i \in 1..Len(t) : t[i] = a[Len(a) - Len(t) + i]
    BY <1>2, <2>1, TrimProperties
  <2> QED BY <1>2, <2>2
<1> HIDE DEF t
<1>5. /\ hist' \in [Session -> Seq(Message) \cup {NoRecord}]
      /\ \A r \in Session \ {s} : hist'[r] = hist[r]
      /\ hist'[s] = t
  BY <1>3, <1>4 DEF TypeOK
<1>6. t # NoRecord
  BY <1>4, AbsenceAssumption DEF Message
<1> DEFINE d == Len(l) + 1 - Len(t)
<1>7. d \in Nat /\ d \in 0..Len(l) /\ Len(t) = Len(l) + 1 - d
  BY <1>2, <1>4
<1>8. ASSUME NEW i \in 1..Len(t)
      PROVE  t[i] = IF i + d <= Len(l) THEN l[i + d] ELSE m
  <2>1. t[i] = a[i + d] /\ i + d \in 1..(Len(l) + 1)
    BY <1>2, <1>4
  <2> QED BY <2>1, <1>2, <1>7
<1>9. Shifted(l, t, d, m)
  BY <1>7, <1>8 DEF Shifted
<1> QED BY <1>1, <1>4, <1>5, <1>6, <1>7, <1>9 DEF l

(* Adding a question, or an answer that waits for it, keeps the history's   *)
(* part of the invariant.                                                   *)
LEMMA AddKeeps ==
  ASSUME TypeOK, HistInv,
         NEW q \in Question, NEW role \in {"user", "assistant"},
         pc[q] = IF role = "user" THEN "ready" ELSE "drained",
         History!Add(sess[q], <<q, role>>),
         cut' = cut \cup Lost,
         pc' = [pc EXCEPT ![q] = IF role = "user" THEN "stored" ELSE "answered"],
         kept' = IF role = "user" THEN kept ELSE kept \cup {q},
         UNCHANGED <<sess, charged>>
  PROVE  HistInv'
<1> DEFINE s == sess[q]
           m == <<q, role>>
           l == History!Messages(s)
           t == hist'[s]
<1>1. s \in Session /\ q \notin kept
  BY DEF HistInv, StageInv, Ended
<1>2. m \in Message /\ ~Holds(hist[s], m)
  BY <1>1 DEF HistInv, MessageInv, Unstored, Message, Holds
<1>3. /\ \A r \in Session \ {s} : hist'[r] = hist[r]
      /\ t \in Seq(Message) /\ t # NoRecord
      /\ Len(t) \in 1..MaxHistory
      /\ l \in Seq(Message)
  BY <1>1, <1>2, AddProperties
<1>4. PICK d \in Nat : Shifted(l, t, d, m)
  BY <1>1, <1>2, AddProperties
<1>5. Len(l) \in Nat /\ Len(t) \in Nat
  BY <1>3
<1>6. \A x : Holds(hist[s], x) <=> \E i \in 1..Len(l) : l[i] = x
  BY <1>1 DEF Holds, History!Messages
<1> HIDE DEF s, l, t, m
<1>7. ASSUME NEW x, Holds(t, x) PROVE x = m \/ Holds(hist[s], x)
  <2>1. PICK i \in 1..Len(t) : t[i] = x
    BY <1>7 DEF Holds
  <2>2. i + d <= Len(l) => i + d \in 1..Len(l)
    BY <1>4, <1>5
  <2> QED BY <2>1, <2>2, <1>4, <1>6 DEF Shifted
<1>8. Holds(t, m)
  <2>1. Len(t) \in 1..Len(t) /\ Len(t) + d = Len(l) + 1
    BY <1>3, <1>4, <1>5 DEF Shifted
  <2>2. t[Len(t)] = m
    BY <2>1, <1>4, <1>5 DEF Shifted
  <2> QED BY <2>1, <2>2, <1>3 DEF Holds
<1>9. \A x \in Question : x \notin cut' /\ Holds(hist[s], <<x, "user">>) => Holds(t, <<x, "user">>)
  BY <1>1 DEF Lost, s, t
<1>10. \A x \in Question : x \notin cut' => x \notin cut
  OBVIOUS
<1>11. ASSUME NEW x \in Question PROVE StageInv(x)' /\ HeldInv(x)'
  <2>1. StageInv(x)'
    BY <1>1 DEF HistInv, StageInv, TypeOK, Ended, s
  <2>2. CASE x = q
    <3>1. HeldInv(x)'
      BY <2>2, <1>1, <1>8 DEF HeldInv, Held, TypeOK, s, t, m
    <3> QED BY <2>1, <3>1
  <2>3. CASE x # q
    <3>1. pc'[x] = pc[x] /\ sess'[x] = sess[x]
      BY <2>3 DEF TypeOK
    <3>2. pc[x] \in Held => sess[x] \in Session
      BY DEF HistInv, StageInv, Held
    <3>3. HeldInv(x)'
      BY <3>1, <3>2, <1>3, <1>9, <1>10 DEF HistInv, HeldInv, t
    <3> QED BY <2>1, <3>3
  <2> QED BY <2>2, <2>3
<1>12. ASSUME NEW r \in Session PROVE MessageInv(r)'
  <2>1. \A x \in Question : /\ sess'[x] = sess[x]
                            /\ pc[x] \notin Unstored => pc'[x] \notin Unstored
                            /\ x \in kept => x \in kept'
    BY DEF Unstored, TypeOK
  <2>2. CASE r # s
    BY <2>1, <2>2, <1>3 DEF HistInv, MessageInv
  <2>3. CASE r = s
    <3>1. hist[s] # NoRecord \/ \A x : ~Holds(hist[s], x)
      BY DEF Holds
    <3>2. pc'[q] \notin Unstored /\ sess'[q] = s /\ (role = "assistant" => q \in kept')
      BY DEF Unstored, TypeOK, s
    <3> QED BY ZenonT(40), <2>1, <2>3, <3>1, <3>2, <1>1, <1>7 DEF HistInv, MessageInv, t, m
  <2> QED BY <2>2, <2>3
<1>13. AnswersFollowQuestions'
  <2> SUFFICES ASSUME NEW r \in Session, hist'[r] # NoRecord, NEW i \in 1..Len(hist'[r])
               PROVE  /\ \A j \in 1..Len(hist'[r]) : hist'[r][j] = hist'[r][i] => j = i
                      /\ \A x \in Question \ cut' : hist'[r][i] = <<x, "assistant">> =>
                           \E j \in 1..(i - 1) : hist'[r][j] = <<x, "user">>
    BY DEF AnswersFollowQuestions
  <2>1. CASE r # s
    <3>1. hist'[r] = hist[r]
      BY <2>1, <1>3
    <3>2. \A x \in Question \ cut' : x \in Question \ cut
      BY <1>10
    <3>3. /\ \A j \in 1..Len(hist[r]) : hist[r][j] = hist[r][i] => j = i
          /\ \A x \in Question \ cut : hist[r][i] = <<x, "assistant">> =>
               \E j \in 1..(i - 1) : hist[r][j] = <<x, "user">>
      BY <3>1 DEF HistInv, AnswersFollowQuestions
    <3> QED BY <3>1, <3>2, <3>3
  <2>2. CASE r = s
    <3>1. \A j, k \in 1..Len(l) : l[j] = l[k] => j = k
      BY <1>1 DEF HistInv, AnswersFollowQuestions, l, History!Messages
    <3>2. \A j \in 1..Len(l) : l[j] # m
      BY <1>2, <1>6
    <3>3. i \in 1..Len(t) /\ i + d \in 1..(Len(l) + 1)
      BY <2>2, <1>4, <1>5 DEF t, Shifted
    <3>4. ASSUME NEW j \in 1..Len(t), t[j] = t[i] PROVE j = i
      <4>1. j + d \in 1..(Len(l) + 1)
        BY <1>4, <1>5 DEF Shifted
      <4>2. CASE i + d = Len(l) + 1
        <5>1. t[j] = m
          BY <4>2, <3>3, <3>4, <1>4, <1>5 DEF Shifted
        <5>2. j + d \notin 1..Len(l)
          BY <5>1, <3>2, <3>4, <1>4, <1>5 DEF Shifted
        <5> QED BY <5>2, <4>1, <4>2, <3>3, <1>4, <1>5
      <4>3. CASE j + d = Len(l) + 1
        <5>1. t[i] = m
          BY <4>3, <3>3, <3>4, <1>4, <1>5 DEF Shifted
        <5>2. i + d \notin 1..Len(l)
          BY <5>1, <3>2, <3>3, <1>4, <1>5 DEF Shifted
        <5> QED BY <5>2, <4>1, <4>3, <3>3, <1>4, <1>5
      <4>4. CASE i + d \in 1..Len(l) /\ j + d \in 1..Len(l)
        <5>1. l[i + d] = l[j + d]
          BY <4>4, <3>3, <3>4, <1>4, <1>5 DEF Shifted
        <5>2. i + d = j + d
          BY <3>1, <4>4, <5>1
        <5> QED BY <5>2, <3>3, <1>4
      <4> QED BY <4>1, <4>2, <4>3, <4>4, <3>3, <1>4, <1>5
    <3>5. ASSUME NEW x \in Question \ cut', t[i] = <<x, "assistant">>
          PROVE  \E j \in 1..(i - 1) : t[j] = <<x, "user">>
      <4>1. PICK k \in 1..Len(l) : l[k] = <<x, "user">> /\ k < i + d
        <5>1. CASE i + d <= Len(l)
          <6>1. i + d \in 1..Len(l) /\ l[i + d] = <<x, "assistant">>
            BY <5>1, <3>3, <3>5, <1>4 DEF Shifted
          <6>2. hist[s] = l /\ hist[s] # NoRecord
            BY <6>1 DEF l, History!Messages
          <6>3. PICK n \in 1..Len(l) : n = i + d
            BY <6>1
          <6>4. x \in Question \ cut /\ l[n] = <<x, "assistant">>
            BY <6>1, <6>3, <1>10
          <6>5. PICK k \in 1..(n - 1) : l[k] = <<x, "user">>
            <7>1. \A y \in Question \ cut : hist[s][n] = <<y, "assistant">> =>
                    \E k \in 1..(n - 1) : hist[s][k] = <<y, "user">>
              BY <6>2, <6>3, <1>1, Zenon DEF HistInv, AnswersFollowQuestions
            <7> QED BY <7>1, <6>2, <6>4, Zenon
          <6>6. k \in 1..Len(l) /\ k < i + d
            BY <6>3, <1>5
          <6> QED BY <6>5, <6>6
        <5>2. CASE i + d = Len(l) + 1
          <6>1. m = <<x, "assistant">>
            BY <5>2, <3>3, <3>5, <1>4, <1>5 DEF Shifted
          <6>2. x = q /\ role = "assistant"
            BY <6>1 DEF m
          <6>3. pc[q] \in Held /\ q \notin cut
            BY <6>2, <3>5, <1>10 DEF Held
          <6>4. Holds(hist[s], <<q, "user">>)
            BY <6>3 DEF HistInv, HeldInv, s
          <6> QED BY <6>2, <6>4, <5>2, <1>5, <1>6
        <5> QED BY <5>1, <5>2, <3>3, <1>5
      <4>2. Holds(t, <<x, "user">>)
        BY <4>1, <3>5, <1>6, <1>9
      <4>3. PICK j \in 1..Len(t) : t[j] = <<x, "user">>
        BY <4>2 DEF Holds
      <4>4. j + d = k
        <5>1. j + d \in 1..(Len(l) + 1)
          BY <1>4, <1>5 DEF Shifted
        <5>2. <<x, "user">> # m
          BY <4>1, <3>2
        <5>3. j + d \in 1..Len(l) /\ l[j + d] = l[k]
          BY <5>1, <5>2, <4>1, <4>3, <1>4, <1>5 DEF Shifted
        <5> QED BY <5>3, <3>1
      <4>5. j \in 1..(i - 1)
        BY <4>1, <4>4, <3>3, <1>4, <1>5
      <4> QED BY <4>3, <4>5
    <3> QED BY <2>2, <3>4, <3>5 DEF t
  <2> QED BY <2>1, <2>2
<1> QED BY <1>11, <1>12, <1>13 DEF HistInv

\* What AnswersFollowQuestions says of one session's messages.
Ordered(l, lost) ==
  \A i \in 1..Len(l) :
    /\ \A j \in 1..Len(l) : l[j] = l[i] => j = i
    /\ \A q \in Question \ lost : l[i] = <<q, "assistant">> =>
         \E j \in 1..(i - 1) : l[j] = <<q, "user">>

LEMMA HistoryAsItWas ==
  ASSUME AnswersFollowQuestions, hist' = hist, cut' = cut
  PROVE  AnswersFollowQuestions'
<1>1. \A s \in Session : hist[s] # NoRecord => Ordered(hist[s], cut)
  BY Zenon DEF AnswersFollowQuestions, Ordered
<1>2. \A s \in Session : hist'[s] # NoRecord => Ordered(hist'[s], cut')
  BY <1>1
<1> QED BY <1>2, Zenon DEF AnswersFollowQuestions, Ordered

(* A step that leaves the sessions as they are keeps that part when the     *)
(* question's stage goes on as it does.                                     *)
LEMMA MoveKeeps ==
  ASSUME TypeOK, HistInv, NEW q \in Question, NEW l,
         UNCHANGED <<hist, kept, cut>>, charged \subseteq charged',
         pc' = [pc EXCEPT ![q] = l],
         \/ pc[q] = "idle" /\ l = "asked" /\ \E s \in Session : sess' = [sess EXCEPT ![q] = s]
         \/ /\ UNCHANGED sess
            /\ \/ pc[q] = "asked" /\ l = "ready"
               \/ pc[q] \in Held /\ l \in Held
               \/ pc[q] = "answered" /\ l = "charged" /\ q \in charged'
               \/ pc[q] \in Open /\ l \in Ended
  PROVE  HistInv'
<1>1. ASSUME NEW x \in Question PROVE StageInv(x)' /\ HeldInv(x)'
  BY DEF HistInv, StageInv, HeldInv, TypeOK, Held, Open, Ended, Holds
<1>2. ASSUME NEW s \in Session PROVE MessageInv(s)'
  <2>1. hist' = hist /\ kept' = kept
    OBVIOUS
  <2>2. \A x \in Question : pc[x] \notin Unstored => pc'[x] \notin Unstored /\ sess'[x] = sess[x]
    BY DEF TypeOK, Unstored, Held, Open, Ended
  <2>3. hist'[s] # NoRecord => hist[s] # NoRecord
    BY <2>1
  <2> SUFFICES ASSUME hist[s] # NoRecord, NEW x \in Question
               PROVE  /\ Holds(hist'[s], <<x, "user">>) => sess'[x] = s /\ pc'[x] \notin Unstored
                      /\ Holds(hist'[s], <<x, "assistant">>) => sess'[x] = s /\ x \in kept'
    BY <2>3, Zenon DEF MessageInv
  <2>4. /\ Holds(hist[s], <<x, "user">>) => sess[x] = s /\ pc[x] \notin Unstored
        /\ Holds(hist[s], <<x, "assistant">>) => sess[x] = s /\ x \in kept
    BY Zenon DEF HistInv, MessageInv
  <2>5. x \in kept => pc[x] \notin Unstored
    BY DEF HistInv, StageInv, Unstored, Ended
  <2> QED BY <2>1, <2>2, <2>4, <2>5
<1>3. AnswersFollowQuestions'
  BY HistoryAsItWas DEF HistInv
<1> QED BY <1>1, <1>2, <1>3 DEF HistInv

-----------------------------------------------------------------------------
(* The caller's side                                                        *)

(* One event more.                                                          *)
LEMMA EmitProperties ==
  ASSUME TypeOK, NEW q \in Question, NEW k \in {"token", "done", "error"}, NEW t \in Text,
         Emit(q, k, t)
  PROVE  /\ events' \in [Question -> Seq(Event)]
         /\ \A x \in Question \ {q} : events'[x] = events[x]
         /\ Len(events'[q]) = Len(events[q]) + 1
         /\ \A i \in 1..Len(events[q]) : events'[q][i] = events[q][i]
         /\ events'[q][Len(events[q]) + 1] = [kind |-> k, text |-> t]
<1> DEFINE e == [kind |-> k, text |-> t]
           a == Append(events[q], e)
<1>1. e \in Event /\ events[q] \in Seq(Event)
  BY DEF Event, TypeOK
<1> HIDE DEF e
<1>2. /\ a \in Seq(Event)
      /\ Len(a) = Len(events[q]) + 1
      /\ \A i \in 1..Len(events[q]) : a[i] = events[q][i]
      /\ a[Len(events[q]) + 1] = e
  BY <1>1, AppendProperties
<1>3. events' = [events EXCEPT ![q] = a]
  BY DEF Emit, e
<1> HIDE DEF a
<1> QED BY <1>2, <1>3 DEF TypeOK, e

(* Of an answer f, u has been sent and b waits in the buffer.               *)
Waits(f, u, b) ==
  /\ Len(f) = Len(u) + Len(b)
  /\ \A i \in 1..Len(f) : f[i] = i
  /\ \A i \in 1..Len(u) : u[i] = i
  /\ \A i \in 1..Len(b) : b[i] = Len(u) + i

\* Then an answer a of one token more is u and a buffer c of one token more.
Grown(f, u, b, a, c) ==
  /\ a \in Text /\ Len(a) = Len(f) + 1
  /\ \A i \in 1..Len(a) : a[i] = i
  /\ c \in Text /\ Len(c) = Len(b) + 1
  /\ \A i \in 1..Len(c) : c[i] = Len(u) + i
  /\ u \o c = a
  /\ SubSeq(a, Len(u) + 1, Len(a)) = c
  /\ Len(a) - Len(u) = Len(c)

(* The token that comes next makes both grow by itself.                     *)
LEMMA TokenProperties ==
  ASSUME NEW f \in Text, NEW s \in Text, NEW b \in Text, NEW n,
         Waits(f, s, b), n = Len(f) + 1, Len(f) < MaxTokens
  PROVE  Grown(f, s, b, Append(f, n), Append(b, n))
<1>0. /\ Len(f) = Len(s) + Len(b)
      /\ \A i \in 1..Len(f) : f[i] = i
      /\ \A i \in 1..Len(s) : s[i] = i
      /\ \A i \in 1..Len(b) : b[i] = Len(s) + i
  BY DEF Waits
<1> DEFINE a == Append(f, n)
           c == Append(b, n)
           g == s \o c
           d == SubSeq(a, Len(s) + 1, Len(a))
<1> USE DEF Text
<1>1. Len(f) \in Nat /\ Len(s) \in Nat /\ Len(b) \in Nat
  OBVIOUS
<1>2. n \in 1..MaxTokens
  BY <1>0, <1>1, SizeAssumption
<1>3. /\ a \in Text /\ Len(a) = Len(f) + 1
      /\ \A i \in 1..Len(f) : a[i] = f[i]
      /\ a[Len(f) + 1] = n
  BY <1>2, AppendProperties
<1>4. /\ c \in Text /\ Len(c) = Len(b) + 1
      /\ \A i \in 1..Len(b) : c[i] = b[i]
      /\ c[Len(b) + 1] = n
  BY <1>2, AppendProperties
<1> HIDE DEF a, c
<1>5. \A i \in 1..Len(a) : a[i] = i
  BY SMTT(30), <1>0, <1>1, <1>3
<1>6. ASSUME NEW i \in 1..Len(c) PROVE c[i] = Len(s) + i
  <2>1. CASE i \in 1..Len(b)
    BY <2>1, <1>0, <1>4
  <2>2. CASE i = Len(b) + 1
    BY <2>2, <1>0, <1>1, <1>4
  <2> QED BY <2>1, <2>2, <1>1, <1>4
<1>7. Len(a) = Len(s) + Len(c)
  BY <1>0, <1>1, <1>3, <1>4
<1>8. /\ g \in Text /\ Len(g) = Len(s) + Len(c)
      /\ \A i \in 1..(Len(s) + Len(c)) :
           g[i] = IF i <= Len(s) THEN s[i] ELSE c[i - Len(s)]
  BY <1>4, ConcatProperties
<1> HIDE DEF g
<1>9. ASSUME NEW i \in 1..Len(g) PROVE g[i] = a[i]
  <2>1. CASE i <= Len(s)
    BY <2>1, <1>0, <1>1, <1>5, <1>7, <1>8
  <2>2. CASE ~(i <= Len(s))
    <3>1. i - Len(s) \in 1..Len(c) /\ i \in 1..Len(a) /\ Len(s) + (i - Len(s)) = i
      BY <2>2, <1>1, <1>3, <1>4, <1>7, <1>8
    <3>2. PICK k \in 1..Len(c) : k = i - Len(s)
      BY <3>1
    <3> QED BY <3>1, <3>2, <2>2, <1>1, <1>5, <1>6, <1>7, <1>8
  <2> QED BY <2>1, <2>2
<1>10. g = a
  BY <1>3, <1>7, <1>8, <1>9, SeqEqual
<1>11. /\ d \in Text /\ Len(d) = Len(c)
       /\ \A i \in 1..Len(c) : d[i] = a[Len(s) + i]
  <2>1. \A i \in (Len(s) + 1)..Len(a) : a[i] \in 1..MaxTokens
    <3>1. \A i \in (Len(s) + 1)..Len(a) : i \in 1..Len(a)
      BY <1>1, <1>3
    <3> QED BY <3>1, <1>3, ElementOfSeq
  <2> DEFINE k == Len(s) + 1
  <2>2. /\ k \in Int /\ Len(a) \in Int
        /\ Len(a) - k + 1 = Len(c) /\ k <= Len(a)
    BY <1>0, <1>1, <1>3, <1>4, <1>7
  <2>3. \A i \in 1..Len(c) : k + i - 1 = Len(s) + i
    BY <1>1
  <2> HIDE DEF k
  <2>4. \A i \in k..Len(a) : a[i] \in 1..MaxTokens
    BY <2>1 DEF k
  <2>5. /\ SubSeq(a, k, Len(a)) \in Seq(1..MaxTokens)
        /\ Len(SubSeq(a, k, Len(a))) = IF k <= Len(a) THEN Len(a) - k + 1 ELSE 0
        /\ \A i \in 1..(Len(a) - k + 1) : SubSeq(a, k, Len(a))[i] = a[k + i - 1]
    BY <2>2, <2>4, SubSeqProperties
  <2>6. d = SubSeq(a, k, Len(a))
    BY DEF k
  <2> HIDE DEF d
  <2> QED BY <2>2, <2>3, <2>5, <2>6
<1> HIDE DEF d
<1>12. ASSUME NEW i \in 1..Len(c) PROVE d[i] = c[i]
  <2>1. Len(s) + i \in 1..Len(a)
    BY <1>1, <1>3, <1>4, <1>7
  <2>2. PICK k \in 1..Len(a) : k = Len(s) + i
    BY <2>1
  <2> QED BY <2>2, <1>5, <1>6, <1>11
<1>13. d = c
  BY <1>4, <1>11, <1>12, SeqEqual
<1>14. Len(a) - Len(s) = Len(c)
  BY <1>0, <1>1, <1>3, <1>4, <1>7
<1> QED BY <1>3, <1>4, <1>5, <1>6, <1>10, <1>13, <1>14, Zenon DEF a, c, d, g, Grown

-----------------------------------------------------------------------------
(* The steps                                                                *)

Sending == {"idle", "asked", "ready", "stored", "streaming"}

(* A step that yields nothing, or whose events are of a question that does  *)
(* not end well by it, keeps the callers' last events.                      *)
LEMMA LastKeeps ==
  ASSUME LastEventIsReply, kept \subseteq kept', charged \subseteq charged',
         \A x \in Question : pc'[x] = "done" =>
           pc[x] = "done" /\ events'[x] = events[x] /\ reply'[x] = reply[x]
  PROVE  LastEventIsReply'
BY DEF LastEventIsReply

LEMMA BufferKeeps ==
  ASSUME NEW x \in Question, BufferInv(x), pc'[x] \in Sending => pc[x] \in Sending,
         full'[x] = full[x], sent'[x] = sent[x], buffer'[x] = buffer[x]
  PROVE  BufferInv(x)'
BY DEF BufferInv, Sending

(* Post, Prepare, Begin, Charge and Cancel: the question moves on.          *)
LEMMA QuietKeeps ==
  ASSUME ChatInv, NEW q \in Question, NEW l \in Open \cup {"cancelled"},
         MoveTo(q, l), sess' \in [Question -> Session \cup {NoSession}],
         pc[q] # "done", pc[q] \in Sending \/ l \notin Sending,
         HistInv', charged \subseteq charged', charged' \subseteq Question,
         UNCHANGED <<hist, streamVars, reply, events, kept, cut>>
  PROVE  ChatInv'
<1> USE DEF ChatInv
<1>1. TypeOK'
  BY DEF TypeOK, MoveTo, Open, Ended, streamVars
<1>2. LastEventIsReply'
  BY LastKeeps DEF TypeOK, MoveTo, Open
<1>3. ASSUME NEW x \in Question PROVE BufferInv(x)'
  BY BufferKeeps DEF TypeOK, MoveTo, streamVars
<1> QED BY <1>1, <1>2, <1>3

(* ProviderDone, Finish and Fail: the question moves on with an event.      *)
LEMMA EventKeeps ==
  ASSUME ChatInv, NEW q \in Question, NEW l \in {"drained", "done", "failed"},
         NEW k \in {"token", "done", "error"}, NEW t \in Text,
         MoveTo(q, l), Emit(q, k, t), pc[q] # "done", HistInv',
         l = "done" => /\ q \in kept \cap charged
                       /\ k = "done" /\ t = reply[q],
         UNCHANGED <<hist, sess, streamVars, reply, ghostVars, cut>>
  PROVE  ChatInv'
<1> USE DEF ChatInv
<1>1. /\ events' \in [Question -> Seq(Event)]
      /\ \A x \in Question \ {q} : events'[x] = events[x]
      /\ Len(events'[q]) = Len(events[q]) + 1
      /\ events'[q][Len(events[q]) + 1] = [kind |-> k, text |-> t]
  BY EmitProperties
<1>2. TypeOK'
  BY <1>1 DEF TypeOK, MoveTo, Open, Ended, streamVars, ghostVars
<1>3. LastEventIsReply'
  <2> SUFFICES ASSUME NEW x \in Question, pc'[x] = "done"
               PROVE  /\ x \in kept' \cap charged'
                      /\ events'[x][Len(events'[x])] = [kind |-> "done", text |-> reply'[x]]
    BY DEF LastEventIsReply
  <2>1. CASE x = q
    <3>1. l = "done"
      BY <2>1 DEF MoveTo, TypeOK
    <3> QED BY <2>1, <3>1, <1>1 DEF ghostVars
  <2>2. CASE x # q
    <3>1. pc[x] = "done" /\ events'[x] = events[x] /\ reply'[x] = reply[x]
      BY <2>2, <1>1 DEF MoveTo, TypeOK
    <3> QED BY <3>1, Zenon DEF LastEventIsReply, ghostVars
  <2> QED BY <2>1, <2>2
<1>4. ASSUME NEW x \in Question PROVE BufferInv(x)'
  BY BufferKeeps DEF TypeOK, MoveTo, Sending, streamVars
<1> QED BY <1>2, <1>3, <1>4

LEMMA PostKeeps ==
  ASSUME ChatInv, NEW q \in Question, NEW s \in Session, Post(q, s) PROVE ChatInv'
<1> USE DEF Post
<1>1. HistInv'
  BY MoveKeeps, Zenon DEF ChatInv, MoveTo, ghostVars
<1>2. sess' \in [Question -> Session \cup {NoSession}]
  BY DEF ChatInv, TypeOK
<1> QED BY <1>1, <1>2, QuietKeeps DEF ghostVars, Sending, Open, ChatInv, TypeOK

LEMMA PrepareKeeps ==
  ASSUME ChatInv, NEW q \in Question, Prepare(q) PROVE ChatInv'
<1> USE DEF Prepare
<1>1. HistInv'
  BY MoveKeeps DEF ChatInv, MoveTo, ghostVars
<1> QED BY <1>1, QuietKeeps DEF ghostVars, Sending, Open, ChatInv, TypeOK

LEMMA BeginKeeps ==
  ASSUME ChatInv, NEW q \in Question, Begin(q) PROVE ChatInv'
<1> USE DEF Begin
<1>1. HistInv'
  BY MoveKeeps DEF ChatInv, MoveTo, ghostVars, Held
<1> QED BY <1>1, QuietKeeps DEF ghostVars, Sending, Open, ChatInv, TypeOK

LEMMA ChargeKeeps ==
  ASSUME ChatInv, NEW q \in Question, Charge(q) PROVE ChatInv'
<1> USE DEF Charge
<1>1. HistInv'
  BY MoveKeeps DEF ChatInv, MoveTo
<1> QED BY <1>1, QuietKeeps DEF Sending, Open, ChatInv, TypeOK

LEMMA CancelKeeps ==
  ASSUME ChatInv, NEW q \in Question, Cancel(q) PROVE ChatInv'
<1> USE DEF Cancel
<1>1. HistInv'
  BY MoveKeeps DEF ChatInv, MoveTo, ghostVars, Ended
<1> QED BY <1>1, QuietKeeps DEF ghostVars, Sending, Open, ChatInv, TypeOK

(* The text of the last provider alone is a text.                           *)
LEMMA DoneText ==
  ASSUME ChatInv, NEW q \in Question
  PROVE  SubSeq(full[q], before[q] + 1, Len(full[q])) \in Text
<1> DEFINE f == full[q]
<1>1. f \in Text /\ before[q] \in Nat
  BY SizeAssumption DEF ChatInv, TypeOK
<1> HIDE DEF f
<1>2. ASSUME NEW i \in (before[q] + 1)..Len(f) PROVE f[i] \in 1..MaxTokens
  <2>1. Len(f) \in Nat /\ i \in 1..Len(f)
    BY <1>1 DEF Text
  <2> QED BY <1>1, <2>1, ElementOfSeq DEF Text
<1>3. before[q] + 1 \in Int /\ Len(f) \in Int
  BY <1>1 DEF Text
<1>4. SubSeq(f, before[q] + 1, Len(f)) \in Text
  BY <1>2, <1>3, SubSeqProperties DEF Text
<1> QED BY <1>4 DEF f

LEMMA ProviderDoneKeeps ==
  ASSUME ChatInv, NEW q \in Question, ProviderDone(q) PROVE ChatInv'
<1> DEFINE t == SubSeq(full[q], before[q] + 1, Len(full[q]))
<1> USE DEF ProviderDone
<1>1. HistInv'
  BY MoveKeeps DEF ChatInv, MoveTo, ghostVars, Held
<1>2. Emit(q, "done", t) /\ MoveTo(q, "drained") /\ t \in Text
  BY DoneText
<1> HIDE DEF t
<1> QED BY <1>1, <1>2, EventKeeps

LEMMA FinishKeeps ==
  ASSUME ChatInv, NEW q \in Question, Finish(q) PROVE ChatInv'
<1> USE DEF Finish
<1>1. HistInv'
  BY MoveKeeps DEF ChatInv, MoveTo, ghostVars, Open, Ended
<1>2. q \in kept \cap charged /\ reply[q] \in Text
  BY DEF ChatInv, HistInv, StageInv, TypeOK
<1> QED BY <1>1, <1>2, EventKeeps

LEMMA FailKeeps ==
  ASSUME ChatInv, NEW q \in Question, Fail(q) PROVE ChatInv'
<1> USE DEF Fail
<1>1. HistInv'
  BY MoveKeeps DEF ChatInv, MoveTo, ghostVars, Ended
<1>2. <<>> \in Text /\ pc[q] # "done"
  BY DEF Text, Open
<1> QED BY <1>1, <1>2, EventKeeps

(* Steps that leave every question at its place.                            *)
LEMMA HistStays ==
  ASSUME HistInv, UNCHANGED <<hist, pc, sess, ghostVars, cut>> PROVE HistInv'
<1>1. ASSUME NEW x \in Question PROVE StageInv(x)' /\ HeldInv(x)'
  BY DEF HistInv, StageInv, HeldInv, ghostVars
<1>2. ASSUME NEW s \in Session PROVE MessageInv(s)'
  BY DEF HistInv, MessageInv, ghostVars
<1>3. AnswersFollowQuestions'
  BY HistoryAsItWas DEF HistInv
<1> QED BY <1>1, <1>2, <1>3 DEF HistInv

LEMMA FailOverKeeps ==
  ASSUME ChatInv, NEW q \in Question, FailOver(q) PROVE ChatInv'
<1> USE DEF FailOver
<1>1. HistInv'
  BY HistStays DEF ChatInv
<1>2. TypeOK'
  <2>1. Len(full[q]) \in 0..MaxTokens
    <3> DEFINE f == full[q]
    <3>1. f \in Text /\ \A i \in 1..Len(f) : f[i] = i
      BY DEF ChatInv, TypeOK, BufferInv
    <3> HIDE DEF f
    <3>2. Len(f) \in Nat
      BY <3>1 DEF Text
    <3>3. CASE Len(f) = 0
      BY <3>3, SizeAssumption DEF f
    <3>4. CASE Len(f) # 0
      <4>1. Len(f) \in 1..Len(f)
        BY <3>2, <3>4
      <4>2. f[Len(f)] \in 1..MaxTokens
        BY <3>1, <4>1, ElementOfSeq DEF Text
      <4>3. f[Len(f)] = Len(f)
        BY <3>1, <4>1
      <4> QED BY <4>2, <4>3, SizeAssumption DEF f
    <3> QED BY <3>3, <3>4
  <2>2. attempt[q] + 1 \in 1..MaxAttempts
    BY SizeAssumption DEF ChatInv, TypeOK
  <2> QED BY <2>1, <2>2 DEF ChatInv, TypeOK, ghostVars
<1>3. LastEventIsReply'
  BY LastKeeps DEF ChatInv, ghostVars
<1>4. ASSUME NEW x \in Question PROVE BufferInv(x)'
  BY BufferKeeps DEF ChatInv
<1> QED BY <1>1, <1>2, <1>3, <1>4 DEF ChatInv

LEMMA TokenKeeps ==
  ASSUME ChatInv, NEW q \in Question, Token(q) PROVE ChatInv'
<1> DEFINE f == full[q]
           u == sent[q]
           b == buffer[q]
           n == Len(f) + 1
           a == Append(f, n)
           c == Append(b, n)
<1>1. /\ pc[q] = "streaming" /\ Len(f) < MaxTokens
      /\ full' = [full EXCEPT ![q] = a]
      /\ IF Len(c) >= BufferSize
         THEN /\ Emit(q, "token", c)
              /\ sent' = [sent EXCEPT ![q] = u \o c]
              /\ buffer' = [buffer EXCEPT ![q] = <<>>]
         ELSE /\ buffer' = [buffer EXCEPT ![q] = c]
              /\ UNCHANGED <<events, sent>>
      /\ UNCHANGED <<hist, pc, sess, attempt, before, reply, ghostVars, cut>>
  BY DEF Token, ProcessToken
<1>2. /\ f \in Text /\ u \in Text /\ b \in Text
      /\ Waits(f, u, b) /\ Len(b) < BufferSize
  BY <1>1, Zenon DEF ChatInv, TypeOK, BufferInv, Waits
<1> HIDE DEF f, u, b
<1>3. Grown(f, u, b, a, c)
  <2> HIDE DEF n
  <2>1. n = Len(f) + 1
    BY DEF n
  <2>2. Len(f) < MaxTokens
    BY <1>1
  <2> QED BY <1>2, <2>1, <2>2, TokenProperties, Zenon
<1> HIDE DEF n, a, c
<1>4. HistInv'
  BY <1>1, HistStays DEF ChatInv
<1>5. /\ sent' = [sent EXCEPT ![q] = IF Len(c) >= BufferSize THEN a ELSE u]
      /\ buffer' = [buffer EXCEPT ![q] = IF Len(c) >= BufferSize THEN <<>> ELSE c]
  <2>1. UNCHANGED sent => sent' = [sent EXCEPT ![q] = u]
    BY DEF ChatInv, TypeOK, u
  <2> QED BY <1>1, <1>3, <2>1 DEF Grown
<1>6. /\ events' \in [Question -> Seq(Event)]
      /\ \A x \in Question \ {q} : events'[x] = events[x]
  <2>1. CASE Len(c) >= BufferSize
    <3>1. Emit(q, "token", c)
      BY <2>1, <1>1
    <3> QED BY <3>1, <1>3, EmitProperties DEF ChatInv, Grown
  <2>2. CASE ~(Len(c) >= BufferSize)
    BY <2>2, <1>1 DEF ChatInv, TypeOK
  <2> QED BY <2>1, <2>2
<1>7. TypeOK'
  <2>1. <<>> \in Text
    BY DEF Text
  <2> QED BY <2>1, <1>1, <1>2, <1>3, <1>5, <1>6 DEF ChatInv, TypeOK, ghostVars, Grown
<1>8. LastEventIsReply'
  BY <1>1, <1>6, LastKeeps DEF ChatInv, ghostVars
<1>9. ASSUME NEW x \in Question PROVE BufferInv(x)'
  <2>1. CASE x # q
    BY <2>1, <1>1, <1>5, BufferKeeps DEF ChatInv, TypeOK
  <2>2. CASE x = q
    <3> DEFINE v == IF Len(c) >= BufferSize THEN a ELSE u
               w == IF Len(c) >= BufferSize THEN <<>> ELSE c
    <3>1. full'[q] = a /\ sent'[q] = v /\ buffer'[q] = w
      BY <1>1, <1>5 DEF ChatInv, TypeOK
    <3>2. Len(a) \in Nat /\ Len(c) \in Nat /\ Len(u) \in Nat
      BY <1>2, <1>3 DEF Text, Grown
    <3>3. /\ \A i \in 1..Len(v) : v[i] = i
          /\ Len(a) = Len(v) + Len(w) /\ Len(w) < BufferSize
          /\ \A i \in 1..Len(w) : w[i] = Len(v) + i
      <4>1. CASE Len(c) >= BufferSize
        BY <4>1, <1>3, <3>2, SizeAssumption DEF Grown
      <4>2. CASE ~(Len(c) >= BufferSize)
        <5>1. v = u /\ w = c
          BY <4>2
        <5>2. Len(c) < BufferSize /\ Len(a) = Len(u) + Len(c)
          BY <4>2, <1>3, <3>2, SizeAssumption DEF Grown
        <5> HIDE DEF v, w
        <5> QED BY <5>1, <5>2, <1>2, <1>3, Zenon DEF Grown, Waits
      <4> QED BY <4>1, <4>2
    <3> HIDE DEF v, w
    <3> QED BY <2>2, <1>3, <3>1, <3>3, Zenon DEF BufferInv, Grown
  <2> QED BY <2>1, <2>2
<1> QED BY <1>4, <1>7, <1>8, <1>9 DEF ChatInv

LEMMA AddQuestionKeeps ==
  ASSUME ChatInv, NEW q \in Question, AddQuestion(q) PROVE ChatInv'
<1> USE DEF AddQuestion
<1>1. HistInv'
  BY AddKeeps DEF ChatInv, MoveTo, ghostVars
<1>2. sess[q] \in Session /\ <<q, "user">> \in Message
  BY DEF ChatInv, HistInv, StageInv, Message
<1>3. TypeOK'
  <2>1. /\ hist' \in [Session -> Seq(Message) \cup {NoRecord}]
        /\ \A r \in Session \ {sess[q]} : hist'[r] = hist[r]
        /\ Len(hist'[sess[q]]) \in 1..MaxHistory
    BY <1>2, AddProperties DEF ChatInv
  <2>2. \A s \in Session : hist'[s] # NoRecord => Len(hist'[s]) \in 1..MaxHistory
    BY <2>1, Zenon DEF ChatInv, TypeOK
  <2> QED BY <2>1, <2>2 DEF ChatInv, TypeOK, MoveTo, Open, Lost, streamVars, ghostVars
<1>4. LastEventIsReply'
  BY LastKeeps DEF ChatInv, TypeOK, MoveTo, ghostVars
<1>5. ASSUME NEW x \in Question PROVE BufferInv(x)'
  BY BufferKeeps DEF ChatInv, TypeOK, MoveTo, Sending, streamVars
<1> QED BY <1>1, <1>3, <1>4, <1>5 DEF ChatInv

LEMMA AddAnswerKeeps ==
  ASSUME ChatInv, NEW q \in Question, AddAnswer(q) PROVE ChatInv'
<1> DEFINE t == buffer[q] \o full[q]
<1> USE DEF AddAnswer
<1>1. HistInv'
  BY AddKeeps DEF ChatInv, MoveTo
<1>2. sess[q] \in Session /\ <<q, "assistant">> \in Message
  BY DEF ChatInv, HistInv, StageInv, Message
<1>3. t \in Text /\ <<>> \in Text /\ reply' = [reply EXCEPT ![q] = t]
  BY ConcatProperties DEF ChatInv, TypeOK, Text
<1> HIDE DEF t
<1>4. TypeOK'
  <2>1. /\ hist' \in [Session -> Seq(Message) \cup {NoRecord}]
        /\ \A r \in Session \ {sess[q]} : hist'[r] = hist[r]
        /\ Len(hist'[sess[q]]) \in 1..MaxHistory
    BY <1>2, AddProperties DEF ChatInv
  <2>2. \A s \in Session : hist'[s] # NoRecord => Len(hist'[s]) \in 1..MaxHistory
    BY <2>1, Zenon DEF ChatInv, TypeOK
  <2>3. reply' \in [Question -> Text] /\ buffer' \in [Question -> Text]
    BY ZenonT(40), <1>3 DEF ChatInv, TypeOK
  <2> QED BY <2>1, <2>2, <2>3 DEF ChatInv, TypeOK, MoveTo, Open, Lost
<1>5. LastEventIsReply'
  BY <1>3, LastKeeps DEF ChatInv, TypeOK, MoveTo
<1>6. ASSUME NEW x \in Question PROVE BufferInv(x)'
  <2>1. CASE x = q
    <3>1. pc'[q] \notin Sending
      BY DEF ChatInv, TypeOK, MoveTo, Sending
    <3> QED BY <2>1, <3>1 DEF ChatInv, BufferInv, Sending
  <2>2. CASE x # q
    BY <2>2, BufferKeeps DEF ChatInv, TypeOK, MoveTo
  <2> QED BY <2>1, <2>2
<1> QED BY <1>1, <1>4, <1>5, <1>6 DEF ChatInv

LEMMA ClearKeeps ==
  ASSUME ChatInv, NEW s \in Session, Clear(s) PROVE ChatInv'
<1> USE DEF Clear
<1>1. hist' = [hist EXCEPT ![s] = NoRecord] /\ \A x : ~Holds(NoRecord, x)
  BY DEF History!Remove, Holds
<1>2. /\ hist'[s] = NoRecord
      /\ \A r \in Session \ {s} : hist'[r] = hist[r]
  BY <1>1 DEF ChatInv, TypeOK
<1>3. TypeOK'
  <2>1. \A r \in Session : hist'[r] # NoRecord => Len(hist'[r]) \in 1..MaxHistory
    BY <1>2, Zenon DEF ChatInv, TypeOK
  <2> QED BY <1>1, <2>1 DEF ChatInv, TypeOK, Lost, streamVars, ghostVars
<1>4. \A x \in Question : x \notin cut' => x \notin cut
  OBVIOUS
<1>5. ASSUME NEW x \in Question PROVE StageInv(x)' /\ HeldInv(x)'
  <2>1. StageInv(x)'
    BY DEF ChatInv, HistInv, StageInv, ghostVars
  <2>2. pc[x] \in Held => sess[x] \in Session
    BY DEF ChatInv, HistInv, StageInv, Held
  <2>3. HeldInv(x)'
    BY <2>2, <1>4 DEF ChatInv, HistInv, HeldInv, Lost
  <2> QED BY <2>1, <2>3
<1>6. ASSUME NEW r \in Session PROVE MessageInv(r)'
  BY <1>2 DEF ChatInv, HistInv, MessageInv, ghostVars
<1>7. AnswersFollowQuestions'
  <2>1. \A r \in Session : hist[r] # NoRecord => Ordered(hist[r], cut)
    BY Zenon DEF ChatInv, HistInv, AnswersFollowQuestions, Ordered
  <2>2. \A l : Ordered(l, cut) => Ordered(l, cut')
    BY <1>4, Zenon DEF Ordered
  <2>3. \A r \in Session : hist'[r] # NoRecord => Ordered(hist'[r], cut')
    BY <2>1, <2>2, <1>2
  <2> QED BY <2>3, Zenon DEF AnswersFollowQuestions, Ordered
<1>8. LastEventIsReply'
  BY LastKeeps DEF ChatInv, ghostVars
<1>9. ASSUME NEW x \in Question PROVE BufferInv(x)'
  BY BufferKeeps DEF ChatInv, streamVars
<1> QED BY <1>3, <1>5, <1>6, <1>7, <1>8, <1>9 DEF ChatInv, HistInv

LEMMA NextChatInv == ChatInv /\ [Next]_vars => ChatInv'
<1> SUFFICES ASSUME ChatInv, [Next]_vars PROVE ChatInv'
  OBVIOUS
<1>1. ASSUME NEW q \in Question, NEW s \in Session, Post(q, s) PROVE ChatInv'
  BY <1>1, PostKeeps
<1>2. ASSUME NEW q \in Question, Run(q) PROVE ChatInv'
  BY <1>2, PrepareKeeps, AddQuestionKeeps, BeginKeeps, TokenKeeps, FailOverKeeps,
     ProviderDoneKeeps, AddAnswerKeeps, ChargeKeeps, FinishKeeps, FailKeeps
  DEF Run
<1>3. ASSUME NEW q \in Question, Cancel(q) PROVE ChatInv'
  BY <1>3, CancelKeeps
<1>4. ASSUME NEW s \in Session, Clear(s) PROVE ChatInv'
  BY <1>4, ClearKeeps
<1>5. CASE UNCHANGED vars
  <2> USE <1>5 DEF vars, streamVars, ghostVars
  <2>1. HistInv'
    BY HistStays DEF ChatInv
  <2>2. TypeOK'
    BY DEF ChatInv, TypeOK
  <2>3. LastEventIsReply'
    BY LastKeeps DEF ChatInv
  <2>4. ASSUME NEW x \in Question PROVE BufferInv(x)'
    BY BufferKeeps DEF ChatInv
  <2> QED BY <2>1, <2>2, <2>3, <2>4 DEF ChatInv
<1> QED BY <1>1, <1>2, <1>3, <1>4, <1>5 DEF Next

-----------------------------------------------------------------------------
(* The theorems                                                             *)

(* Every state of the service satisfies the inductive invariant.            *)
THEOREM ChatInvariant == Spec => []ChatInv
<1>1. Init => ChatInv
  BY InitChatInv
<1>2. ChatInv /\ [Next]_vars => ChatInv'
  BY NextChatInv
<1> QED BY <1>1, <1>2, PTL DEF Spec

(* The state of chat_stream, of its generators and of the sessions has its  *)
(* type: no session grows beyond max_history.                               *)
THEOREM ChatTypeCorrect == Spec => []TypeOK
<1>1. ChatInv => TypeOK
  BY DEF ChatInv
<1> QED BY <1>1, ChatInvariant, PTL

(* However requests overlap, fail and are cancelled between the two adds of *)
(* chat_stream, a session holds no answer without its question before it    *)
(* (unless the session was trimmed or cleared), and no message twice.       *)
THEOREM AnswersInOrder == Spec => []AnswersFollowQuestions
<1>1. ChatInv => AnswersFollowQuestions
  BY DEF ChatInv, HistInv
<1> QED BY <1>1, ChatInvariant, PTL

(* The last event of a question that ended well is the answer that was      *)
(* stored and charged, which the webhook relies on.                         *)
THEOREM LastEventCorrect == Spec => []LastEventIsReply
<1>1. ChatInv => LastEventIsReply
  BY DEF ChatInv
<1> QED BY <1>1, ChatInvariant, PTL

-----------------------------------------------------------------------------
(* The stream that the caller was promised                                  *)

\* AnswerStream's state and events, as ChatStream's instance of it has them.
StageOf(l) ==
  CASE l \in Open \ {"drained", "answered", "charged"} -> "open"
    [] l \in {"drained", "answered", "charged"} -> "closing"
    [] OTHER -> l

StreamState == [q \in Question |-> StageOf(pc[q])]

Shown(e) == IF e.kind = "done" THEN [kind |-> "done", text |-> <<>>] ELSE e

ShownAll(l) == [i \in 1..Len(l) |-> Shown(l[i])]

StreamEvents == [q \in Question |-> ShownAll(events[q])]

(* What is shown of a list with one event more.                             *)
LEMMA ShownAppend ==
  ASSUME NEW l \in Seq(Event), NEW e \in Event
  PROVE  ShownAll(Append(l, e)) = Append(ShownAll(l), Shown(e))
<1> DEFINE a == Append(l, e)
           m == ShownAll(l)
           b == Append(m, Shown(e))
<1>1. \A x \in Event : Shown(x) \in Event
  BY DEF Event, Shown, Text
<1>2. /\ a \in Seq(Event) /\ Len(a) = Len(l) + 1 /\ Len(l) \in Nat
      /\ \A i \in 1..Len(l) : a[i] = l[i]
      /\ a[Len(l) + 1] = e
  BY AppendProperties
<1>3. m \in Seq(Event) /\ Len(m) = Len(l) /\ \A i \in 1..Len(l) : m[i] = Shown(l[i])
  <2>1. \A i \in 1..Len(l) : Shown(l[i]) \in Event
    BY <1>1, ElementOfSeq
  <2>2. m \in [1..Len(l) -> Event]
    BY <2>1 DEF ShownAll
  <2>3. m \in Seq(Event)
    BY <2>2, <1>2 DEF ShownAll
  <2>4. Len(m) = Len(l)
    BY <2>3, <1>2, LenProperties DEF ShownAll
  <2> QED BY <2>3, <2>4 DEF ShownAll
<1> HIDE DEF m
<1>4. /\ b \in Seq(Event) /\ Len(b) = Len(l) + 1
      /\ \A i \in 1..Len(l) : b[i] = m[i]
      /\ b[Len(l) + 1] = Shown(e)
  BY <1>1, <1>3, AppendProperties
<1> HIDE DEF a, b
<1>5. \A i \in 1..Len(a) : Shown(a[i]) = b[i]
  <2> SUFFICES ASSUME NEW i \in 1..Len(a) PROVE Shown(a[i]) = b[i]
    OBVIOUS
  <2>1. CASE i \in 1..Len(l)
    BY <2>1, <1>2, <1>3, <1>4
  <2>2. CASE i = Len(l) + 1
    BY <2>2, <1>2, <1>4
  <2> QED BY <2>1, <2>2, <1>2
<1>6. ShownAll(a) = [i \in 1..Len(b) |-> b[i]]
  BY <1>2, <1>4, <1>5 DEF ShownAll
<1>7. b = [i \in 1..Len(b) |-> b[i]]
  BY <1>4
<1> QED BY <1>6, <1>7 DEF a, b, m

(* What is shown after one event more.                                      *)
LEMMA ShownEmit ==
  ASSUME TypeOK, NEW q \in Question, NEW k \in {"token", "done", "error"}, NEW t \in Text,
         Emit(q, k, t)
  PROVE  StreamEvents' =
           [StreamEvents EXCEPT ![q] = Append(@, Shown([kind |-> k, text |-> t]))]
<1> DEFINE e == [kind |-> k, text |-> t]
<1>1. e \in Event /\ events[q] \in Seq(Event)
  BY DEF Event, TypeOK
<1> HIDE DEF e
<1>2. ShownAll(Append(events[q], e)) = Append(ShownAll(events[q]), Shown(e))
  BY <1>1, ShownAppend
<1>3. events' = [events EXCEPT ![q] = Append(events[q], e)]
  BY DEF Emit, e
<1>4. /\ events'[q] = Append(events[q], e)
      /\ \A x \in Question \ {q} : events'[x] = events[x]
  BY <1>3 DEF TypeOK
<1> QED BY <1>2, <1>4 DEF StreamEvents, e

LEMMA StageMoves ==
  ASSUME TypeOK, NEW q \in Question, NEW l, MoveTo(q, l)
  PROVE  StreamState' = [StreamState EXCEPT ![q] = StageOf(l)]
BY DEF TypeOK, MoveTo, StreamState

LEMMA StageValues ==
  /\ StageOf("idle") = "idle"
  /\ \A l \in {"asked", "ready", "stored", "streaming"} : StageOf(l) = "open"
  /\ \A l \in {"drained", "answered", "charged"} : StageOf(l) = "closing"
  /\ \A l \in Ended : StageOf(l) = l
BY DEF StageOf, Open, Ended

(* Every step of the service is a step of AnswerStream, or none.            *)
LEMMA NextStream ==
  ASSUME ChatInv, [Next]_vars PROVE [Stream!StreamNext]_(Stream!streams)
<1> DEFINE Same == UNCHANGED <<StreamState, full, sent, StreamEvents>>
<1>1. TypeOK
  BY DEF ChatInv
<1>2. ASSUME Same PROVE UNCHANGED Stream!streams
  BY <1>2 DEF Stream!streams, StreamState, StreamEvents, StageOf, ShownAll, Shown
<1>3. UNCHANGED events => UNCHANGED StreamEvents
  BY DEF StreamEvents
<1>4. ASSUME NEW q \in Question PROVE StreamState[q] = StageOf(pc[q])
  BY DEF StreamState
<1>5. ASSUME NEW q \in Question, NEW l, MoveTo(q, l), StageOf(pc[q]) = StageOf(l)
      PROVE  UNCHANGED StreamState
  <2>1. StreamState' = [StreamState EXCEPT ![q] = StageOf(l)]
    BY <1>1, <1>5, StageMoves
  <2> QED BY <2>1, <1>5, <1>4 DEF StreamState
<1>6. ASSUME NEW q \in Question, NEW s \in Session, Post(q, s)
      PROVE  Stream!Start(q)
  <2>1. StreamState[q] = "idle"
    BY <1>4, <1>6, StageValues DEF Post
  <2>2. StreamState' = [StreamState EXCEPT ![q] = "open"]
    BY <1>1, <1>6, StageMoves, StageValues DEF Post
  <2>3. UNCHANGED <<full, sent, StreamEvents>>
    BY <1>3, <1>6 DEF Post, streamVars
  <2> QED BY <2>1, <2>2, <2>3
          DEF Stream!Start, Stream!Goto, StreamState, StreamEvents, StageOf, ShownAll, Shown
<1>7. ASSUME NEW q \in Question,
             Prepare(q) \/ AddQuestion(q) \/ Begin(q) \/ AddAnswer(q) \/ Charge(q)
      PROVE  Same
  <2>1. /\ UNCHANGED <<full, sent, events>>
        /\ \/ /\ pc[q] \in {"asked", "ready", "stored"}
              /\ \E l \in {"ready", "stored", "streaming"} : MoveTo(q, l)
           \/ /\ pc[q] \in {"drained", "answered"}
              /\ \E l \in {"answered", "charged"} : MoveTo(q, l)
    BY <1>7 DEF Prepare, AddQuestion, Begin, AddAnswer, Charge, streamVars
  <2>2. PICK l : MoveTo(q, l) /\ StageOf(pc[q]) = StageOf(l)
    BY <2>1, StageValues
  <2> QED BY <2>1, <2>2, <1>3, <1>5
<1>8. ASSUME NEW q \in Question, FailOver(q) PROVE Same
  BY <1>3, <1>8 DEF FailOver, StreamState
<1>9. ASSUME NEW q \in Question, Token(q) PROVE Stream!Grow(q)
  <2> DEFINE f == full[q]
             u == sent[q]
             b == buffer[q]
             n == Len(f) + 1
             a == Append(f, n)
             c == Append(b, n)
  <2>1. /\ pc[q] = "streaming" /\ Len(f) < MaxTokens
        /\ full' = [full EXCEPT ![q] = a]
        /\ IF Len(c) >= BufferSize
           THEN /\ Emit(q, "token", c)
                /\ sent' = [sent EXCEPT ![q] = u \o c]
           ELSE UNCHANGED <<events, sent>>
        /\ UNCHANGED pc
    BY <1>9 DEF Token, ProcessToken
  <2>2. /\ f \in Text /\ u \in Text /\ b \in Text
        /\ Waits(f, u, b)
    BY <2>1, Zenon DEF ChatInv, TypeOK, BufferInv, Waits
  <2>3. Grown(f, u, b, a, c)
    <3> HIDE DEF f, u, b, n
    <3>1. n = Len(f) + 1
      BY DEF n
    <3>2. Len(f) < MaxTokens
      BY <2>1
    <3> QED BY <2>2, <3>1, <3>2, TokenProperties, Zenon
  <2> DEFINE d == SubSeq(a, Len(u) + 1, Len(a))
  <2>4. /\ StreamState[q] = "open"
        /\ UNCHANGED StreamState
    BY <1>4, <2>1, StageValues DEF StreamState
  <2>5. \/ /\ Len(a) - Len(u) < BufferSize
           /\ UNCHANGED <<sent, StreamEvents>>
        \/ /\ StreamEvents' = [StreamEvents EXCEPT ![q] = Append(@, [kind |-> "token", text |-> d])]
           /\ sent' = [sent EXCEPT ![q] = a]
    <3> HIDE DEF f, u, b, n, a, c
    <3>1. d = c /\ u \o c = a /\ Len(a) - Len(u) = Len(c) /\ c \in Text
      BY <2>3, Zenon DEF Grown
    <3> HIDE DEF d
    <3>5. Len(c) \in Nat
      BY <3>1 DEF Text
    <3>2. CASE Len(c) >= BufferSize
      <4>1. Emit(q, "token", c) /\ sent' = [sent EXCEPT ![q] = u \o c]
        BY <2>1, <3>2
      <4>2. Shown([kind |-> "token", text |-> c]) = [kind |-> "token", text |-> c]
        BY DEF Shown
      <4>3. StreamEvents' = [StreamEvents EXCEPT ![q] = Append(@, [kind |-> "token", text |-> c])]
        BY <1>1, <3>1, <4>1, <4>2, ShownEmit
      <4> QED BY <3>1, <4>1, <4>3
    <3>3. CASE ~(Len(c) >= BufferSize)
      BY <3>1, <3>3, <3>5, <2>1, <1>3, SizeAssumption
    <3> QED BY <3>2, <3>3
  <2> QED BY <2>1, <2>4, <2>5
          DEF Stream!Grow, Stream!Emit, StreamState, StreamEvents, StageOf, ShownAll, Shown
<1>10. ASSUME NEW q \in Question, ProviderDone(q) PROVE Stream!Close(q)
  <2> DEFINE t == SubSeq(full[q], before[q] + 1, Len(full[q]))
  <2>1. StreamState[q] = "open"
    BY <1>4, <1>10, StageValues DEF ProviderDone
  <2>2. StreamState' = [StreamState EXCEPT ![q] = "closing"]
    BY <1>1, <1>10, StageMoves, StageValues DEF ProviderDone
  <2>3. StreamEvents' = [StreamEvents EXCEPT ![q] = Append(@, [kind |-> "done", text |-> <<>>])]
    <3>1. Emit(q, "done", t) /\ t \in Text
      BY <1>10, DoneText DEF ProviderDone
    <3> HIDE DEF t
    <3>2. Shown([kind |-> "done", text |-> t]) = [kind |-> "done", text |-> <<>>]
      BY DEF Shown
    <3> QED BY <1>1, <3>1, <3>2, ShownEmit
  <2>4. UNCHANGED <<full, sent>>
    BY <1>10 DEF ProviderDone, streamVars
  <2> QED BY <2>1, <2>2, <2>3, <2>4
          DEF Stream!Close, Stream!Goto, Stream!Emit, StreamState, StreamEvents, StageOf,
              ShownAll, Shown
<1>11. ASSUME NEW q \in Question, Finish(q) PROVE Stream!End(q)
  <2>1. StreamState[q] = "closing"
    BY <1>4, <1>11, StageValues DEF Finish
  <2>2. StreamState' = [StreamState EXCEPT ![q] = "done"]
    BY <1>1, <1>11, StageMoves, StageValues DEF Finish, Ended
  <2>3. StreamEvents' = [StreamEvents EXCEPT ![q] = Append(@, [kind |-> "done", text |-> <<>>])]
    <3>1. Emit(q, "done", reply[q]) /\ reply[q] \in Text
      BY <1>1, <1>11 DEF Finish, TypeOK
    <3>2. Shown([kind |-> "done", text |-> reply[q]]) = [kind |-> "done", text |-> <<>>]
      BY DEF Shown
    <3> QED BY <1>1, <3>1, <3>2, ShownEmit
  <2>4. UNCHANGED <<full, sent>>
    BY <1>11 DEF Finish, streamVars
  <2> QED BY <2>1, <2>2, <2>3, <2>4
          DEF Stream!End, Stream!Goto, Stream!Emit, StreamState, StreamEvents, StageOf,
              ShownAll, Shown
<1>12. ASSUME NEW q \in Question, Fail(q) PROVE Stream!Break(q)
  <2>1. StreamState[q] \in {"open", "closing"}
    BY <1>4, <1>12, StageValues DEF Fail, Open
  <2>2. StreamState' = [StreamState EXCEPT ![q] = "failed"]
    BY <1>1, <1>12, StageMoves, StageValues DEF Fail, Ended
  <2>3. StreamEvents' = [StreamEvents EXCEPT ![q] = Append(@, [kind |-> "error", text |-> <<>>])]
    <3>1. Emit(q, "error", <<>>) /\ <<>> \in Text
      BY <1>12 DEF Fail, Text
    <3>2. Shown([kind |-> "error", text |-> <<>>]) = [kind |-> "error", text |-> <<>>]
      BY DEF Shown
    <3> QED BY <1>1, <3>1, <3>2, ShownEmit
  <2>4. UNCHANGED <<full, sent>>
    BY <1>12 DEF Fail, streamVars
  <2> QED BY <2>1, <2>2, <2>3, <2>4
          DEF Stream!Break, Stream!Goto, Stream!Emit, StreamState, StreamEvents, StageOf,
              ShownAll, Shown
<1>13. ASSUME NEW q \in Question, Cancel(q) PROVE Stream!Leave(q)
  <2>1. StreamState[q] \in {"open", "closing"}
    BY <1>4, <1>13, StageValues DEF Cancel, Open
  <2>2. StreamState' = [StreamState EXCEPT ![q] = "cancelled"]
    BY <1>1, <1>13, StageMoves, StageValues DEF Cancel, Ended
  <2>3. UNCHANGED <<full, sent, StreamEvents>>
    BY <1>3, <1>13 DEF Cancel, streamVars
  <2> QED BY <2>1, <2>2, <2>3
          DEF Stream!Leave, Stream!Goto, StreamState, StreamEvents, StageOf, ShownAll, Shown
<1>14. ASSUME NEW s \in Session, Clear(s) PROVE Same
  BY <1>3, <1>14 DEF Clear, streamVars, StreamState
<1>15. UNCHANGED vars => Same
  BY <1>3 DEF vars, streamVars, StreamState
<1> HIDE DEF Same
<1>16. CASE \E q \in Question : Run(q)
  BY <1>16, <1>2, <1>7, <1>8, <1>9, <1>10, <1>11, <1>12 DEF Run, Stream!StreamNext, Stream!Flow
<1> QED BY <1>2, <1>6, <1>13, <1>14, <1>15, <1>16 DEF Next, Stream!StreamNext

(* What the caller of chat_stream sees is AnswerStream's promise: no token  *)
(* of an answer is lost, repeated or put out of order, through the          *)
(* sanitizer's buffer and from one provider to the next.                    *)
THEOREM StreamImplemented == Spec => ImplementsStream
<1>1. Init => Stream!StreamInit
  BY DEF Init, Stream!StreamInit, Open
<1>2. ChatInv /\ [Next]_vars => [Stream!StreamNext]_(Stream!streams)
  BY NextStream
<1> QED BY <1>1, <1>2, ChatInvariant, PTL DEF Spec, ImplementsStream, Stream!StreamSpec
=============================================================================
