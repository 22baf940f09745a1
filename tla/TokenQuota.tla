------------------------------ MODULE TokenQuota ------------------------------
(***************************************************************************)
(* The prompt and its price: what is left of a prompt that is too long for *)
(* the context window, and the two counts of a user's tokens, which are    *)
(* checked before the model is called and raised when it has answered.     *)
(***************************************************************************)
EXTENDS Requests, SequencesExt

CONSTANTS
  Size,          \* tokens of a question
  History,       \* the sizes of the messages that a session may hold
  MaxPrompt,     \* context_window - max_tokens
  Estimate,      \* estimated_output
  Output,        \* tokens of an answer
  MinuteBudget,  \* MINUTE_TOKEN_BUDGET
  DailyBudget    \* DAILY_TOKEN_BUDGET

ASSUME QuotaAssumption ==
  /\ Size \cup Output \subseteq Nat \ {0}
  /\ History \subseteq Seq(Nat)
  /\ {MaxPrompt, Estimate, MinuteBudget, DailyBudget} \subseteq Nat

VARIABLES
  minuteUsed,  \* token_rate, of each minute
  dailyUsed    \* token_quota, of one day

quotaVars == <<minuteUsed, dailyUsed>>

-----------------------------------------------------------------------------
(* The prompt                                                               *)

\* A prompt is the sizes of its messages; the four tokens that count_messages
\* adds to each are part of them, the two that it adds to all are not.
CountMessages(m) == 2 + FoldSeq(LAMBDA a, b : a + b, 0, m)

\* Mutant: the newest messages are dropped.
TruncateNewest(m, max, protected) ==
  LET Kept(n) == SubSeq(m, 1, Len(m) - n)
      enough  == {n \in 0..(Len(m) - protected) : CountMessages(Kept(n)) <= max}
  IN IF enough = {} THEN SubSeq(m, 1, protected)
     ELSE Kept(CHOOSE n \in enough : \A k \in enough : n <= k)

\* truncate_messages: the oldest of those that are not protected are dropped
\* until the rest fits, or all of them, with the question.
Truncate(m, max, protected) ==
  LET Kept(n) == SubSeq(m, 1, protected) \o SubSeq(m, protected + n + 1, Len(m))
      enough  == {n \in 0..(Len(m) - protected) : CountMessages(Kept(n)) <= max}
  IN IF enough = {} THEN SubSeq(m, 1, protected)
     ELSE Kept(CHOOSE n \in enough : \A k \in enough : n <= k)

\* The system's prompt, the context when there are sources, the history and the
\* rewritten question.
Compose(r) ==
  /\ At(r, "prompt")
  /\ \E h \in History, s \in Size :
       req' = [req EXCEPT ![r].pc = "minute", ![r].asked = s, ![r].prompt =
                 <<1>> \o (IF req[r].docs = {} THEN <<>> ELSE <<1>>) \o h \o <<s>>]
  /\ UNCHANGED quotaVars

\* Mutant: only what was used before is compared with the budget.
CheckMinuteUsed(r) ==
  /\ At(r, "minute")
  /\ MoveTo(r, IF minuteUsed[window] >= MinuteBudget THEN "failed" ELSE "daily")
  /\ UNCHANGED quotaVars

\* check_only: what was used and what the prompt and its answer may cost.
CheckMinute(r) ==
  /\ At(r, "minute")
  /\ MoveTo(r, IF minuteUsed[window] + CountMessages(req[r].prompt) + Estimate >= MinuteBudget
               THEN "failed" ELSE "daily")
  /\ UNCHANGED quotaVars

\* And the day's; then the prompt is cut, if it must be.  Without sources the
\* name context was never bound, and the comparison raises.
CheckDaily(r) ==
  LET n == CountMessages(req[r].prompt) IN
  /\ At(r, "daily")
  /\ IF dailyUsed + n + Estimate >= DailyBudget \/ (n > MaxPrompt /\ req[r].docs = {})
     THEN MoveTo(r, "failed")
     ELSE req' = [req EXCEPT ![r].pc = "stream", ![r].tokens = n,
                    ![r].prompt = IF n > MaxPrompt THEN Truncate(@, MaxPrompt, 2) ELSE @]
  /\ UNCHANGED quotaVars

-----------------------------------------------------------------------------
(* The price                                                                *)

\* The model has answered and the answer is stored; it is charged with the
\* tokens of the prompt as it was before it was cut.
Answer(r) ==
  /\ At(r, "stream")
  /\ \E o \in Output :
       req' = [req EXCEPT ![r].pc = "charge", ![r].tokens = @ + o,
                          ![r].long = o > Estimate]
  /\ UNCHANGED quotaVars

\* No provider answers: nothing is charged.
NoAnswer(r) ==
  /\ At(r, "stream")
  /\ MoveTo(r, "failed")
  /\ UNCHANGED quotaVars

\* check_and_consume: an answer that brings the minute's count to the budget is
\* not counted for the day, and its caller is told of an error.
ChargeMinute(r) ==
  LET n == minuteUsed[window] + req[r].tokens IN
  /\ At(r, "charge")
  /\ minuteUsed' = [minuteUsed EXCEPT ![window] = n]
  /\ MoveTo(r, IF n >= MinuteBudget THEN "overdrawn" ELSE "chargeDaily")
  /\ UNCHANGED dailyUsed

ChargeDaily(r) ==
  LET n == dailyUsed + req[r].tokens IN
  /\ At(r, "chargeDaily")
  /\ dailyUsed' = n
  /\ MoveTo(r, IF n >= DailyBudget THEN "overdrawn" ELSE "done")
  /\ UNCHANGED minuteUsed

-----------------------------------------------------------------------------
QuotaStep(r) ==
  \/ Compose(r) \/ CheckMinute(r) \/ CheckDaily(r)
  \/ Answer(r) \/ NoAnswer(r) \/ ChargeMinute(r) \/ ChargeDaily(r)
=============================================================================
