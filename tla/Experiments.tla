----------------------------- MODULE Experiments -----------------------------
(***************************************************************************)
(* The ratings of answers and what GET /experiments/stats makes of them,   *)
(* while experiments come and go.  Which experiment a user falls into is   *)
(* in Retrieval; a rating names the experiment that the caller says.       *)
(***************************************************************************)
EXTENDS Requests

CONSTANTS
  Experiment,  \* experiments.id
  Message,     \* (session_id, message_index), of one user
  Control      \* no experiment

ASSUME ControlAssumption == Control \notin Experiment

VARIABLES
  rows,     \* the experiments there are
  ratings,  \* the feedback table: message -> experiment_id, for what is rated
  report    \* what each call of get_experiment_stats has read

ratingVars == <<rows, ratings, report>>

NoReport == [before |-> {}, parts |-> <<>>, freed |-> {}]

Reading(r) == At(r, "control")

-----------------------------------------------------------------------------
\* create_experiment, under a new id.
Create(r, e) ==
  /\ At(r, "review")
  /\ e \notin rows
  /\ rows' = rows \cup {e}
  /\ MoveTo(r, "done")
  /\ UNCHANGED <<ratings, report>>

\* delete_experiment: session.get finds the row, or the answer is 404.
FindRow(r, e) ==
  /\ At(r, "review")
  /\ e \in rows
  /\ req' = [req EXCEPT ![r].pc = "delete", ![r].token = e]
  /\ UNCHANGED ratingVars

\* The commit, which sets the experiment of its ratings to NULL; a row that is
\* gone by then is no error.
Delete(r) ==
  LET e     == req[r].token
      freed == {m \in DOMAIN ratings : ratings[m] = e}
  IN
  /\ At(r, "delete")
  /\ MoveTo(r, "done")
  /\ rows' = rows \ {e}
  /\ ratings' = [m \in DOMAIN ratings |-> IF m \in freed THEN Control ELSE ratings[m]]
  /\ report' = [q \in Request |->
                  IF Reading(q) THEN [report[q] EXCEPT !.freed = @ \cup freed] ELSE report[q]]

\* submit_feedback; the table has one rating for a message, and experiments that
\* exist.
Rate(r, m, e) ==
  /\ At(r, "review")
  /\ m \notin DOMAIN ratings
  /\ e \in rows \cup {Control}
  /\ ratings' = [x \in DOMAIN ratings \cup {m} |-> IF x = m THEN e ELSE ratings[x]]
  /\ MoveTo(r, "done")
  /\ UNCHANGED <<rows, report>>

RateRaises(r, m, e) ==
  /\ At(r, "review")
  /\ m \in DOMAIN ratings \/ e \notin rows \cup {Control}
  /\ MoveTo(r, "failed")
  /\ UNCHANGED ratingVars

-----------------------------------------------------------------------------
(* get_experiment_stats                                                     *)

\* Mutant: the control group is counted before the experiments.
PartReversed(i) == {m \in DOMAIN ratings : IF i = 2 THEN ratings[m] # Control ELSE ratings[m] = Control}

\* Its two queries, of which each sees what is committed when it runs.
Part(i) == {m \in DOMAIN ratings : IF i = 1 THEN ratings[m] # Control ELSE ratings[m] = Control}

CountExperiments(r) ==
  /\ At(r, "review")
  /\ report' = [report EXCEPT ![r] =
                  [NoReport EXCEPT !.before = DOMAIN ratings, !.parts = <<Part(1)>>]]
  /\ MoveTo(r, "control")
  /\ UNCHANGED <<rows, ratings>>

CountControl(r) ==
  /\ Reading(r)
  /\ report' = [report EXCEPT ![r].parts = Append(@, Part(2))]
  /\ MoveTo(r, "reported")
  /\ UNCHANGED <<rows, ratings>>

-----------------------------------------------------------------------------
RatingStep(r) ==
  \/ \E e \in Experiment : Create(r, e) \/ FindRow(r, e)
  \/ \E m \in Message, e \in Experiment \cup {Control} : Rate(r, m, e) \/ RateRaises(r, m, e)
  \/ Delete(r)
  \/ CountExperiments(r) \/ CountControl(r)
=============================================================================
