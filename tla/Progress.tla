------------------------------ MODULE Progress ------------------------------
(* services/progress.py and the ProgressService of services/analytics.py:    *)
(* which evaluations a profile's progress is made of, and the summary.  The  *)
(* tables are sequences, the place of a row is its id.                       *)
EXTENDS Ordering, SequencesExt

CONSTANTS Profiles,
          NoTrend    \* None: a series of one point has no trend

\* Every profile has one session.  A question belongs to a session, an answer
\* to a question; every answer of these tables has been evaluated.
NoRows == [questions |-> <<>>, answers |-> <<>>]

AddQuestion(rows, profile) == [rows EXCEPT !.questions = Append(@, profile)]
AddAnswer(rows, question)  == [rows EXCEPT !.answers = Append(@, question)]

QuestionIds(rows, profile) ==
  {q \in DOMAIN rows.questions : rows.questions[q] = profile}

\* select(Evaluation).where(Evaluation.answer_id.in_(q_ids))
SelectedEvaluations(rows, profile) ==
  {a \in DOMAIN rows.answers : a \in QuestionIds(rows, profile)}

OwnEvaluations(rows, profile) ==
  {a \in DOMAIN rows.answers : rows.answers[a] \in QuestionIds(rows, profile)}

-----------------------------------------------------------------------------
(* aggregate_progress: one series for each competency, in the order the      *)
(* evaluations were made, its last score and the way it has come.            *)
Own(points, competency) ==
  Picked(points, {i \in DOMAIN points : points[i].competency = competency})
OldestFirst(points) == SortedBy(points, [i \in DOMAIN points |-> -points[i].at])

SeriesOf(points, competency) ==
  LET own     == Own(points, competency)
      ordered == OldestFirst(own)
  IN [points |-> ordered,
      latest |-> Last(ordered).overall,
      trend  |-> IF Len(ordered) > 1 THEN Last(ordered).overall - Head(ordered).overall
                 ELSE NoTrend]

Competencies(points) == {points[i].competency : i \in DOMAIN points}

Aggregate(points) ==
  [series  |-> [c \in Competencies(points) |-> SeriesOf(points, c)],
   total   |-> Len(points),
   sum     |-> FoldLeft(LAMBDA sum, p : sum + p.overall, 0, points)]
=============================================================================
