------------------------------ MODULE Coverage ------------------------------
(* services/coverage.py and the places of InterviewService that call it:     *)
(* which competencies a session has asked about, which one the next question *)
(* is to be about, and which requirements of the role are still open.        *)
(* A name is a record: the same word may be written in another case.  Of the *)
(* five lists of the coverage state only "competencies" is ever read again,  *)
(* so the coverage here is that list.                                        *)
EXTENDS Ordering, SequencesExt

CONSTANTS Words,      \* words a competency may be named by
          Unnamed,    \* no name: None in the code
          NoReasoning \* an evaluation without the interviewer's reasoning

Names   == [word : Words, lower : BOOLEAN]
General == [word |-> "general", lower |-> TRUE]
ASSUME NamesAssumption == Unnamed \notin Names /\ "general" \in Words

Lower(n) == [n EXCEPT !.lower = TRUE]

NewCoverage == <<>>
MarkAsked(coverage, name) ==
  IF name \in ToSet(coverage) \cup {Unnamed} THEN coverage ELSE Append(coverage, name)

-----------------------------------------------------------------------------
(* focus_competency.  The generator is seeded with the session's id anew for *)
(* every question: randrange(0, n) is one place for each n, draw[n].         *)
Draws(most) == {draw \in [1..most -> 0..(most - 1)] : \A n \in 1..most : draw[n] < n}

\* Mutant: every competency is drawn from at every question.
Pool_All(coverage, competencies) == competencies

Pool(coverage, competencies) ==
  LET uncovered == Picked(competencies, {i \in DOMAIN competencies : competencies[i] \notin ToSet(coverage)})
  IN IF uncovered = <<>> THEN competencies ELSE uncovered

FocusCompetency(coverage, competencies, draw, topic) ==
  LET pool == Pool(coverage, competencies)
  IN IF competencies = <<>> THEN Unnamed
     ELSE IF topic \in ToSet(competencies) THEN topic
     ELSE pool[draw[Len(pool)] + 1]

-----------------------------------------------------------------------------
(* compute_gaps: the requirements nothing speaks for, without regard to      *)
(* case, and after them what the interviewer's reasoning found missing.      *)
\* What the snapshot knows: the words of the resume, the evidence and the JD.
Known(snapshot) == snapshot.resume \cup snapshot.evidence \cup snapshot.jd

\* Mutant: names compared as they are written.
ComputeGaps_AsWritten(snapshot, coverage, reasoned) ==
  LET required == snapshot.required
      open == Picked(required, {i \in DOMAIN required :
                                  /\ required[i] \notin ToSet(coverage)
                                  /\ required[i].word \notin Known(snapshot)})
  IN open \o reasoned

ComputeGaps(snapshot, coverage, reasoned) ==
  LET asked    == {Lower(c) : c \in ToSet(coverage)}
      required == snapshot.required
      open     == Picked(required, {i \in DOMAIN required :
                                      /\ Lower(required[i]) \notin asked
                                      /\ required[i].word \notin Known(snapshot)})
  IN FoldLeft(LAMBDA gaps, g : IF g \in ToSet(gaps) THEN gaps ELSE Append(gaps, g),
              open, reasoned)

-----------------------------------------------------------------------------
(* Questions and evaluations of one session.  They are requests of their     *)
(* own: an answer may be evaluated in the background while the session goes  *)
(* on, after a later one, or never.  A question is its number, and           *)
(* "questions" what each of them is about, as its row keeps it.              *)
FreshSession ==
  [coverage |-> NewCoverage, questions |-> <<>>, directives |-> <<>>, gaps |-> <<>>]

\* Mutant: only the evaluation that came last leaves a directive.
Directed_Last(directives, question, topic) == [q \in {question} |-> topic]

\* The directives of the session, by question.
Directed(directives, question, topic) ==
  [q \in {question} \cup DOMAIN directives |-> IF q = question THEN topic ELSE directives[q]]

\* The newest question that has a directive decides, whenever it was evaluated.
LatestTopic(directives) ==
  IF DOMAIN directives = {} THEN Unnamed ELSE directives[Max(DOMAIN directives)]

\* What a question is about that names no competency itself.
Focus(session, snapshot, draw) ==
  LET focus == FocusCompetency(session.coverage, snapshot.competencies, draw,
                               LatestTopic(session.directives))
  IN IF focus = Unnamed THEN General ELSE focus

Ask(session, target, snapshot, draw) ==
  LET about == IF target = Unnamed THEN Focus(session, snapshot, draw) ELSE target
  IN [session EXCEPT !.questions = Append(@, about), !.coverage = MarkAsked(@, about)]

\* An evaluation may come without the interviewer's reasoning: the directives
\* stay as they were, the gaps are computed anew in any case.
Detected(reasoning) == IF reasoning = NoReasoning THEN <<>> ELSE reasoning.gaps

Evaluate(session, question, reasoning, snapshot) ==
  [session EXCEPT
     !.directives = IF reasoning = NoReasoning THEN @
                    ELSE Directed(@, question, reasoning.topic),
     !.gaps = ComputeGaps(snapshot, session.coverage, Detected(reasoning))]

Happens(session, event, snapshot, draw) ==
  IF event.kind = "ask" THEN Ask(session, event.target, snapshot, draw)
  ELSE Evaluate(session, event.question, event.reasoning, snapshot)

Session(events, snapshot, draw) ==
  FoldLeft(LAMBDA s, e : Happens(s, e, snapshot, draw), FreshSession, events)
=============================================================================
