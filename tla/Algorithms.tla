----------------------------- MODULE Algorithms -----------------------------
(* The pure parts of the backend over every input up to a bound: the input   *)
(* of one of them is built one element at a time, as a stream, a document or *)
(* a session grows, and what the code computes from it is judged after every *)
(* element.                                                                  *)
EXTENDS SpeechText, Chunking, Retrieval, Coverage, Readiness, Progress

CONSTANTS MaxText,        \* characters of a streamed question
          MaxParagraphs,  \* paragraphs of a document
          Hits,           \* chunks a search may find
          MaxEvents,      \* questions and evaluations of a session
          MaxEvidence,    \* evidence records of a competency, gaps of a plan
          MaxRows         \* rows of the progress tables, points of a series

ASSUME HitsAssumption == Unavailable \notin Seq(Hits)

VARIABLES subject, input
vars == <<subject, input>>

Subjects ==
  {"speech", "document", "search", "session", "evidence", "plan", "rows", "series"}

Init == subject \in Subjects /\ input = <<>>

Grow(of, most, element) ==
  /\ subject = of
  /\ Len(input) < most
  /\ input' = Append(input, element)
  /\ UNCHANGED subject

-----------------------------------------------------------------------------
(* A question is streamed and spoken.                                        *)
Characters == {Header, "CATEGORY:", "w", ".", " ", "\n"}
StreamCharacter == \E ch \in Characters : Grow("speech", MaxText, ch)

\* The lines of a question begin at the margin.
Indented ==
  \E i \in DOMAIN input :
    /\ input[i] = Header
    /\ \E j \in 1..(i - 1) :
         /\ \A k \in j..(i - 1) : input[k] = " "
         /\ j = 1 \/ input[j - 1] = "\n"

\* What the candidate hears is the question that is stored, whole and without
\* a word of metadata, and nothing is heard when the output is rejected: the
\* extractor (voice/segmenter.py) and the parser (generation.py) read the same
\* text with two tables of keys, and nothing is lost between the cuts.
SpokenIsStored ==
  subject = "speech" /\ ~Indented =>
    Visible(Spoken(input)) = Visible(Parse(input).text)

-----------------------------------------------------------------------------
(* A document is parsed into paragraphs and indexed.                         *)
Paragraphs == {<<1>>, <<2>>, <<7>>, <<4, 1>>, <<9>>, <<3, 3, 3>>, <<5, 9, 1>>}
AddParagraph == \E p \in Paragraphs : Grow("document", MaxParagraphs, p)

Document ==
  [p \in DOMAIN input |-> [w \in DOMAIN input[p] |-> [at |-> <<p, w>>, len |-> input[p][w]]]]

FirstTimes(words) ==
  FoldLeft(LAMBDA seen, w : IF w \in ToSet(seen) THEN seen ELSE Append(seen, w),
           <<>>, words)

\* Every word of a document is in some chunk, and read from the first chunk to
\* the last the words come up first in the order of the document: chunk_text
\* loses nothing at a flush, a split or the end.
EveryWordIsIndexed ==
  subject = "document" =>
    FirstTimes(FlattenSeq(FlattenSeq(Chunks(Document)))) = FlattenSeq(Document)

-----------------------------------------------------------------------------
(* A query is searched: the hits of the vector leg, then those of the text   *)
(* leg.                                                                      *)
LegHits(leg) ==
  LET hits == Picked(input, {i \in DOMAIN input : input[i].leg = leg})
  IN [i \in DOMAIN hits |-> hits[i].chunk]

FindChunk ==
  \E leg \in {"vector", "text"}, chunk \in Hits :
    /\ subject = "search"
    /\ Len(LegHits(leg)) < FetchPerSide
    /\ chunk \notin ToSet(LegHits(leg))
    /\ leg = "vector" => LegHits("text") = <<>>
    /\ Grow("search", 2 * FetchPerSide, [leg |-> leg, chunk |-> chunk])

Vector == IF LegHits("vector") = <<>> THEN Unavailable ELSE LegHits("vector")
Fused  == Fuse(LegHits("vector"), LegHits("text"))

Ahead(leg, c, d) ==
  /\ c \in ToSet(LegHits(leg))
  /\ d \in ToSet(LegHits(leg)) => Rank(LegHits(leg), c) < Rank(LegHits(leg), d)
Dominates(c, d) ==
  /\ \A leg \in {"vector", "text"} :
       Ahead(leg, c, d) \/ {c, d} \cap ToSet(LegHits(leg)) = {}
  /\ \E leg \in {"vector", "text"} : Ahead(leg, c, d)

\* A chunk ahead of another in both legs is ahead of it in the result when the
\* reranker does not answer, and when it does no chunk that is left out scored
\* more than one that is returned; nothing comes up twice.
BestComeFirst ==
  subject = "search" =>
    \A scores \in [DOMAIN Fused -> {Unscored, 1, 2}] \cup {Unavailable} :
      LET found == Search(Vector, LegHits("text"), scores).chunks
          left  == ToSet(Fused) \ ToSet(found)
      IN /\ Len(found) = Cardinality(ToSet(found))
         /\ Len(found) = Least(TopK, Len(Fused))
         /\ scores = Unavailable =>
              \A c \in ToSet(Fused), d \in ToSet(found) :
                Dominates(c, d) =>
                  c \in ToSet(found) /\ Rank(found, c) < Rank(found, d)
         /\ scores # Unavailable =>
              \A c \in ToSet(found), d \in left :
                ScoreOf(scores, Rank(Fused, c)) >= ScoreOf(scores, Rank(Fused, d))

-----------------------------------------------------------------------------
(* A session asks one question after another; an answer is evaluated any     *)
(* time after its question, once or never.                                   *)
ASSUME WordsAssumption == {"go", "sql", "ops"} \subseteq Words

Plain(word) == [word |-> word, lower |-> FALSE]
NoRole == [competencies |-> <<>>, required |-> <<>>,
           resume |-> {}, evidence |-> {}, jd |-> {}]
Snapshots ==
  {[competencies |-> <<Plain("go"), Plain("sql"), Plain("ops")>>,
    required     |-> <<Plain("go"), Plain("sql")>>,
    resume |-> {}, evidence |-> evidence, jd |-> jd] :
      evidence \in SUBSET {"sql"}, jd \in {{}, {"go"}}} \cup {NoRole}

Targets == {Unnamed, Lower(Plain("go")), Plain("sql")}
Reasonings ==
  {NoReasoning, [topic |-> Unnamed, gaps |-> <<>>],
   [topic |-> Plain("ops"), gaps |-> <<Plain("sql")>>],
   [topic |-> Lower(Plain("ops")), gaps |-> <<Plain("ops")>>]}

OfKind(kind) == {n \in DOMAIN input : input[n].kind = kind}
Evaluated    == {input[n].question : n \in OfKind("evaluate")}

AskQuestion ==
  \E target \in Targets : Grow("session", MaxEvents, [kind |-> "ask", target |-> target])

EvaluateAnswer ==
  /\ subject = "session"
  /\ \E question \in 1..Cardinality(OfKind("ask")) \ Evaluated, reasoning \in Reasonings :
       Grow("session", MaxEvents,
            [kind |-> "evaluate", question |-> question, reasoning |-> reasoning])

After(n, snapshot, draw) == Session(SubSeq(input, 1, n), snapshot, draw)
Covered(session, competencies) == ToSet(competencies) \cap ToSet(session.coverage)

\* The competencies of the role are gone through: each question left to the
\* focus, with no follow-up topic pending, takes up one more of them until all
\* have been asked about, whatever was asked and evaluated in between and
\* however the seed of the session draws.
RotationCoversAll ==
  subject = "session" =>
    \A snapshot \in Snapshots, draw \in Draws(3) :
      LET comps == snapshot.competencies
          free  == {n \in OfKind("ask") :
                      /\ input[n].target = Unnamed
                      /\ LatestTopic(After(n - 1, snapshot, draw).directives) \notin ToSet(comps)}
      IN Cardinality(Covered(After(Len(input), snapshot, draw), comps))
           >= Least(Len(comps), Cardinality(free))

\* Evaluations that finish out of order do not turn the interview back: the
\* next question left to the focus takes up the topic asked for by the
\* evaluation of the newest question, not by the evaluation that came last,
\* and one without reasoning leaves the topic in force.
NewestTopicLeads ==
  subject = "session" =>
    \A snapshot \in Snapshots, draw \in Draws(3), n \in OfKind("evaluate") :
      LET topic == input[n].reasoning.topic
      IN /\ input[n].reasoning # NoReasoning
         /\ \A m \in OfKind("evaluate") :
              input[m].reasoning # NoReasoning => input[m].question <= input[n].question
         /\ topic \in ToSet(snapshot.competencies)
         => Focus(After(Len(input), snapshot, draw), snapshot, draw) = topic

\* The gaps of a session are those of its last evaluation: what its reasoning
\* names, and every requirement nothing speaks for that no question stored by
\* then was about, in whatever case the model wrote it.  Neither a question
\* after it, which may never be evaluated, nor an earlier evaluation counts.
GapsFollowEvaluations ==
  subject = "session" =>
    \A snapshot \in Snapshots, draw \in Draws(3) :
      LET session == After(Len(input), snapshot, draw)
          last    == Max(OfKind("evaluate"))
          asked   == ToSet(After(last, snapshot, draw).questions)
          open    == {r \in ToSet(snapshot.required) :
                        /\ r.word \notin Known(snapshot)
                        /\ \A q \in asked : Lower(q) # Lower(r)}
      IN IF OfKind("evaluate") = {} THEN session.gaps = <<>>
         ELSE ToSet(session.gaps) = open \cup ToSet(Detected(input[last].reasoning))

-----------------------------------------------------------------------------
(* Evidence is recorded for a competency, and its gaps are planned.          *)
Evidence == [status : DOMAIN StatusWeight, strength : {0, 5, 10}]
Evaluations == {<<>>, <<20>>, <<95>>, <<50, 100>>}
RecordEvidence == \E e \in Evidence : Grow("evidence", MaxEvidence, e)

\* Proof never hurts: one more demonstrated piece of evidence of full strength
\* lowers neither the coverage nor the score nor the level, through the
\* averages, the roundings and the cap of compute_readiness.
ProofNeverHurts ==
  subject = "evidence" =>
    \A evaluations \in Evaluations :
      LET before == Assess(input, evaluations)
          after  == Assess(Append(input, [status |-> "demonstrated", strength |-> 10]),
                           evaluations)
      IN /\ after.coverage >= before.coverage
         /\ after.score >= before.score
         /\ after.level >= before.level

Competency == [importance : {"required", "preferred"}, level : {2, 3, 5}, shown : {1, 3}]
AddCompetency == \E c \in Competency : Grow("plan", MaxEvidence, c)

\* The queue puts a larger gap before a smaller one, and every required
\* competency below its level is in it once: the bonuses for weak evidence and
\* for what was not practised lately only order gaps of one size.
LargestGapsFirst ==
  subject = "plan" =>
    LET comps == [i \in DOMAIN input |-> [id |-> i, level |-> input[i].level,
                                          importance |-> input[i].importance]]
        gaps  == CriticalGaps(comps, [i \in DOMAIN input |-> input[i].shown])
        below == {i \in DOMAIN input : /\ input[i].importance = "required"
                                       /\ input[i].shown < input[i].level}
    IN \A weak, recent \in SUBSET DOMAIN input :
         LET plan == PlanPreparation(gaps, weak, recent)
         IN /\ Len(plan) = Cardinality(below)
            /\ {plan[i].id : i \in DOMAIN plan} = below
            /\ \A i, j \in DOMAIN plan : i < j => plan[i].gap >= plan[j].gap

-----------------------------------------------------------------------------
(* Questions are asked and answered in the sessions of two profiles.         *)
Rows ==
  FoldLeft(LAMBDA rows, r : IF r.table = "question" THEN AddQuestion(rows, r.of)
                            ELSE AddAnswer(rows, r.of),
           NoRows, input)

InsertQuestion ==
  \E profile \in Profiles : Grow("rows", MaxRows, [table |-> "question", of |-> profile])
InsertAnswer ==
  /\ subject = "rows"
  /\ \E q \in DOMAIN Rows.questions :
       Grow("rows", MaxRows, [table |-> "answer", of |-> q])

\* What the repository says of progress, and the code does not do.
ProgressIsOwn ==
  subject = "rows" =>
    \A profile \in Profiles :
      SelectedEvaluations(Rows, profile) \subseteq OwnEvaluations(Rows, profile)

\* Two points are never of one moment.
AddPoint ==
  \E competency \in {"go", "sql"}, at \in 1..MaxRows, overall \in {2, 7} :
    /\ subject = "series"
    /\ \A i \in DOMAIN input : input[i].at # at
    /\ Grow("series", MaxRows, [competency |-> competency, at |-> at, overall |-> overall])

\* The rows come in no particular order (the query has no ORDER BY): the
\* summary of the same points is the same in whatever order they come.
SummaryIsOrderFree ==
  subject = "series" =>
    Aggregate(input) = Aggregate(OldestFirst(input))

-----------------------------------------------------------------------------
Next ==
  \/ StreamCharacter
  \/ AddParagraph
  \/ FindChunk
  \/ AskQuestion \/ EvaluateAnswer
  \/ RecordEvidence
  \/ AddCompetency
  \/ InsertQuestion \/ InsertAnswer
  \/ AddPoint

Spec == Init /\ [][Next]_vars
=============================================================================
