----------------------------- MODULE Readiness ------------------------------
(* services/readiness.py and services/preparation.py in exact arithmetic:    *)
(* strengths, status weights and evaluation scores are tenths, coverage is   *)
(* thousandths, a score (0..10) hundredths.  The decay of old evaluations is *)
(* left out: all of them carry the same weight.                              *)
EXTENDS Ordering, SequencesExt

\* Python's round: to the nearest, a tie to the even one.
Round(a, b) ==
  LET q == a \div b
      r == a % b
  IN IF 2 * r < b \/ (2 * r = b /\ q % 2 = 0) THEN q ELSE q + 1

Most(a, b)  == IF a > b THEN a ELSE b
Least(a, b) == IF a < b THEN a ELSE b
SumOf(terms) == FoldLeft(LAMBDA sum, x : sum + x, 0, terms)

-----------------------------------------------------------------------------
(* The evidence for one competency: how much of it there is, how strong.     *)
StatusWeight ==
  [demonstrated |-> 10, observed |-> 7, inferred |-> 5, claimed |-> 4, unknown |-> 0]

Weights(evidence) == [i \in DOMAIN evidence |-> StatusWeight[evidence[i].status]]
TotalWeight(evidence) == SumOf(Weights(evidence))

EvidenceCoverage(evidence) ==
  IF evidence = <<>> THEN 0
  ELSE Least(1000, Round(400 * TotalWeight(evidence), Most(4, 3 * Len(evidence))))

EvidenceStrength(evidence) ==
  IF TotalWeight(evidence) = 0 THEN 0
  ELSE Round(100 * SumOf([i \in DOMAIN evidence |->
                            Weights(evidence)[i] * evidence[i].strength]),
             TotalWeight(evidence))

EvaluationScore(evaluations) ==
  IF evaluations = <<>> THEN 0
  ELSE Round(10 * SumOf(evaluations), Len(evaluations))

-----------------------------------------------------------------------------
(* compute_readiness, for one competency.                                    *)
CapCoverage == 300
CapScore    == 400

\* Mutant: the comparison the wrong way round.
Capped_Inverted(score, coverage) ==
  IF coverage > CapCoverage THEN Least(score, CapScore) ELSE score

Capped(score, coverage) ==
  IF coverage < CapCoverage THEN Least(score, CapScore) ELSE score

Assess(evidence, evaluations) ==
  LET coverage  == EvidenceCoverage(evidence)
      strength  == EvidenceStrength(evidence)
      evaluated == EvaluationScore(evaluations)
      blended   == IF evaluated > 0 THEN Round(6 * evaluated + 4 * strength, 10)
                   ELSE strength
      score     == Least(1000, Capped(blended, coverage))
  IN [coverage |-> coverage,
      score    |-> score,
      level    |-> Most(1, Least(5, Round(score, 200)))]

\* Required competencies below their level, the largest gap first.
CriticalGaps(competencies, level) ==
  LET below == Picked(competencies, {i \in DOMAIN competencies :
                                       /\ competencies[i].importance = "required"
                                       /\ level[competencies[i].id] < competencies[i].level})
      gap(c) == [id |-> c.id, gap |-> c.level - level[c.id]]
      gaps == [i \in DOMAIN below |-> gap(below[i])]
  IN SortedBy(gaps, [i \in DOMAIN gaps |-> gaps[i].gap])

-----------------------------------------------------------------------------
(* plan_preparation: what to practise, the most pressing first.              *)
\* Mutant: a level counts no more than the bonus for weak evidence.
Priority_Light(g, weak, recent) ==
  Least(100, 30 * g.gap + (IF g.id \in weak THEN 30 ELSE 0)
                        + (IF g.id \in recent THEN 0 ELSE 20))

Priority(g, weak, recent) ==
  Least(100, 50 * g.gap + (IF g.id \in weak THEN 30 ELSE 0)
                        + (IF g.id \in recent THEN 0 ELSE 20))

PlanPreparation(gaps, weak, recent) ==
  LET sorted == SortedBy(gaps, [i \in DOMAIN gaps |-> gaps[i].gap])
      item(g) == [id       |-> g.id,
                  gap      |-> g.gap,
                  priority |-> Priority(g, weak, recent),
                  minutes  |-> IF g.gap >= 2 THEN 25 ELSE 15]
      items == [i \in DOMAIN sorted |-> item(sorted[i])]
  IN SortedBy(items, [i \in DOMAIN items |-> items[i].priority])
=============================================================================
