----------------------------- MODULE Retrieval ------------------------------
(* knowledge/retrieval.py: the two legs of a search fused by reciprocal      *)
(* rank, reranked where the provider answers, and cut to the first k.  A leg *)
(* is the sequence of chunks the database returned, best first; the SQL that *)
(* ranks them is not modelled.                                               *)
EXTENDS Ordering, SequencesExt

CONSTANTS RrfK,          \* RRF_K
          FetchPerSide,  \* the longest a leg may be
          TopK,          \* how many chunks a search returns
          Unavailable,   \* the provider call of a leg raised
          Unscored       \* the reranker gave this place no score

ASSUME RetrievalAssumption ==
  RrfK \in Nat /\ FetchPerSide \in Nat \ {0} /\ TopK \in Nat \ {0}

-----------------------------------------------------------------------------
\* 1 / (RRF_K + rank), as an integer over a common denominator.
Denominator == FoldLeft(LAMBDA p, rank : p * (RrfK + rank), 1, [r \in 1..FetchPerSide |-> r])
Share(rank) == Denominator \div (RrfK + rank)

Rank(hits, chunk) == CHOOSE r \in DOMAIN hits : hits[r] = chunk
Part(hits, chunk) ==
  IF chunk \in ToSet(hits) THEN Share(Rank(hits, chunk)) ELSE 0

\* _rrf_fuse
Fuse(vector, fts) ==
  LET found == vector \o Picked(fts, {r \in DOMAIN fts : fts[r] \notin ToSet(vector)})
  IN SortedBy(found, [i \in DOMAIN found |-> Part(vector, found[i]) + Part(fts, found[i])])

-----------------------------------------------------------------------------
(* _search.  The reranker answers with a score for some places of the fused  *)
(* list; a place without one counts as 0.  It is not asked about one chunk.  *)
ScoreOf(scores, place) == IF scores[place] = Unscored THEN 0 ELSE scores[place]

\* Mutant: the reranker's places taken to begin at one.
Rerank_OffByOne(fused, scores) ==
  SortedBy(fused, [i \in DOMAIN fused |-> IF i = Len(fused) THEN 0 ELSE ScoreOf(scores, i + 1)])
Rerank(fused, scores) ==
  SortedBy(fused, [i \in DOMAIN fused |-> ScoreOf(scores, i)])

Take(s, n) == SubSeq(s, 1, IF Len(s) < n THEN Len(s) ELSE n)

\* [chunks: what is returned, degradation: the flag the caller is shown]
Search(vector, fts, scores) ==
  LET hits   == IF vector = Unavailable THEN <<>> ELSE vector
      fused  == Take(Fuse(hits, fts), FetchPerSide * 3)
      asked  == Len(fused) > 1
      ranked == IF asked /\ scores # Unavailable THEN Rerank(fused, scores) ELSE fused
  IN [chunks      |-> Take(ranked, TopK),
      degradation |-> IF vector = Unavailable THEN "embedding_unavailable"
                      ELSE IF asked /\ scores = Unavailable THEN "rerank_unavailable"
                      ELSE "none"]
=============================================================================
