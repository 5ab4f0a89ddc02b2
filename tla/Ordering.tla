------------------------------ MODULE Ordering ------------------------------
(* Python's sorted(..., reverse=True) and [x for x in ... if ...]: stable, by *)
(* the places of a sequence.  SortSeq and SelectSeq have no definition a      *)
(* prover can expand, so the order is defined here by counting.               *)
EXTENDS Integers, Sequences, FiniteSets

\* The places of I, those with the greatest key first and those with one key
\* in the order they have.
Precedes(i, j, key) == key[i] > key[j] \/ (key[i] = key[j] /\ i < j)
Arrange(I, key) ==
  [k \in 1..Cardinality(I) |->
     CHOOSE i \in I : Cardinality({j \in I : Precedes(j, i, key)}) = k - 1]

\* key[i] is the key of the i-th.
SortedBy(s, key) ==
  LET at == Arrange(DOMAIN s, key)
  IN [k \in DOMAIN at |-> s[at[k]]]

\* What s has at the places of I.
Picked(s, I) ==
  LET at == Arrange(I, [i \in I |-> 0])
  IN [k \in DOMAIN at |-> s[at[k]]]
=============================================================================
