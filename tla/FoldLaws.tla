------------------------------ MODULE FoldLaws ------------------------------
(***************************************************************************)
(* FoldLeft of the community modules, for one operator: the fold of an     *)
(* empty sequence, and of one that has grown by an element.  Op has two    *)
(* arguments more than the operator of a fold, for what a fold in the      *)
(* model takes from around it.                                             *)
(***************************************************************************)
EXTENDS Integers, Sequences

CONSTANT Op(_, _, _, _)

-----------------------------------------------------------------------------
(* Induction over the natural numbers, with a set for the predicate.  An   *)
(* instance copies what its module extends, so this one extends no module  *)
(* of theorems: the one fact it needs of the library is a hypothesis, and  *)
(* LeastNumber of AlgorithmsProofs is that fact.                           *)

WellOrdered == \A N \in SUBSET Nat : N # {} => \E m \in N : \A n \in N : m <= n

LEMMA Climb ==
  ASSUME WellOrdered, NEW P, 0 \in P, NEW N \in Nat,
         \A n \in 0..(N - 1) : n \in P => n + 1 \in P
  PROVE  \A n \in 0..N : n \in P
<1>1. SUFFICES ASSUME {n \in 0..N : n \notin P} # {} PROVE FALSE
  OBVIOUS
<1>2. PICK m \in {n \in 0..N : n \notin P} : \A n \in {k \in 0..N : k \notin P} : m <= n
  <2>. DEFINE Q == {n \in 0..N : n \notin P}
  <2>1. Q \in SUBSET Nat /\ Q # {}
    BY <1>1
  <2>2. \E m \in Q : \A n \in Q : m <= n
    <3>. HIDE DEF Q
    <3>. QED BY <2>1 DEF WellOrdered
  <2>. QED BY <2>2
<1>3. m - 1 \in 0..(N - 1) /\ m - 1 \in P
  BY <1>2
<1>. QED BY <1>3

\* Max of FiniteSetsExt, written out for the same reason.
Greatest(S) == CHOOSE x \in S : \A y \in S : x >= y

\* A set of numbers up to a bound has a greatest one.
LEMMA MaxIsGreatest ==
  ASSUME WellOrdered, NEW n \in Nat, NEW S \in SUBSET (0..n), S # {}
  PROVE  Greatest(S) \in S /\ \A i \in S : i <= Greatest(S)
<1>1. PICK m \in {n - i : i \in S} : \A k \in {n - i : i \in S} : m <= k
  <2>. DEFINE Q == {n - i : i \in S}
  <2>1. Q \in SUBSET Nat /\ Q # {}
    <3>1. \A i \in S : i \in 0..n /\ n - i \in Nat
      OBVIOUS
    <3>. QED BY <3>1
  <2>2. \E m \in Q : \A k \in Q : m <= k
    <3>. HIDE DEF Q
    <3>. QED BY <2>1 DEF WellOrdered
  <2>. QED BY <2>2
<1>2. n - m \in S /\ \A i \in S : n - m >= i
  BY <1>1
<1>3. \E x \in S : \A y \in S : x >= y
  BY <1>2
<1>. QED BY <1>3 DEF Greatest

-----------------------------------------------------------------------------
(* The fold, as the community modules define it once FoldLeft is expanded. *)
Solves(c, d, base, s, g) ==
  g = [t \in SUBSET DOMAIN s |->
         IF t = {} THEN base ELSE Op(c, d, g[t \ {Greatest(t)}], s[Greatest(t)])]
Folded(c, d, base, s) == (CHOOSE g : Solves(c, d, base, s, g))[DOMAIN s]

\* A solution for the first n elements of a sequence.
UpTo(c, d, base, s, n, g) ==
  g = [t \in SUBSET (1..n) |->
         IF t = {} THEN base ELSE Op(c, d, g[t \ {Greatest(t)}], s[Greatest(t)])]

\* The same for the elements at the places t.
SolvedAt(c, d, base, s, g, t) ==
  g[t] = IF t = {} THEN base ELSE Op(c, d, g[t \ {Greatest(t)}], s[Greatest(t)])

LEMMA UpToValues ==
  ASSUME NEW c, NEW d, NEW base, NEW s, NEW n \in Nat, NEW g, UpTo(c, d, base, s, n, g)
  PROVE  \A t \in SUBSET (1..n) : SolvedAt(c, d, base, s, g, t)
BY DEF UpTo, SolvedAt

LEMMA Restricted ==
  ASSUME NEW c, NEW d, NEW base, NEW s, NEW m \in Nat, NEW n \in 0..m,
         NEW g, UpTo(c, d, base, s, m, g), NEW h, h = [t \in SUBSET (1..n) |-> g[t]]
  PROVE  UpTo(c, d, base, s, n, h)
<1>1. ASSUME NEW t \in SUBSET (1..n)
      PROVE  h[t] = IF t = {} THEN base ELSE Op(c, d, h[t \ {Greatest(t)}], s[Greatest(t)])
  <2>1. t \in SUBSET (1..m) /\ t \ {Greatest(t)} \in SUBSET (1..n)
    <3>1. 1..n \subseteq 1..m
      OBVIOUS
    <3>. QED BY <3>1
  <2>2. g[t] = IF t = {} THEN base ELSE Op(c, d, g[t \ {Greatest(t)}], s[Greatest(t)])
    <3>1. SolvedAt(c, d, base, s, g, t)
      BY <2>1, UpToValues
    <3>. QED BY <3>1 DEF SolvedAt
  <2>. QED BY <2>1, <2>2
<1>. QED BY <1>1 DEF UpTo

\* The subsets of 1..k+1: those of 1..k, and those with the greatest element.
LEMMA OneMore ==
  ASSUME WellOrdered, NEW k \in Nat, NEW m, m = k + 1
  PROVE  /\ m \in Nat /\ k \in 0..m
         /\ \A t \in SUBSET (1..m) : m \notin t => t \in SUBSET (1..k)
         /\ \A t \in SUBSET (1..m) : m \in t => Greatest(t) = m /\ t \ {m} \in SUBSET (1..k)
<1>1. m \in Nat /\ k \in 0..m /\ \A i \in 1..m : i # m => i \in 1..k
  OBVIOUS
<1>2. ASSUME NEW t \in SUBSET (1..m), m \in t PROVE Greatest(t) = m
  <2>1. t \in SUBSET (0..m)
    BY <1>1
  <2>2. Greatest(t) \in t /\ \A i \in t : i <= Greatest(t)
    <3>1. t # {}
      BY <1>2
    <3>. QED BY <1>1, <3>1, <2>1, MaxIsGreatest
  <2>3. Greatest(t) \in 1..m /\ m <= Greatest(t)
    BY <1>2, <2>2
  <2>. QED BY <1>1, <2>3
<1>. QED BY <1>1, <1>2

LEMMA OneSolution ==
  ASSUME WellOrdered, NEW c, NEW d, NEW base, NEW s, NEW n \in Nat,
         NEW g, UpTo(c, d, base, s, n, g), NEW h, UpTo(c, d, base, s, n, h)
  PROVE  g = h
<1>. DEFINE P == {k \in Nat : \A x, y : UpTo(c, d, base, s, k, x) /\ UpTo(c, d, base, s, k, y)
                                          => x = y}
<1>1. 0 \in P
  <2>1. SUBSET (1..0) = {{}}
    OBVIOUS
  <2>. QED BY <2>1 DEF UpTo
<1>2. ASSUME NEW k \in 0..(n - 1), k \in P PROVE k + 1 \in P
  <2>. DEFINE m == k + 1
  <2>1. k \in Nat /\ m = k + 1
    OBVIOUS
  <2>. HIDE DEF m
  <2>2. m \in Nat /\ k \in 0..m
    BY <2>1
  <2>3. ASSUME NEW x, UpTo(c, d, base, s, m, x), NEW y, UpTo(c, d, base, s, m, y)
        PROVE  x = y
    <3>. DEFINE x1 == [t \in SUBSET (1..k) |-> x[t]]
                y1 == [t \in SUBSET (1..k) |-> y[t]]
    <3>1. x1 = y1
      <4>1. x1 = [t \in SUBSET (1..k) |-> x[t]] /\ y1 = [t \in SUBSET (1..k) |-> y[t]]
        OBVIOUS
      <4>. HIDE DEF x1, y1
      <4>2. UpTo(c, d, base, s, k, x1) /\ UpTo(c, d, base, s, k, y1)
        BY <2>2, <2>3, <4>1, Restricted
      <4>. QED BY <1>2, <4>2
    <3>2. ASSUME NEW t \in SUBSET (1..k) PROVE x[t] = y[t]
      <4>1. x1[t] = x[t] /\ y1[t] = y[t]
        OBVIOUS
      <4>. HIDE DEF x1, y1
      <4>. QED BY <3>1, <4>1
    <3>. HIDE DEF x1, y1
    <3>3. ASSUME NEW t \in SUBSET (1..m) PROVE x[t] = y[t]
      <4>1. CASE m \notin t
        BY <4>1, <2>1, <3>2, OneMore
      <4>2. CASE m \in t
        <5>1. Greatest(t) = m /\ t \ {m} \in SUBSET (1..k)
          BY <4>2, <2>1, OneMore
        <5>2. x[t] = Op(c, d, x[t \ {m}], s[m]) /\ y[t] = Op(c, d, y[t \ {m}], s[m])
          <6>1. SolvedAt(c, d, base, s, x, t) /\ SolvedAt(c, d, base, s, y, t)
            BY <2>2, <2>3, UpToValues
          <6>. QED BY <6>1, <4>2, <5>1 DEF SolvedAt
        <5>. QED BY <5>1, <5>2, <3>2
      <4>. QED BY <4>1, <4>2
    <3>4. /\ x = [t \in SUBSET (1..m) |-> x[t]]
          /\ y = [t \in SUBSET (1..m) |-> y[t]]
      BY <2>3 DEF UpTo
    <3>. QED BY <3>3, <3>4
  <2>. QED BY <2>1, <2>2, <2>3
<1>3. n \in P
  <2>. HIDE DEF P
  <2>1. \A k \in 0..n : k \in P
    BY <1>1, <1>2, Climb
  <2>. QED BY <2>1
<1>. QED BY <1>3

LEMMA SomeSolution ==
  ASSUME WellOrdered, NEW c, NEW d, NEW base, NEW s, NEW n \in Nat
  PROVE  \E g : UpTo(c, d, base, s, n, g)
<1>. DEFINE P == {k \in Nat : \E g : UpTo(c, d, base, s, k, g)}
<1>1. 0 \in P
  <2>1. SUBSET (1..0) = {{}}
    OBVIOUS
  <2>2. UpTo(c, d, base, s, 0, [t \in {{}} |-> base])
    BY <2>1 DEF UpTo
  <2>. QED BY <2>2
<1>2. ASSUME NEW k \in 0..(n - 1), k \in P PROVE k + 1 \in P
  <2>. DEFINE m == k + 1
  <2>1. k \in Nat /\ m = k + 1
    OBVIOUS
  <2>. HIDE DEF m
  <2>2. m \in Nat
    BY <2>1
  <2>3. PICK g : UpTo(c, d, base, s, k, g)
    BY <1>2
  <2>. DEFINE h == [t \in SUBSET (1..m) |->
                      IF m \in t THEN Op(c, d, g[t \ {m}], s[m]) ELSE g[t]]
  <2>4. ASSUME NEW t \in SUBSET (1..m)
        PROVE  h[t] = IF t = {} THEN base ELSE Op(c, d, h[t \ {Greatest(t)}], s[Greatest(t)])
    <3>1. CASE m \in t
      <4>1. Greatest(t) = m
        BY <3>1, <2>1, OneMore
      <4>2. t \ {m} \in SUBSET (1..m) /\ m \notin t \ {m}
        OBVIOUS
      <4>. QED BY <3>1, <4>1, <4>2
    <3>2. CASE m \notin t
      <4>1. t \in SUBSET (1..k)
        BY <3>2, <2>1, OneMore
      <4>2. t \ {Greatest(t)} \in SUBSET (1..m) /\ m \notin t \ {Greatest(t)}
        BY <3>2
      <4>3. g[t] = IF t = {} THEN base ELSE Op(c, d, g[t \ {Greatest(t)}], s[Greatest(t)])
        <5>1. SolvedAt(c, d, base, s, g, t)
          BY <2>1, <2>3, <4>1, UpToValues
        <5>. QED BY <5>1 DEF SolvedAt
      <4>. QED BY <3>2, <4>2, <4>3
    <3>. QED BY <3>1, <3>2
  <2>5. UpTo(c, d, base, s, m, h)
    BY <2>4 DEF UpTo
  <2>. QED BY <2>1, <2>2, <2>5
<1>3. n \in P
  <2>. HIDE DEF P
  <2>1. \A k \in 0..n : k \in P
    BY <1>1, <1>2, Climb
  <2>. QED BY <2>1
<1>. QED BY <1>3

\* The fold is the value of any solution.
LEMMA FoldedIs ==
  ASSUME WellOrdered, NEW c, NEW d, NEW base, NEW S, NEW s \in Seq(S),
         NEW g, UpTo(c, d, base, s, Len(s), g)
  PROVE  Folded(c, d, base, s) = g[1..Len(s)]
<1>1. DOMAIN s = 1..Len(s) /\ Len(s) \in Nat
  OBVIOUS
<1>2. \A h : Solves(c, d, base, s, h) <=> UpTo(c, d, base, s, Len(s), h)
  BY <1>1 DEF Solves, UpTo
<1>3. Solves(c, d, base, s, CHOOSE h : Solves(c, d, base, s, h))
  BY <1>2
<1>4. (CHOOSE h : Solves(c, d, base, s, h)) = g
  BY <1>1, <1>2, <1>3, OneSolution
<1>. QED BY <1>1, <1>4 DEF Folded

\* The fold of no elements.
THEOREM FoldEmpty ==
  ASSUME WellOrdered
  PROVE  \A c, d, base : Folded(c, d, base, << >>) = base
<1> TAKE c, d, base
<1>. DEFINE s == << >>
<1>1. s \in Seq({}) /\ Len(s) = 0 /\ 1..0 = {}
  OBVIOUS
<1>2. PICK g : UpTo(c, d, base, s, 0, g)
  BY SomeSolution
<1>3. g[{}] = base
  <2>1. SolvedAt(c, d, base, s, g, {})
    BY <1>2, UpToValues
  <2>. QED BY <2>1 DEF SolvedAt
<1>4. Folded(c, d, base, s) = g[1..Len(s)]
  <2>1. UpTo(c, d, base, s, Len(s), g)
    BY <1>1, <1>2
  <2>2. s \in Seq({})
    BY <1>1
  <2>. HIDE DEF s
  <2>. QED BY <2>1, <2>2, FoldedIs
<1>. QED BY <1>1, <1>3, <1>4

\* One element more is one application of the operator more.
THEOREM FoldAppend ==
  ASSUME WellOrdered, NEW c, NEW d, NEW base, NEW S, NEW s \in Seq(S), NEW x \in S
  PROVE  Folded(c, d, base, Append(s, x)) = Op(c, d, Folded(c, d, base, s), x)
<1>. DEFINE n == Len(s)
            m == n + 1
            w == Append(s, x)
<1>1. /\ n \in Nat /\ m = n + 1 /\ w \in Seq(S) /\ Len(w) = m /\ w[m] = x
      /\ \A i \in 1..n : w[i] = s[i]
  OBVIOUS
<1>2. Len(s) = n
  OBVIOUS
<1>. HIDE DEF n, m, w
<1>3. m \in Nat /\ n \in 0..m /\ 1..m \in SUBSET (1..m) /\ 1..m # {} /\ m \in 1..m
  <2>1. m \in Nat /\ n \in 0..m /\ m \in 1..m
    BY <1>1
  <2>. QED BY <2>1
<1>4. PICK g : UpTo(c, d, base, w, m, g)
  BY <1>3, SomeSolution
<1>. DEFINE h == [t \in SUBSET (1..n) |-> g[t]]
<1>5. h = [t \in SUBSET (1..n) |-> g[t]] /\ h[1..n] = g[1..n]
  OBVIOUS
<1>. HIDE DEF h
<1>6. UpTo(c, d, base, w, n, h)
  BY <1>3, <1>4, <1>5, Restricted
<1>7. UpTo(c, d, base, s, n, h)
  <2>1. ASSUME NEW t \in SUBSET (1..n), t # {} PROVE w[Greatest(t)] = s[Greatest(t)]
    <3>1. t \in SUBSET (0..n)
      OBVIOUS
    <3>2. Greatest(t) \in t
      BY <1>1, <2>1, <3>1, MaxIsGreatest
    <3>. QED BY <3>2, <1>1
  <2>2. \A t \in SUBSET (1..n) :
          (IF t = {} THEN base ELSE Op(c, d, h[t \ {Greatest(t)}], w[Greatest(t)]))
            = (IF t = {} THEN base ELSE Op(c, d, h[t \ {Greatest(t)}], s[Greatest(t)]))
    BY <2>1
  <2>. QED BY <1>6, <2>2 DEF UpTo
<1>8. Folded(c, d, base, s) = h[1..n]
  BY <1>2, <1>7, FoldedIs
<1>9. Folded(c, d, base, w) = g[1..m]
  BY <1>1, <1>4, FoldedIs
<1>10. g[1..m] = Op(c, d, g[1..n], x)
  <2>1. Greatest(1..m) = m
    BY <1>1, <1>3, OneMore
  <2>2. (1..m) \ {m} = 1..n
    BY <1>1
  <2>3. SolvedAt(c, d, base, w, g, 1..m)
    BY <1>3, <1>4, UpToValues
  <2>. QED BY <1>1, <1>3, <2>1, <2>2, <2>3 DEF SolvedAt
<1>. QED BY <1>5, <1>8, <1>9, <1>10 DEF w

=============================================================================
