-------------------------- MODULE AlgorithmsProofs --------------------------
(***************************************************************************)
(* The properties of the pure parts, for inputs of every length.           *)
(***************************************************************************)
EXTENDS Algorithms, FiniteSetTheorems, SequenceTheorems, TLAPS

\* What the inputs are made of.
Events == [kind : {"ask"}, target : Targets]
            \cup [kind : {"evaluate"}, question : Int, reasoning : Reasonings]
Points == [competency : {"go", "sql"}, at : Int, overall : {2, 7}]
Found  == [leg : {"vector", "text"}, chunk : Hits]

\* The folds of the model.
Adding == INSTANCE FoldLaws WITH Op <- LAMBDA c, d, sum, x : sum + x

-----------------------------------------------------------------------------
(* Induction                                                               *)

\* The natural numbers are well ordered, and what the laws of a fold have of it.
LEMMA LeastNumber == \A N \in SUBSET Nat : N # {} => \E m \in N : \A n \in N : m <= n
<1>. SUFFICES ASSUME NEW N \in SUBSET Nat, N # {}
              PROVE  \E m \in N : \A n \in N : m <= n
  OBVIOUS
<1>. DEFINE Initial == {1..n : n \in N}
<1>1. Initial \subseteq FiniteSubsetsOf(Nat) /\ Initial # {}
  <2>1. ASSUME NEW n \in N PROVE IsFiniteSet(1..n) /\ 1..n \in SUBSET Nat
    <3>1. 1 \in Int /\ n \in Int
      OBVIOUS
    <3>2. IsFiniteSet(1..n)
      BY <3>1, FS_Interval
    <3>. QED BY <3>2
  <2>. QED BY <2>1 DEF FiniteSubsetsOf
<1>2. PICK S \in Initial : \A T \in Initial : <<T, S>> \notin StrictSubsetOrdering(Nat)
  <2>1. IsWellFoundedOn(StrictSubsetOrdering(Nat), FiniteSubsetsOf(Nat))
    BY FS_StrictSubsetOrderingWellFounded
  <2>. HIDE DEF Initial
  <2>. QED BY <1>1, <2>1, WFMin
<1>3. PICK m \in N : S = 1..m
  OBVIOUS
<1>4. ASSUME NEW n \in N, n < m PROVE FALSE
  <2>1. 1..n \in SUBSET Nat /\ 1..m \in SUBSET Nat /\ 1..n \subseteq 1..m /\ 1..n # 1..m
    <3>1. m \in 1..m /\ m \notin 1..n
      BY <1>4
    <3>. QED BY <1>4, <3>1
  <2>2. <<1..n, 1..m>> \in StrictSubsetOrdering(Nat)
    BY <2>1 DEF StrictSubsetOrdering
  <2>. QED BY <2>2, <1>2, <1>3
<1>. QED BY <1>4

LEMMA Climb ==
  ASSUME NEW P, 0 \in P, NEW N \in Nat,
         \A n \in 0..(N - 1) : n \in P => n + 1 \in P
  PROVE  \A n \in 0..N : n \in P
<1>1. Adding!WellOrdered
  BY LeastNumber DEF Adding!WellOrdered
<1>. QED BY <1>1, Adding!Climb

LEMMA MaxIsGreatest ==
  ASSUME NEW n \in Nat, NEW S \in SUBSET (0..n), S # {}
  PROVE  Max(S) \in S /\ \A i \in S : i <= Max(S)
<1>1. Adding!WellOrdered
  BY LeastNumber DEF Adding!WellOrdered
<1>2. Max(S) = Adding!Greatest(S)
  BY DEF Max, Adding!Greatest
<1>. QED BY <1>1, <1>2, Adding!MaxIsGreatest

\* Induction over sequences: what holds of the empty sequence and is kept by
\* one element more holds of all.
LEMMA SequenceInduction ==
  ASSUME NEW S, NEW P, << >> \in P,
         \A s \in Seq(S), x \in S : s \in P => Append(s, x) \in P
  PROVE  \A s \in Seq(S) : s \in P
<1>. DEFINE Lengths == {n \in Nat : \A s \in [1..n -> S] : s \in P}
<1>1. 0 \in Lengths
  <2>1. \A s \in [1..0 -> S] : s = << >>
    OBVIOUS
  <2>. QED BY <2>1
<1>2. ASSUME NEW n \in Nat, n \in Lengths PROVE n + 1 \in Lengths
  <2>. DEFINE m == n + 1
  <2>1. m \in Nat /\ m = n + 1 /\ m \in 1..m /\ 1..n \subseteq 1..m
        /\ \A i \in 1..m : i # m => i \in 1..n
    OBVIOUS
  <2>. HIDE DEF m
  <2>2. ASSUME NEW s \in [1..m -> S] PROVE s \in P
    <3>. DEFINE t == [i \in 1..n |-> s[i]]
    <3>1. t \in [1..n -> S] /\ s[m] \in S /\ \A i \in 1..n : t[i] = s[i]
      BY <2>1
    <3>. HIDE DEF t
    <3>2. t \in Seq(S) /\ Len(t) = n /\ t \in P
      BY <1>2, <3>1
    <3>3. s = Append(t, s[m])
      BY <2>1, <3>1, <3>2
    <3>. QED BY <3>1, <3>2, <3>3
  <2>. QED BY <2>1, <2>2 DEF m
<1>3. ASSUME NEW s \in Seq(S) PROVE s \in P
  <2>1. Len(s) \in Nat /\ s \in [1..Len(s) -> S] /\ Len(s) \in 0..Len(s)
    OBVIOUS
  <2>. HIDE DEF Lengths
  <2>2. \A n \in 0..(Len(s) - 1) : n \in Lengths => n + 1 \in Lengths
    BY <1>2, <2>1
  <2>3. \A n \in 0..Len(s) : n \in Lengths
    BY <1>1, <2>1, <2>2, Climb
  <2>. QED BY <2>1, <2>3 DEF Lengths
<1>. QED BY <1>3

-----------------------------------------------------------------------------
(* Ordering                                                                *)

\* A strict total order of the places.
LEMMA PrecedesOrders ==
  ASSUME NEW I \in SUBSET Int, NEW key \in [I -> Int]
  PROVE  /\ \A i \in I : ~Precedes(i, i, key)
         /\ \A i, j \in I : i # j => Precedes(i, j, key) \/ Precedes(j, i, key)
         /\ \A i, j, k \in I : Precedes(i, j, key) /\ Precedes(j, k, key) => Precedes(i, k, key)
BY DEF Precedes

\* The n places of I are arranged: each of them once, and in order.
IsArranged(I, n, key, at) ==
  /\ n \in Nat /\ at \in [1..n -> I]
  /\ \A i \in I : \E k \in 1..n : at[k] = i
  /\ \A k, l \in 1..n : k < l => Precedes(at[k], at[l], key)

LEMMA Arranged ==
  ASSUME NEW I \in SUBSET Int, IsFiniteSet(I), NEW key \in [I -> Int],
         NEW n, n = Cardinality(I), NEW at, at = Arrange(I, key)
  PROVE  IsArranged(I, n, key, at)
<1>. DEFINE Before(i) == {j \in I : Precedes(j, i, key)}
            rank(i) == Cardinality(Before(i))
<1>1. n \in Nat
  BY FS_CardinalityType
<1>2. ASSUME NEW i \in I PROVE IsFiniteSet(Before(i)) /\ rank(i) \in 0..(n - 1)
  <2>1. Before(i) \in SUBSET I /\ i \notin Before(i)
    BY PrecedesOrders
  <2>. HIDE DEF Before
  <2>2. /\ IsFiniteSet(Before(i)) /\ Cardinality(Before(i)) <= Cardinality(I)
        /\ Cardinality(I) = Cardinality(Before(i)) => Before(i) = I
    BY <2>1, FS_Subset
  <2>3. Cardinality(Before(i)) \in Nat
    BY <2>2, FS_CardinalityType
  <2>. QED BY <1>1, <2>1, <2>2, <2>3
<1>3. ASSUME NEW i \in I, NEW j \in I, Precedes(i, j, key) PROVE rank(i) < rank(j)
  <2>1. Before(i) \in SUBSET Before(j) /\ i \in Before(j) /\ i \notin Before(i)
    BY <1>3, PrecedesOrders
  <2>2. IsFiniteSet(Before(j)) /\ rank(i) \in 0..(n - 1) /\ rank(j) \in 0..(n - 1)
    BY <1>2
  <2>. HIDE DEF Before
  <2>3. /\ Cardinality(Before(i)) <= Cardinality(Before(j))
        /\ Cardinality(Before(j)) = Cardinality(Before(i)) => Before(i) = Before(j)
    BY <2>1, <2>2, FS_Subset
  <2>. QED BY <1>1, <2>1, <2>2, <2>3
<1>4. ASSUME NEW i \in I, NEW j \in I PROVE /\ rank(i) = rank(j) => i = j
                                            /\ rank(i) < rank(j) => Precedes(i, j, key)
  <2>1. rank(i) \in Int /\ rank(j) \in Int
    BY <1>1, <1>2
  <2>2. i # j => Precedes(i, j, key) \/ Precedes(j, i, key)
    BY PrecedesOrders
  <2>3. Precedes(i, j, key) => rank(i) < rank(j)
    BY <1>3
  <2>4. Precedes(j, i, key) => rank(j) < rank(i)
    BY <1>3
  <2>. HIDE DEF rank
  <2>. QED BY <2>1, <2>2, <2>3, <2>4
<1>5. ASSUME NEW k \in 0..(n - 1) PROVE \E i \in I : rank(i) = k
  <2>. DEFINE R == {rank(i) : i \in I}
              f == [i \in I |-> rank(i)]
  <2>. HIDE DEF rank
  <2>1. f \in Bijection(I, R)
    <3>1. f \in [I -> R] /\ \A i, j \in I : f[i] = f[j] => i = j
      BY <1>4
    <3>2. \A r \in R : \E i \in I : f[i] = r
      OBVIOUS
    <3>. HIDE DEF f, R
    <3>. QED BY <3>1, <3>2 DEF Bijection, Injection, Surjection, IsInjective
  <2>2. IsFiniteSet(R) /\ Cardinality(R) = n
    <3>. HIDE DEF f, R
    <3>. QED BY <2>1, FS_Bijection DEF ExistsBijection
  <2>3. R \in SUBSET (0..(n - 1))
    BY <1>2
  <2>4. IsFiniteSet(0..(n - 1)) /\ Cardinality(0..(n - 1)) = n
    BY <1>1, FS_Interval
  <2>5. R = 0..(n - 1)
    <3>. HIDE DEF R
    <3>. QED BY <2>2, <2>3, <2>4, FS_Subset
  <2>. QED BY <2>5
<1>6. ASSUME NEW k \in 1..n PROVE at[k] \in I /\ rank(at[k]) = k - 1
  <2>1. at[k] = CHOOSE i \in I : rank(i) = k - 1
    BY DEF Arrange
  <2>2. k - 1 \in 0..(n - 1)
    BY <1>1
  <2>. HIDE DEF rank
  <2>. QED BY <1>5, <2>1, <2>2
<1>7. at \in [1..n -> I]
  <2>. DEFINE e(k) == CHOOSE i \in I : Cardinality({j \in I : Precedes(j, i, key)}) = k - 1
  <2>1. at = [k \in 1..n |-> e(k)]
    BY DEF Arrange
  <2>2. \A k \in 1..n : at[k] = e(k)
    <3>. HIDE DEF e
    <3>. QED BY <2>1
  <2>. HIDE DEF e
  <2>. QED BY <1>6, <2>1, <2>2
<1>8. ASSUME NEW i \in I PROVE \E k \in 1..n : at[k] = i
  <2>1. rank(i) \in 0..(n - 1)
    BY <1>2
  <2>2. rank(i) + 1 \in 1..n /\ rank(at[rank(i) + 1]) = rank(i)
    <3>. HIDE DEF rank
    <3>. QED BY <1>1, <1>6, <2>1
  <2>. HIDE DEF rank
  <2>. QED BY <1>4, <1>6, <2>2
<1>9. ASSUME NEW k \in 1..n, NEW l \in 1..n, k < l PROVE Precedes(at[k], at[l], key)
  <2>1. /\ at[k] \in I /\ at[l] \in I
        /\ rank(at[k]) = k - 1 /\ rank(at[l]) = l - 1
    BY <1>6
  <2>2. rank(at[k]) < rank(at[l])
    <3>. HIDE DEF rank
    <3>. QED BY <1>1, <1>9, <2>1
  <2>. QED BY <1>4, <2>1, <2>2
<1>. QED BY <1>1, <1>7, <1>8, <1>9 DEF IsArranged

LEMMA Places ==
  \A n \in Nat : 1..n \in SUBSET Int /\ IsFiniteSet(1..n) /\ Cardinality(1..n) = n
<1> TAKE n \in Nat
<1>1. 1 \in Int /\ n \in Int
  OBVIOUS
<1>2. IsFiniteSet(1..n) /\ Cardinality(1..n) = IF 1 > n THEN 0 ELSE n - 1 + 1
  BY <1>1, FS_Interval
<1>. QED BY <1>2

\* t is what s has at the places of at.
Reads(t, s, n, at) == Len(t) = n /\ DOMAIN t = 1..n /\ \A k \in 1..n : t[k] = s[at[k]]

LEMMA FunctionIsSeq ==
  ASSUME NEW S, NEW n \in Nat, NEW t \in [1..n -> S]
  PROVE  t \in Seq(S) /\ Len(t) = n /\ DOMAIN t = 1..n
OBVIOUS

\* A sequence with one element more.
LEMMA Appended ==
  ASSUME NEW S, NEW n \in Nat, NEW m, m = n + 1, NEW f \in Seq(S), n = Len(f), NEW x \in S,
         NEW g \in [1..m -> S], g[m] = x, \A i \in 1..n : g[i] = f[i]
  PROVE  g = Append(f, x)
<1>1. Append(f, x) \in [1..m -> S]
  <2>. DEFINE h == Append(f, x)
  <2>1. h \in Seq(S) /\ Len(h) = m
    OBVIOUS
  <2>. HIDE DEF h
  <2>2. h \in [1..m -> S]
    BY <2>1
  <2>. QED BY <2>2 DEF h
<1>2. \A i \in 1..m : Append(f, x)[i] = g[i]
  OBVIOUS
<1>. QED BY <1>1, <1>2

\* A sorted sequence has the elements of the sequence, the greatest key first.
LEMMA Sorted ==
  ASSUME NEW S, NEW s \in Seq(S), NEW n, n = Len(s), NEW key \in [1..n -> Int]
  PROVE  /\ SortedBy(s, key) \in Seq(S)
         /\ Reads(SortedBy(s, key), s, n, Arrange(1..n, key))
         /\ IsArranged(1..n, n, key, Arrange(1..n, key))
<1>. DEFINE at == Arrange(1..n, key)
<1>1. DOMAIN s = 1..n /\ n \in Nat
  OBVIOUS
<1>2. IsArranged(1..n, n, key, at)
  <2>1. 1..n \in SUBSET Int /\ IsFiniteSet(1..n) /\ n = Cardinality(1..n)
    BY <1>1, Places
  <2>. QED BY <2>1, Arranged
<1>3. at \in [1..n -> DOMAIN s]
  BY <1>1, <1>2 DEF IsArranged
<1>4. SortedBy(s, key) = [k \in DOMAIN at |-> s[at[k]]]
  BY <1>1 DEF SortedBy
<1>. HIDE DEF at
<1>5. SortedBy(s, key) \in Seq(S) /\ Reads(SortedBy(s, key), s, n, at)
  <2>1. /\ SortedBy(s, key) \in [1..n -> S]
        /\ \A k \in 1..n : SortedBy(s, key)[k] = s[at[k]]
    BY <1>1, <1>3, <1>4
  <2>2. SortedBy(s, key) \in Seq(S) /\ Len(SortedBy(s, key)) = n
    BY <1>1, <2>1, FunctionIsSeq
  <2>. QED BY <2>1, <2>2 DEF Reads
<1>. QED BY <1>2, <1>5 DEF at

\* What is picked comes in the order it had.
LEMMA PickedInOrder ==
  ASSUME NEW S, NEW s \in Seq(S), NEW I \in SUBSET DOMAIN s, NEW n, n = Cardinality(I)
  PROVE  /\ Picked(s, I) \in Seq(S)
         /\ Reads(Picked(s, I), s, n, Arrange(I, [i \in I |-> 0]))
         /\ IsArranged(I, n, [i \in I |-> 0], Arrange(I, [i \in I |-> 0]))
<1>. DEFINE key == [i \in I |-> 0]
            at == Arrange(I, key)
<1>1. key \in [I -> Int]
  OBVIOUS
<1>2. I \in SUBSET Int /\ IsFiniteSet(I)
  <2>1. DOMAIN s = 1..Len(s) /\ Len(s) \in Nat
    OBVIOUS
  <2>2. 1..Len(s) \in SUBSET Int /\ IsFiniteSet(1..Len(s))
    BY <2>1, Places
  <2>. QED BY <2>1, <2>2, FS_Subset
<1>3. IsArranged(I, n, key, at)
  <2>. HIDE DEF key
  <2>. QED BY <1>1, <1>2, Arranged
<1>4. Picked(s, I) = [k \in DOMAIN at |-> s[at[k]]]
  BY DEF Picked
<1>. HIDE DEF key, at
<1>5. n \in Nat /\ at \in [1..n -> DOMAIN s]
  BY <1>3 DEF IsArranged
<1>6. Picked(s, I) \in Seq(S) /\ Reads(Picked(s, I), s, n, at)
  <2>1. /\ Picked(s, I) \in [1..n -> S]
        /\ \A k \in 1..n : Picked(s, I)[k] = s[at[k]]
    BY <1>4, <1>5
  <2>2. Picked(s, I) \in Seq(S) /\ Len(Picked(s, I)) = n
    BY <1>5, <2>1, FunctionIsSeq
  <2>. QED BY <2>1, <2>2 DEF Reads
<1>. QED BY <1>3, <1>6 DEF at, key

\* One sequence has the elements another has at some places.
Gathers(t, s, n, I) ==
  /\ n \in Nat /\ Len(t) = n /\ DOMAIN t = 1..n
  /\ \A k \in 1..n : \E i \in I : t[k] = s[i]
  /\ \A i \in I : \E k \in 1..n : t[k] = s[i]

LEMMA ReadsGathers ==
  ASSUME NEW t, NEW s, NEW n, NEW I, NEW key, NEW at, Reads(t, s, n, at), IsArranged(I, n, key, at)
  PROVE  Gathers(t, s, n, I)
BY DEF Reads, IsArranged, Gathers

LEMMA GathersAll ==
  ASSUME NEW t, NEW s, NEW n, DOMAIN s = 1..n, Gathers(t, s, n, 1..n)
  PROVE  ToSet(t) = ToSet(s)
<1>1. ASSUME NEW x \in ToSet(t) PROVE x \in ToSet(s)
  <2>1. PICK k \in 1..n : x = t[k]
    BY <1>1 DEF ToSet, Gathers
  <2>2. PICK i \in 1..n : t[k] = s[i]
    BY <2>1 DEF Gathers
  <2>. QED BY <2>1, <2>2 DEF ToSet
<1>2. ASSUME NEW x \in ToSet(s) PROVE x \in ToSet(t)
  <2>1. PICK i \in 1..n : x = s[i]
    BY <1>2 DEF ToSet
  <2>2. PICK k \in 1..n : t[k] = s[i]
    BY <2>1 DEF Gathers
  <2>. QED BY <2>1, <2>2 DEF ToSet, Gathers
<1>. QED BY <1>1, <1>2

LEMMA SortedGathers ==
  ASSUME NEW S, NEW s \in Seq(S), NEW n, n = Len(s), NEW key \in [1..n -> Int]
  PROVE  SortedBy(s, key) \in Seq(S) /\ Gathers(SortedBy(s, key), s, n, 1..n)
BY Sorted, ReadsGathers

LEMMA PickedGathers ==
  ASSUME NEW S, NEW s \in Seq(S), NEW I \in SUBSET DOMAIN s, NEW n, n = Cardinality(I)
  PROVE  Picked(s, I) \in Seq(S) /\ Gathers(Picked(s, I), s, n, I)
BY PickedInOrder, ReadsGathers

-----------------------------------------------------------------------------
(* What to practise                                                        *)
Gap  == [id : Nat, gap : Nat \ {0}]
Item == [id : Nat, gap : Nat \ {0}, priority : Int, minutes : Int]

\* A level more weighs as much as both bonuses.
LEMMA PriorityFollowsGap ==
  ASSUME NEW g \in Gap, NEW h, h \in Gap \/ h \in Item, NEW weak, NEW recent
  PROVE  /\ Priority(g, weak, recent) \in Int
         /\ g.gap > h.gap => Priority(g, weak, recent) >= Priority(h, weak, recent)
BY DEF Priority, Least, Gap, Item

IsOrder(plan, gaps, n) ==
  /\ n \in Nat /\ Len(plan) = n /\ DOMAIN plan = 1..n
  /\ \A k \in 1..n : \E i \in 1..n : plan[k].id = gaps[i].id
  /\ \A i \in 1..n : \E k \in 1..n : plan[k].id = gaps[i].id
  /\ \A k, l \in 1..n : k < l => plan[k].gap >= plan[l].gap

\* plan_preparation keeps the gaps it is given and puts larger ones first.
LEMMA PlanOrder ==
  ASSUME NEW gaps \in Seq(Gap), NEW n, n = Len(gaps), NEW weak, NEW recent,
         NEW plan, plan = PlanPreparation(gaps, weak, recent)
  PROVE  IsOrder(plan, gaps, n)
<1>. DEFINE byGap  == [i \in 1..n |-> gaps[i].gap]
            sorted == SortedBy(gaps, byGap)
            item(g) == [id |-> g.id, gap |-> g.gap, priority |-> Priority(g, weak, recent),
                        minutes |-> IF g.gap >= 2 THEN 25 ELSE 15]
            items  == [i \in 1..n |-> item(sorted[i])]
            byPriority == [i \in 1..n |-> items[i].priority]
            first  == Arrange(1..n, byGap)
            then   == Arrange(1..n, byPriority)
<1>1. n \in Nat /\ DOMAIN gaps = 1..n /\ \A i \in 1..n : gaps[i] \in Gap
  OBVIOUS
<1>2. byGap \in [1..n -> Int] /\ \A i \in 1..n : byGap[i] = gaps[i].gap
  BY <1>1 DEF Gap
<1>. HIDE DEF byGap
<1>3. /\ sorted \in Seq(Gap)
      /\ Reads(sorted, gaps, n, first)
      /\ IsArranged(1..n, n, byGap, first)
      /\ Gathers(sorted, gaps, n, 1..n)
  BY <1>2, Sorted, SortedGathers
<1>4. DOMAIN sorted = 1..n
  BY <1>3 DEF Reads
<1>. HIDE DEF sorted, first
<1>5. ASSUME NEW k \in 1..n, NEW l \in 1..n, k < l PROVE sorted[k].gap >= sorted[l].gap
  <2>1. /\ first[k] \in 1..n /\ first[l] \in 1..n /\ Precedes(first[k], first[l], byGap)
        /\ sorted[k] = gaps[first[k]] /\ sorted[l] = gaps[first[l]]
    BY <1>3, <1>5 DEF Reads, IsArranged
  <2>2. byGap[first[k]] >= byGap[first[l]]
    BY <1>2, <2>1 DEF Precedes
  <2>. QED BY <1>2, <2>1, <2>2
<1>6. ASSUME NEW g \in Gap PROVE item(g) \in Item
  <2>1. Priority(g, weak, recent) \in Int
    BY PriorityFollowsGap
  <2>. QED BY <2>1 DEF Gap, Item
<1>7. \A i \in 1..n : sorted[i] \in Gap /\ items[i] = item(sorted[i])
  BY <1>3, <1>4
<1>8. items \in [1..n -> Item]
  <2>1. items = [i \in 1..n |-> items[i]]
    OBVIOUS
  <2>. HIDE DEF items, item
  <2>2. \A i \in 1..n : items[i] \in Item
    BY <1>6, <1>7
  <2>. QED BY <2>1, <2>2
<1>9. items \in Seq(Item) /\ Len(items) = n /\ DOMAIN items = 1..n
  <2>. HIDE DEF items
  <2>. QED BY <1>1, <1>8, FunctionIsSeq
<1>10. plan = SortedBy(items, byPriority)
  BY <1>1, <1>4, <1>9 DEF PlanPreparation, sorted, byGap
<1>11. byPriority \in [1..n -> Int] /\ \A i \in 1..n : byPriority[i] = items[i].priority
  BY <1>8 DEF Item
<1>12. \A i \in 1..n : /\ items[i].id = sorted[i].id /\ items[i].gap = sorted[i].gap
                       /\ items[i].priority = Priority(sorted[i], weak, recent)
  BY <1>7
<1>. HIDE DEF items, byPriority, item
<1>13. /\ Reads(plan, items, n, then)
       /\ IsArranged(1..n, n, byPriority, then)
       /\ Gathers(plan, items, n, 1..n)
  BY <1>9, <1>10, <1>11, Sorted, SortedGathers
<1>. HIDE DEF then
<1>14. Len(plan) = n /\ DOMAIN plan = 1..n
  BY <1>13 DEF Reads
<1>15. ASSUME NEW k \in 1..n PROVE \E i \in 1..n : plan[k].id = gaps[i].id
  <2>1. PICK j \in 1..n : plan[k] = items[j]
    BY <1>13 DEF Gathers
  <2>2. PICK i \in 1..n : sorted[j] = gaps[i]
    BY <1>3 DEF Gathers
  <2>. QED BY <1>12, <2>1, <2>2
<1>16. ASSUME NEW i \in 1..n PROVE \E k \in 1..n : plan[k].id = gaps[i].id
  <2>1. PICK j \in 1..n : sorted[j] = gaps[i]
    BY <1>3 DEF Gathers
  <2>2. PICK k \in 1..n : plan[k] = items[j]
    BY <1>13 DEF Gathers
  <2>. QED BY <1>12, <2>1, <2>2
<1>17. ASSUME NEW k \in 1..n, NEW l \in 1..n, k < l PROVE plan[k].gap >= plan[l].gap
  <2>. DEFINE i == then[k]
              j == then[l]
  <2>1. /\ i \in 1..n /\ j \in 1..n /\ Precedes(i, j, byPriority)
        /\ plan[k] = items[i] /\ plan[l] = items[j]
    BY <1>13, <1>17 DEF Reads, IsArranged
  <2>. HIDE DEF i, j
  <2>2. SUFFICES ASSUME sorted[j].gap > sorted[i].gap PROVE FALSE
    <3>1. sorted[i].gap \in Nat /\ sorted[j].gap \in Nat
      BY <1>7, <2>1 DEF Gap
    <3>. QED BY <1>12, <2>1, <3>1
  <2>3. /\ byPriority[i] \in Int /\ byPriority[j] \in Int
        /\ byPriority[j] >= byPriority[i]
    <3>1. Priority(sorted[j], weak, recent) >= Priority(sorted[i], weak, recent)
      BY <1>7, <2>1, <2>2, PriorityFollowsGap
    <3>. QED BY <1>11, <1>12, <2>1, <3>1
  <2>4. i < j
    BY <2>1, <2>3 DEF Precedes
  <2>5. sorted[i].gap >= sorted[j].gap
    BY <1>5, <2>1, <2>4
  <2>6. sorted[i].gap \in Nat /\ sorted[j].gap \in Nat
    BY <1>7, <2>1 DEF Gap
  <2>. QED BY <2>2, <2>5, <2>6
<1>. QED BY <1>1, <1>14, <1>15, <1>16, <1>17 DEF IsOrder

\* A plan, or a list of gaps, is about these competencies, each of them once.
IsAbout(plan, n, ids) ==
  /\ n \in Nat /\ Len(plan) = n /\ DOMAIN plan = 1..n
  /\ \A k \in 1..n : plan[k].id \in ids
  /\ \A i \in ids : \E k \in 1..n : plan[k].id = i

Listed(s) == [i \in DOMAIN s |-> [id |-> i, level |-> s[i].level, importance |-> s[i].importance]]
Shown(s)  == [i \in DOMAIN s |-> s[i].shown]
Below(s)  == {i \in DOMAIN s : s[i].importance = "required" /\ s[i].shown < s[i].level}

\* critical_gaps has every required competency below its level.
LEMMA CriticalGapsAreBelow ==
  ASSUME NEW s \in Seq(Competency), NEW n, n = Cardinality(Below(s)),
         NEW gaps, gaps = CriticalGaps(Listed(s), Shown(s))
  PROVE  gaps \in Seq(Gap) /\ IsAbout(gaps, n, Below(s))
<1>. DEFINE comps == Listed(s)
            level == Shown(s)
            I     == Below(s)
            below == Picked(comps, I)
            gap(c) == [id |-> c.id, gap |-> c.level - level[c.id]]
            open  == [k \in 1..n |-> gap(below[k])]
            size  == [k \in 1..n |-> open[k].gap]
<1>1. \A i \in DOMAIN s : s[i] \in Competency
  OBVIOUS
<1>2. \A i \in DOMAIN s : /\ comps[i].id = i /\ comps[i].level = s[i].level
                          /\ comps[i].importance = s[i].importance
                          /\ level[i] = s[i].shown
  BY DEF Listed, Shown
<1>3. DOMAIN comps = DOMAIN s /\ DOMAIN s = 1..Len(s) /\ Len(s) \in Nat
  BY DEF Listed
<1>4. comps \in Seq({comps[i] : i \in DOMAIN s})
  <2>1. comps = [i \in 1..Len(s) |-> comps[i]]
    BY <1>3 DEF Listed
  <2>. HIDE DEF comps
  <2>. QED BY <1>3, <2>1
<1>5. I = {i \in DOMAIN comps : /\ comps[i].importance = "required"
                                /\ level[comps[i].id] < comps[i].level}
  <2>. HIDE DEF comps, level
  <2>. QED BY <1>2, <1>3 DEF Below
<1>6. I \in SUBSET DOMAIN comps
  <2>. HIDE DEF comps, level
  <2>. QED BY <1>5
<1>. HIDE DEF comps, level
<1>7. /\ below \in Seq({comps[i] : i \in DOMAIN s})
      /\ Gathers(below, comps, n, I)
  <2>. HIDE DEF I
  <2>. QED BY <1>4, <1>6, PickedGathers DEF I
<1>8. n \in Nat /\ DOMAIN below = 1..n
  BY <1>7 DEF Gathers
<1>9. \A k \in 1..n : \E i \in I : below[k] = comps[i]
  BY <1>7 DEF Gathers
<1>10. \A i \in I : \E k \in 1..n : below[k] = comps[i]
  BY <1>7 DEF Gathers
<1>11. gaps = SortedBy(open, size)
  <2>. DEFINE J == {i \in DOMAIN comps : /\ comps[i].importance = "required"
                                         /\ level[comps[i].id] < comps[i].level}
              all == [k \in DOMAIN Picked(comps, J) |-> gap(Picked(comps, J)[k])]
  <2>1. gaps = SortedBy(all, [i \in DOMAIN all |-> all[i].gap])
    BY DEF CriticalGaps, comps, level
  <2>2. J = I
    BY <1>5
  <2>3. all = open
    <3>. HIDE DEF J, I
    <3>. QED BY <1>8, <2>2
  <2>. HIDE DEF all
  <2>4. DOMAIN open = 1..n
    OBVIOUS
  <2>. QED BY <2>1, <2>3, <2>4
<1>. HIDE DEF below
<1>12. \A k \in 1..n : /\ open[k] = [id |-> below[k].id,
                                     gap |-> below[k].level - level[below[k].id]]
                       /\ size[k] = open[k].gap
  OBVIOUS
<1>13. \A i \in I : i \in DOMAIN s /\ s[i] \in Competency /\ s[i].shown < s[i].level
  BY <1>1 DEF Below
<1>14. ASSUME NEW k \in 1..n, NEW i \in I, below[k] = comps[i]
       PROVE  open[k].id = i /\ open[k] \in Gap
  <2>1. i \in DOMAIN s /\ s[i] \in Competency /\ s[i].shown < s[i].level
    BY <1>13
  <2>2. comps[i].id = i /\ comps[i].level = s[i].level /\ level[i] = s[i].shown
    BY <1>2, <2>1
  <2>3. i \in Nat
    BY <1>3, <2>1
  <2>4. s[i].level - s[i].shown \in Nat \ {0}
    BY <2>1 DEF Competency
  <2>5. open[k] = [id |-> i, gap |-> s[i].level - s[i].shown]
    BY <1>12, <1>14, <2>2
  <2>. HIDE DEF open
  <2>. QED BY <2>3, <2>4, <2>5 DEF Gap
<1>15. \A k \in 1..n : open[k] \in Gap /\ open[k].id \in I
  <2>. HIDE DEF open, I
  <2>. QED BY <1>9, <1>14
<1>16. \A i \in I : \E k \in 1..n : open[k].id = i
  <2>. HIDE DEF open, I
  <2>. QED BY <1>10, <1>14
<1>17. open \in Seq(Gap) /\ Len(open) = n
  <2>1. open = [k \in 1..n |-> open[k]]
    OBVIOUS
  <2>. HIDE DEF open
  <2>2. open \in [1..n -> Gap]
    BY <1>15, <2>1
  <2>. QED BY <1>8, <2>2, FunctionIsSeq
<1>18. size \in [1..n -> Int]
  <2>1. \A k \in 1..n : open[k].gap \in Int
    BY <1>15 DEF Gap
  <2>. HIDE DEF open
  <2>. QED BY <2>1
<1>. HIDE DEF open, size
<1>19. gaps \in Seq(Gap) /\ Gathers(gaps, open, n, 1..n)
  BY <1>11, <1>17, <1>18, SortedGathers
<1>. HIDE DEF I
<1>20. IsAbout(gaps, n, I)
  <2>1. n \in Nat /\ Len(gaps) = n /\ DOMAIN gaps = 1..n
    BY <1>19 DEF Gathers
  <2>2. ASSUME NEW k \in 1..n PROVE gaps[k].id \in I
    <3>1. PICK i \in 1..n : gaps[k] = open[i]
      BY <1>19 DEF Gathers
    <3>. QED BY <1>15, <3>1
  <2>3. ASSUME NEW i \in I PROVE \E k \in 1..n : gaps[k].id = i
    <3>1. PICK j \in 1..n : open[j].id = i
      BY <1>16
    <3>2. PICK k \in 1..n : gaps[k] = open[j]
      BY <1>19 DEF Gathers
    <3>. QED BY <3>1, <3>2
  <2>. QED BY <2>1, <2>2, <2>3 DEF IsAbout
<1>. QED BY <1>19, <1>20 DEF I

LEMMA PlanAnswersGaps ==
  ASSUME NEW s \in Seq(Competency), NEW weak, NEW recent,
         NEW plan, plan = PlanPreparation(CriticalGaps(Listed(s), Shown(s)), weak, recent)
  PROVE  /\ Len(plan) = Cardinality(Below(s))
         /\ {plan[i].id : i \in DOMAIN plan} = Below(s)
         /\ \A i, j \in DOMAIN plan : i < j => plan[i].gap >= plan[j].gap
<1>. DEFINE gaps == CriticalGaps(Listed(s), Shown(s))
            n    == Cardinality(Below(s))
            ids  == Below(s)
<1>1. gaps \in Seq(Gap) /\ IsAbout(gaps, n, ids)
  BY CriticalGapsAreBelow
<1>. HIDE DEF gaps, n, ids
<1>2. /\ n \in Nat /\ n = Len(gaps)
      /\ \A k \in 1..n : gaps[k].id \in ids
      /\ \A i \in ids : \E k \in 1..n : gaps[k].id = i
  BY <1>1 DEF IsAbout
<1>3. plan = PlanPreparation(gaps, weak, recent)
  BY DEF gaps
<1>4. IsOrder(plan, gaps, n)
  BY <1>1, <1>2, <1>3, PlanOrder
<1>5. Len(plan) = n /\ DOMAIN plan = 1..n
  BY <1>4 DEF IsOrder
<1>6. ASSUME NEW k \in DOMAIN plan PROVE plan[k].id \in ids
  BY <1>2, <1>4, <1>6 DEF IsOrder
<1>7. ASSUME NEW i \in ids PROVE \E k \in DOMAIN plan : plan[k].id = i
  <2>1. PICK j \in 1..n : gaps[j].id = i
    BY <1>2
  <2>2. PICK k \in 1..n : plan[k].id = gaps[j].id
    BY <1>4, <2>1 DEF IsOrder
  <2>. QED BY <1>5, <2>1, <2>2
<1>8. \A i, j \in DOMAIN plan : i < j => plan[i].gap >= plan[j].gap
  BY <1>4 DEF IsOrder
<1>. QED BY <1>5, <1>6, <1>7, <1>8 DEF n, ids

-----------------------------------------------------------------------------
(* How ready                                                               *)

LEMMA SumOfGrows ==
  /\ SumOf(<<>>) = 0
  /\ \A s \in Seq(Int), x \in Int : SumOf(Append(s, x)) = SumOf(s) + x
<1>1. \A s : SumOf(s) = Adding!Folded(0, 0, 0, s)
  BY DEF SumOf, Adding!Folded, Adding!Solves, FoldLeft, MapThenFoldSet, Max, Adding!Greatest
<1>2. SumOf(<<>>) = 0
  BY <1>1, Adding!FoldEmpty, LeastNumber DEF Adding!WellOrdered
<1>3. ASSUME NEW s \in Seq(Int), NEW x \in Int PROVE SumOf(Append(s, x)) = SumOf(s) + x
  BY <1>1, Adding!FoldAppend, LeastNumber DEF Adding!WellOrdered
<1>. QED BY <1>2, <1>3

\* The rounded quotient is within a half of the quotient, and even when it is
\* a half away.
IsNear(r, a, b) ==
  /\ r \in Nat
  /\ b * (2 * r - 1) <= 2 * a /\ 2 * a <= b * (2 * r + 1)
  /\ b * (2 * r - 1) = 2 * a \/ 2 * a = b * (2 * r + 1) => r % 2 = 0

LEMMA RoundIsNear ==
  ASSUME NEW a \in Nat, NEW b \in Nat \ {0}, NEW r, r = Round(a, b)
  PROVE  IsNear(r, a, b)
<1>. DEFINE q == a \div b
            m == a % b
<1>1. q \in Nat /\ m \in 0..(b - 1) /\ a = b * q + m
  OBVIOUS
<1>2. r = IF 2 * m < b \/ (2 * m = b /\ q % 2 = 0) THEN q ELSE q + 1
  BY DEF Round
<1>. HIDE DEF q, m
<1>. DEFINE p == b * q
<1>3. p \in Int
  BY <1>1
<1>4. CASE r = q
  <2>1. b * (2 * r - 1) = 2 * p - b /\ b * (2 * r + 1) = 2 * p + b
    BY <1>1, <1>4
  <2>. HIDE DEF p
  <2>. QED BY <1>1, <1>2, <1>3, <1>4, <2>1 DEF p, IsNear
<1>5. CASE r = q + 1 /\ 2 * m >= b /\ ~(2 * m = b /\ q % 2 = 0)
  <2>1. b * (2 * r - 1) = 2 * p + b /\ b * (2 * r + 1) = 2 * p + 3 * b
    BY <1>1, <1>5
  <2>2. (q + 1) % 2 = 0 \/ q % 2 = 0
    BY <1>1
  <2>. HIDE DEF p
  <2>. QED BY <1>1, <1>2, <1>3, <1>5, <2>1, <2>2 DEF p, IsNear
<1>. QED BY <1>1, <1>2, <1>4, <1>5 DEF IsNear

\* Rounding keeps the order of quotients.
LEMMA RoundIsMonotone ==
  ASSUME NEW a \in Nat, NEW b \in Nat \ {0}, NEW c \in Nat, NEW d \in Nat \ {0}, a * d <= c * b
  PROVE  /\ Round(a, b) \in Nat /\ Round(c, d) \in Nat
         /\ Round(a, b) <= Round(c, d)
<1>. DEFINE r == Round(a, b)
            q == Round(c, d)
<1>1. /\ r \in Nat
      /\ b * (2 * r - 1) <= 2 * a /\ 2 * a <= b * (2 * r + 1)
      /\ b * (2 * r - 1) = 2 * a \/ 2 * a = b * (2 * r + 1) => r % 2 = 0
  <2>1. IsNear(r, a, b)
    BY RoundIsNear
  <2>. HIDE DEF r
  <2>. QED BY <2>1 DEF IsNear
<1>2. /\ q \in Nat
      /\ d * (2 * q - 1) <= 2 * c /\ 2 * c <= d * (2 * q + 1)
      /\ d * (2 * q - 1) = 2 * c \/ 2 * c = d * (2 * q + 1) => q % 2 = 0
  <2>1. IsNear(q, c, d)
    BY RoundIsNear
  <2>. HIDE DEF q
  <2>. QED BY <2>1 DEF IsNear
<1>. HIDE DEF r, q
<1>. SUFFICES r <= q
  BY <1>1, <1>2 DEF r, q
<1>3. SUFFICES ASSUME r > q PROVE FALSE
  BY <1>1, <1>2
<1>. DEFINE x == b * (2 * r - 1)
            y == d * (2 * q + 1)
<1>4. x \in Int /\ y \in Int /\ x <= 2 * a /\ 2 * c <= y
  BY <1>1, <1>2
<1>5. y * b <= x * d
  <2>1. 2 * q + 1 <= 2 * r - 1
    BY <1>1, <1>2, <1>3
  <2>2. \A i, j \in Int, k \in Nat : i <= j => k * i <= k * j
    OBVIOUS
  <2>3. b * d \in Nat /\ 2 * q + 1 \in Int /\ 2 * r - 1 \in Int
    BY <1>1, <1>2
  <2>4. (b * d) * (2 * q + 1) <= (b * d) * (2 * r - 1)
    BY <2>1, <2>2, <2>3
  <2>5. y * b = (b * d) * (2 * q + 1) /\ x * d = (b * d) * (2 * r - 1)
    BY <1>1, <1>2
  <2>. QED BY <2>4, <2>5
<1>. HIDE DEF x, y
<1>6. x * d <= 2 * (a * d) /\ 2 * (c * b) <= y * b
  <2>1. \A i, j \in Int, k \in Nat : i <= j => i * k <= j * k
    OBVIOUS
  <2>2. x * d <= (2 * a) * d /\ (2 * c) * b <= y * b
    BY <1>4, <2>1
  <2>. QED BY <2>2
<1>7. x * d = (2 * a) * d /\ (2 * c) * b = y * b /\ x * d = y * b
  <2>1. a * d \in Int /\ c * b \in Int /\ x * d \in Int /\ y * b \in Int
    BY <1>4
  <2>2. (2 * a) * d = 2 * (a * d) /\ (2 * c) * b = 2 * (c * b)
    OBVIOUS
  <2>. QED BY <1>5, <1>6, <2>1, <2>2
<1>8. x = 2 * a /\ y = 2 * c
  <2>1. \A i, j \in Int, k \in Nat \ {0} : i * k = j * k => i = j
    OBVIOUS
  <2>. QED BY <1>4, <1>7, <2>1
<1>9. r % 2 = 0 /\ q % 2 = 0
  BY <1>1, <1>2, <1>8 DEF x, y
<1>10. r = q + 1
  <2>1. (b * d) * (2 * q + 1) = (b * d) * (2 * r - 1) 
    BY <1>1, <1>2, <1>7 DEF x, y
  <2>2. \A i, j \in Int, k \in Nat \ {0} : k * i = k * j => i = j
    OBVIOUS
  <2>3. b * d \in Nat \ {0} /\ 2 * q + 1 \in Int /\ 2 * r - 1 \in Int
    BY <1>1, <1>2
  <2>4. 2 * q + 1 = 2 * r - 1
    BY <2>1, <2>2, <2>3
  <2>. QED BY <1>1, <1>2, <2>4
<1>. QED BY <1>1, <1>2, <1>9, <1>10

Strengths(s) == [i \in DOMAIN s |-> Weights(s)[i] * s[i].strength]
Weight(e)    == StatusWeight[e.status]

LEMMA WeightsInRange ==
  \A e \in Evidence : /\ Weight(e) \in Nat /\ Weight(e) <= 10
                      /\ e.strength \in Nat /\ e.strength <= 10
                      /\ Weight(e) * e.strength \in Nat
                      /\ Weight(e) * e.strength <= 10 * Weight(e)
<1> TAKE e \in Evidence
<1>1. Weight(e) \in {10, 7, 5, 4, 0} /\ e.strength \in {0, 5, 10}
  BY DEF Evidence, Weight, StatusWeight
<1>. HIDE DEF Weight
<1>. QED BY <1>1

\* What one more piece of evidence adds.
LEMMA EvidenceGrows ==
  ASSUME NEW s \in Seq(Evidence), NEW e \in Evidence
  PROVE  /\ Weights(s) \in Seq(Int) /\ Strengths(s) \in Seq(Int)
         /\ Weights(Append(s, e)) = Append(Weights(s), Weight(e))
         /\ Strengths(Append(s, e)) = Append(Strengths(s), Weight(e) * e.strength)
<1>. DEFINE n == Len(s)
            m == n + 1
            t == Append(s, e)
<1>1. /\ n \in Nat /\ m \in Nat /\ m = n + 1 /\ DOMAIN s = 1..n /\ DOMAIN t = 1..m
      /\ \A i \in 1..n : t[i] = s[i] /\ s[i] \in Evidence
      /\ t[m] = e /\ m \in 1..m
      /\ \A i \in 1..m : i # m => i \in 1..n
  OBVIOUS
<1>. HIDE DEF n, m, t
<1>2. /\ Weights(s) = [i \in 1..n |-> Weight(s[i])]
      /\ Weights(t) = [i \in 1..m |-> Weight(t[i])]
  BY <1>1 DEF Weights, Weight
<1>3. /\ Strengths(s) = [i \in 1..n |-> Weight(s[i]) * s[i].strength]
      /\ Strengths(t) = [i \in 1..m |-> Weight(t[i]) * t[i].strength]
  BY <1>1, <1>2 DEF Strengths
<1>4. \A i \in 1..n : Weight(s[i]) \in Int /\ Weight(s[i]) * s[i].strength \in Int
  BY <1>1, WeightsInRange
<1>5. \A i \in 1..n : /\ Weight(t[i]) = Weight(s[i])
                      /\ Weight(t[i]) * t[i].strength = Weight(s[i]) * s[i].strength
  BY <1>1
<1>6. \A i \in 1..m : Weight(t[i]) \in Int /\ Weight(t[i]) * t[i].strength \in Int
  BY <1>1, WeightsInRange
<1>7. Weight(e) \in Int /\ Weight(e) * e.strength \in Int
  BY WeightsInRange
<1>8. Weights(s) \in Seq(Int) /\ Weights(t) = Append(Weights(s), Weight(e))
  <2>1. Weights(s) \in [1..n -> Int] /\ \A i \in 1..n : Weights(s)[i] = Weight(s[i])
    BY <1>2, <1>4
  <2>2. Weights(t) \in [1..m -> Int] /\ \A i \in 1..m : Weights(t)[i] = Weight(t[i])
    BY <1>2, <1>6
  <2>3. Weights(t)[m] = Weight(e) /\ \A i \in 1..n : Weights(t)[i] = Weights(s)[i]
    BY <1>1, <1>5, <2>1, <2>2
  <2>4. Weights(s) \in Seq(Int) /\ Len(Weights(s)) = n
    BY <1>1, <2>1, FunctionIsSeq
  <2>. QED BY <1>1, <1>7, <2>2, <2>3, <2>4, Appended
<1>9. Strengths(s) \in Seq(Int) /\ Strengths(t) = Append(Strengths(s), Weight(e) * e.strength)
  <2>1. /\ Strengths(s) \in [1..n -> Int]
        /\ \A i \in 1..n : Strengths(s)[i] = Weight(s[i]) * s[i].strength
    BY <1>3, <1>4
  <2>2. /\ Strengths(t) \in [1..m -> Int]
        /\ \A i \in 1..m : Strengths(t)[i] = Weight(t[i]) * t[i].strength
    BY <1>3, <1>6
  <2>3. /\ Strengths(t)[m] = Weight(e) * e.strength
        /\ \A i \in 1..n : Strengths(t)[i] = Strengths(s)[i]
    BY <1>1, <1>5, <2>1, <2>2
  <2>4. Strengths(s) \in Seq(Int) /\ Len(Strengths(s)) = n
    BY <1>1, <2>1, FunctionIsSeq
  <2>. QED BY <1>1, <1>7, <2>2, <2>3, <2>4, Appended
<1>. QED BY <1>8, <1>9 DEF t

\* The weights of n pieces of evidence add up to 10 n at most, and weighted
\* strengths to ten times the weights.
Weighed(s) ==
  /\ TotalWeight(s) \in Nat /\ TotalWeight(s) <= 10 * Len(s)
  /\ SumOf(Strengths(s)) \in Nat /\ SumOf(Strengths(s)) <= 10 * TotalWeight(s)

LEMMA EvidenceWeighed == \A s \in Seq(Evidence) : Weighed(s)
<1>. DEFINE P == {s \in Seq(Evidence) : Weighed(s)}
<1>1. << >> \in P
  <2>1. Weights(<< >>) = << >> /\ Strengths(<< >>) = << >>
    BY DEF Weights, Strengths
  <2>2. TotalWeight(<< >>) = 0 /\ SumOf(Strengths(<< >>)) = 0 /\ Len(<< >>) = 0
    BY <2>1, SumOfGrows DEF TotalWeight
  <2>. QED BY <2>2 DEF Weighed
<1>2. ASSUME NEW s \in Seq(Evidence), NEW e \in Evidence, s \in P PROVE Append(s, e) \in P
  <2>. DEFINE t == Append(s, e)
              w == Weight(e)
              x == Weight(e) * e.strength
  <2>1. t \in Seq(Evidence) /\ Len(t) = Len(s) + 1 /\ Len(s) \in Nat
    OBVIOUS
  <2>2. TotalWeight(t) = TotalWeight(s) + w /\ SumOf(Strengths(t)) = SumOf(Strengths(s)) + x
    <3>1. /\ Weights(s) \in Seq(Int) /\ Strengths(s) \in Seq(Int)
          /\ Weights(t) = Append(Weights(s), w) /\ Strengths(t) = Append(Strengths(s), x)
      BY EvidenceGrows
    <3>2. w \in Int /\ x \in Int
      BY WeightsInRange
    <3>. HIDE DEF t, w, x
    <3>. QED BY <3>1, <3>2, SumOfGrows DEF TotalWeight
  <2>3. w \in Nat /\ w <= 10 /\ x \in Nat /\ x <= 10 * w
    BY WeightsInRange
  <2>4. Weighed(s)
    BY <1>2
  <2>. HIDE DEF t, w, x
  <2>5. Weighed(t)
    BY <2>1, <2>2, <2>3, <2>4 DEF Weighed
  <2>. QED BY <2>1, <2>5 DEF t
<1>. HIDE DEF P
<1>3. \A s \in Seq(Evidence) : s \in P
  BY <1>1, <1>2, SequenceInduction
<1>. QED BY <1>3 DEF P

Full == [status |-> "demonstrated", strength |-> 10]

IsFuller(t, s) ==
  /\ Weighed(s) /\ Len(s) \in Nat
  /\ t # << >> /\ Len(t) = Len(s) + 1
  /\ TotalWeight(t) = TotalWeight(s) + 10
  /\ SumOf(Strengths(t)) = SumOf(Strengths(s)) + 100

LEMMA FullAdds ==
  ASSUME NEW s \in Seq(Evidence), NEW t, t = Append(s, Full)
  PROVE  IsFuller(t, s)
<1>. DEFINE n == Len(s)
            w == TotalWeight(s)
            x == SumOf(Strengths(s))
<1>1. Full \in Evidence /\ Weight(Full) = 10 /\ Full.strength = 10
  BY DEF Full, Evidence, StatusWeight, Weight
<1>2. Weighed(s) /\ n \in Nat
  BY EvidenceWeighed
<1>3. t # << >> /\ Len(t) = n + 1
  BY <1>1
<1>4. /\ Weights(s) \in Seq(Int) /\ Strengths(s) \in Seq(Int)
      /\ Weights(t) = Append(Weights(s), 10) /\ Strengths(t) = Append(Strengths(s), 100)
  <2>1. /\ Weights(s) \in Seq(Int) /\ Strengths(s) \in Seq(Int)
        /\ Weights(t) = Append(Weights(s), Weight(Full))
        /\ Strengths(t) = Append(Strengths(s), Weight(Full) * Full.strength)
    BY <1>1, EvidenceGrows
  <2>2. Weight(Full) * Full.strength = 100
    BY <1>1
  <2>. QED BY <1>1, <2>1, <2>2
<1>5. TotalWeight(t) = w + 10 /\ SumOf(Strengths(t)) = x + 100
  BY <1>4, SumOfGrows DEF TotalWeight
<1>. QED BY <1>2, <1>3, <1>5 DEF IsFuller

LEMMA CoverageRises ==
  ASSUME NEW s \in Seq(Evidence), NEW t, t = Append(s, Full)
  PROVE  /\ EvidenceCoverage(s) \in Nat /\ EvidenceCoverage(t) \in Nat
         /\ EvidenceCoverage(s) <= EvidenceCoverage(t)
<1>. DEFINE w == TotalWeight(s)
            n == Len(s)
            b == Most(4, 3 * n)
            d == Most(4, 3 * (n + 1))
<1>1. /\ n \in Nat /\ w \in Nat /\ w <= 10 * n
      /\ t # << >> /\ Len(t) = n + 1 /\ TotalWeight(t) = w + 10
      /\ n = 0 => s = << >>
  <2>1. IsFuller(t, s)
    BY FullAdds
  <2>. QED BY <2>1 DEF IsFuller, Weighed
<1>2. /\ s = << >> => EvidenceCoverage(s) = 0
      /\ s # << >> => EvidenceCoverage(s) = Least(1000, Round(400 * w, b))
      /\ EvidenceCoverage(t) = Least(1000, Round(400 * (w + 10), d))
  BY <1>1 DEF EvidenceCoverage
<1>. HIDE DEF w, n
<1>3. b \in Nat \ {0} /\ d \in Nat \ {0}
  BY <1>1 DEF Most
<1>4. 400 * w \in Nat /\ 400 * (w + 10) \in Nat
  BY <1>1
<1>5. CASE s = << >>
  <2>. HIDE DEF d
  <2>1. Round(400 * (w + 10), d) \in Nat
    <3>. DEFINE r == Round(400 * (w + 10), d)
    <3>1. IsNear(r, 400 * (w + 10), d)
      BY <1>3, <1>4, RoundIsNear
    <3>. QED BY <3>1 DEF IsNear
  <2>. QED BY <1>2, <1>5, <2>1 DEF Least
<1>6. CASE s # << >>
  <2>1. n >= 1
    BY <1>1, <1>6
  <2>2. (400 * w) * d <= (400 * (w + 10)) * b
    <3>1. d = 3 * n + 3
      BY <1>1, <2>1 DEF Most
    <3>2. CASE n = 1
      <4>1. b = 4 /\ d = 6
        BY <3>1, <3>2 DEF Most
      <4>. HIDE DEF b, d
      <4>. QED BY <1>1, <3>2, <4>1
    <3>3. CASE n # 1
      <4>1. b = 3 * n
        BY <1>1, <2>1, <3>3 DEF Most
      <4>2. w * d = 3 * (w * n) + 3 * w
        BY <1>1, <3>1
      <4>3. (w + 10) * b = 3 * (w * n) + 30 * n
        BY <1>1, <4>1
      <4>4. (400 * w) * d = 400 * (w * d) /\ (400 * (w + 10)) * b = 400 * ((w + 10) * b)
        <5>1. \A i, j \in Int : (400 * i) * j = 400 * (i * j)
          OBVIOUS
        <5>2. w \in Int /\ w + 10 \in Int /\ b \in Int /\ d \in Int
          BY <1>1, <1>3
        <5>. HIDE DEF b, d
        <5>. QED BY <5>1, <5>2
      <4>. DEFINE k == w * n
      <4>5. k \in Int
        BY <1>1
      <4>. HIDE DEF k, b, d
      <4>. QED BY <1>1, <4>2, <4>3, <4>4, <4>5 DEF k
    <3>. QED BY <3>2, <3>3
  <2>. HIDE DEF b, d
  <2>. DEFINE p == Round(400 * w, b)
              q == Round(400 * (w + 10), d)
  <2>3. p \in Nat /\ q \in Nat /\ p <= q
    <3>. DEFINE a == 400 * w
                c == 400 * (w + 10)
    <3>1. a \in Nat /\ c \in Nat /\ a * d <= c * b
      BY <1>4, <2>2
    <3>. HIDE DEF a, c
    <3>2. Round(a, b) \in Nat /\ Round(c, d) \in Nat /\ Round(a, b) <= Round(c, d)
      BY <1>3, <3>1, RoundIsMonotone
    <3>. QED BY <3>2 DEF a, c
  <2>. HIDE DEF p, q
  <2>4. EvidenceCoverage(s) = Least(1000, p) /\ EvidenceCoverage(t) = Least(1000, q)
    BY <1>2, <1>6 DEF p, q
  <2>. QED BY <2>3, <2>4 DEF Least
<1>. QED BY <1>5, <1>6

LEMMA StrengthRises ==
  ASSUME NEW s \in Seq(Evidence), NEW t, t = Append(s, Full)
  PROVE  /\ EvidenceStrength(s) \in Nat /\ EvidenceStrength(t) \in Nat
         /\ EvidenceStrength(s) <= EvidenceStrength(t)
<1>. DEFINE w == TotalWeight(s)
            x == SumOf(Strengths(s))
            n == Len(s)
            p == Round(100 * x, w)
            q == Round(100 * (x + 100), w + 10)
<1>1. /\ n \in Nat /\ w \in Nat /\ x \in Nat /\ x <= 10 * w
      /\ TotalWeight(t) = w + 10 /\ SumOf(Strengths(t)) = x + 100
  <2>1. IsFuller(t, s)
    BY FullAdds
  <2>. QED BY <2>1 DEF IsFuller, Weighed
<1>2. /\ w = 0 => EvidenceStrength(s) = 0
      /\ w # 0 => EvidenceStrength(s) = p
      /\ EvidenceStrength(t) = q
  <2>1. \A evidence :
          EvidenceStrength(evidence) =
            IF TotalWeight(evidence) = 0 THEN 0
            ELSE Round(100 * SumOf(Strengths(evidence)), TotalWeight(evidence))
    BY DEF EvidenceStrength, Strengths
  <2>. QED BY <1>1, <2>1
<1>. HIDE DEF w, x, n
<1>3. w + 10 \in Nat \ {0} /\ 100 * x \in Nat /\ 100 * (x + 100) \in Nat
  BY <1>1
<1>4. q \in Nat
  <2>1. IsNear(q, 100 * (x + 100), w + 10)
    BY <1>3, RoundIsNear
  <2>. HIDE DEF q
  <2>. QED BY <2>1 DEF IsNear
<1>5. CASE w # 0
  <2>1. (100 * x) * (w + 10) <= (100 * (x + 100)) * w
    <3>1. (100 * x) * (w + 10) = 100 * (x * w) + 1000 * x
      BY <1>1
    <3>2. (100 * (x + 100)) * w = 100 * (x * w) + 10000 * w
      BY <1>1
    <3>. DEFINE k == x * w
    <3>3. k \in Int
      BY <1>1
    <3>. HIDE DEF k
    <3>. QED BY <1>1, <3>1, <3>2, <3>3 DEF k
  <2>2. p \in Nat /\ p <= q
    <3>. DEFINE a == 100 * x
                b == w + 10
                c == 100 * (x + 100)
    <3>1. a \in Nat /\ b \in Nat \ {0} /\ c \in Nat /\ w \in Nat \ {0} /\ a * b <= c * w
      BY <1>1, <1>3, <1>5, <2>1
    <3>. HIDE DEF a, b, c
    <3>2. Round(a, w) \in Nat /\ Round(a, w) <= Round(c, b)
      BY <3>1, RoundIsMonotone
    <3>. QED BY <3>2 DEF a, b, c
  <2>. HIDE DEF p, q
  <2>. QED BY <1>2, <1>4, <1>5, <2>2
<1>. HIDE DEF p, q
<1>. QED BY <1>2, <1>4, <1>5

LEMMA ScoresAreNumbers == \A evaluations \in Seq(Nat) : EvaluationScore(evaluations) \in Nat
<1>. DEFINE P == {s \in Seq(Nat) : SumOf(s) \in Nat}
<1>1. << >> \in P
  BY SumOfGrows
<1>2. ASSUME NEW s \in Seq(Nat), NEW x \in Nat, s \in P PROVE Append(s, x) \in P
  <2>1. s \in Seq(Int) /\ Append(s, x) \in Seq(Nat)
    OBVIOUS
  <2>2. SumOf(Append(s, x)) = SumOf(s) + x
    BY <2>1, SumOfGrows
  <2>. QED BY <1>2, <2>1, <2>2
<1>. HIDE DEF P
<1>3. \A s \in Seq(Nat) : s \in P
  BY <1>1, <1>2, SequenceInduction
<1>4. ASSUME NEW s \in Seq(Nat), s # << >> PROVE Round(10 * SumOf(s), Len(s)) \in Nat
  <2>. DEFINE a == 10 * SumOf(s)
              b == Len(s)
  <2>1. a \in Nat /\ b \in Nat \ {0}
    BY <1>3, <1>4 DEF P
  <2>. HIDE DEF a, b
  <2>2. IsNear(Round(a, b), a, b)
    BY <2>1, RoundIsNear
  <2>. QED BY <2>2 DEF IsNear, a, b
<1>. QED BY <1>4 DEF EvaluationScore

\* What is the better for coverage and strength is the better for the level.
LEMMA ReadinessRises ==
  ASSUME NEW s \in Seq(Evidence), NEW evaluations \in Seq(Nat), NEW t, t = Append(s, Full),
         NEW before, before = Assess(s, evaluations), NEW after, after = Assess(t, evaluations)
  PROVE  /\ after.coverage >= before.coverage
         /\ after.score >= before.score
         /\ after.level >= before.level
<1>. DEFINE e == EvaluationScore(evaluations)
            blended(u) == IF e > 0 THEN Round(6 * e + 4 * u, 10) ELSE u
            score(c, u) == Least(1000, Capped(blended(u), c))
            level(v) == Most(1, Least(5, Round(v, 200)))
            c == EvidenceCoverage(s)
            d == EvidenceCoverage(t)
            u == EvidenceStrength(s)
            v == EvidenceStrength(t)
<1>1. /\ c \in Nat /\ d \in Nat /\ c <= d /\ u \in Nat /\ v \in Nat /\ u <= v /\ e \in Nat
  BY CoverageRises, StrengthRises, ScoresAreNumbers
<1>2. /\ before = [coverage |-> c, score |-> score(c, u), level |-> level(score(c, u))]
      /\ after = [coverage |-> d, score |-> score(d, v), level |-> level(score(d, v))]
  BY DEF Assess
<1>. HIDE DEF c, d, u, v, e
<1>3. blended(u) \in Nat /\ blended(v) \in Nat /\ blended(u) <= blended(v)
  <2>1. /\ 6 * e + 4 * u \in Nat /\ 6 * e + 4 * v \in Nat
        /\ (6 * e + 4 * u) * 10 <= (6 * e + 4 * v) * 10
    BY <1>1
  <2>2. /\ Round(6 * e + 4 * u, 10) \in Nat /\ Round(6 * e + 4 * v, 10) \in Nat
        /\ Round(6 * e + 4 * u, 10) <= Round(6 * e + 4 * v, 10)
    BY <2>1, RoundIsMonotone
  <2>. QED BY <1>1, <2>2
<1>. HIDE DEF blended
<1>4. score(c, u) \in Nat /\ score(d, v) \in Nat /\ score(c, u) <= score(d, v)
  BY <1>1, <1>3 DEF Capped, Least, CapCoverage, CapScore
<1>. HIDE DEF score
<1>5. level(score(c, u)) <= level(score(d, v))
  <2>. DEFINE a == score(c, u)
              b == score(d, v)
              k == 200
  <2>1. k \in Nat \ {0} /\ a \in Nat /\ b \in Nat /\ a * k <= b * k
    BY <1>4
  <2>. HIDE DEF a, b, k
  <2>2. Round(a, k) \in Nat /\ Round(b, k) \in Nat /\ Round(a, k) <= Round(b, k)
    BY <2>1, RoundIsMonotone
  <2>3. level(a) <= level(b)
    BY <2>2 DEF Most, Least, k
  <2>. QED BY <2>3 DEF a, b
<1>6. level(score(c, u)) \in Int /\ level(score(d, v)) \in Int
  <2>1. \A a \in Nat : level(a) \in Int
    <3> TAKE a \in Nat
    <3>1. IsNear(Round(a, 200), a, 200)
      BY RoundIsNear
    <3>2. Round(a, 200) \in Nat
      BY <3>1 DEF IsNear
    <3>. QED BY <3>2 DEF Most, Least
  <2>. QED BY <1>4, <2>1
<1>. HIDE DEF level
<1>. QED BY <1>1, <1>2, <1>4, <1>5, <1>6

-----------------------------------------------------------------------------
(* What a session asks about                                               *)

Happening == INSTANCE FoldLaws
             WITH Op <- LAMBDA c, d, session, event : Happens(session, event, c, d)
Listing == INSTANCE FoldLaws
           WITH Op <- LAMBDA c, d, gaps, g : IF g \in ToSet(gaps) THEN gaps ELSE Append(gaps, g)

Merged(base, s) ==
  FoldLeft(LAMBDA gaps, g : IF g \in ToSet(gaps) THEN gaps ELSE Append(gaps, g), base, s)

LEMMA SessionGrows ==
  ASSUME NEW snapshot, NEW draw
  PROVE  /\ Session(<<>>, snapshot, draw) = FreshSession
         /\ \A S : \A s \in Seq(S), x \in S :
              Session(Append(s, x), snapshot, draw)
                = Happens(Session(s, snapshot, draw), x, snapshot, draw)
<1>1. \A s : Session(s, snapshot, draw) = Happening!Folded(snapshot, draw, FreshSession, s)
  BY DEF Session, Happening!Folded, Happening!Solves, FoldLeft, MapThenFoldSet, Max,
         Happening!Greatest
<1>2. Session(<<>>, snapshot, draw) = FreshSession
  BY <1>1, Happening!FoldEmpty, LeastNumber DEF Happening!WellOrdered
<1>3. ASSUME NEW S, NEW s \in Seq(S), NEW x \in S
      PROVE  Session(Append(s, x), snapshot, draw)
               = Happens(Session(s, snapshot, draw), x, snapshot, draw)
  BY <1>1, Happening!FoldAppend, LeastNumber DEF Happening!WellOrdered
<1>. QED BY <1>2, <1>3

LEMMA MergedGrows ==
  ASSUME NEW base
  PROVE  /\ Merged(base, <<>>) = base
         /\ \A S : \A s \in Seq(S), x \in S :
              Merged(base, Append(s, x))
                = IF x \in ToSet(Merged(base, s)) THEN Merged(base, s)
                  ELSE Append(Merged(base, s), x)
<1>1. \A s : Merged(base, s) = Listing!Folded(0, 0, base, s)
  BY DEF Merged, Listing!Folded, Listing!Solves, FoldLeft, MapThenFoldSet, Max, Listing!Greatest
<1>2. Merged(base, <<>>) = base
  BY <1>1, Listing!FoldEmpty, LeastNumber DEF Listing!WellOrdered
<1>3. ASSUME NEW S, NEW s \in Seq(S), NEW x \in S
      PROVE  Merged(base, Append(s, x))
               = IF x \in ToSet(Merged(base, s)) THEN Merged(base, s)
                 ELSE Append(Merged(base, s), x)
  BY <1>1, Listing!FoldAppend, LeastNumber DEF Listing!WellOrdered
<1>. QED BY <1>2, <1>3

LEMMA ToSetGrows ==
  ASSUME NEW S, NEW s \in Seq(S), NEW x
  PROVE  ToSet(Append(s, x)) = ToSet(s) \cup {x}
<1>. DEFINE n == Len(s)
            m == n + 1
            t == Append(s, x)
<1>1. /\ n \in Nat /\ DOMAIN s = 1..n /\ DOMAIN t = 1..m /\ m \in 1..m /\ t[m] = x
      /\ \A i \in 1..n : i \in 1..m /\ t[i] = s[i]
      /\ \A i \in 1..m : i # m => i \in 1..n
  OBVIOUS
<1>. HIDE DEF n, m, t
<1>2. ToSet(t) = ToSet(s) \cup {x}
  BY <1>1 DEF ToSet
<1>. QED BY <1>2 DEF t

\* What is merged is from the one or the other.
IsMerged(t, T, base, s) == t \in Seq(T) /\ ToSet(t) = ToSet(base) \cup ToSet(s)

LEMMA MergedHas ==
  ASSUME NEW T, NEW base \in Seq(T)
  PROVE  \A s \in Seq(T) : IsMerged(Merged(base, s), T, base, s)
<1>. DEFINE P == {s \in Seq(T) : IsMerged(Merged(base, s), T, base, s)}
<1>1. << >> \in P
  <2>1. ToSet(<< >>) = {} /\ Merged(base, << >>) = base /\ << >> \in Seq(T)
    BY MergedGrows DEF ToSet
  <2>. QED BY <2>1 DEF IsMerged
<1>2. ASSUME NEW s \in Seq(T), NEW x \in T, s \in P PROVE Append(s, x) \in P
  <2>. DEFINE t == Merged(base, s)
              u == Merged(base, Append(s, x))
  <2>1. t \in Seq(T) /\ ToSet(t) = ToSet(base) \cup ToSet(s)
    BY <1>2 DEF IsMerged
  <2>2. u = IF x \in ToSet(t) THEN t ELSE Append(t, x)
    BY MergedGrows
  <2>3. ToSet(Append(s, x)) = ToSet(s) \cup {x} /\ Append(s, x) \in Seq(T)
    BY ToSetGrows
  <2>. HIDE DEF t, u
  <2>4. ToSet(Append(t, x)) = ToSet(t) \cup {x} /\ Append(t, x) \in Seq(T)
    BY <2>1, ToSetGrows
  <2>5. IsMerged(u, T, base, Append(s, x))
    BY <2>1, <2>2, <2>3, <2>4 DEF IsMerged
  <2>. QED BY <2>3, <2>5 DEF u
<1>. HIDE DEF P
<1>3. \A s \in Seq(T) : s \in P
  BY <1>1, <1>2, SequenceInduction
<1>. QED BY <1>3 DEF P

Requires == <<Plain("go"), Plain("sql")>>
Comps    == <<Plain("go"), Plain("sql"), Plain("ops")>>

LEMMA SnapshotsAre ==
  ASSUME NEW snapshot \in Snapshots
  PROVE  /\ snapshot.competencies \in {Comps, <<>>}
         /\ snapshot.required \in {Requires, <<>>}
BY DEF Snapshots, NoRole, Comps, Requires

LEMMA NamesAre ==
  /\ Comps \in Seq(Names) /\ Requires \in Seq(Names) /\ ToSet(Comps) \subseteq Names
  /\ Targets \ {Unnamed} \subseteq Names
  /\ General \in Names /\ Unnamed \notin Names
<1>1. \A word \in {"go", "sql", "ops"} : Plain(word) \in Names /\ Lower(Plain(word)) \in Names
  BY WordsAssumption DEF Plain, Lower, Names
<1>2. General \in Names /\ Unnamed \notin Names
  BY NamesAssumption DEF General, Names
<1>3. Comps \in Seq(Names) /\ ToSet(Comps) \subseteq Names
  BY <1>1 DEF Comps, ToSet
<1>. QED BY <1>1, <1>2, <1>3 DEF Requires, Targets

LEMMA EventsAre ==
  ASSUME NEW x \in Events
  PROVE  \/ x.kind = "ask" /\ x.target \in Targets
         \/ /\ x.kind = "evaluate" /\ x.question \in Int
            /\ Detected(x.reasoning) \in Seq(Names)
<1>1. CASE x \in [kind : {"ask"}, target : Targets]
  BY <1>1
<1>2. CASE x \in [kind : {"evaluate"}, question : Int, reasoning : Reasonings]
  <2>1. x.kind = "evaluate" /\ x.question \in Int /\ x.reasoning \in Reasonings
    BY <1>2
  <2>2. Plain("sql") \in Names /\ Plain("ops") \in Names
    BY WordsAssumption DEF Plain, Names
  <2>3. Detected(x.reasoning) \in {<<>>, <<Plain("sql")>>, <<Plain("ops")>>}
    BY <2>1 DEF Detected, Reasonings
  <2>4. /\ <<>> \in Seq(Names)
        /\ \A name \in Names : <<name>> \in Seq(Names)
    OBVIOUS
  <2>5. Detected(x.reasoning) \in Seq(Names)
    <3>1. \A s \in {<<>>, <<Plain("sql")>>, <<Plain("ops")>>} : s \in Seq(Names)
      BY <2>2, <2>4
    <3>. QED BY <2>3, <3>1
  <2>. QED BY <2>1, <2>5
<1>. QED BY <1>1, <1>2 DEF Events

LEMMA PickedFrom ==
  ASSUME NEW S, NEW s \in Seq(S), NEW I \in SUBSET DOMAIN s
  PROVE  Picked(s, I) \in Seq(S) /\ ToSet(Picked(s, I)) = {s[i] : i \in I}
<1>. DEFINE t == Picked(s, I)
            n == Cardinality(I)
<1>1. t \in Seq(S) /\ Gathers(t, s, n, I)
  BY PickedGathers
<1>. HIDE DEF t, n
<1>2. ToSet(t) = {s[i] : i \in I}
  <2>1. /\ DOMAIN t = 1..n
        /\ \A k \in 1..n : \E i \in I : t[k] = s[i]
        /\ \A i \in I : \E k \in 1..n : t[k] = s[i]
    BY <1>1 DEF Gathers
  <2>2. ToSet(t) = {t[k] : k \in 1..n}
    BY <2>1 DEF ToSet
  <2>. QED BY <2>1, <2>2
<1>. QED BY <1>1, <1>2 DEF t

\* The gaps are the requirements nothing speaks for and what the reasoning found.
OpenIn(snapshot, names) ==
  {r \in ToSet(snapshot.required) :
     /\ r.word \notin Known(snapshot)
     /\ \A q \in names : Lower(q) # Lower(r)}

LEMMA GapsAre ==
  ASSUME NEW snapshot \in Snapshots, NEW coverage, NEW reasoned \in Seq(Names)
  PROVE  ToSet(ComputeGaps(snapshot, coverage, reasoned))
           = OpenIn(snapshot, ToSet(coverage)) \cup ToSet(reasoned)
<1>. DEFINE asked == {Lower(c) : c \in ToSet(coverage)}
            required == snapshot.required
            I == {i \in DOMAIN required : /\ Lower(required[i]) \notin asked
                                          /\ required[i].word \notin Known(snapshot)}
            open == Picked(required, I)
<1>1. required \in Seq(Names)
  <2>1. Requires \in Seq(Names) /\ <<>> \in Seq(Names)
    BY NamesAre
  <2>2. required \in {Requires, <<>>}
    BY SnapshotsAre
  <2>. QED BY <2>1, <2>2
<1>2. ComputeGaps(snapshot, coverage, reasoned) = Merged(open, reasoned)
  BY DEF ComputeGaps, Merged
<1>3. {required[i] : i \in I} = OpenIn(snapshot, ToSet(coverage))
  <2>1. \A r : Lower(r) \notin asked <=> \A q \in ToSet(coverage) : Lower(q) # Lower(r)
    OBVIOUS
  <2>2. ToSet(required) = {required[i] : i \in DOMAIN required}
    BY DEF ToSet
  <2>3. OpenIn(snapshot, ToSet(coverage))
          = {r \in ToSet(required) : r.word \notin Known(snapshot) /\ Lower(r) \notin asked}
    <3>. HIDE DEF asked
    <3>1. \A r \in ToSet(required) :
            r \in OpenIn(snapshot, ToSet(coverage))
              <=> r.word \notin Known(snapshot) /\ Lower(r) \notin asked
      BY <2>1 DEF OpenIn
    <3>2. OpenIn(snapshot, ToSet(coverage)) \subseteq ToSet(required)
      BY DEF OpenIn
    <3>. HIDE DEF required
    <3>. QED BY <3>1, <3>2
  <2>. HIDE DEF asked, required
  <2>. QED BY <2>2, <2>3
<1>4. I \in SUBSET DOMAIN required
  OBVIOUS
<1>. HIDE DEF required, I, asked
<1>5. open \in Seq(Names) /\ ToSet(open) = {required[i] : i \in I}
  BY <1>1, <1>4, PickedFrom
<1>. HIDE DEF open
<1>6. IsMerged(Merged(open, reasoned), Names, open, reasoned)
  BY <1>5, MergedHas
<1>. QED BY <1>2, <1>3, <1>5, <1>6 DEF IsMerged

\* Prefixes of a sequence that grows.
Prolongs(t, s) ==
  SubSeq(t, 1, Len(s)) = s /\ \A k \in 0..Len(s) : SubSeq(t, 1, k) = SubSeq(s, 1, k)

LEMMA PrefixesStay ==
  ASSUME NEW S, NEW s \in Seq(S), NEW x \in S
  PROVE  Prolongs(Append(s, x), s)
<1>1. Len(s) \in 0..Len(s) /\ SubSeq(s, 1, Len(s)) = s
  <2>1. Len(s) \in Nat
    OBVIOUS
  <2>. QED BY <2>1, SubSeqFull
<1>2. ASSUME NEW k \in 0..Len(s) PROVE SubSeq(Append(s, x), 1, k) = SubSeq(s, 1, k)
  <2>1. Append(s, x) \in Seq(S) /\ k \in 0..Len(Append(s, x))
    OBVIOUS
  <2>2. \A i \in 1..k : Append(s, x)[i] = s[i]
    OBVIOUS
  <2>. DEFINE t == Append(s, x)
  <2>. HIDE DEF t
  <2>3. SubSeq(t, 1, k) = [i \in 1..k |-> t[i]] /\ SubSeq(s, 1, k) = [i \in 1..k |-> s[i]]
    BY <2>1 DEF t
  <2>4. SubSeq(t, 1, k) = SubSeq(s, 1, k)
    BY <2>2, <2>3 DEF t
  <2>. QED BY <2>4 DEF t
<1>. DEFINE n == Len(s)
            t == Append(s, x)
<1>3. n \in 0..n /\ SubSeq(s, 1, n) = s /\ \A k \in 0..n : SubSeq(t, 1, k) = SubSeq(s, 1, k)
  BY <1>1, <1>2
<1>. HIDE DEF t, n
<1>4. SubSeq(t, 1, n) = s /\ \A k \in 0..n : SubSeq(t, 1, k) = SubSeq(s, 1, k)
  BY <1>3
<1>. QED BY <1>4 DEF Prolongs, t, n

\* The focus of a question with no follow-up pending is a competency that has
\* not come up, as long as there is one.
LEMMA FocusIsOpen ==
  ASSUME NEW coverage, NEW draw \in Draws(3), NEW topic, topic \notin ToSet(Comps),
         NEW focus, focus = FocusCompetency(coverage, Comps, draw, topic)
  PROVE  /\ focus \in ToSet(Comps)
         /\ focus \notin ToSet(coverage) \/ ToSet(Comps) \subseteq ToSet(coverage)
<1>. DEFINE I == {i \in DOMAIN Comps : Comps[i] \notin ToSet(coverage)}
            pool == Pool(coverage, Comps)
            k == draw[Len(pool)] + 1
<1>1. Comps \in Seq(Names) /\ DOMAIN Comps = 1..3 /\ Len(Comps) = 3 /\ Comps # <<>>
  BY NamesAre DEF Comps
<1>2. I \in SUBSET DOMAIN Comps
  OBVIOUS
<1>3. /\ Picked(Comps, I) \in Seq(Names) /\ ToSet(Picked(Comps, I)) = {Comps[i] : i \in I}
      /\ Gathers(Picked(Comps, I), Comps, Cardinality(I), I)
  <2>. HIDE DEF I
  <2>. QED BY <1>1, <1>2, PickedFrom, PickedGathers
<1>4. Len(Picked(Comps, I)) \in 0..3
  <2>. DEFINE Q == 1..3
  <2>1. IsFiniteSet(Q) /\ Cardinality(Q) = 3
    BY Places
  <2>2. I \in SUBSET Q
    BY <1>1, <1>2
  <2>. HIDE DEF I, Q
  <2>3. Cardinality(I) <= 3 /\ Cardinality(I) \in Nat
    BY <2>1, <2>2, FS_Subset, FS_CardinalityType
  <2>. QED BY <1>3, <2>3 DEF Gathers
<1>5. pool = IF Picked(Comps, I) = <<>> THEN Comps ELSE Picked(Comps, I)
  BY DEF Pool
<1>6. \A i \in I : i \in DOMAIN Comps /\ Comps[i] \notin ToSet(coverage)
  OBVIOUS
<1>7. \A i \in DOMAIN Comps : i \notin I => Comps[i] \in ToSet(coverage)
  OBVIOUS
<1>. HIDE DEF I, pool
<1>8. pool \in Seq(Names) /\ Len(pool) \in 1..3
  BY <1>1, <1>3, <1>4, <1>5
<1>9. k \in 1..Len(pool)
  <2>1. \A n \in 1..3 : draw[n] \in 0..2 /\ draw[n] < n
    BY DEF Draws
  <2>2. draw[Len(pool)] \in 0..2 /\ draw[Len(pool)] < Len(pool)
    BY <1>8, <2>1
  <2>. QED BY <1>8, <2>2
<1>10. focus = pool[k]
  BY <1>1 DEF FocusCompetency, pool
<1>11. focus \in ToSet(pool)
  BY <1>8, <1>9, <1>10 DEF ToSet
<1>12. CASE Picked(Comps, I) = <<>>
  <2>1. I = {}
    <3>1. ToSet(<<>>) = {}
      BY DEF ToSet
    <3>. QED BY <1>3, <1>12, <3>1
  <2>2. ToSet(Comps) \subseteq ToSet(coverage)
    BY <1>7, <2>1 DEF ToSet
  <2>. QED BY <1>5, <1>11, <1>12, <2>2
<1>13. CASE Picked(Comps, I) # <<>>
  <2>1. PICK i \in I : focus = Comps[i]
    BY <1>3, <1>5, <1>11, <1>13
  <2>. QED BY <1>6, <2>1 DEF ToSet
<1>. QED BY <1>12, <1>13

\* A session is a record of four parts, and what it covers is what its
\* questions are about.
Shaped(session) ==
  session = [coverage |-> session.coverage, questions |-> session.questions,
             directives |-> session.directives, gaps |-> session.gaps]
Kept(session) ==
  /\ Shaped(session)
  /\ session.coverage \in Seq(Names) /\ session.questions \in Seq(Names)
  /\ ToSet(session.coverage) = ToSet(session.questions)

LEMMA FocusIsNamed ==
  ASSUME NEW session, NEW snapshot \in Snapshots, NEW draw \in Draws(3)
  PROVE  Focus(session, snapshot, draw) \in Names
<1>. DEFINE topic == LatestTopic(session.directives)
            comps == snapshot.competencies
            focus == FocusCompetency(session.coverage, comps, draw, topic)
<1>1. focus = Unnamed \/ focus \in Names
  <2>1. CASE comps = <<>>
    BY <2>1 DEF FocusCompetency
  <2>2. CASE comps = Comps /\ topic \in ToSet(Comps)
    BY <2>2, NamesAre DEF FocusCompetency
  <2>3. CASE comps = Comps /\ topic \notin ToSet(Comps)
    <3>. HIDE DEF topic
    <3>1. focus \in ToSet(Comps)
      BY <2>3, FocusIsOpen
    <3>. QED BY <3>1, NamesAre
  <2>. QED BY <2>1, <2>2, <2>3, SnapshotsAre
<1>2. Focus(session, snapshot, draw) = IF focus = Unnamed THEN General ELSE focus
  BY DEF Focus
<1>. HIDE DEF focus
<1>. QED BY <1>1, <1>2, NamesAre

\* What a question does to a session, and what an evaluation does.
IsAsked(after, session, about) ==
  /\ Kept(after)
  /\ after.directives = session.directives /\ after.gaps = session.gaps
  /\ ToSet(after.coverage) = ToSet(session.coverage) \cup {about}

About(session, target, snapshot, draw) ==
  IF target = Unnamed THEN Focus(session, snapshot, draw) ELSE target

LEMMA Asking ==
  ASSUME NEW session, Kept(session), NEW target \in Targets,
         NEW snapshot \in Snapshots, NEW draw \in Draws(3)
  PROVE  IsAsked(Ask(session, target, snapshot, draw), session,
                 About(session, target, snapshot, draw))
<1>. DEFINE about == About(session, target, snapshot, draw)
            c == session.coverage
            q == session.questions
            d == MarkAsked(c, about)
            r == Append(q, about)
            after == Ask(session, target, snapshot, draw)
<1>1. about \in Names /\ about # Unnamed
  BY FocusIsNamed, NamesAre DEF About
<1>2. after = [session EXCEPT !.questions = Append(@, about), !.coverage = MarkAsked(@, about)]
  BY DEF Ask, About
<1>3. after = [coverage |-> d, questions |-> r,
               directives |-> session.directives, gaps |-> session.gaps]
  <2>1. session = [coverage |-> c, questions |-> q,
                   directives |-> session.directives, gaps |-> session.gaps]
    BY DEF Kept, Shaped
  <2>. HIDE DEF about, after
  <2>. QED BY <1>2, <2>1
<1>. HIDE DEF about, after
<1>4. c \in Seq(Names) /\ q \in Seq(Names) /\ ToSet(c) = ToSet(q)
  BY DEF Kept
<1>5. d = IF about \in ToSet(c) THEN c ELSE Append(c, about)
  BY <1>1 DEF MarkAsked
<1>. HIDE DEF c, q
<1>6. ToSet(Append(c, about)) = ToSet(c) \cup {about}
  BY <1>1, <1>4, ToSetGrows
<1>7. ToSet(r) = ToSet(q) \cup {about}
  BY <1>1, <1>4, ToSetGrows
<1>8. d \in Seq(Names) /\ ToSet(d) = ToSet(c) \cup {about}
  BY <1>1, <1>4, <1>5, <1>6
<1>9. r \in Seq(Names)
  BY <1>1, <1>4
<1>. HIDE DEF d, r
<1>10. Kept(after)
  BY <1>3, <1>4, <1>7, <1>8, <1>9 DEF Kept, Shaped
<1>. QED BY <1>3, <1>8, <1>10 DEF IsAsked, about, c, after

IsEvaluated(after, session, question, reasoning, snapshot) ==
  /\ Kept(after)
  /\ after.coverage = session.coverage /\ after.questions = session.questions
  /\ after.directives = IF reasoning = NoReasoning THEN session.directives
                        ELSE Directed(session.directives, question, reasoning.topic)
  /\ after.gaps = ComputeGaps(snapshot, session.coverage, Detected(reasoning))

LEMMA Evaluating ==
  ASSUME NEW session, Kept(session), NEW question, NEW reasoning, NEW snapshot
  PROVE  IsEvaluated(Evaluate(session, question, reasoning, snapshot),
                     session, question, reasoning, snapshot)
<1>. DEFINE after == Evaluate(session, question, reasoning, snapshot)
            d == IF reasoning = NoReasoning THEN session.directives
                 ELSE Directed(session.directives, question, reasoning.topic)
            g == ComputeGaps(snapshot, session.coverage, Detected(reasoning))
<1>1. after = [session EXCEPT !.directives = IF reasoning = NoReasoning THEN @
                                             ELSE Directed(@, question, reasoning.topic),
                              !.gaps = g]
  BY DEF Evaluate
<1>2. session = [coverage |-> session.coverage, questions |-> session.questions,
                 directives |-> session.directives, gaps |-> session.gaps]
  BY DEF Kept, Shaped
<1>. HIDE DEF g
<1>3. after = [coverage |-> session.coverage, questions |-> session.questions,
               directives |-> d, gaps |-> g]
  <2>. HIDE DEF after
  <2>. QED BY <1>1, <1>2
<1>. HIDE DEF after, d
<1>4. Kept(after)
  BY <1>3 DEF Kept, Shaped
<1>. QED BY <1>3, <1>4 DEF IsEvaluated, after, d, g

LEMMA SessionsAreKept ==
  ASSUME NEW snapshot \in Snapshots, NEW draw \in Draws(3)
  PROVE  \A s \in Seq(Events) : Kept(Session(s, snapshot, draw))
<1>. DEFINE P == {s \in Seq(Events) : Kept(Session(s, snapshot, draw))}
<1>1. << >> \in P
  <2>1. Session(<< >>, snapshot, draw) = FreshSession /\ << >> \in Seq(Events)
    BY SessionGrows
  <2>2. Kept(FreshSession)
    BY DEF Kept, Shaped, FreshSession, NewCoverage
  <2>. QED BY <2>1, <2>2
<1>2. ASSUME NEW s \in Seq(Events), NEW x \in Events, s \in P PROVE Append(s, x) \in P
  <2>. DEFINE session == Session(s, snapshot, draw)
              after   == Session(Append(s, x), snapshot, draw)
  <2>1. Kept(session) /\ after = Happens(session, x, snapshot, draw)
    BY <1>2, SessionGrows
  <2>2. Append(s, x) \in Seq(Events)
    OBVIOUS
  <2>. HIDE DEF session, after
  <2>3. Kept(after)
    <3>1. CASE x.kind = "ask" /\ x.target \in Targets
      BY <2>1, <3>1, Asking DEF Happens, IsAsked
    <3>2. CASE x.kind = "evaluate"
      BY <2>1, <3>2, Evaluating DEF Happens, IsEvaluated
    <3>. QED BY <3>1, <3>2, EventsAre
  <2>. QED BY <2>2, <2>3 DEF after
<1>. HIDE DEF P
<1>3. \A s \in Seq(Events) : s \in P
  BY <1>1, <1>2, SequenceInduction
<1>. QED BY <1>3 DEF P

\* One event more: nothing is taken back, and a free question takes up a
\* competency.
Takes(before, after, free) ==
  /\ after \in Seq(Names)
  /\ ToSet(before) \subseteq ToSet(after)
  /\ free => \/ ToSet(Comps) \subseteq ToSet(after)
             \/ \E f \in ToSet(Comps) : f \notin ToSet(before) /\ f \in ToSet(after)

FreeNext(session, x) ==
  /\ x.kind = "ask"
  /\ x.target = Unnamed /\ LatestTopic(session.directives) \notin ToSet(Comps)

LEMMA EventTakes ==
  ASSUME NEW session, Kept(session), NEW x \in Events,
         NEW snapshot \in Snapshots, snapshot.competencies = Comps, NEW draw \in Draws(3),
         NEW after, after = Happens(session, x, snapshot, draw)
  PROVE  Takes(session.coverage, after.coverage, FreeNext(session, x))
<1>1. CASE x.kind = "ask" /\ x.target \in Targets
  <2>. DEFINE about == About(session, x.target, snapshot, draw)
              topic == LatestTopic(session.directives)
  <2>1. IsAsked(after, session, about)
    BY <1>1, Asking DEF Happens
  <2>2. FreeNext(session, x) => about \in ToSet(Comps)
                                /\ (about \notin ToSet(session.coverage)
                                    \/ ToSet(Comps) \subseteq ToSet(session.coverage))
    <3>. SUFFICES ASSUME FreeNext(session, x)
                  PROVE  about \in ToSet(Comps)
                         /\ (about \notin ToSet(session.coverage)
                             \/ ToSet(Comps) \subseteq ToSet(session.coverage))
      OBVIOUS
    <3>. DEFINE focus == FocusCompetency(session.coverage, Comps, draw, topic)
    <3>1. topic \notin ToSet(Comps) /\ x.target = Unnamed
      BY DEF FreeNext
    <3>2. /\ focus \in ToSet(Comps)
          /\ focus \notin ToSet(session.coverage) \/ ToSet(Comps) \subseteq ToSet(session.coverage)
      <4>. HIDE DEF topic
      <4>. QED BY <3>1, FocusIsOpen
    <3>3. about = IF focus = Unnamed THEN General ELSE focus
      BY <3>1 DEF About, Focus
    <3>. HIDE DEF focus, about
    <3>4. focus # Unnamed
      BY <3>2, NamesAre
    <3>. QED BY <3>2, <3>3, <3>4
  <2>. HIDE DEF about
  <2>. QED BY <2>1, <2>2 DEF Takes, IsAsked, Kept
<1>2. CASE x.kind = "evaluate"
  <2>1. IsEvaluated(after, session, x.question, x.reasoning, snapshot) /\ ~FreeNext(session, x)
    BY <1>2, Evaluating DEF Happens, FreeNext
  <2>. QED BY <2>1 DEF Takes, IsEvaluated, Kept
<1>. QED BY <1>1, <1>2, EventsAre

LEMMA ThreeComps == IsFiniteSet(ToSet(Comps)) /\ Cardinality(ToSet(Comps)) = 3
<1>. DEFINE A == {Plain("go")}
            B == {Plain("go"), Plain("sql")}
            C == {Plain("go"), Plain("sql"), Plain("ops")}
<1>1. /\ Plain("go") # Plain("sql") /\ Plain("go") # Plain("ops")
      /\ Plain("sql") # Plain("ops")
  BY DEF Plain
<1>2. ToSet(Comps) = C
  BY DEF ToSet, Comps
<1>3. IsFiniteSet(A) /\ Cardinality(A) = 1
  BY FS_Singleton
<1>4. IsFiniteSet(B) /\ Cardinality(B) = 2
  <2>1. B = A \cup {Plain("sql")} /\ Plain("sql") \notin A
    BY <1>1
  <2>. HIDE DEF A, B
  <2>. QED BY <1>3, <2>1, FS_AddElement
<1>5. IsFiniteSet(C) /\ Cardinality(C) = 3
  <2>1. C = B \cup {Plain("ops")} /\ Plain("ops") \notin B
    BY <1>1
  <2>. HIDE DEF B, C
  <2>. QED BY <1>4, <2>1, FS_AddElement
<1>. QED BY <1>2, <1>5

Among(coverage) == ToSet(Comps) \cap ToSet(coverage)

\* As many competencies have come up as there were free questions, or all.
KeepsUp(coverage, F) ==
  IsFiniteSet(F) /\ Cardinality(Among(coverage)) >= Least(3, Cardinality(F))

LEMMA KeepingUp ==
  ASSUME NEW before, NEW after, NEW free \in BOOLEAN, Takes(before, after, free),
         NEW F, KeepsUp(before, F), NEW m, m \notin F,
         NEW G, G = IF free THEN F \cup {m} ELSE F
  PROVE  KeepsUp(after, G)
<1>. DEFINE C == ToSet(Comps)
            A == Among(before)
            B == Among(after)
<1>1. IsFiniteSet(C) /\ Cardinality(C) = 3 /\ A \subseteq C /\ B \subseteq C /\ A \subseteq B
  BY ThreeComps DEF Among, Takes
<1>2. \/ ~free
      \/ B = C
      \/ \E f \in B : f \notin A
  BY DEF Among, Takes
<1>. HIDE DEF A, B, C
<1>3. /\ IsFiniteSet(B) /\ IsFiniteSet(A)
      /\ Cardinality(A) \in Nat /\ Cardinality(B) \in Nat /\ Cardinality(A) <= Cardinality(B)
      /\ Cardinality(A) = Cardinality(B) => A = B
  BY <1>1, FS_Subset, FS_CardinalityType
<1>4. IsFiniteSet(F) /\ Cardinality(F) \in Nat /\ Cardinality(A) >= Least(3, Cardinality(F))
  BY FS_CardinalityType DEF KeepsUp, A
<1>5. /\ IsFiniteSet(G)
      /\ free => Cardinality(G) = Cardinality(F) + 1
      /\ ~free => G = F
  BY <1>4, FS_AddElement
<1>6. Cardinality(B) >= Least(3, Cardinality(G))
  <2>1. CASE ~free
    BY <1>3, <1>4, <1>5, <2>1 DEF Least
  <2>2. CASE free /\ B = C
    BY <1>1, <1>4, <1>5, <2>2 DEF Least
  <2>3. CASE free /\ \E f \in B : f \notin A
    <3>1. Cardinality(A) < Cardinality(B)
      BY <1>3, <2>3
    <3>. QED BY <1>3, <1>4, <1>5, <2>3, <3>1 DEF Least
  <2>. QED BY <1>2, <2>1, <2>2, <2>3
<1>. QED BY <1>5, <1>6 DEF KeepsUp, B

IsFree(s, n, snapshot, draw) == FreeNext(Session(SubSeq(s, 1, n - 1), snapshot, draw), s[n])
Free(s, snapshot, draw) == {n \in DOMAIN s : IsFree(s, n, snapshot, draw)}

IsOneMore(G, F, m, free) == m \notin F /\ G = IF free THEN F \cup {m} ELSE F

LEMMA FreeGrows ==
  ASSUME NEW s \in Seq(Events), NEW x \in Events, NEW snapshot, NEW draw,
         NEW m, m = Len(s) + 1, NEW free \in BOOLEAN,
         free = FreeNext(Session(s, snapshot, draw), x)
  PROVE  IsOneMore(Free(Append(s, x), snapshot, draw), Free(s, snapshot, draw), m, free)
<1>. DEFINE n == Len(s)
            t == Append(s, x)
<1>1. /\ n \in Nat /\ DOMAIN s = 1..n /\ DOMAIN t = 1..m /\ m \in 1..m /\ t[m] = x
      /\ m - 1 = n /\ m \notin 1..n
      /\ \A i \in 1..n : i \in 1..m /\ t[i] = s[i] /\ i - 1 \in 0..n
      /\ \A i \in 1..m : i # m => i \in 1..n
  OBVIOUS
<1>2. SubSeq(t, 1, n) = s /\ \A k \in 0..n : SubSeq(t, 1, k) = SubSeq(s, 1, k)
  <2>1. Prolongs(t, s)
    BY PrefixesStay
  <2>. HIDE DEF t
  <2>. QED BY <2>1 DEF Prolongs
<1>. HIDE DEF n, t
<1>3. IsFree(t, m, snapshot, draw) = free
  BY <1>1, <1>2 DEF IsFree
<1>4. \A i \in 1..n : IsFree(t, i, snapshot, draw) = IsFree(s, i, snapshot, draw)
  BY <1>1, <1>2 DEF IsFree
<1>5. /\ m \notin Free(s, snapshot, draw)
      /\ Free(t, snapshot, draw)
           = IF free THEN Free(s, snapshot, draw) \cup {m} ELSE Free(s, snapshot, draw)
  BY <1>1, <1>3, <1>4 DEF Free
<1>. QED BY <1>5 DEF t, IsOneMore

Rotates(s, snapshot, draw) ==
  KeepsUp(Session(s, snapshot, draw).coverage, Free(s, snapshot, draw))

LEMMA Rotation ==
  ASSUME NEW snapshot \in Snapshots, snapshot.competencies = Comps, NEW draw \in Draws(3)
  PROVE  \A s \in Seq(Events) : Rotates(s, snapshot, draw)
<1>. DEFINE P == {s \in Seq(Events) : Rotates(s, snapshot, draw)}
<1>1. << >> \in P
  <2>1. Session(<< >>, snapshot, draw).coverage = << >>
    BY SessionGrows DEF FreshSession, NewCoverage
  <2>2. Free(<< >>, snapshot, draw) = {}
    BY DEF Free
  <2>3. Among(<< >>) = {}
    BY DEF Among, ToSet
  <2>4. IsFiniteSet({}) /\ Cardinality({}) = 0
    BY FS_EmptySet
  <2>5. KeepsUp(<< >>, {})
    <3>1. Least(3, 0) = 0
      BY DEF Least
    <3>2. Cardinality(Among(<< >>)) = 0 /\ 0 >= 0
      BY <2>3, <2>4
    <3>. QED BY <2>4, <3>1, <3>2 DEF KeepsUp
  <2>6. << >> \in Seq(Events)
    OBVIOUS
  <2>7. Rotates(<< >>, snapshot, draw)
    BY <2>1, <2>2, <2>5 DEF Rotates
  <2>. QED BY <2>6, <2>7
<1>2. ASSUME NEW s \in Seq(Events), NEW x \in Events, s \in P PROVE Append(s, x) \in P
  <2>. DEFINE session == Session(s, snapshot, draw)
              next    == Session(Append(s, x), snapshot, draw)
              free    == FreeNext(session, x)
              F == Free(s, snapshot, draw)
              G == Free(Append(s, x), snapshot, draw)
              m == Len(s) + 1
  <2>1. KeepsUp(session.coverage, F)
    BY <1>2 DEF Rotates
  <2>2. Kept(session) /\ next = Happens(session, x, snapshot, draw)
    BY SessionsAreKept, SessionGrows
  <2>3. free \in BOOLEAN /\ Append(s, x) \in Seq(Events)
    BY DEF FreeNext
  <2>4. m \notin F /\ G = IF free THEN F \cup {m} ELSE F
    <3>1. IsOneMore(G, F, m, free)
      <4>. HIDE DEF free
      <4>. QED BY <2>3, FreeGrows DEF free
    <3>. HIDE DEF G, F, m, free
    <3>. QED BY <3>1 DEF IsOneMore
  <2>5. Takes(session.coverage, next.coverage, free)
    <3>. HIDE DEF session, next
    <3>. QED BY <2>2, EventTakes
  <2>. HIDE DEF session, next, free, F, G, m
  <2>6. KeepsUp(next.coverage, G)
    BY <2>1, <2>3, <2>4, <2>5, KeepingUp
  <2>. QED BY <2>3, <2>6 DEF Rotates, next, G
<1>. HIDE DEF P
<1>3. \A s \in Seq(Events) : s \in P
  BY <1>1, <1>2, SequenceInduction
<1>. QED BY <1>3 DEF P

\* The gaps are those of the last evaluation, from the questions asked by then.
At(s, kind) == {n \in DOMAIN s : s[n].kind = kind}
GapsAt(s, n, snapshot, draw) ==
  ComputeGaps(snapshot, Session(SubSeq(s, 1, n), snapshot, draw).coverage,
              Detected(s[n].reasoning))
Follow(s, snapshot, draw) ==
  Session(s, snapshot, draw).gaps
    = IF At(s, "evaluate") = {} THEN <<>>
      ELSE GapsAt(s, Max(At(s, "evaluate")), snapshot, draw)

\* The places of a sequence with one element more.
IsLonger(t, s, x) ==
  /\ Len(s) \in Nat /\ DOMAIN s = 1..Len(s) /\ DOMAIN t = 1..(Len(s) + 1)
  /\ t[Len(s) + 1] = x /\ \A i \in 1..Len(s) : t[i] = s[i]
  /\ SubSeq(t, 1, Len(s) + 1) = t
  /\ \A k \in 0..Len(s) : SubSeq(t, 1, k) = SubSeq(s, 1, k)

LEMMA Longer ==
  ASSUME NEW S, NEW s \in Seq(S), NEW x \in S
  PROVE  Append(s, x) \in Seq(S) /\ IsLonger(Append(s, x), s, x)
<1>. DEFINE t == Append(s, x)
<1>1. /\ Len(s) \in Nat /\ DOMAIN s = 1..Len(s) /\ DOMAIN t = 1..(Len(s) + 1)
      /\ t[Len(s) + 1] = x /\ \A i \in 1..Len(s) : t[i] = s[i]
      /\ t \in Seq(S) /\ Len(t) = Len(s) + 1
  OBVIOUS
<1>2. \A k \in 0..Len(s) : SubSeq(t, 1, k) = SubSeq(s, 1, k)
  <2>1. Prolongs(t, s)
    BY PrefixesStay
  <2>. HIDE DEF t
  <2>. QED BY <2>1 DEF Prolongs
<1>. HIDE DEF t
<1>3. SubSeq(t, 1, Len(t)) = t
  BY <1>1, SubSeqFull
<1>. QED BY <1>1, <1>2, <1>3 DEF IsLonger, t

LEMMA Following ==
  ASSUME NEW snapshot \in Snapshots, NEW draw \in Draws(3)
  PROVE  \A s \in Seq(Events) : Follow(s, snapshot, draw)
<1>. DEFINE P == {s \in Seq(Events) : Follow(s, snapshot, draw)}
<1>1. << >> \in P
  <2>1. Session(<< >>, snapshot, draw).gaps = <<>> /\ << >> \in Seq(Events)
    BY SessionGrows DEF FreshSession
  <2>2. At(<< >>, "evaluate") = {}
    BY DEF At
  <2>. QED BY <2>1, <2>2 DEF Follow
<1>2. ASSUME NEW s \in Seq(Events), NEW x \in Events, s \in P PROVE Append(s, x) \in P
  <2>. DEFINE session == Session(s, snapshot, draw)
              t    == Append(s, x)
              next == Session(t, snapshot, draw)
              n == Len(s)
              m == n + 1
              E == At(s, "evaluate")
              F == At(t, "evaluate")
  <2>1. Kept(session) /\ next = Happens(session, x, snapshot, draw)
    BY SessionsAreKept, SessionGrows
  <2>2. t \in Seq(Events) /\ IsLonger(t, s, x)
    BY Longer
  <2>3. Follow(s, snapshot, draw)
    BY <1>2
  <2>. HIDE DEF session, next, t
  <2>4. /\ n \in Nat /\ m = n + 1 /\ m \in 0..m /\ DOMAIN s = 1..n /\ DOMAIN t = 1..m
        /\ t[m] = x /\ \A i \in 1..n : t[i] = s[i] /\ i \in 0..n /\ i \in 1..m
        /\ \A i \in 1..m : i # m => i \in 1..n
        /\ SubSeq(t, 1, m) = t /\ \A k \in 0..n : SubSeq(t, 1, k) = SubSeq(s, 1, k)
    BY <2>2 DEF IsLonger
  <2>. HIDE DEF n, m
  <2>5. CASE x.kind = "ask" /\ x.target \in Targets
    <3>1. next.gaps = session.gaps
      BY <2>1, <2>5, Asking DEF Happens, IsAsked
    <3>2. F = E
      BY <2>4, <2>5 DEF At
    <3>3. ASSUME E # {} PROVE GapsAt(t, Max(E), snapshot, draw) = GapsAt(s, Max(E), snapshot, draw)
      <4>1. E \in SUBSET (0..n)
        BY <2>4 DEF At
      <4>2. Max(E) \in E
        <5>. HIDE DEF E
        <5>. QED BY <2>4, <3>3, <4>1, MaxIsGreatest
      <4>3. Max(E) \in 1..n /\ Max(E) \in 0..n
        BY <2>4, <4>2 DEF At
      <4>. HIDE DEF E
      <4>. QED BY <2>4, <4>3 DEF GapsAt
    <3>. HIDE DEF E, F
    <3>4. Follow(t, snapshot, draw)
      BY <2>3, <3>1, <3>2, <3>3 DEF Follow, next, session, E, F
    <3>. QED BY <2>2, <3>4 DEF t
  <2>6. CASE x.kind = "evaluate"
    <3>1. /\ next.coverage = session.coverage
          /\ next.gaps = ComputeGaps(snapshot, session.coverage, Detected(x.reasoning))
      BY <2>1, <2>6, Evaluating DEF Happens, IsEvaluated
    <3>2. m \in F /\ F \in SUBSET (0..m) /\ \A i \in F : i <= m
      BY <2>4, <2>6 DEF At
    <3>3. Max(F) = m /\ F # {}
      <4>. HIDE DEF F
      <4>1. m \in Nat /\ F # {}
        BY <2>4, <3>2
      <4>2. Max(F) \in F /\ \A i \in F : i <= Max(F)
        BY <3>2, <4>1, MaxIsGreatest
      <4>3. Max(F) \in 0..m /\ m <= Max(F) /\ Max(F) <= m
        BY <3>2, <4>2
      <4>. QED BY <2>4, <4>1, <4>3
    <3>4. GapsAt(t, m, snapshot, draw) = next.gaps
      BY <2>4, <3>1 DEF GapsAt, next
    <3>. HIDE DEF F
    <3>5. Follow(t, snapshot, draw)
      BY <3>3, <3>4 DEF Follow, next, F
    <3>. QED BY <2>2, <3>5 DEF t
  <2>. QED BY <2>5, <2>6, EventsAre
<1>. HIDE DEF P
<1>3. \A s \in Seq(Events) : s \in P
  BY <1>1, <1>2, SequenceInduction
<1>. QED BY <1>3 DEF P

\* The directives of a session in which no question is evaluated twice: one for
\* every evaluation that came with reasoning, and none else.
OnceEach(s) ==
  \A i, j \in At(s, "evaluate") : s[i].question = s[j].question => i = j
Told(s) == {i \in At(s, "evaluate") : s[i].reasoning # NoReasoning}
IsTold(d, s) ==
  /\ DOMAIN d = {s[i].question : i \in Told(s)}
  /\ \A i \in Told(s) : d[s[i].question] = s[i].reasoning.topic

LEMMA Telling ==
  ASSUME NEW snapshot \in Snapshots, NEW draw \in Draws(3)
  PROVE  \A s \in Seq(Events) : OnceEach(s) => IsTold(Session(s, snapshot, draw).directives, s)
<1>. DEFINE P == {s \in Seq(Events) :
                    OnceEach(s) => IsTold(Session(s, snapshot, draw).directives, s)}
<1>1. << >> \in P
  <2>1. Session(<< >>, snapshot, draw).directives = <<>> /\ << >> \in Seq(Events)
    BY SessionGrows DEF FreshSession
  <2>2. Told(<< >>) = {} /\ DOMAIN << >> = {}
    BY DEF Told, At
  <2>. QED BY <2>1, <2>2 DEF IsTold
<1>2. ASSUME NEW s \in Seq(Events), NEW x \in Events, s \in P PROVE Append(s, x) \in P
  <2>. DEFINE session == Session(s, snapshot, draw)
              t    == Append(s, x)
              next == Session(t, snapshot, draw)
              n == Len(s)
              m == n + 1
              d == session.directives
              e == next.directives
  <2>1. Kept(session) /\ next = Happens(session, x, snapshot, draw)
    BY SessionsAreKept, SessionGrows
  <2>2. t \in Seq(Events) /\ IsLonger(t, s, x)
    BY Longer
  <2>3. SUFFICES ASSUME OnceEach(t) PROVE IsTold(e, t)
    BY <2>2
  <2>4. OnceEach(s) => IsTold(d, s)
    BY <1>2
  <2>. HIDE DEF session, next, t
  <2>5. /\ n \in Nat /\ DOMAIN s = 1..n /\ DOMAIN t = 1..m
        /\ t[m] = x /\ m \in 1..m /\ m \notin 1..n
        /\ \A i \in 1..n : t[i] = s[i] /\ i \in 1..m
        /\ \A i \in 1..m : i # m => i \in 1..n
    BY <2>2 DEF IsLonger
  <2>. HIDE DEF n, m, d, e
  <2>6. OnceEach(s)
    BY <2>3, <2>5 DEF OnceEach, At
  <2>7. Told(t) = IF x.kind = "evaluate" /\ x.reasoning # NoReasoning
                  THEN Told(s) \cup {m} ELSE Told(s)
    BY <2>5 DEF Told, At
  <2>8. \A i \in Told(s) : t[i] = s[i]
    BY <2>5 DEF Told, At
  <2>9. IsTold(d, s)
    BY <2>4, <2>6
  <2>10. CASE x.kind = "evaluate" /\ x.reasoning # NoReasoning
    <3>1. e = Directed(d, x.question, x.reasoning.topic)
      BY <2>1, <2>10, Evaluating DEF Happens, IsEvaluated, d, e
    <3>2. /\ DOMAIN e = {x.question} \cup DOMAIN d /\ e[x.question] = x.reasoning.topic
          /\ \A q \in DOMAIN d : q # x.question => e[q] = d[q]
      BY <3>1 DEF Directed
    <3>3. \A i \in Told(s) : s[i].question # x.question
      <4>1. \A i \in Told(s) : i \in At(t, "evaluate") /\ m \in At(t, "evaluate") /\ i # m
        BY <2>5, <2>10 DEF Told, At
      <4>. QED BY <2>3, <2>5, <2>8, <4>1 DEF OnceEach
    <3>. QED BY <2>5, <2>7, <2>8, <2>9, <2>10, <3>2, <3>3 DEF IsTold
  <2>11. CASE ~(x.kind = "evaluate" /\ x.reasoning # NoReasoning)
    <3>1. e = d
      <4>1. CASE x.kind = "ask" /\ x.target \in Targets
        BY <2>1, <4>1, Asking DEF Happens, IsAsked, d, e
      <4>2. CASE x.kind = "evaluate"
        BY <2>1, <2>11, <4>2, Evaluating DEF Happens, IsEvaluated, d, e
      <4>. QED BY <4>1, <4>2, EventsAre
    <3>. QED BY <2>7, <2>8, <2>9, <2>11, <3>1 DEF IsTold
  <2>. QED BY <2>10, <2>11
<1>. HIDE DEF P
<1>3. \A s \in Seq(Events) : s \in P
  BY <1>1, <1>2, SequenceInduction
<1>. QED BY <1>3 DEF P

-----------------------------------------------------------------------------
(* The summary of progress                                                 *)

Scoring == INSTANCE FoldLaws WITH Op <- LAMBDA c, d, sum, p : sum + p.overall

TotalOf(s) == FoldLeft(LAMBDA sum, p : sum + p.overall, 0, s)

LEMMA TotalGrows ==
  /\ TotalOf(<<>>) = 0
  /\ \A s \in Seq(Points), x \in Points : TotalOf(Append(s, x)) = TotalOf(s) + x.overall
<1>1. \A s : TotalOf(s) = Scoring!Folded(0, 0, 0, s)
  BY DEF TotalOf, Scoring!Folded, Scoring!Solves, FoldLeft, MapThenFoldSet, Max, Scoring!Greatest
<1>2. TotalOf(<<>>) = 0
  BY <1>1, Scoring!FoldEmpty, LeastNumber DEF Scoring!WellOrdered
<1>3. ASSUME NEW s \in Seq(Points), NEW x \in Points
      PROVE  TotalOf(Append(s, x)) = TotalOf(s) + x.overall
  BY <1>1, Scoring!FoldAppend, LeastNumber DEF Scoring!WellOrdered
<1>. QED BY <1>2, <1>3

LEMMA TotalIsNumber == \A s \in Seq(Points) : TotalOf(s) \in Int
<1>. DEFINE P == {s \in Seq(Points) : TotalOf(s) \in Int}
<1>1. << >> \in P
  BY TotalGrows
<1>2. ASSUME NEW s \in Seq(Points), NEW x \in Points, s \in P PROVE Append(s, x) \in P
  <2>1. TotalOf(Append(s, x)) = TotalOf(s) + x.overall /\ Append(s, x) \in Seq(Points)
    BY TotalGrows
  <2>2. x.overall \in Int
    BY DEF Points
  <2>. QED BY <1>2, <2>1, <2>2
<1>. HIDE DEF P
<1>3. \A s \in Seq(Points) : s \in P
  BY <1>1, <1>2, SequenceInduction
<1>. QED BY <1>3 DEF P

\* The moments of the points.
Apart(s) == \A i, j \in DOMAIN s : i # j => s[i].at # s[j].at
Rises(s) == \A i, j \in DOMAIN s : i < j => s[i].at < s[j].at

\* There is one order from the oldest to the newest.
LEMMA RisingIsOne ==
  ASSUME NEW s \in Seq(Points), NEW t \in Seq(Points), Rises(s), Rises(t), ToSet(s) = ToSet(t)
  PROVE  s = t
<1>. DEFINE n == Len(s)
            m == Len(t)
<1>1. /\ n \in Nat /\ m \in Nat /\ DOMAIN s = 1..n /\ DOMAIN t = 1..m
      /\ \A i \in 1..n : s[i].at \in Int
      /\ \A i \in 1..m : t[i].at \in Int
  <2>1. \A i \in 1..n : s[i] \in Points
    OBVIOUS
  <2>2. \A i \in 1..m : t[i] \in Points
    OBVIOUS
  <2>3. n \in Nat /\ m \in Nat /\ DOMAIN s = 1..n /\ DOMAIN t = 1..m
    OBVIOUS
  <2>. HIDE DEF n, m
  <2>. QED BY <2>1, <2>2, <2>3 DEF Points
<1>0. s = [i \in 1..n |-> s[i]] /\ t = [i \in 1..m |-> t[i]]
  OBVIOUS
<1>. HIDE DEF n, m
<1>2. /\ \A i \in 1..n : \E j \in 1..m : s[i] = t[j]
      /\ \A j \in 1..m : \E i \in 1..n : s[i] = t[j]
  <2>1. ToSet(s) = {s[i] : i \in 1..n} /\ ToSet(t) = {t[j] : j \in 1..m}
    BY <1>1 DEF ToSet
  <2>. QED BY <2>1
<1>3. /\ \A i, j \in 1..n : i < j => s[i].at < s[j].at
      /\ \A i, j \in 1..m : i < j => t[i].at < t[j].at
  BY <1>1 DEF Rises
<1>. DEFINE P == {k \in Nat : k <= m /\ \A i \in 1..k : s[i] = t[i]}
<1>4. \A k \in 0..n : k \in P
  <2>1. 0 \in P
    BY <1>1
  <2>2. ASSUME NEW k \in 0..(n - 1), k \in P PROVE k + 1 \in P
    <3>. DEFINE l == k + 1
    <3>0. k <= m /\ \A i \in 1..k : s[i] = t[i]
      BY <2>2
    <3>1. l \in 1..n /\ l \in Nat /\ l = k + 1 /\ k \in Nat
      BY <1>1, <2>2
    <3>. HIDE DEF l, P
    <3>2. PICK j \in 1..m : s[l] = t[j]
      BY <1>2, <3>1
    <3>3. j >= l
      <4>1. SUFFICES ASSUME j \in 1..k PROVE FALSE
        BY <1>1, <3>1, <3>2
      <4>2. s[j] = t[j] /\ j \in 1..n /\ j < l
        BY <1>1, <3>0, <3>1, <4>1
      <4>. QED BY <1>1, <1>3, <3>1, <3>2, <4>2
    <3>4. l \in 1..m
      BY <1>1, <3>1, <3>2, <3>3
    <3>5. PICK i \in 1..n : s[i] = t[l]
      BY <1>2, <3>4
    <3>6. i >= l
      <4>1. SUFFICES ASSUME i \in 1..k PROVE FALSE
        BY <1>1, <3>1, <3>5
      <4>2. s[i] = t[i] /\ i \in 1..m /\ i < l
        BY <1>1, <3>0, <3>1, <4>1
      <4>3. t[i].at < t[l].at
        BY <1>3, <3>4, <4>2
      <4>4. t[i] = t[l] /\ t[l].at \in Int
        BY <1>1, <3>4, <3>5, <4>2
      <4>. QED BY <4>3, <4>4
    <3>7. j = l
      <4>1. j > l => t[l].at < t[j].at
        BY <1>3, <3>2, <3>4
      <4>2. i > l => s[l].at < s[i].at
        BY <1>3, <3>1, <3>5
      <4>3. t[l].at \in Int /\ t[j].at \in Int
        BY <1>1, <3>2, <3>4
      <4>. QED BY <1>1, <3>1, <3>2, <3>3, <3>5, <3>6, <4>1, <4>2, <4>3
    <3>8. s[l] = t[l] /\ l <= m
      BY <1>1, <3>2, <3>4, <3>7
    <3>9. \A h \in 1..l : s[h] = t[h]
      BY <3>0, <3>1, <3>8
    <3>. QED BY <3>1, <3>8, <3>9 DEF P, l
  <2>. HIDE DEF P
  <2>3. \A k \in 0..(n - 1) : k \in P => k + 1 \in P
    BY <2>2
  <2>. QED BY <1>1, <2>1, <2>3, Climb
<1>5. n <= m /\ \A i \in 1..n : s[i] = t[i]
  BY <1>1, <1>4
<1>6. n = m
  <2>1. SUFFICES ASSUME n < m PROVE FALSE
    BY <1>1, <1>5
  <2>. DEFINE l == n + 1
  <2>2. l \in 1..m /\ \A i \in 1..n : i < l /\ i \in 1..m
    BY <1>1, <2>1
  <2>. HIDE DEF l
  <2>3. PICK i \in 1..n : s[i] = t[l]
    BY <1>2, <2>2
  <2>. QED BY <1>1, <1>3, <1>5, <2>2, <2>3
<1>. QED BY <1>0, <1>5, <1>6

\* The total of points does not depend on their order.
Without(s, k) == [i \in 1..(Len(s) - 1) |-> IF i < k THEN s[i] ELSE s[i + 1]]

LEMMA WithoutAppended ==
  ASSUME NEW s \in Seq(Points), NEW x \in Points
  PROVE  /\ Without(Append(s, x), Len(s) + 1) = s
         /\ \A k \in DOMAIN s : /\ Without(s, k) \in Seq(Points)
                                /\ Without(Append(s, x), k) = Append(Without(s, k), x)
<1>. DEFINE n == Len(s)
            m == n + 1
            t == Append(s, x)
<1>1. /\ n \in Nat /\ m \in Nat /\ m = n + 1 /\ DOMAIN s = 1..n /\ Len(t) = m
      /\ t[m] = x /\ \A i \in 1..n : t[i] = s[i] /\ s[i] \in Points
  OBVIOUS
<1>2. s = [i \in 1..n |-> s[i]]
  OBVIOUS
<1>3. Without(s, 1) = Without(s, 1) /\ Len(s) = n
  OBVIOUS
<1>. HIDE DEF n, m, t
<1>4. Without(t, m) = s
  <2>1. Without(t, m) = [i \in 1..n |-> IF i < m THEN t[i] ELSE t[i + 1]]
    BY <1>1 DEF Without
  <2>2. \A i \in 1..n : (IF i < m THEN t[i] ELSE t[i + 1]) = s[i]
    BY <1>1
  <2>3. Without(t, m) = [i \in 1..n |-> s[i]]
    BY <2>1, <2>2
  <2>. QED BY <1>2, <2>3
<1>5. ASSUME NEW k \in 1..n
      PROVE  Without(s, k) \in Seq(Points) /\ Without(t, k) = Append(Without(s, k), x)
  <2>. DEFINE f == Without(s, k)
              g == Without(t, k)
              l == n - 1
  <2>1. l \in Nat /\ n = l + 1 /\ n \in 1..n
        /\ \A i \in 1..l : i \in 1..n /\ i + 1 \in 1..n
    BY <1>1
  <2>2. f = [i \in 1..l |-> IF i < k THEN s[i] ELSE s[i + 1]]
    BY <1>3 DEF Without
  <2>3. g = [i \in 1..n |-> IF i < k THEN t[i] ELSE t[i + 1]]
    BY <1>1 DEF Without
  <2>. HIDE DEF f, g, l
  <2>4. f \in [1..l -> Points]
    BY <1>1, <2>1, <2>2
  <2>5. f \in Seq(Points) /\ Len(f) = l
    BY <2>1, <2>4, FunctionIsSeq
  <2>6. g \in [1..n -> Points]
    <3>1. \A i \in 1..n : t[i] \in Points /\ (i >= k => t[i + 1] \in Points)
      BY <1>1
    <3>. QED BY <1>1, <2>3, <3>1
  <2>7. g[n] = x
    BY <1>1, <2>1, <2>3
  <2>8. \A i \in 1..l : g[i] = f[i]
    BY <1>1, <2>1, <2>2, <2>3
  <2>9. g = Append(f, x)
    BY <2>1, <2>5, <2>6, <2>7, <2>8, Appended
  <2>. QED BY <2>5, <2>9 DEF f, g
<1>. QED BY <1>1, <1>4, <1>5 DEF t, m, n

LEMMA TotalWithout ==
  \A s \in Seq(Points) : \A k \in DOMAIN s : TotalOf(s) = TotalOf(Without(s, k)) + s[k].overall
<1>. DEFINE P == {s \in Seq(Points) :
                   \A k \in DOMAIN s : TotalOf(s) = TotalOf(Without(s, k)) + s[k].overall}
<1>1. << >> \in P
  OBVIOUS
<1>2. ASSUME NEW s \in Seq(Points), NEW x \in Points, s \in P PROVE Append(s, x) \in P
  <2>. DEFINE t == Append(s, x)
              m == Len(s) + 1
  <2>1. /\ t \in Seq(Points) /\ DOMAIN t = 1..m /\ t[m] = x
        /\ \A k \in 1..m : k # m => k \in DOMAIN s /\ t[k] = s[k]
    OBVIOUS
  <2>2. TotalOf(t) = TotalOf(s) + x.overall
    BY TotalGrows
  <2>3. Without(t, m) = s
    BY WithoutAppended
  <2>4. \A k \in DOMAIN s :
          Without(s, k) \in Seq(Points) /\ Without(t, k) = Append(Without(s, k), x)
    BY WithoutAppended
  <2>5. \A k \in DOMAIN s : TotalOf(s) = TotalOf(Without(s, k)) + s[k].overall
    BY <1>2
  <2>. HIDE DEF t, m
  <2>6. ASSUME NEW k \in DOMAIN t PROVE TotalOf(t) = TotalOf(Without(t, k)) + t[k].overall
    <3>1. CASE k = m
      BY <2>1, <2>2, <2>3, <3>1
    <3>2. CASE k # m
      <4>1. k \in DOMAIN s /\ t[k] = s[k]
        BY <2>1, <3>2
      <4>2. TotalOf(Without(t, k)) = TotalOf(Without(s, k)) + x.overall
        BY <2>4, <4>1, TotalGrows
      <4>3. TotalOf(s) = TotalOf(Without(s, k)) + s[k].overall
        BY <2>5, <4>1
      <4>4. x.overall \in Int /\ s[k].overall \in Int /\ TotalOf(Without(s, k)) \in Int
        <5>1. s[k] \in Points
          BY <4>1
        <5>2. TotalOf(Without(s, k)) \in Int
          BY <2>4, <4>1, TotalIsNumber
        <5>. QED BY <5>1, <5>2 DEF Points
      <4>. QED BY <2>2, <4>1, <4>2, <4>3, <4>4
    <3>. QED BY <3>1, <3>2
  <2>7. t \in P
    BY <2>1, <2>6
  <2>. QED BY <2>7 DEF t
<1>. HIDE DEF P
<1>3. \A s \in Seq(Points) : s \in P
  BY <1>1, <1>2, SequenceInduction
<1>. QED BY <1>3 DEF P

LEMMA WithoutOne ==
  ASSUME NEW s \in Seq(Points), Apart(s), NEW k \in DOMAIN s, NEW t, t = Without(s, k)
  PROVE  t \in Seq(Points) /\ Apart(t) /\ ToSet(t) = ToSet(s) \ {s[k]}
<1>. DEFINE n == Len(s)
            l == n - 1
            from(i) == IF i < k THEN i ELSE i + 1
<1>1. n \in Nat /\ l \in Nat /\ n = l + 1 /\ DOMAIN s = 1..n /\ k \in 1..n
  OBVIOUS
<1>2. t = [i \in 1..l |-> IF i < k THEN s[i] ELSE s[i + 1]]
  BY DEF Without
<1>3. \A i \in 1..n : s[i] \in Points
  OBVIOUS
<1>. HIDE DEF n, l
<1>4. \A i \in 1..l : from(i) \in 1..n /\ from(i) # k
  BY <1>1
<1>5. \A i, j \in 1..l : i # j => from(i) # from(j)
  BY <1>1
<1>6. \A j \in 1..n : j # k => \E i \in 1..l : from(i) = j
  <2>1. SUFFICES ASSUME NEW j \in 1..n, j # k PROVE \E i \in 1..l : from(i) = j
    OBVIOUS
  <2>2. CASE j < k
    <3>1. j \in 1..l /\ from(j) = j
      BY <1>1, <2>2
    <3>. HIDE DEF from
    <3>. QED BY <3>1
  <2>3. CASE j > k
    <3>1. j - 1 \in 1..l /\ from(j - 1) = j
      BY <1>1, <2>3
    <3>. HIDE DEF from
    <3>. QED BY <3>1
  <2>. QED BY <1>1, <2>1, <2>2, <2>3
<1>7. DOMAIN t = 1..l /\ \A i \in 1..l : t[i] = s[from(i)]
  BY <1>2
<1>8. t \in [1..l -> Points]
  <2>1. t = [i \in 1..l |-> t[i]]
    BY <1>2
  <2>. HIDE DEF from
  <2>2. \A i \in 1..l : t[i] \in Points
    BY <1>3, <1>4, <1>7
  <2>. QED BY <2>1, <2>2
<1>9. t \in Seq(Points)
  BY <1>1, <1>8, FunctionIsSeq
<1>. HIDE DEF from
<1>10. Apart(t)
  BY <1>1, <1>4, <1>5, <1>7 DEF Apart
<1>11. \A i \in 1..n : i # k => s[i] # s[k]
  BY <1>1 DEF Apart
<1>12. ToSet(t) = ToSet(s) \ {s[k]}
  <2>1. ToSet(t) = {t[i] : i \in 1..l} /\ ToSet(s) = {s[i] : i \in 1..n}
    BY <1>1, <1>7 DEF ToSet
  <2>2. ASSUME NEW p \in ToSet(t) PROVE p \in ToSet(s) /\ p # s[k]
    <3>1. PICK i \in 1..l : p = s[from(i)]
      BY <1>7, <2>1, <2>2
    <3>. QED BY <1>4, <1>11, <2>1, <3>1
  <2>3. ASSUME NEW p \in ToSet(s), p # s[k] PROVE p \in ToSet(t)
    <3>1. PICK j \in 1..n : p = s[j] /\ j # k
      BY <2>1, <2>3
    <3>2. PICK i \in 1..l : from(i) = j
      BY <1>6, <3>1
    <3>. QED BY <1>7, <2>1, <3>1, <3>2
  <2>. QED BY <2>2, <2>3
<1>. QED BY <1>9, <1>10, <1>12

SameTotal(s) == \A t \in Seq(Points) : Apart(t) /\ ToSet(s) = ToSet(t) => TotalOf(s) = TotalOf(t)

LEMMA TotalIsOrderFree == \A s \in Seq(Points) : Apart(s) => SameTotal(s)
<1>. DEFINE P == {s \in Seq(Points) : Apart(s) => SameTotal(s)}
<1>1. << >> \in P
  <2>1. ASSUME NEW t \in Seq(Points), ToSet(<< >>) = ToSet(t) PROVE t = << >>
    <3>1. ToSet(<< >>) = {} /\ ToSet(t) = {t[i] : i \in DOMAIN t}
      BY DEF ToSet
    <3>2. DOMAIN t = {}
      BY <2>1, <3>1
    <3>. QED BY <3>2
  <2>2. SameTotal(<< >>)
    BY <2>1 DEF SameTotal
  <2>3. << >> \in Seq(Points)
    OBVIOUS
  <2>. QED BY <2>2, <2>3
<1>2. ASSUME NEW s \in Seq(Points), NEW x \in Points, s \in P PROVE Append(s, x) \in P
  <2>. DEFINE u == Append(s, x)
              n == Len(s)
              m == n + 1
  <2>1. /\ n \in Nat /\ m \in Nat /\ DOMAIN s = 1..n /\ DOMAIN u = 1..m /\ m \in 1..m
        /\ m \notin 1..n /\ u[m] = x /\ u \in Seq(Points)
        /\ \A i \in 1..n : i \in 1..m /\ u[i] = s[i]
    OBVIOUS
  <2>2. ToSet(u) = ToSet(s) \cup {x} /\ TotalOf(u) = TotalOf(s) + x.overall
    BY ToSetGrows, TotalGrows
  <2>. HIDE DEF u, n, m
  <2>3. ASSUME Apart(u) PROVE SameTotal(u)
    <3>1. Apart(s) /\ x \notin ToSet(s)
      <4>1. Apart(s)
        BY <2>1, <2>3 DEF Apart
      <4>2. \A i \in 1..n : s[i] # x
        BY <2>1, <2>3 DEF Apart
      <4>. QED BY <2>1, <4>1, <4>2 DEF ToSet
    <3>2. SameTotal(s)
      BY <1>2, <3>1
    <3>3. ASSUME NEW t \in Seq(Points), Apart(t), ToSet(u) = ToSet(t) PROVE TotalOf(u) = TotalOf(t)
      <4>1. PICK k \in DOMAIN t : t[k] = x
        <5>1. x \in ToSet(t)
          BY <2>2, <3>3
        <5>. QED BY <5>1 DEF ToSet
      <4>. DEFINE v == Without(t, k)
      <4>2. v \in Seq(Points) /\ Apart(v) /\ ToSet(v) = ToSet(t) \ {x}
        BY <3>3, <4>1, WithoutOne
      <4>3. TotalOf(t) = TotalOf(v) + x.overall
        BY <4>1, TotalWithout
      <4>. HIDE DEF v
      <4>4. ToSet(v) = ToSet(s)
        BY <2>2, <3>1, <3>3, <4>2
      <4>5. TotalOf(v) = TotalOf(s)
        BY <3>2, <4>2, <4>4 DEF SameTotal
      <4>. QED BY <2>2, <4>3, <4>5
    <3>. QED BY <3>3 DEF SameTotal
  <2>4. u \in P
    BY <2>1, <2>3
  <2>. QED BY <2>4 DEF u
<1>. HIDE DEF P
<1>3. \A s \in Seq(Points) : s \in P
  BY <1>1, <1>2, SequenceInduction
<1>. QED BY <1>3 DEF P

\* The oldest first, nothing lost and nothing twice.
IsOldestFirst(t, s) == t \in Seq(Points) /\ Len(t) = Len(s) /\ ToSet(t) = ToSet(s) /\ Rises(t)

LEMMA OldestFirstIs ==
  ASSUME NEW s \in Seq(Points), Apart(s)
  PROVE  IsOldestFirst(OldestFirst(s), s)
<1>. DEFINE n   == Len(s)
            key == [i \in 1..n |-> -s[i].at]
            t   == SortedBy(s, key)
            at  == Arrange(1..n, key)
<1>1. n \in Nat /\ DOMAIN s = 1..n /\ n = Len(s) /\ \A i \in 1..n : s[i] \in Points
  OBVIOUS
<1>2. OldestFirst(s) = t
  BY <1>1 DEF OldestFirst
<1>3. \A i \in 1..n : s[i].at \in Int /\ key[i] = -s[i].at
  BY <1>1 DEF Points
<1>4. key \in [1..n -> Int]
  <2>1. key = [i \in 1..n |-> key[i]]
    OBVIOUS
  <2>. HIDE DEF key
  <2>2. \A i \in 1..n : key[i] \in Int
    BY <1>3
  <2>. QED BY <2>1, <2>2
<1>. HIDE DEF key, n
<1>5. /\ t \in Seq(Points) /\ Reads(t, s, n, at) /\ IsArranged(1..n, n, key, at)
      /\ Gathers(t, s, n, 1..n)
  BY <1>1, <1>4, Sorted, SortedGathers
<1>. HIDE DEF t, at
<1>6. DOMAIN t = 1..n /\ Len(t) = n
  BY <1>5 DEF Reads
<1>7. ToSet(t) = ToSet(s)
  BY <1>1, <1>5, GathersAll DEF n
<1>8. ASSUME NEW k \in 1..n, NEW l \in 1..n, k < l PROVE t[k].at < t[l].at
  <2>1. /\ at[k] \in 1..n /\ at[l] \in 1..n
        /\ Precedes(at[k], at[l], key)
    BY <1>5, <1>8 DEF IsArranged
  <2>2. t[k] = s[at[k]] /\ t[l] = s[at[l]]
    BY <1>5 DEF Reads
  <2>3. key[at[k]] >= key[at[l]] /\ at[k] # at[l]
    <3>1. key[at[k]] \in Int /\ key[at[l]] \in Int /\ at[k] \in Int /\ at[l] \in Int
      BY <1>1, <1>4, <2>1
    <3>. QED BY <2>1, <3>1 DEF Precedes
  <2>4. s[at[k]].at # s[at[l]].at
    BY <1>1, <2>1, <2>3 DEF Apart
  <2>. DEFINE a == s[at[k]].at
              b == s[at[l]].at
  <2>5. a \in Int /\ b \in Int /\ key[at[k]] = -a /\ key[at[l]] = -b
    BY <1>3, <2>1
  <2>6. a < b
    <3>. HIDE DEF a, b
    <3>1. -a >= -b /\ a # b
      BY <2>3, <2>4, <2>5 DEF a, b
    <3>. QED BY <2>5, <3>1
  <2>. QED BY <2>2, <2>6
<1>9. Rises(t)
  BY <1>6, <1>8 DEF Rises
<1>. QED BY <1>1, <1>2, <1>5, <1>6, <1>7, <1>9 DEF IsOldestFirst

IsOwn(t, s, competency) ==
  /\ t \in Seq(Points) /\ Apart(t)
  /\ ToSet(t) = {p \in ToSet(s) : p.competency = competency}

LEMMA OwnIs ==
  ASSUME NEW s \in Seq(Points), Apart(s), NEW competency
  PROVE  IsOwn(Own(s, competency), s, competency)
<1>. DEFINE I   == {i \in DOMAIN s : s[i].competency = competency}
            n   == Cardinality(I)
            key == [i \in I |-> 0]
            at  == Arrange(I, key)
            t   == Picked(s, I)
<1>1. Own(s, competency) = t
  BY DEF Own
<1>2. I \in SUBSET DOMAIN s
  OBVIOUS
<1>3. {s[i] : i \in I} = {p \in ToSet(s) : p.competency = competency}
  BY DEF ToSet
<1>. HIDE DEF I
<1>4. t \in Seq(Points) /\ ToSet(t) = {s[i] : i \in I}
  BY <1>2, PickedFrom
<1>5. Reads(t, s, n, at) /\ IsArranged(I, n, key, at)
  BY <1>2, PickedInOrder
<1>6. \A i \in I : key[i] = 0
  OBVIOUS
<1>. HIDE DEF n, key, at, t
<1>7. ASSUME NEW k \in DOMAIN t, NEW l \in DOMAIN t, k < l
      PROVE  t[k].at # t[l].at
  <2>1. k \in 1..n /\ l \in 1..n /\ t[k] = s[at[k]] /\ t[l] = s[at[l]]
    BY <1>5 DEF Reads
  <2>2. at[k] \in I /\ at[l] \in I /\ Precedes(at[k], at[l], key)
    BY <1>5, <1>7, <2>1 DEF IsArranged
  <2>3. at[k] # at[l]
    <3>1. at[k] \in DOMAIN s /\ at[l] \in DOMAIN s
      BY <1>2, <2>2
    <3>2. at[k] \in Int /\ at[l] \in Int
      BY <3>1
    <3>. QED BY <1>6, <2>2, <3>2 DEF Precedes
  <2>. QED BY <1>2, <2>1, <2>2, <2>3 DEF Apart
<1>8. Apart(t)
  <2>1. \A k, l \in DOMAIN t : k # l => k < l \/ l < k
    <3>1. DOMAIN t \subseteq Int
      BY <1>4
    <3>. QED BY <3>1
  <2>. QED BY <1>7, <2>1 DEF Apart
<1>. QED BY <1>1, <1>3, <1>4, <1>8 DEF IsOwn

\* The series of a competency is the same of the same points.
LEMMA SeriesIsOne ==
  ASSUME NEW s \in Seq(Points), Apart(s), NEW t \in Seq(Points), Apart(t), ToSet(s) = ToSet(t),
         NEW competency
  PROVE  SeriesOf(s, competency) = SeriesOf(t, competency)
<1>. DEFINE a == Own(s, competency)
            b == Own(t, competency)
<1>1. IsOwn(a, s, competency) /\ IsOwn(b, t, competency)
  BY OwnIs
<1>. HIDE DEF a, b
<1>2. /\ a \in Seq(Points) /\ Apart(a) /\ b \in Seq(Points) /\ Apart(b)
      /\ ToSet(a) = ToSet(b)
  BY <1>1 DEF IsOwn
<1>3. IsOldestFirst(OldestFirst(a), a) /\ IsOldestFirst(OldestFirst(b), b)
  BY <1>2, OldestFirstIs
<1>4. OldestFirst(a) = OldestFirst(b)
  <2>. DEFINE u == OldestFirst(a)
              v == OldestFirst(b)
  <2>1. /\ u \in Seq(Points) /\ v \in Seq(Points) /\ Rises(u) /\ Rises(v)
        /\ ToSet(u) = ToSet(v)
    BY <1>2, <1>3 DEF IsOldestFirst
  <2>. HIDE DEF u, v
  <2>2. u = v
    BY <2>1, RisingIsOne
  <2>. QED BY <2>2 DEF u, v
<1>. QED BY <1>4 DEF SeriesOf, a, b

LEMMA AggregateIsOne ==
  ASSUME NEW s \in Seq(Points), Apart(s)
  PROVE  Aggregate(s) = Aggregate(OldestFirst(s))
<1>. DEFINE t == OldestFirst(s)
<1>1. IsOldestFirst(t, s)
  BY OldestFirstIs
<1>. HIDE DEF t
<1>2. t \in Seq(Points) /\ Len(t) = Len(s) /\ ToSet(t) = ToSet(s)
  BY <1>1 DEF IsOldestFirst
<1>3. Apart(t)
  <2>1. \A i \in DOMAIN t : i \in Int /\ t[i].at \in Int
    <3>1. \A i \in DOMAIN t : i \in Int /\ t[i] \in Points
      BY <1>2
    <3>. QED BY <3>1 DEF Points
  <2>2. \A i, j \in DOMAIN t : i < j => t[i].at < t[j].at
    BY <1>1 DEF IsOldestFirst, Rises
  <2>. QED BY <2>1, <2>2 DEF Apart
<1>4. TotalOf(s) = TotalOf(t)
  BY <1>2, <1>3, TotalIsOrderFree DEF SameTotal
<1>5. Competencies(s) = Competencies(t)
  <2>1. \A u : Competencies(u) = {p.competency : p \in ToSet(u)}
    BY DEF Competencies, ToSet
  <2>. QED BY <1>2, <2>1
<1>6. \A c : SeriesOf(s, c) = SeriesOf(t, c)
  BY <1>2, <1>3, SeriesIsOne
<1>7. \A u : Aggregate(u) = [series |-> [c \in Competencies(u) |-> SeriesOf(u, c)],
                            total  |-> Len(u),
                            sum    |-> TotalOf(u)]
  BY DEF Aggregate, TotalOf
<1>8. [c \in Competencies(s) |-> SeriesOf(s, c)] = [c \in Competencies(t) |-> SeriesOf(t, c)]
  BY <1>5, <1>6
<1>9. Aggregate(s) = Aggregate(t)
  BY <1>2, <1>4, <1>7, <1>8
<1>. QED BY <1>9 DEF t

-----------------------------------------------------------------------------
(* What a search returns                                                   *)

Multiplying == INSTANCE FoldLaws WITH Op <- LAMBDA c, d, p, rank : p * (RrfK + rank)

Ranks   == 1..FetchPerSide
Product(s) == FoldLeft(LAMBDA p, rank : p * (RrfK + rank), 1, s)

LEMMA ProductGrows ==
  /\ Product(<<>>) = 1
  /\ \A s \in Seq(Ranks), x \in Ranks : Product(Append(s, x)) = Product(s) * (RrfK + x)
<1>1. \A s : Product(s) = Multiplying!Folded(0, 0, 1, s)
  BY DEF Product, Multiplying!Folded, Multiplying!Solves, FoldLeft, MapThenFoldSet, Max,
         Multiplying!Greatest
<1>2. Product(<<>>) = 1
  BY <1>1, Multiplying!FoldEmpty, LeastNumber DEF Multiplying!WellOrdered
<1>3. ASSUME NEW s \in Seq(Ranks), NEW x \in Ranks
      PROVE  Product(Append(s, x)) = Product(s) * (RrfK + x)
  BY <1>1, Multiplying!FoldAppend, LeastNumber DEF Multiplying!WellOrdered
<1>. QED BY <1>2, <1>3

\* Each of the factors divides the product.
Divides(s) ==
  Product(s) \in Nat \ {0} /\ \A i \in DOMAIN s : \E q \in Nat : Product(s) = (RrfK + s[i]) * q

LEMMA FactorsDivide == \A s \in Seq(Ranks) : Divides(s)
<1>. DEFINE P == {s \in Seq(Ranks) : Divides(s)}
<1>1. << >> \in P
  <2>1. Divides(<< >>)
    BY ProductGrows DEF Divides
  <2>. QED BY <2>1
<1>2. ASSUME NEW s \in Seq(Ranks), NEW x \in Ranks, s \in P PROVE Append(s, x) \in P
  <2>. DEFINE t == Append(s, x)
              m == Len(s) + 1
              f == RrfK + x
              p == Product(s)
  <2>1. /\ t \in Seq(Ranks) /\ DOMAIN t = 1..m /\ t[m] = x
        /\ \A i \in 1..m : i # m => i \in DOMAIN s /\ t[i] = s[i] /\ s[i] \in Ranks
    OBVIOUS
  <2>2. Product(t) = p * f
    BY ProductGrows
  <2>3. f \in Nat \ {0} /\ RrfK \in Nat
    BY RetrievalAssumption DEF Ranks
  <2>4. p \in Nat \ {0} /\ \A i \in DOMAIN s : \E q \in Nat : p = (RrfK + s[i]) * q
    BY <1>2 DEF Divides
  <2>. HIDE DEF t, m, p
  <2>5. Product(t) \in Nat \ {0}
    <3>. HIDE DEF f
    <3>1. \A i, j \in Nat \ {0} : i * j \in Nat \ {0}
      OBVIOUS
    <3>. QED BY <2>2, <2>3, <2>4, <3>1
  <2>6. ASSUME NEW i \in 1..m PROVE \E q \in Nat : Product(t) = (RrfK + t[i]) * q
    <3>1. CASE i = m
      <4>1. Product(t) = f * p /\ t[i] = x
        BY <2>1, <2>2, <2>3, <2>4, <3>1
      <4>. QED BY <2>4, <4>1
    <3>2. CASE i # m
      <4>1. i \in DOMAIN s /\ t[i] = s[i] /\ s[i] \in Ranks
        BY <2>1, <3>2
      <4>2. PICK q \in Nat : p = (RrfK + s[i]) * q
        BY <2>4, <4>1
      <4>. DEFINE g == RrfK + s[i]
      <4>3. g \in Nat /\ t[i] = s[i] /\ p = g * q
        BY <2>3, <4>1, <4>2 DEF Ranks
      <4>. HIDE DEF g, f
      <4>4. Product(t) = g * (q * f) /\ q * f \in Nat
        <5>1. \A a, b, c \in Nat : (a * b) * c = a * (b * c) /\ b * c \in Nat
          OBVIOUS
        <5>. QED BY <2>2, <2>3, <4>3, <5>1
      <4>. QED BY <4>3, <4>4 DEF g
    <3>. QED BY <3>1, <3>2
  <2>7. Divides(t)
    BY <2>1, <2>5, <2>6 DEF Divides
  <2>. QED BY <2>1, <2>7 DEF t
<1>. HIDE DEF P
<1>3. \A s \in Seq(Ranks) : s \in P
  BY <1>1, <1>2, SequenceInduction
<1>. QED BY <1>3 DEF P

\* A better rank has a greater share.
LEMMA SharesFall ==
  /\ \A r \in Ranks : Share(r) \in Nat \ {0}
  /\ \A q, r \in Ranks : q < r => Share(q) > Share(r)
<1>. DEFINE s == [r \in Ranks |-> r]
            D == Denominator
<1>1. FetchPerSide \in Nat /\ RrfK \in Nat
  BY RetrievalAssumption
<1>2. s \in Seq(Ranks) /\ DOMAIN s = Ranks /\ \A r \in Ranks : s[r] = r
  <2>1. s \in [1..FetchPerSide -> Ranks] /\ DOMAIN s = Ranks /\ \A r \in Ranks : s[r] = r
    BY DEF Ranks
  <2>. HIDE DEF s, Ranks
  <2>. QED BY <1>1, <2>1, FunctionIsSeq
<1>3. D = Product(s)
  BY DEF Denominator, Product, Ranks
<1>. HIDE DEF s
<1>4. D \in Nat \ {0} /\ \A r \in Ranks : \E q \in Nat : D = (RrfK + r) * q
  BY <1>2, <1>3, FactorsDivide DEF Divides
<1>. HIDE DEF D
<1>5. ASSUME NEW r \in Ranks PROVE Share(r) \in Nat \ {0} /\ D = (RrfK + r) * Share(r)
  <2>. DEFINE f == RrfK + r
  <2>1. f \in Nat \ {0}
    BY <1>1 DEF Ranks
  <2>2. PICK q \in Nat : D = f * q
    BY <1>4
  <2>. HIDE DEF f
  <2>3. (f * q) \div f = q
    BY <2>1
  <2>4. Share(r) = q
    BY <2>2, <2>3 DEF Share, D, f
  <2>5. q # 0
    BY <1>4, <2>1, <2>2
  <2>. QED BY <2>2, <2>4, <2>5 DEF f
<1>6. ASSUME NEW q \in Ranks, NEW r \in Ranks, q < r PROVE Share(q) > Share(r)
  <2>. DEFINE a == RrfK + q
              b == RrfK + r
              x == Share(q)
              y == Share(r)
  <2>1. a \in Nat \ {0} /\ b \in Nat \ {0} /\ a < b
    BY <1>1, <1>6 DEF Ranks
  <2>2. x \in Nat \ {0} /\ y \in Nat \ {0} /\ a * x = b * y
    BY <1>5
  <2>. HIDE DEF a, b, x, y
  <2>3. SUFFICES ASSUME x <= y PROVE FALSE
    BY <2>2 DEF x, y
  <2>4. a * x <= a * y
    <3>1. \A i, j \in Nat, k \in Nat : i <= j => k * i <= k * j
      OBVIOUS
    <3>. QED BY <2>1, <2>2, <2>3, <3>1
  <2>5. a * y < b * y
    <3>1. \A i, j \in Nat, k \in Nat \ {0} : i < j => i * k < j * k
      OBVIOUS
    <3>. QED BY <2>1, <2>2, <3>1
  <2>. QED BY <2>1, <2>2, <2>4, <2>5
<1>. QED BY <1>5, <1>6

Once(s) == \A i, j \in DOMAIN s : s[i] = s[j] => i = j

LEMMA RankOf ==
  ASSUME NEW s, Once(s)
  PROVE  /\ \A i \in DOMAIN s : Rank(s, s[i]) = i
         /\ \A c \in ToSet(s) : Rank(s, c) \in DOMAIN s /\ s[Rank(s, c)] = c
<1>1. ASSUME NEW c \in ToSet(s) PROVE Rank(s, c) \in DOMAIN s /\ s[Rank(s, c)] = c
  <2>1. \E r \in DOMAIN s : s[r] = c
    BY DEF ToSet
  <2>. QED BY <2>1 DEF Rank
<1>2. ASSUME NEW i \in DOMAIN s PROVE Rank(s, s[i]) = i
  <2>1. s[i] \in ToSet(s)
    BY DEF ToSet
  <2>2. Rank(s, s[i]) \in DOMAIN s /\ s[Rank(s, s[i])] = s[i]
    BY <1>1, <2>1
  <2>. QED BY <2>2 DEF Once
<1>. QED BY <1>1, <1>2

LEMMA OnceCounts ==
  ASSUME NEW S, NEW s \in Seq(S), Once(s)
  PROVE  Cardinality(ToSet(s)) = Len(s)
<1>. DEFINE n == Len(s)
            Q == 1..n
            R == ToSet(s)
<1>1. n \in Nat /\ DOMAIN s = Q
  OBVIOUS
<1>2. IsFiniteSet(Q) /\ Cardinality(Q) = n
  BY <1>1, Places
<1>3. s \in [Q -> R] /\ \A r \in R : \E i \in Q : s[i] = r
  <2>1. s = [i \in Q |-> s[i]]
    OBVIOUS
  <2>. HIDE DEF Q
  <2>. QED BY <1>1, <2>1 DEF ToSet
<1>4. \A i, j \in Q : s[i] = s[j] => i = j
  BY <1>1 DEF Once
<1>. HIDE DEF Q, R, n
<1>5. s \in Bijection(Q, R)
  BY <1>3, <1>4 DEF Bijection, Injection, Surjection, IsInjective
<1>6. Cardinality(R) = n
  BY <1>2, <1>5, FS_Bijection DEF ExistsBijection
<1>. QED BY <1>6 DEF R, n

\* A sorted sequence without repetitions.
SortsOnce(t, S, s, key) ==
  /\ t \in Seq(S) /\ Len(t) = Len(s) /\ Once(t) /\ ToSet(t) = ToSet(s)
  /\ \A k, l \in DOMAIN t : k < l => key[Rank(s, t[k])] >= key[Rank(s, t[l])]

LEMMA SortedOnce ==
  ASSUME NEW S, NEW s \in Seq(S), Once(s), NEW n, n = Len(s), NEW key \in [1..n -> Int],
         NEW t, t = SortedBy(s, key)
  PROVE  SortsOnce(t, S, s, key)
<1>. DEFINE at == Arrange(1..n, key)
<1>1. /\ t \in Seq(S) /\ Reads(t, s, n, at) /\ IsArranged(1..n, n, key, at)
      /\ Gathers(t, s, n, 1..n)
  BY Sorted, SortedGathers
<1>. HIDE DEF at
<1>2. n \in Nat /\ DOMAIN s = 1..n
  OBVIOUS
<1>3. DOMAIN t = 1..n /\ Len(t) = n /\ \A k \in 1..n : t[k] = s[at[k]]
  BY <1>1 DEF Reads
<1>4. /\ \A k \in 1..n : at[k] \in 1..n
      /\ \A k, l \in 1..n : k < l => Precedes(at[k], at[l], key)
  BY <1>1 DEF IsArranged
<1>5. \A i \in 1..n : key[i] \in Int /\ i \in Int
  OBVIOUS
<1>6. ASSUME NEW k \in 1..n, NEW l \in 1..n, k < l
      PROVE  at[k] # at[l] /\ key[at[k]] >= key[at[l]]
  <2>1. Precedes(at[k], at[l], key) /\ at[k] \in 1..n /\ at[l] \in 1..n
    BY <1>4, <1>6
  <2>. QED BY <1>5, <2>1 DEF Precedes
<1>7. \A k \in 1..n : Rank(s, t[k]) = at[k]
  BY <1>2, <1>3, <1>4, RankOf
<1>8. Once(t)
  <2>1. ASSUME NEW k \in 1..n, NEW l \in 1..n, t[k] = t[l], k < l PROVE FALSE
    <3>1. at[k] = at[l]
      BY <1>7, <2>1
    <3>. QED BY <1>6, <2>1, <3>1
  <2>2. \A k, l \in 1..n : k # l => k < l \/ l < k
    BY <1>2
  <2>. QED BY <1>3, <2>1, <2>2 DEF Once
<1>9. ToSet(t) = ToSet(s)
  BY <1>1, <1>2, GathersAll
<1>10. \A k, l \in DOMAIN t : k < l => key[Rank(s, t[k])] >= key[Rank(s, t[l])]
  BY <1>3, <1>6, <1>7
<1>. QED BY <1>1, <1>3, <1>8, <1>9, <1>10 DEF SortsOnce

\* The first of a sequence.
IsTake(t, S, s, h) ==
  t \in Seq(S) /\ Len(t) = h /\ DOMAIN t = 1..h /\ \A i \in 1..h : i \in DOMAIN s /\ t[i] = s[i]

LEMMA TakeIs ==
  ASSUME NEW S, NEW s \in Seq(S), NEW k \in Nat, NEW h, h = Least(k, Len(s))
  PROVE  /\ h \in Nat /\ h <= k /\ h <= Len(s)
         /\ IsTake(Take(s, k), S, s, h)
<1>1. h \in Nat /\ h <= k /\ h <= Len(s) /\ h \in 0..Len(s)
  BY DEF Least
<1>2. Take(s, k) = SubSeq(s, 1, h)
  <2>1. h = IF Len(s) < k THEN Len(s) ELSE k
    BY DEF Least
  <2>. QED BY <2>1 DEF Take
<1>3. \A i \in 1..h : i \in DOMAIN s
  BY <1>1
<1>. DEFINE t == SubSeq(s, 1, h)
<1>4. t \in Seq(S) /\ Len(t) = h /\ \A i \in 1..h : t[i] = s[i]
  BY <1>1
<1>. HIDE DEF t
<1>5. DOMAIN t = 1..h
  BY <1>4
<1>. QED BY <1>1, <1>2, <1>3, <1>4, <1>5 DEF IsTake, t

IsLeg(s) == s \in Seq(Hits) /\ Once(s) /\ Len(s) <= FetchPerSide

\* The part of a chunk in a leg.
LEMMA Parts ==
  ASSUME NEW s, IsLeg(s)
  PROVE  /\ \A c : Part(s, c) \in Nat
         /\ \A c, d : c \in ToSet(s) /\ (d \in ToSet(s) => Rank(s, c) < Rank(s, d))
                        => Part(s, c) > Part(s, d)
<1>1. DOMAIN s \subseteq Ranks
  <2>1. s \in Seq(Hits) /\ Len(s) <= FetchPerSide /\ FetchPerSide \in Nat
    BY RetrievalAssumption DEF IsLeg
  <2>. QED BY <2>1 DEF Ranks
<1>2. \A c \in ToSet(s) : Rank(s, c) \in Ranks
  BY <1>1, RankOf DEF IsLeg
<1>3. \A c \in ToSet(s) : Part(s, c) = Share(Rank(s, c)) /\ Part(s, c) \in Nat \ {0}
  BY <1>2, SharesFall DEF Part
<1>4. \A c : c \notin ToSet(s) => Part(s, c) = 0
  BY DEF Part
<1>5. ASSUME NEW c \in ToSet(s), NEW d, d \in ToSet(s) => Rank(s, c) < Rank(s, d)
      PROVE  Part(s, c) > Part(s, d)
  <2>1. CASE d \in ToSet(s)
    BY <1>2, <1>3, <1>5, <2>1, SharesFall
  <2>2. CASE d \notin ToSet(s)
    BY <1>3, <1>4, <2>2
  <2>. QED BY <2>1, <2>2
<1>. QED BY <1>3, <1>4, <1>5

\* What the two legs found, without repetitions, the greatest score first.
ScoreIn(vector, fts, c) == Part(vector, c) + Part(fts, c)
IsFused(t, vector, fts) ==
  /\ t \in Seq(Hits) /\ Len(t) <= Len(vector) + Len(fts) /\ Once(t)
  /\ \A k, l \in DOMAIN t : k < l => ScoreIn(vector, fts, t[k]) >= ScoreIn(vector, fts, t[l])

LEMMA FuseIs ==
  ASSUME NEW vector, IsLeg(vector), NEW fts, IsLeg(fts)
  PROVE  IsFused(Fuse(vector, fts), vector, fts)
<1>. DEFINE I    == {r \in DOMAIN fts : fts[r] \notin ToSet(vector)}
            more == Picked(fts, I)
            both == vector \o more
            n    == Len(both)
            key  == [i \in 1..n |-> ScoreIn(vector, fts, both[i])]
            t    == SortedBy(both, key)
            a    == Len(vector)
            b    == Len(more)
            zero == [i \in I |-> 0]
            at   == Arrange(I, zero)
<1>1. /\ vector \in Seq(Hits) /\ fts \in Seq(Hits) /\ Once(vector) /\ Once(fts)
      /\ a \in Nat /\ DOMAIN vector = 1..a
  BY DEF IsLeg
<1>2. I \in SUBSET DOMAIN fts /\ \A r \in I : fts[r] \notin ToSet(vector) /\ zero[r] = 0
  OBVIOUS
<1>. HIDE DEF I
<1>3. /\ more \in Seq(Hits) /\ Reads(more, fts, Cardinality(I), at)
      /\ IsArranged(I, Cardinality(I), zero, at)
  BY <1>1, <1>2, PickedInOrder
<1>4. Cardinality(I) \in Nat /\ Cardinality(I) <= Len(fts)
  <2>. DEFINE Q == 1..Len(fts)
  <2>1. Len(fts) \in Nat /\ DOMAIN fts = Q
    BY <1>1
  <2>2. IsFiniteSet(Q) /\ Cardinality(Q) = Len(fts)
    BY <2>1, Places
  <2>. HIDE DEF Q
  <2>. QED BY <1>2, <2>1, <2>2, FS_Subset, FS_CardinalityType
<1>. HIDE DEF zero, at
<1>5. b \in Nat /\ b <= Len(fts) /\ DOMAIN more = 1..b
  BY <1>3, <1>4 DEF Reads
<1>6. \A k \in 1..b : more[k] \notin ToSet(vector)
  <2>1. \A k \in 1..b : at[k] \in I /\ more[k] = fts[at[k]]
    BY <1>3, <1>5 DEF Reads, IsArranged
  <2>. QED BY <1>2, <2>1
<1>7. Once(more)
  <2>1. ASSUME NEW k \in 1..b, NEW l \in 1..b, k < l PROVE more[k] # more[l]
    <3>1. /\ at[k] \in I /\ at[l] \in I /\ Precedes(at[k], at[l], zero)
          /\ more[k] = fts[at[k]] /\ more[l] = fts[at[l]]
      BY <1>3, <1>5, <2>1 DEF Reads, IsArranged
    <3>2. at[k] # at[l]
      <4>1. \A i \in I : i \in Int
        BY <1>1, <1>2
      <4>. QED BY <1>2, <3>1, <4>1 DEF Precedes
    <3>. QED BY <1>1, <1>2, <3>1, <3>2 DEF Once
  <2>2. \A k, l \in 1..b : k # l => k < l \/ l < k
    BY <1>5
  <2>. QED BY <1>5, <2>1, <2>2 DEF Once
<1>. HIDE DEF more
<1>8. /\ both \in Seq(Hits) /\ n \in Nat /\ n = a + b /\ DOMAIN both = 1..n
      /\ \A i \in 1..a : both[i] = vector[i]
      /\ \A i \in 1..n : i > a => i - a \in 1..b /\ both[i] = more[i - a]
  BY <1>1, <1>3
<1>. HIDE DEF a, b, n, both
<1>9. Once(both)
  <2>1. ASSUME NEW i \in 1..n, NEW j \in 1..n, both[i] = both[j], i < j PROVE FALSE
    <3>1. CASE j <= a
      <4>1. i \in 1..a /\ j \in 1..a /\ vector[i] = vector[j]
        BY <1>1, <1>8, <2>1, <3>1
      <4>. QED BY <1>1, <2>1, <4>1 DEF Once
    <3>2. CASE i <= a /\ j > a
      <4>1. i \in 1..a /\ j - a \in 1..b /\ vector[i] = more[j - a]
        BY <1>1, <1>8, <2>1, <3>2
      <4>2. vector[i] \in ToSet(vector)
        BY <1>1, <4>1 DEF ToSet
      <4>. QED BY <1>6, <4>1, <4>2
    <3>3. CASE i > a
      <4>1. i - a \in 1..b /\ j - a \in 1..b /\ more[i - a] = more[j - a] /\ i - a # j - a
        BY <1>1, <1>8, <2>1, <3>3
      <4>. QED BY <1>5, <1>7, <4>1 DEF Once
    <3>. QED BY <1>1, <1>8, <2>1, <3>1, <3>2, <3>3
  <2>2. \A k, l \in 1..n : k # l => k < l \/ l < k
    BY <1>8
  <2>. QED BY <1>8, <2>1, <2>2 DEF Once
<1>10. \A c : ScoreIn(vector, fts, c) \in Int
  BY Parts DEF ScoreIn
<1>11. key \in [1..n -> Int] /\ \A i \in 1..n : key[i] = ScoreIn(vector, fts, both[i])
  BY <1>10
<1>12. Fuse(vector, fts) = t
  BY <1>8 DEF Fuse, both, more, I, ScoreIn
<1>. HIDE DEF key
<1>13. SortsOnce(t, Hits, both, key)
  BY <1>8, <1>9, <1>11, SortedOnce DEF n
<1>. HIDE DEF t
<1>14. /\ t \in Seq(Hits) /\ Len(t) = n /\ Once(t) /\ ToSet(t) = ToSet(both)
       /\ \A k, l \in DOMAIN t : k < l => key[Rank(both, t[k])] >= key[Rank(both, t[l])]
  BY <1>13 DEF SortsOnce, n
<1>15. \A k \in DOMAIN t : key[Rank(both, t[k])] = ScoreIn(vector, fts, t[k])
  <2>1. \A k \in DOMAIN t : t[k] \in ToSet(both)
    BY <1>14 DEF ToSet
  <2>2. \A c \in ToSet(both) : Rank(both, c) \in 1..n /\ both[Rank(both, c)] = c
    BY <1>8, <1>9, RankOf
  <2>. QED BY <1>11, <2>1, <2>2
<1>16. Len(t) <= Len(vector) + Len(fts)
  <2>1. a = Len(vector) /\ Len(fts) \in Nat
    BY <1>1 DEF a
  <2>. QED BY <1>1, <1>5, <1>8, <1>14, <2>1
<1>17. IsFused(t, vector, fts)
  BY <1>14, <1>15, <1>16 DEF IsFused
<1>. QED BY <1>12, <1>17

LegAhead(s, c, d) ==
  c \in ToSet(s) /\ (d \in ToSet(s) => Rank(s, c) < Rank(s, d))
LegNeutral(s, c, d) == {c, d} \cap ToSet(s) = {}

LEMMA AheadScoresMore ==
  ASSUME NEW vector, IsLeg(vector), NEW fts, IsLeg(fts), NEW c, NEW d,
         LegAhead(vector, c, d) \/ LegNeutral(vector, c, d),
         LegAhead(fts, c, d) \/ LegNeutral(fts, c, d),
         LegAhead(vector, c, d) \/ LegAhead(fts, c, d)
  PROVE  ScoreIn(vector, fts, c) > ScoreIn(vector, fts, d)
<1>1. ASSUME NEW s, IsLeg(s) PROVE /\ Part(s, c) \in Nat /\ Part(s, d) \in Nat
                                   /\ LegAhead(s, c, d) => Part(s, c) > Part(s, d)
                                   /\ LegNeutral(s, c, d) => Part(s, c) = Part(s, d)
  <2>1. LegNeutral(s, c, d) => Part(s, c) = 0 /\ Part(s, d) = 0
    BY DEF LegNeutral, Part
  <2>. QED BY <1>1, <2>1, Parts DEF LegAhead
<1>2. /\ Part(vector, c) \in Nat /\ Part(vector, d) \in Nat
      /\ LegAhead(vector, c, d) => Part(vector, c) > Part(vector, d)
      /\ LegNeutral(vector, c, d) => Part(vector, c) = Part(vector, d)
  BY <1>1
<1>3. /\ Part(fts, c) \in Nat /\ Part(fts, d) \in Nat
      /\ LegAhead(fts, c, d) => Part(fts, c) > Part(fts, d)
      /\ LegNeutral(fts, c, d) => Part(fts, c) = Part(fts, d)
  BY <1>1
<1>. QED BY <1>2, <1>3 DEF ScoreIn

ScoresOf(fused) == [DOMAIN fused -> {Unscored, 1, 2}] \cup {Unavailable}

\* A search returns the first of the fused hits, reranked where that is done.
Reranked(fused, scores) ==
  IF Len(fused) > 1 /\ scores # Unavailable THEN Rerank(fused, scores) ELSE fused
Answer(vector, fts, scores) ==
  Search(IF vector = <<>> THEN Unavailable ELSE vector, fts, scores).chunks

LEMMA SearchIs ==
  ASSUME NEW vector, IsLeg(vector), NEW fts, IsLeg(fts), NEW scores
  PROVE  Answer(vector, fts, scores) = Take(Reranked(Fuse(vector, fts), scores), TopK)
<1>. DEFINE leg == IF vector = <<>> THEN Unavailable ELSE vector
            hits == IF leg = Unavailable THEN <<>> ELSE leg
            fused == Fuse(vector, fts)
            ranked == Reranked(fused, scores)
            found == Search(leg, fts, scores).chunks
<1>1. IsFused(fused, vector, fts)
  BY FuseIs
<1>2. fused \in Seq(Hits) /\ Len(fused) <= FetchPerSide * 3 /\ Len(fused) \in Nat
  <2>1. /\ fused \in Seq(Hits) /\ Len(fused) <= Len(vector) + Len(fts)
        /\ Len(vector) <= FetchPerSide /\ Len(fts) <= FetchPerSide
        /\ vector \in Seq(Hits) /\ fts \in Seq(Hits)
    BY <1>1 DEF IsFused, IsLeg
  <2>2. Len(vector) \in Nat /\ Len(fts) \in Nat /\ Len(fused) \in Nat
    BY <2>1
  <2>. QED BY <2>1, <2>2, RetrievalAssumption
<1>3. hits = vector
  <2>1. vector # Unavailable
    BY HitsAssumption DEF IsLeg
  <2>. QED BY <2>1
<1>4. Take(fused, FetchPerSide * 3) = fused
  <2>. DEFINE k == FetchPerSide * 3
  <2>1. k \in Nat /\ Len(fused) <= k
    BY <1>2, RetrievalAssumption
  <2>. HIDE DEF k
  <2>2. Take(fused, k) = SubSeq(fused, 1, Len(fused))
    BY <1>2, <2>1 DEF Take
  <2>. QED BY <1>2, <2>2, SubSeqFull DEF k
<1>. HIDE DEF hits
<1>5. found = Take(ranked, TopK)
  <2>1. found = LET full == Take(Fuse(hits, fts), FetchPerSide * 3)
                IN Take(Reranked(full, scores), TopK)
    BY DEF Search, Reranked, hits
  <2>. QED BY <1>3, <1>4, <2>1
<1>. QED BY <1>5 DEF Answer

\* What a reader of the results relies on.
Judged(fused, found, scores, vector, fts) ==
  /\ Len(found) = Cardinality(ToSet(found))
  /\ Len(found) = Least(TopK, Len(fused))
  /\ scores = Unavailable =>
       \A c \in ToSet(fused), d \in ToSet(found) :
         ScoreIn(vector, fts, c) > ScoreIn(vector, fts, d) =>
           c \in ToSet(found) /\ Rank(found, c) < Rank(found, d)
  /\ scores # Unavailable =>
       \A c \in ToSet(found), d \in ToSet(fused) \ ToSet(found) :
         ScoreOf(scores, Rank(fused, c)) >= ScoreOf(scores, Rank(fused, d))

\* The first h of a sequence without repetitions.
LEMMA FirstOnes ==
  ASSUME NEW S, NEW s \in Seq(S), Once(s), NEW h, h <= Len(s), NEW t, IsTake(t, S, s, h)
  PROVE  /\ Once(t) /\ Len(t) = Cardinality(ToSet(t))
         /\ \A d \in ToSet(t) : Rank(s, d) \in 1..h /\ Rank(t, d) = Rank(s, d)
         /\ \A c \in ToSet(s) : Rank(s, c) <= h => c \in ToSet(t)
<1>1. /\ DOMAIN s = 1..Len(s) /\ t \in Seq(S) /\ Len(t) = h /\ DOMAIN t = 1..h /\ h \in Nat
      /\ \A i \in 1..h : i \in DOMAIN s /\ t[i] = s[i]
  BY DEF IsTake
<1>2. Once(t)
  BY <1>1 DEF Once
<1>3. ASSUME NEW d \in ToSet(t) PROVE Rank(s, d) \in 1..h /\ Rank(t, d) = Rank(s, d)
  <2>1. Rank(t, d) \in 1..h /\ t[Rank(t, d)] = d
    BY <1>1, <1>2, RankOf
  <2>2. Rank(t, d) \in DOMAIN s /\ s[Rank(t, d)] = d
    BY <1>1, <2>1
  <2>3. Rank(s, d) = Rank(t, d)
    BY <2>2, RankOf
  <2>. QED BY <2>1, <2>3
<1>4. ASSUME NEW c \in ToSet(s), Rank(s, c) <= h PROVE c \in ToSet(t)
  <2>1. Rank(s, c) \in DOMAIN s /\ s[Rank(s, c)] = c
    BY RankOf
  <2>2. Rank(s, c) \in 1..h
    BY <1>1, <1>4, <2>1
  <2>3. t[Rank(s, c)] = c
    BY <1>1, <2>1, <2>2
  <2>. QED BY <1>1, <2>2, <2>3 DEF ToSet
<1>5. Len(t) = Cardinality(ToSet(t))
  BY <1>1, <1>2, OnceCounts
<1>. QED BY <1>2, <1>3, <1>4, <1>5

\* What is returned is the best of what was fused.
LEMMA SearchJudged ==
  ASSUME NEW vector, IsLeg(vector), NEW fts, IsLeg(fts),
         NEW fused, fused = Fuse(vector, fts), NEW scores \in ScoresOf(fused),
         NEW found, found = Answer(vector, fts, scores)
  PROVE  Judged(fused, found, scores, vector, fts)
<1>. DEFINE asked  == Len(fused) > 1 /\ scores # Unavailable
            ranked == IF asked THEN Rerank(fused, scores) ELSE fused
            n == Len(fused)
            h == Least(TopK, n)
            score(c) == ScoreIn(vector, fts, c)
            key == [i \in 1..n |-> ScoreOf(scores, i)]
<1>1. found = Take(ranked, TopK)
  <2>1. ranked = Reranked(fused, scores)
    BY DEF Reranked
  <2>. HIDE DEF ranked
  <2>. QED BY <2>1, SearchIs
<1>2. /\ fused \in Seq(Hits) /\ n \in Nat /\ DOMAIN fused = 1..n /\ Once(fused)
      /\ \A k, l \in DOMAIN fused : k < l => score(fused[k]) >= score(fused[l])
  BY FuseIs DEF IsFused
<1>3. \A i \in 1..n : scores # Unavailable => ScoreOf(scores, i) \in {0, 1, 2}
  BY <1>2 DEF ScoresOf, ScoreOf
<1>4. asked => /\ ranked \in Seq(Hits) /\ Len(ranked) = n /\ Once(ranked)
               /\ ToSet(ranked) = ToSet(fused)
               /\ \A k, l \in DOMAIN ranked :
                    k < l => ScoreOf(scores, Rank(fused, ranked[k]))
                               >= ScoreOf(scores, Rank(fused, ranked[l]))
  <2>1. SUFFICES ASSUME asked PROVE /\ ranked \in Seq(Hits) /\ Len(ranked) = n /\ Once(ranked)
               /\ ToSet(ranked) = ToSet(fused)
               /\ \A k, l \in DOMAIN ranked :
                    k < l => ScoreOf(scores, Rank(fused, ranked[k]))
                               >= ScoreOf(scores, Rank(fused, ranked[l]))
    OBVIOUS
  <2>2. key \in [1..n -> Int]
    BY <1>3, <2>1
  <2>3. ranked = SortedBy(fused, key)
    BY <1>2, <2>1 DEF Rerank
  <2>4. \A i \in 1..n : key[i] = ScoreOf(scores, i)
    OBVIOUS
  <2>. HIDE DEF key, ranked
  <2>5. SortsOnce(ranked, Hits, fused, key)
    BY <1>2, <2>2, <2>3, SortedOnce
  <2>6. \A c \in ToSet(fused) : key[Rank(fused, c)] = ScoreOf(scores, Rank(fused, c))
    BY <1>2, <2>4, RankOf
  <2>7. \A k \in DOMAIN ranked : ranked[k] \in ToSet(fused)
    <3>1. ToSet(ranked) = ToSet(fused)
      BY <2>5 DEF SortsOnce
    <3>. QED BY <3>1 DEF ToSet
  <2>. QED BY <2>5, <2>6, <2>7 DEF SortsOnce
<1>5. /\ ranked \in Seq(Hits) /\ Len(ranked) = n /\ Once(ranked) /\ ToSet(ranked) = ToSet(fused)
  BY <1>2, <1>4
<1>6. ~asked => ranked = fused
  OBVIOUS
<1>. HIDE DEF ranked, key
<1>7. /\ h \in Nat /\ h <= TopK /\ h <= n /\ IsTake(found, Hits, ranked, h)
  BY <1>1, <1>5, TakeIs, RetrievalAssumption
<1>8. /\ Once(found) /\ Len(found) = Cardinality(ToSet(found)) /\ Len(found) = h
      /\ DOMAIN found = 1..h
      /\ \A d \in ToSet(found) : Rank(ranked, d) \in 1..h /\ Rank(found, d) = Rank(ranked, d)
      /\ \A c \in ToSet(ranked) : Rank(ranked, c) <= h => c \in ToSet(found)
  BY <1>5, <1>7, FirstOnes DEF IsTake
<1>9. \A c \in ToSet(fused) : Rank(ranked, c) \in 1..n /\ ranked[Rank(ranked, c)] = c
  BY <1>5, RankOf
<1>10. ToSet(found) \subseteq ToSet(fused)
  <2>1. \A k \in 1..h : found[k] = ranked[k] /\ k \in DOMAIN ranked
    BY <1>7 DEF IsTake
  <2>. QED BY <1>5, <1>8, <2>1 DEF ToSet
<1>11. ASSUME scores = Unavailable, NEW c \in ToSet(fused), NEW d \in ToSet(found),
              score(c) > score(d)
       PROVE  c \in ToSet(found) /\ Rank(found, c) < Rank(found, d)
  <2>1. /\ Rank(fused, d) \in 1..h /\ Rank(found, d) = Rank(fused, d)
        /\ Rank(fused, c) \in 1..n /\ fused[Rank(fused, c)] = c
        /\ Rank(fused, d) \in 1..n /\ fused[Rank(fused, d)] = d
    BY <1>6, <1>8, <1>9, <1>10, <1>11
  <2>2. score(c) \in Int /\ score(d) \in Int
    BY Parts DEF ScoreIn
  <2>. HIDE DEF score, h, n
  <2>3. ~(Rank(fused, d) < Rank(fused, c)) /\ Rank(fused, c) # Rank(fused, d)
    BY <1>2, <1>11, <2>1, <2>2
  <2>4. Rank(fused, c) < Rank(fused, d)
    BY <1>2, <2>1, <2>3
  <2>5. Rank(fused, c) <= h
    BY <1>2, <1>7, <2>1, <2>4
  <2>6. c \in ToSet(found) /\ Rank(found, c) = Rank(fused, c)
    BY <1>6, <1>8, <1>11, <2>5
  <2>. QED BY <2>1, <2>4, <2>6
<1>12. ASSUME scores # Unavailable, NEW c \in ToSet(found), NEW d \in ToSet(fused) \ ToSet(found)
       PROVE  ScoreOf(scores, Rank(fused, c)) >= ScoreOf(scores, Rank(fused, d))
  <2>1. /\ Rank(ranked, c) \in 1..h /\ Rank(ranked, c) \in 1..n /\ ranked[Rank(ranked, c)] = c
        /\ Rank(ranked, d) \in 1..n /\ ranked[Rank(ranked, d)] = d /\ ~(Rank(ranked, d) <= h)
    BY <1>5, <1>8, <1>9, <1>10, <1>12
  <2>2. asked
    <3>1. n > 1
      <4>1. h # 0 /\ n > h
        BY <1>2, <1>7, <2>1
      <4>. QED BY <1>2, <1>7, <4>1
    <3>. QED BY <1>12, <3>1
  <2>3. Rank(ranked, c) < Rank(ranked, d)
    BY <1>2, <1>7, <2>1
  <2>4. DOMAIN ranked = 1..n
    BY <1>5
  <2>. QED BY <1>4, <2>1, <2>2, <2>3, <2>4
<1>. QED BY <1>8, <1>11, <1>12 DEF Judged

\* The places of a search's input that are of one leg.
Of(leg) == {i \in DOMAIN input : input[i].leg = leg}

\* What a leg has found is without repetitions and not too long.
LegOK(leg) ==
  /\ Cardinality(Of(leg)) <= FetchPerSide
  /\ \A i, j \in Of(leg) : input[i].chunk = input[j].chunk => i = j

LEMMA LegHitsAre ==
  ASSUME NEW leg, input \in Seq(Found)
  PROVE  /\ LegHits(leg) \in Seq(Hits) /\ Len(LegHits(leg)) = Cardinality(Of(leg))
         /\ ToSet(LegHits(leg)) = {input[i].chunk : i \in Of(leg)}
         /\ LegOK(leg) => IsLeg(LegHits(leg))
<1>. DEFINE I    == Of(leg)
            n    == Cardinality(I)
            hits == Picked(input, I)
            t    == LegHits(leg)
            zero == [i \in I |-> 0]
            at   == Arrange(I, zero)
<1>1. I \in SUBSET DOMAIN input /\ DOMAIN input \subseteq Int /\ \A i \in I : zero[i] = 0
  BY DEF Of
<1>2. t = [k \in DOMAIN hits |-> hits[k].chunk]
  BY DEF LegHits, Of
<1>. HIDE DEF I, t, n, zero, at
<1>3. /\ hits \in Seq(Found) /\ Reads(hits, input, n, at) /\ IsArranged(I, n, zero, at)
      /\ Gathers(hits, input, n, I)
  BY <1>1, PickedInOrder, PickedGathers DEF n, zero, at
<1>. HIDE DEF hits
<1>4. /\ n \in Nat /\ DOMAIN hits = 1..n
      /\ \A k \in 1..n : at[k] \in I /\ hits[k] = input[at[k]] /\ hits[k] \in Found
  BY <1>3 DEF Reads, IsArranged
<1>5. t \in [1..n -> Hits] /\ \A k \in 1..n : t[k] = input[at[k]].chunk
  BY <1>2, <1>4 DEF Found
<1>6. t \in Seq(Hits) /\ Len(t) = n /\ DOMAIN t = 1..n
  BY <1>4, <1>5, FunctionIsSeq
<1>7. ToSet(t) = {input[i].chunk : i \in I}
  <2>1. ToSet(t) = {t[k] : k \in 1..n}
    BY <1>6 DEF ToSet
  <2>2. \A k \in 1..n : t[k] \in {input[i].chunk : i \in I}
    BY <1>4, <1>5
  <2>3. \A i \in I : \E k \in 1..n : at[k] = i
    BY <1>3 DEF IsArranged
  <2>4. \A i \in I : \E k \in 1..n : t[k] = input[i].chunk
    BY <1>5, <2>3
  <2>5. ToSet(t) \subseteq {input[i].chunk : i \in I}
    BY <2>1, <2>2
  <2>6. {input[i].chunk : i \in I} \subseteq ToSet(t)
    BY <2>1, <2>4
  <2>. QED BY <2>5, <2>6
<1>8. ASSUME LegOK(leg) PROVE IsLeg(t)
  <2>1. ASSUME NEW k \in 1..n, NEW l \in 1..n, t[k] = t[l], k < l PROVE FALSE
    <3>1. at[k] = at[l]
      BY <1>4, <1>5, <1>8, <2>1 DEF LegOK, I
    <3>2. Precedes(at[k], at[l], zero) /\ at[k] \in I /\ at[k] \in Int
      BY <1>1, <1>3, <1>4, <2>1 DEF IsArranged
    <3>. QED BY <1>1, <3>1, <3>2 DEF Precedes
  <2>2. \A k, l \in 1..n : k # l => k < l \/ l < k
    BY <1>4
  <2>3. Once(t)
    BY <1>6, <2>1, <2>2 DEF Once
  <2>. QED BY <1>6, <1>8, <2>3 DEF IsLeg, LegOK, n, I
<1>. QED BY <1>6, <1>7, <1>8 DEF t, I, n

LEMMA LegOf ==
  ASSUME NEW leg, NEW x, NEW n, input \in Seq(Found), n = Len(input) + 1,
         input' = Append(input, x)
  PROVE  /\ n \notin DOMAIN input /\ input'[n] = x
         /\ \A i \in DOMAIN input : input'[i] = input[i]
         /\ Of(leg)' = Of(leg) \cup {i \in {n} : x.leg = leg}
<1>. DEFINE s == input
            t == Append(s, x)
<1>1. /\ DOMAIN s = 1..Len(s) /\ Len(s) \in Nat /\ DOMAIN t = 1..n /\ n \in Nat /\ t[n] = x
      /\ n \notin 1..Len(s) /\ 1..n = (1..Len(s)) \cup {n}
      /\ \A i \in DOMAIN s : t[i] = s[i]
  OBVIOUS
<1>. HIDE DEF t
<1>2. {i \in DOMAIN t : t[i].leg = leg} = Of(leg) \cup {i \in {n} : x.leg = leg}
  BY <1>1 DEF Of
<1>3. input' = t
  BY DEF t
<1>4. Of(leg)' = {i \in DOMAIN t : t[i].leg = leg}
  BY <1>3 DEF Of
<1>. QED BY <1>1, <1>2, <1>3, <1>4

-----------------------------------------------------------------------------
(* What is indexed                                                         *)

Joining   == INSTANCE FoldLaws WITH Op <- LAMBDA c, d, s, x : s \o x
Packing   == INSTANCE FoldLaws WITH Op <- LAMBDA c, d, s, x : Pack(s, x)
Splitting == INSTANCE FoldLaws WITH Op <- LAMBDA c, d, s, x : SplitWord(s, x)

\* FlattenSeq, by the elements it has joined.
Joined(s) == Joining!Folded(0, 0, <<>>, s)
Flattens(s, f) ==
  f = [i \in 1..Len(s) |-> IF i = 1 THEN s[i] ELSE f[i - 1] \o s[i]]

LEMMA JoinedGrows ==
  ASSUME NEW S
  PROVE  /\ Joined(<<>>) = <<>>
         /\ \A s \in Seq(Seq(S)) : /\ Joined(s) \in Seq(S)
                                   /\ \A x \in Seq(S) : Joined(Append(s, x)) = Joined(s) \o x
<1>. DEFINE R == Seq(S)
<1>0. Joining!WellOrdered
  BY LeastNumber DEF Joining!WellOrdered
<1>1. Joined(<<>>) = <<>>
  BY <1>0, Joining!FoldEmpty DEF Joined
<1>2. \A s \in Seq(Seq(S)), x \in Seq(S) : Joined(Append(s, x)) = Joined(s) \o x
  <2>. SUFFICES ASSUME NEW s \in Seq(R), NEW x \in R
                PROVE  Joined(Append(s, x)) = Joined(s) \o x
    OBVIOUS
  <2>. HIDE DEF R
  <2>. QED BY <1>0, Joining!FoldAppend DEF Joined
<1>. DEFINE P == {s \in Seq(Seq(S)) : Joined(s) \in Seq(S)}
<1>3. \A s \in Seq(Seq(S)) : s \in P
  <2>1. <<>> \in P
    <3>1. <<>> \in Seq(Seq(S)) /\ <<>> \in Seq(S)
      OBVIOUS
    <3>. QED BY <1>1, <3>1
  <2>2. ASSUME NEW s \in Seq(Seq(S)), NEW x \in Seq(S), s \in P PROVE Append(s, x) \in P
    <3>. DEFINE y == Joined(s)
    <3>1. Append(s, x) \in Seq(Seq(S)) /\ y \in Seq(S) /\ Joined(Append(s, x)) = y \o x
      BY <1>2, <2>2
    <3>. HIDE DEF y
    <3>2. y \o x \in Seq(S)
      BY <3>1
    <3>. QED BY <3>1, <3>2
  <2>. HIDE DEF P
  <2>. QED BY <2>1, <2>2, SequenceInduction
<1>. QED BY <1>1, <1>2, <1>3

LEMMA FlattenJoins ==
  ASSUME NEW S, NEW s \in Seq(Seq(S))
  PROVE  FlattenSeq(s) = Joined(s)
<1>. DEFINE n == Len(s)
            g == [i \in 1..n |-> Joined(SubSeq(s, 1, i))]
<1>1. n \in Nat /\ DOMAIN s = 1..n
  OBVIOUS
<1>2. CASE n = 0
  <2>1. s = <<>>
    BY <1>1, <1>2
  <2>. QED BY <1>2, <2>1, JoinedGrows DEF FlattenSeq
<1>3. CASE n # 0
  <2>1. ASSUME NEW i \in 1..n
        PROVE  Joined(SubSeq(s, 1, i)) = IF i = 1 THEN s[i] ELSE Joined(SubSeq(s, 1, i - 1)) \o s[i]
    <3>. DEFINE t == SubSeq(s, 1, i - 1)
    <3>1. t \in Seq(Seq(S)) /\ s[i] \in Seq(S) /\ SubSeq(s, 1, i) = Append(t, s[i])
          /\ (i = 1 => t = <<>>)
      BY <1>1
    <3>. HIDE DEF t
    <3>2. Joined(SubSeq(s, 1, i)) = Joined(t) \o s[i]
      BY <3>1, JoinedGrows
    <3>3. <<>> \o s[i] = s[i]
      BY <3>1
    <3>. QED BY <3>1, <3>2, <3>3, JoinedGrows DEF t
  <2>2. Flattens(s, g)
    <3>1. \A i \in 1..n : g[i] = IF i = 1 THEN s[i] ELSE g[i - 1] \o s[i]
      <4>1. \A i \in 1..n : i # 1 => i - 1 \in 1..n
        BY <1>1
      <4>2. \A i \in 1..n : g[i] = Joined(SubSeq(s, 1, i))
        OBVIOUS
      <4>. HIDE DEF g
      <4>. QED BY <2>1, <4>1, <4>2
    <3>2. g = [i \in 1..n |-> g[i]]
      OBVIOUS
    <3>. HIDE DEF g
    <3>. QED BY <3>1, <3>2 DEF Flattens
  <2>3. ASSUME NEW f, Flattens(s, f) PROVE f[n] = g[n]
    <3>. DEFINE P == {i \in 0..n : i = 0 \/ f[i] = g[i]}
    <3>1. \A h : Flattens(s, h) => \A i \in 1..n : h[i] = IF i = 1 THEN s[i] ELSE h[i - 1] \o s[i]
      BY DEF Flattens
    <3>2. \A i \in 1..n : /\ f[i] = IF i = 1 THEN s[i] ELSE f[i - 1] \o s[i]
                          /\ g[i] = IF i = 1 THEN s[i] ELSE g[i - 1] \o s[i]
      BY <2>2, <2>3, <3>1
    <3>. HIDE DEF g
    <3>3. \A i \in 0..(n - 1) : i \in P => i + 1 \in P
      <4>1. SUFFICES ASSUME NEW i \in 0..(n - 1), i \in P PROVE f[i + 1] = g[i + 1]
        BY <1>1
      <4>2. i + 1 \in 1..n /\ (i + 1 # 1 => i # 0) /\ (i + 1) - 1 = i
        BY <1>1
      <4>. QED BY <3>2, <4>1, <4>2
    <3>4. 0 \in P
      BY <1>1
    <3>. HIDE DEF P
    <3>5. \A i \in 0..n : i \in P
      BY <1>1, <3>3, <3>4, Climb
    <3>. QED BY <1>1, <1>3, <3>5 DEF P
  <2>4. FlattenSeq(s) = (CHOOSE f : Flattens(s, f))[n]
    BY <1>3 DEF FlattenSeq, Flattens
  <2>5. Flattens(s, CHOOSE f : Flattens(s, f))
    <3>. HIDE DEF g
    <3>. QED BY <2>2
  <2>6. FlattenSeq(s) = g[n]
    <3>. HIDE DEF g
    <3>. QED BY <2>3, <2>4, <2>5
  <2>7. g[n] = Joined(s)
    <3>1. SubSeq(s, 1, n) = s
      BY SubSeqFull
    <3>2. n \in 1..n
      BY <1>1, <1>3
    <3>3. g[n] = Joined(SubSeq(s, 1, n))
      BY <3>2
    <3>. HIDE DEF g
    <3>. QED BY <3>1, <3>3
  <2>. QED BY <2>6, <2>7
<1>. QED BY <1>2, <1>3

\* FlattenSeq of one element more, and of two sequences.
LEMMA FlatGrows ==
  ASSUME NEW S
  PROVE  /\ FlattenSeq(<<>>) = <<>>
         /\ \A s \in Seq(Seq(S)) :
              /\ FlattenSeq(s) \in Seq(S)
              /\ \A x \in Seq(S) : FlattenSeq(Append(s, x)) = FlattenSeq(s) \o x
<1>1. <<>> \in Seq(Seq(S)) /\ \A s \in Seq(Seq(S)), x \in Seq(S) : Append(s, x) \in Seq(Seq(S))
  OBVIOUS
<1>. QED BY <1>1, FlattenJoins, JoinedGrows

\* s \o t with one element more of t.
LEMMA JoinOneMore ==
  ASSUME NEW S, NEW s \in Seq(S), NEW t \in Seq(S), NEW x \in S
  PROVE  s \o Append(t, x) = Append(s \o t, x) /\ s \o t \in Seq(S)
<1>1. Append(t, x) = t \o <<x>> /\ Append(s \o t, x) = (s \o t) \o <<x>> /\ s \o t \in Seq(S)
  BY AppendIsConcat
<1>2. (s \o t) \o <<x>> = s \o (t \o <<x>>)
  <2>1. <<x>> \in Seq(S)
    OBVIOUS
  <2>. QED BY <2>1, ConcatAssociative
<1>. QED BY <1>1, <1>2

LEMMA FlatJoins ==
  ASSUME NEW S, NEW s \in Seq(Seq(S))
  PROVE  \A t \in Seq(Seq(S)) : FlattenSeq(s \o t) = FlattenSeq(s) \o FlattenSeq(t)
<1>. DEFINE P == {t \in Seq(Seq(S)) : FlattenSeq(s \o t) = FlattenSeq(s) \o FlattenSeq(t)}
            a == FlattenSeq(s)
<1>1. a \in Seq(S)
  BY FlatGrows
<1>2. <<>> \in P
  <2>1. s \o <<>> = s /\ a \o <<>> = a /\ <<>> \in Seq(Seq(S))
    BY <1>1, ConcatEmptySeq
  <2>. QED BY <2>1, FlatGrows
<1>3. ASSUME NEW t \in Seq(Seq(S)), NEW x \in Seq(S), t \in P PROVE Append(t, x) \in P
  <2>. DEFINE b == FlattenSeq(t)
              st == s \o t
  <2>1. st \in Seq(Seq(S)) /\ s \o Append(t, x) = Append(st, x) /\ Append(t, x) \in Seq(Seq(S))
    <3>. DEFINE R == Seq(S)
    <3>1. s \in Seq(R) /\ t \in Seq(R) /\ x \in R
      OBVIOUS
    <3>. HIDE DEF R
    <3>2. st \in Seq(R) /\ s \o Append(t, x) = Append(st, x) /\ Append(t, x) \in Seq(R)
      BY <3>1, JoinOneMore
    <3>. QED BY <3>2 DEF R
  <2>4. b \in Seq(S) /\ FlattenSeq(Append(t, x)) = b \o x /\ FlattenSeq(st) = a \o b
    BY <1>3, FlatGrows
  <2>. HIDE DEF b, st, a
  <2>2. FlattenSeq(Append(st, x)) = (a \o b) \o x
    BY <2>1, <2>4, FlatGrows
  <2>3. (a \o b) \o x = a \o (b \o x)
    <3>1. a \in Seq(S) /\ b \in Seq(S) /\ x \in Seq(S)
      BY <1>1, <2>4
    <3>2. \A u, v, w \in Seq(S) : (u \o v) \o w = u \o (v \o w)
      BY ConcatAssociative
    <3>. QED BY <3>1, <3>2
  <2>. QED BY <2>1, <2>2, <2>3, <2>4 DEF a
<1>. HIDE DEF P
<1>4. \A t \in Seq(Seq(S)) : t \in P
  BY <1>2, <1>3, SequenceInduction
<1>. QED BY <1>4 DEF P

\* A sequence of one element each.
Singles(t) == [i \in DOMAIN t |-> <<t[i]>>]

LEMMA SinglesGrow ==
  ASSUME NEW S, NEW t \in Seq(S), NEW x \in S
  PROVE  Singles(t) \in Seq(Seq(S)) /\ Singles(Append(t, x)) = Append(Singles(t), <<x>>)
<1>. DEFINE n == Len(t)
            m == n + 1
            u == Append(t, x)
            f == Singles(t)
            g == Singles(u)
<1>1. /\ n \in Nat /\ DOMAIN t = 1..n /\ DOMAIN u = 1..m /\ u[m] = x /\ u \in Seq(S)
      /\ m \in 1..m /\ m \notin 1..n /\ \A i \in 1..n : i \in 1..m /\ u[i] = t[i] /\ t[i] \in S
      /\ \A i \in 1..m : u[i] \in S
  OBVIOUS
<1>2. \A y \in S : <<y>> \in Seq(S)
  OBVIOUS
<1>. HIDE DEF u, n
<1>3. f = [i \in 1..n |-> <<t[i]>>] /\ g = [i \in 1..m |-> <<u[i]>>]
  BY <1>1 DEF Singles
<1>. HIDE DEF f, g
<1>4. f \in [1..n -> Seq(S)] /\ g \in [1..m -> Seq(S)]
  BY <1>1, <1>2, <1>3
<1>5. f \in Seq(Seq(S)) /\ Len(f) = n
  BY <1>1, <1>4, FunctionIsSeq
<1>6. g[m] = <<x>> /\ \A i \in 1..n : g[i] = f[i]
  BY <1>1, <1>3
<1>7. g = Append(f, <<x>>)
  <2>1. m = n + 1 /\ <<x>> \in Seq(S) /\ n \in Nat
    BY <1>1, <1>2
  <2>. DEFINE R == Seq(S)
              y == <<x>>
  <2>2. /\ f \in Seq(R) /\ n = Len(f) /\ g \in [1..m -> R] /\ y \in R /\ g[m] = y
        /\ n \in Nat /\ m = n + 1
    BY <1>4, <1>5, <1>6, <2>1
  <2>3. \A i \in 1..n : g[i] = f[i]
    BY <1>6
  <2>. HIDE DEF m, R, y
  <2>4. g = Append(f, y)
    BY <2>2, <2>3, Appended
  <2>. QED BY <2>4 DEF y
<1>. QED BY <1>5, <1>7 DEF f, g, u

LEMMA FlatSingles ==
  ASSUME NEW S
  PROVE  \A t \in Seq(S) : Singles(t) \in Seq(Seq(S)) /\ FlattenSeq(Singles(t)) = t
<1>. DEFINE P == {t \in Seq(S) : Singles(t) \in Seq(Seq(S)) /\ FlattenSeq(Singles(t)) = t}
<1>1. <<>> \in P
  <2>1. Singles(<<>>) = <<>> /\ <<>> \in Seq(S) /\ <<>> \in Seq(Seq(S))
    BY DEF Singles
  <2>. QED BY <2>1, FlatGrows
<1>2. ASSUME NEW t \in Seq(S), NEW x \in S, t \in P PROVE Append(t, x) \in P
  <2>. DEFINE f == Singles(t)
  <2>1. /\ f \in Seq(Seq(S)) /\ Singles(Append(t, x)) = Append(f, <<x>>) /\ FlattenSeq(f) = t
        /\ <<x>> \in Seq(S)
    BY <1>2, SinglesGrow
  <2>. HIDE DEF f
  <2>2. FlattenSeq(Append(f, <<x>>)) = t \o <<x>> /\ Append(f, <<x>>) \in Seq(Seq(S))
    <3>. DEFINE y == <<x>>
    <3>1. y \in Seq(S) /\ f \in Seq(Seq(S)) /\ FlattenSeq(f) = t
      BY <2>1
    <3>. HIDE DEF y
    <3>2. FlattenSeq(Append(f, y)) = FlattenSeq(f) \o y
      BY <3>1, FlatGrows
    <3>3. Append(f, y) \in Seq(Seq(S))
      BY <3>1
    <3>. QED BY <3>1, <3>2, <3>3 DEF y
  <2>3. t \o <<x>> = Append(t, x) /\ Append(t, x) \in Seq(S)
    BY AppendIsConcat
  <2>. QED BY <2>1, <2>2, <2>3
<1>. HIDE DEF P
<1>3. \A t \in Seq(S) : t \in P
  BY <1>1, <1>2, SequenceInduction
<1>. QED BY <1>3 DEF P

LEMMA ToSetJoins ==
  ASSUME NEW S, NEW s \in Seq(S), NEW t \in Seq(S)
  PROVE  ToSet(s \o t) = ToSet(s) \cup ToSet(t)
<1>. DEFINE a == Len(s)
            b == Len(t)
            u == s \o t
<1>1. /\ a \in Nat /\ b \in Nat /\ DOMAIN s = 1..a /\ DOMAIN t = 1..b /\ DOMAIN u = 1..(a + b)
      /\ \A i \in 1..a : i \in 1..(a + b) /\ u[i] = s[i]
      /\ \A i \in 1..b : a + i \in 1..(a + b) /\ u[a + i] = t[i]
      /\ \A i \in 1..(a + b) : i \in 1..a \/ (i - a \in 1..b /\ u[i] = t[i - a])
  OBVIOUS
<1>. HIDE DEF a, b, u
<1>2. ASSUME NEW x \in ToSet(u) PROVE x \in ToSet(s) \cup ToSet(t)
  <2>1. PICK i \in 1..(a + b) : x = u[i]
    BY <1>1 DEF ToSet
  <2>. QED BY <1>1, <2>1 DEF ToSet
<1>3. ASSUME NEW x \in ToSet(s) PROVE x \in ToSet(u)
  <2>1. PICK i \in 1..a : x = s[i]
    BY <1>1 DEF ToSet
  <2>. QED BY <1>1, <2>1 DEF ToSet
<1>4. ASSUME NEW x \in ToSet(t) PROVE x \in ToSet(u)
  <2>1. PICK i \in 1..b : x = t[i]
    BY <1>1 DEF ToSet
  <2>. QED BY <1>1, <2>1 DEF ToSet
<1>5. ToSet(u) = ToSet(s) \cup ToSet(t)
  BY <1>2, <1>3, <1>4
<1>. QED BY <1>5 DEF u

\* Joined sequences are without repetitions when each is and they share nothing.
LEMMA OnceJoins ==
  ASSUME NEW S, NEW s \in Seq(S), NEW t \in Seq(S)
  PROVE  Once(s \o t) <=> Once(s) /\ Once(t) /\ ToSet(s) \cap ToSet(t) = {}
<1>. DEFINE a == Len(s)
            b == Len(t)
            u == s \o t
<1>1. /\ a \in Nat /\ b \in Nat /\ DOMAIN s = 1..a /\ DOMAIN t = 1..b /\ DOMAIN u = 1..(a + b)
      /\ \A i \in 1..a : i \in 1..(a + b) /\ u[i] = s[i]
      /\ \A i \in 1..b : a + i \in 1..(a + b) /\ u[a + i] = t[i] /\ a + i \notin 1..a
      /\ \A i \in 1..(a + b) : i \in 1..a \/ (i - a \in 1..b /\ u[i] = t[i - a])
  OBVIOUS
<1>2. \A i, j \in 1..b : a + i = a + j => i = j
  BY <1>1
<1>3. \A i, j \in 1..(a + b) : i - a = j - a => i = j
  BY <1>1
<1>. HIDE DEF a, b, u
<1>4. ASSUME Once(u) PROVE Once(s) /\ Once(t) /\ ToSet(s) \cap ToSet(t) = {}
  <2>1. Once(s)
    BY <1>1, <1>4 DEF Once
  <2>2. Once(t)
    <3>1. ASSUME NEW i \in 1..b, NEW j \in 1..b, t[i] = t[j] PROVE i = j
      <4>1. u[a + i] = u[a + j] /\ a + i \in 1..(a + b) /\ a + j \in 1..(a + b)
        BY <1>1, <3>1
      <4>2. a + i = a + j
        BY <1>1, <1>4, <4>1 DEF Once
      <4>. QED BY <1>2, <4>2
    <3>. QED BY <1>1, <3>1 DEF Once
  <2>3. ASSUME NEW x \in ToSet(s), x \in ToSet(t) PROVE FALSE
    <3>1. PICK i \in 1..a : x = s[i]
      BY <1>1 DEF ToSet
    <3>2. PICK j \in 1..b : x = t[j]
      BY <1>1, <2>3 DEF ToSet
    <3>3. u[i] = u[a + j] /\ i \in 1..(a + b) /\ a + j \in 1..(a + b)
      BY <1>1, <3>1, <3>2
    <3>4. i = a + j
      BY <1>1, <1>4, <3>3 DEF Once
    <3>. QED BY <1>1, <3>4
  <2>. QED BY <2>1, <2>2, <2>3
<1>5. ASSUME Once(s), Once(t), ToSet(s) \cap ToSet(t) = {} PROVE Once(u)
  <2>1. SUFFICES ASSUME NEW i \in 1..(a + b), NEW j \in 1..(a + b), u[i] = u[j] PROVE i = j
    BY <1>1 DEF Once
  <2>2. \A k \in 1..a, l \in 1..b : s[k] # t[l]
    BY <1>1, <1>5 DEF ToSet
  <2>3. CASE i \in 1..a /\ j \in 1..a
    BY <1>1, <1>5, <2>1, <2>3 DEF Once
  <2>4. CASE i \notin 1..a /\ j \notin 1..a
    <3>1. i - a \in 1..b /\ j - a \in 1..b /\ t[i - a] = t[j - a]
      BY <1>1, <2>1, <2>4
    <3>2. i - a = j - a
      BY <1>1, <1>5, <3>1 DEF Once
    <3>. QED BY <1>3, <3>2
  <2>5. CASE i \in 1..a /\ j \notin 1..a
    BY <1>1, <2>1, <2>2, <2>5
  <2>6. CASE i \notin 1..a /\ j \in 1..a
    BY <1>1, <2>1, <2>2, <2>6
  <2>. QED BY <2>3, <2>4, <2>5, <2>6
<1>. QED BY <1>4, <1>5 DEF u

LEMMA FlatHas ==
  ASSUME NEW S
  PROVE  \A s \in Seq(Seq(S)) : ToSet(FlattenSeq(s)) = UNION {ToSet(y) : y \in ToSet(s)}
<1>. DEFINE all(s) == UNION {ToSet(y) : y \in ToSet(s)}
            P == {s \in Seq(Seq(S)) : ToSet(FlattenSeq(s)) = all(s)}
<1>1. <<>> \in P
  <2>1. ToSet(<<>>) = {} /\ <<>> \in Seq(Seq(S))
    BY DEF ToSet
  <2>. QED BY <2>1, FlatGrows
<1>2. ASSUME NEW s \in Seq(Seq(S)), NEW x \in Seq(S), s \in P PROVE Append(s, x) \in P
  <2>. DEFINE a == FlattenSeq(s)
  <2>1. a \in Seq(S) /\ FlattenSeq(Append(s, x)) = a \o x /\ ToSet(a) = all(s)
    BY <1>2, FlatGrows
  <2>2. ToSet(Append(s, x)) = ToSet(s) \cup {x} /\ Append(s, x) \in Seq(Seq(S))
    BY ToSetGrows
  <2>. HIDE DEF a
  <2>3. ToSet(a \o x) = ToSet(a) \cup ToSet(x)
    BY <2>1, ToSetJoins
  <2>4. all(Append(s, x)) = all(s) \cup ToSet(x)
    BY <2>2
  <2>. QED BY <2>1, <2>2, <2>3, <2>4
<1>. HIDE DEF P
<1>3. \A s \in Seq(Seq(S)) : s \in P
  BY <1>1, <1>2, SequenceInduction
<1>. QED BY <1>3 DEF P

\* One element more, or none.
LEMMA MergedMore ==
  ASSUME NEW T, NEW base, NEW s \in Seq(T), NEW x \in T
  PROVE  Merged(base, Append(s, x)) = IF x \in ToSet(Merged(base, s)) THEN Merged(base, s)
                                      ELSE Append(Merged(base, s), x)
<1>1. \A S : \A u \in Seq(S), y \in S :
        Merged(base, Append(u, y)) = IF y \in ToSet(Merged(base, u)) THEN Merged(base, u)
                                     ELSE Append(Merged(base, u), y)
  BY MergedGrows
<1>2. \A u \in Seq(T), y \in T :
        Merged(base, Append(u, y)) = IF y \in ToSet(Merged(base, u)) THEN Merged(base, u)
                                     ELSE Append(Merged(base, u), y)
  BY <1>1, Zenon
<1>. QED BY <1>2

\* What is merged in two parts.
LEMMA MergedJoins ==
  ASSUME NEW T, NEW base, NEW s \in Seq(T)
  PROVE  \A t \in Seq(T) : Merged(base, s \o t) = Merged(Merged(base, s), t)
<1>. DEFINE b == Merged(base, s)
            P == {t \in Seq(T) : Merged(base, s \o t) = Merged(b, t)}
<1>1. <<>> \in P
  <2>1. s \o <<>> = s /\ <<>> \in Seq(T)
    BY ConcatEmptySeq
  <2>. QED BY <2>1, MergedGrows
<1>2. ASSUME NEW t \in Seq(T), NEW x \in T, t \in P PROVE Append(t, x) \in P
  <2>. DEFINE st == s \o t
  <2>1. s \o Append(t, x) = Append(st, x) /\ st \in Seq(T) /\ Append(t, x) \in Seq(T)
    BY JoinOneMore
  <2>2. Merged(base, st) = Merged(b, t)
    BY <1>2
  <2>. HIDE DEF st, b
  <2>3. Merged(base, Append(st, x))
          = IF x \in ToSet(Merged(base, st)) THEN Merged(base, st) ELSE Append(Merged(base, st), x)
    BY <2>1, MergedMore
  <2>4. Merged(b, Append(t, x))
          = IF x \in ToSet(Merged(b, t)) THEN Merged(b, t) ELSE Append(Merged(b, t), x)
    BY MergedMore
  <2>. QED BY <2>1, <2>2, <2>3, <2>4
<1>. HIDE DEF P
<1>3. \A t \in Seq(T) : t \in P
  BY <1>1, <1>2, SequenceInduction
<1>. QED BY <1>3 DEF P

\* What was seen before adds nothing.
LEMMA MergedSeen ==
  ASSUME NEW T, NEW base
  PROVE  \A t \in Seq(T) : ToSet(t) \subseteq ToSet(base) => Merged(base, t) = base
<1>. DEFINE P == {t \in Seq(T) : ToSet(t) \subseteq ToSet(base) => Merged(base, t) = base}
<1>1. <<>> \in P
  <2>1. <<>> \in Seq(T)
    OBVIOUS
  <2>. QED BY <2>1, MergedGrows
<1>2. ASSUME NEW t \in Seq(T), NEW x \in T, t \in P PROVE Append(t, x) \in P
  <2>1. ToSet(Append(t, x)) = ToSet(t) \cup {x} /\ Append(t, x) \in Seq(T)
    BY ToSetGrows
  <2>2. Merged(base, Append(t, x))
          = IF x \in ToSet(Merged(base, t)) THEN Merged(base, t) ELSE Append(Merged(base, t), x)
    BY MergedMore
  <2>. QED BY <1>2, <2>1, <2>2
<1>. HIDE DEF P
<1>3. \A t \in Seq(T) : t \in P
  BY <1>1, <1>2, SequenceInduction
<1>. QED BY <1>3 DEF P

\* What is new is added as it comes.
LEMMA MergedFresh ==
  ASSUME NEW T, NEW base \in Seq(T)
  PROVE  \A t \in Seq(T) :
           Once(t) /\ ToSet(base) \cap ToSet(t) = {} => Merged(base, t) = base \o t
<1>. DEFINE P == {t \in Seq(T) : Once(t) /\ ToSet(base) \cap ToSet(t) = {}
                                   => Merged(base, t) = base \o t}
<1>1. <<>> \in P
  <2>1. <<>> \in Seq(T) /\ base \o <<>> = base
    BY ConcatEmptySeq
  <2>. QED BY <2>1, MergedGrows
<1>2. ASSUME NEW t \in Seq(T), NEW x \in T, t \in P,
             Once(Append(t, x)), ToSet(base) \cap ToSet(Append(t, x)) = {}
      PROVE  Merged(base, Append(t, x)) = base \o Append(t, x)
  <2>. DEFINE y == <<x>>
  <2>1. y \in Seq(T) /\ Append(t, x) = t \o y /\ ToSet(y) = {x}
    <3>1. y \in Seq(T) /\ Append(t, x) = t \o y
      BY AppendIsConcat
    <3>2. ToSet(y) = {x}
      <4>1. DOMAIN y = {1} /\ y[1] = x
        OBVIOUS
      <4>. HIDE DEF y
      <4>. QED BY <4>1 DEF ToSet
    <3>. QED BY <3>1, <3>2
  <2>. HIDE DEF y
  <2>2. Once(t) /\ x \notin ToSet(t) /\ ToSet(Append(t, x)) = ToSet(t) \cup {x}
    BY <1>2, <2>1, OnceJoins, ToSetGrows
  <2>3. Merged(base, t) = base \o t
    BY <1>2, <2>2
  <2>4. Merged(base, Append(t, x))
          = IF x \in ToSet(Merged(base, t)) THEN Merged(base, t) ELSE Append(Merged(base, t), x)
    BY MergedMore
  <2>5. ToSet(base \o t) = ToSet(base) \cup ToSet(t)
    BY ToSetJoins
  <2>6. x \notin ToSet(base \o t)
    BY <1>2, <2>2, <2>5
  <2>7. base \o Append(t, x) = Append(base \o t, x)
    BY JoinOneMore
  <2>. QED BY <2>3, <2>4, <2>6, <2>7
<1>3. ASSUME NEW t \in Seq(T), NEW x \in T, t \in P PROVE Append(t, x) \in P
  <2>1. Append(t, x) \in Seq(T)
    OBVIOUS
  <2>. QED BY <1>2, <1>3, <2>1
<1>. HIDE DEF P
<1>4. \A t \in Seq(T) : t \in P
  BY <1>1, <1>3, SequenceInduction
<1>. QED BY <1>4 DEF P

\* _hard_split: the pieces and the words that are in none yet are the words read.
SplitStart == [pieces |-> <<>>, piece |-> <<>>, len |-> 0]
SplitOf(words) == FoldLeft(SplitWord, SplitStart, words)

LEMMA SplitGrows ==
  ASSUME NEW W
  PROVE  /\ SplitOf(<<>>) = SplitStart
         /\ \A s \in Seq(W), x \in W : SplitOf(Append(s, x)) = SplitWord(SplitOf(s), x)
<1>1. \A s : SplitOf(s) = Splitting!Folded(0, 0, SplitStart, s)
  BY DEF SplitOf, Splitting!Folded, Splitting!Solves, FoldLeft, MapThenFoldSet, Max,
         Splitting!Greatest
<1>2. SplitOf(<<>>) = SplitStart
  BY <1>1, Splitting!FoldEmpty, LeastNumber DEF Splitting!WellOrdered
<1>3. ASSUME NEW s \in Seq(W), NEW x \in W
      PROVE  SplitOf(Append(s, x)) = SplitWord(SplitOf(s), x)
  BY <1>1, Splitting!FoldAppend, LeastNumber DEF Splitting!WellOrdered
<1>. QED BY <1>2, <1>3

SplitsTo(s, W, words) ==
  /\ s = [pieces |-> s.pieces, piece |-> s.piece, len |-> s.len]
  /\ s.pieces \in Seq(Seq(W)) /\ s.piece \in Seq(W)
  /\ FlattenSeq(s.pieces) \o s.piece = words

LEMMA SplitOne ==
  ASSUME NEW W, NEW words \in Seq(W), NEW s, SplitsTo(s, W, words), NEW x \in W
  PROVE  SplitsTo(SplitWord(s, x), W, Append(words, x))
<1>. DEFINE p == s.pieces
            q == s.piece
            f == FlattenSeq(p)
            y == <<x>>
            t == SplitWord(s, x)
<1>1. /\ s = [pieces |-> p, piece |-> q, len |-> s.len] /\ p \in Seq(Seq(W)) /\ q \in Seq(W)
      /\ f \o q = words
  BY DEF SplitsTo
<1>2. f \in Seq(W) /\ FlattenSeq(Append(p, q)) = f \o q
  BY <1>1, FlatGrows
<1>3. y \in Seq(W) /\ Append(words, x) = words \o y /\ f \o Append(q, x) = Append(f \o q, x)
  <2>1. y \in Seq(W) /\ Append(words, x) = words \o y
    BY AppendIsConcat
  <2>2. f \in Seq(W) /\ q \in Seq(W)
    BY <1>1, <1>2
  <2>. HIDE DEF f, q
  <2>3. f \o Append(q, x) = Append(f \o q, x)
    BY <2>2, JoinOneMore
  <2>. QED BY <2>1, <2>3
<1>4. Append(p, q) \in Seq(Seq(W)) /\ Append(q, x) \in Seq(W)
  BY <1>1
<1>. HIDE DEF f, p, q, y
<1>5. CASE s.len + x.len + 1 > ChunkSize /\ s.piece # <<>>
  <2>1. t = [pieces |-> Append(p, q), piece |-> y, len |-> x.len]
    BY <1>5 DEF SplitWord, p, q, y
  <2>. HIDE DEF t
  <2>2. t.pieces = Append(p, q) /\ t.piece = y /\ t.len = x.len
    BY <2>1
  <2>3. t = [pieces |-> t.pieces, piece |-> t.piece, len |-> t.len]
    BY <2>1, <2>2
  <2>4. FlattenSeq(t.pieces) \o t.piece = Append(words, x)
    BY <1>1, <1>2, <1>3, <2>2
  <2>5. SplitsTo(t, W, Append(words, x))
    BY <1>3, <1>4, <2>2, <2>3, <2>4 DEF SplitsTo
  <2>. QED BY <2>5 DEF t
<1>6. CASE ~(s.len + x.len + 1 > ChunkSize /\ s.piece # <<>>)
  <2>. DEFINE l == s.len + x.len + 1
  <2>1. t = [pieces |-> p, piece |-> Append(q, x), len |-> l]
    <3>1. t = [s EXCEPT !.piece = Append(@, x), !.len = @ + x.len + 1]
      BY <1>6 DEF SplitWord
    <3>. DEFINE z == s.len
    <3>2. s = [pieces |-> p, piece |-> q, len |-> z] /\ l = z + x.len + 1
      BY <1>1
    <3>3. s.piece = q /\ s.len = z
      BY DEF q
    <3>. DEFINE a == Append(q, x)
    <3>4. t = [s EXCEPT !.piece = a, !.len = l]
      BY <3>1, <3>2, <3>3
    <3>. HIDE DEF z, l, t, a
    <3>5. [s EXCEPT !.piece = a, !.len = l] = [pieces |-> p, piece |-> a, len |-> l]
      <4>. DEFINE u == [s EXCEPT !.piece = a]
      <4>1. u = [pieces |-> p, piece |-> a, len |-> z]
        BY <3>2
      <4>2. [s EXCEPT !.piece = a, !.len = l] = [u EXCEPT !.len = l]
        OBVIOUS
      <4>. HIDE DEF u
      <4>3. [u EXCEPT !.len = l] = [pieces |-> p, piece |-> a, len |-> l]
        BY <4>1
      <4>. QED BY <4>2, <4>3
    <3>. QED BY <3>4, <3>5 DEF a
  <2>. HIDE DEF t, l
  <2>2. t.pieces = p /\ t.piece = Append(q, x) /\ t.len = l
    BY <2>1
  <2>3. t = [pieces |-> t.pieces, piece |-> t.piece, len |-> t.len]
    BY <2>1, <2>2
  <2>4. FlattenSeq(t.pieces) \o t.piece = Append(words, x)
    BY <1>1, <1>3, <2>2 DEF f
  <2>5. SplitsTo(t, W, Append(words, x))
    BY <1>1, <1>4, <2>2, <2>3, <2>4 DEF SplitsTo
  <2>. QED BY <2>5 DEF t
<1>. QED BY <1>5, <1>6

LEMMA HardSplitLoses ==
  ASSUME NEW W, NEW words \in Seq(W)
  PROVE  HardSplit(words) \in Seq(Seq(W)) /\ FlattenSeq(HardSplit(words)) = words
<1>. DEFINE P == {t \in Seq(W) : SplitsTo(SplitOf(t), W, t)}
<1>1. <<>> \in P
  <2>1. SplitsTo(SplitStart, W, <<>>)
    <3>1. <<>> \in Seq(Seq(W)) /\ <<>> \in Seq(W) /\ <<>> \o <<>> = <<>>
      <4>1. <<>> \in Seq(Seq(W)) /\ <<>> \in Seq(W)
        OBVIOUS
      <4>. QED BY <4>1, ConcatEmptySeq
    <3>2. FlattenSeq(<<>>) = <<>>
      BY FlatGrows
    <3>. QED BY <3>1, <3>2 DEF SplitsTo, SplitStart
  <2>2. <<>> \in Seq(W)
    OBVIOUS
  <2>. QED BY <2>1, <2>2, SplitGrows
<1>2. ASSUME NEW t \in Seq(W), NEW x \in W, t \in P PROVE Append(t, x) \in P
  <2>1. SplitsTo(SplitOf(t), W, t)
    BY <1>2
  <2>2. SplitsTo(SplitWord(SplitOf(t), x), W, Append(t, x))
    BY <2>1, SplitOne
  <2>3. SplitOf(Append(t, x)) = SplitWord(SplitOf(t), x) /\ Append(t, x) \in Seq(W)
    BY SplitGrows
  <2>. QED BY <2>2, <2>3
<1>. HIDE DEF P
<1>3. words \in P
  BY <1>1, <1>2, SequenceInduction
<1>. DEFINE s == SplitOf(words)
            p == s.pieces
            q == s.piece
            f == FlattenSeq(p)
<1>4. p \in Seq(Seq(W)) /\ q \in Seq(W) /\ f \o q = words
  BY <1>3 DEF P, SplitsTo
<1>5. HardSplit(words) = IF q = <<>> THEN p ELSE Append(p, q)
  BY DEF HardSplit, SplitOf, SplitStart
<1>. HIDE DEF s, p, q
<1>6. f \in Seq(W) /\ FlattenSeq(Append(p, q)) = f \o q
  BY <1>4, FlatGrows
<1>7. Append(p, q) \in Seq(Seq(W))
  BY <1>4
<1>8. CASE q = <<>>
  <2>1. f \o q = f
    <3>. HIDE DEF f
    <3>. QED BY <1>6, <1>8, ConcatEmptySeq
  <2>. QED BY <1>4, <1>5, <1>8, <2>1
<1>9. CASE q # <<>>
  BY <1>4, <1>5, <1>6, <1>7, <1>9
<1>. QED BY <1>8, <1>9

\* What flush carries is from the buffer.
LEMMA CarriedFrom ==
  ASSUME NEW W, NEW buffer \in Seq(Seq(W))
  PROVE  Carried(buffer) \in Seq(Seq(W)) /\ ToSet(Carried(buffer)) \subseteq ToSet(buffer)
<1>. DEFINE n == Len(buffer)
            tail(k) == SubSeq(buffer, n - k + 1, n)
            fitting == {k \in 0..n : ChunkLen(tail(k)) + 2 <= ChunkOverlap}
            all == {0} \cup fitting
            most == Max(all)
<1>1. n \in Nat /\ DOMAIN buffer = 1..n
  OBVIOUS
<1>2. all \in SUBSET (0..n) /\ all # {}
  BY <1>1
<1>3. most \in 0..n
  <2>. HIDE DEF all
  <2>. QED BY <1>1, <1>2, MaxIsGreatest
<1>4. Carried(buffer) = IF most = n THEN <<>> ELSE tail(most)
  BY DEF Carried
<1>. HIDE DEF most, n
<1>5. ASSUME NEW k \in 0..n
      PROVE  tail(k) \in Seq(Seq(W)) /\ ToSet(tail(k)) \subseteq ToSet(buffer)
  <2>. DEFINE a == n - k + 1
              t == tail(k)
  <2>1. /\ a \in 1..(n + 1) /\ t \in Seq(Seq(W)) /\ Len(t) = k /\ DOMAIN t = 1..k
        /\ \A i \in 1..k : a + i - 1 \in 1..n /\ t[i] = buffer[a + i - 1]
    BY <1>1 DEF n
  <2>. HIDE DEF a, t
  <2>2. ToSet(t) \subseteq ToSet(buffer)
    BY <1>1, <2>1 DEF ToSet
  <2>. QED BY <2>1, <2>2 DEF t
<1>6. <<>> \in Seq(Seq(W)) /\ ToSet(<<>>) = {}
  BY DEF ToSet
<1>. QED BY <1>3, <1>4, <1>5, <1>6

\* chunk_text: what is in the chunks and in the buffer, read in that order, brings up
\* the words of the paragraphs read so far for the first time in their order.
PackOf(d) == FoldLeft(Pack, Empty, d)

LEMMA PackGrows ==
  ASSUME NEW D
  PROVE  /\ PackOf(<<>>) = Empty
         /\ \A d \in Seq(D), p \in D : PackOf(Append(d, p)) = Pack(PackOf(d), p)
<1>1. \A d : PackOf(d) = Packing!Folded(0, 0, Empty, d)
  BY DEF PackOf, Packing!Folded, Packing!Solves, FoldLeft, MapThenFoldSet, Max, Packing!Greatest
<1>2. PackOf(<<>>) = Empty
  BY <1>1, Packing!FoldEmpty, LeastNumber DEF Packing!WellOrdered
<1>3. ASSUME NEW d \in Seq(D), NEW p \in D
      PROVE  PackOf(Append(d, p)) = Pack(PackOf(d), p)
  BY <1>1, Packing!FoldAppend, LeastNumber DEF Packing!WellOrdered
<1>. QED BY <1>2, <1>3

WordsOf(chunks) == FlattenSeq(FlattenSeq(chunks))

LEMMA WordsOfGrow ==
  ASSUME NEW W, NEW c \in Seq(Seq(Seq(W)))
  PROVE  /\ WordsOf(<<>>) = <<>> /\ WordsOf(c) \in Seq(W)
         /\ \A b \in Seq(Seq(W)) : WordsOf(Append(c, b)) = WordsOf(c) \o FlattenSeq(b)
         /\ \A e \in Seq(Seq(Seq(W))) : WordsOf(c \o e) = WordsOf(c) \o WordsOf(e)
<1>. DEFINE R == Seq(W)
            f == FlattenSeq(c)
<1>0. c \in Seq(Seq(R))
  OBVIOUS
<1>1. f \in Seq(R) /\ FlattenSeq(<<>>) = <<>>
  <2>. HIDE DEF R
  <2>. QED BY <1>0, FlatGrows
<1>2. FlattenSeq(f) \in Seq(W)
  <2>1. f \in Seq(Seq(W))
    BY <1>1
  <2>. HIDE DEF f
  <2>. QED BY <2>1, FlatGrows
<1>3. ASSUME NEW b \in Seq(Seq(W)) PROVE WordsOf(Append(c, b)) = WordsOf(c) \o FlattenSeq(b)
  <2>1. b \in Seq(R) /\ f \in Seq(Seq(W))
    BY <1>1
  <2>2. FlattenSeq(Append(c, b)) = f \o b
    <3>. HIDE DEF R
    <3>. QED BY <1>0, <2>1, FlatGrows
  <2>. HIDE DEF f
  <2>3. FlattenSeq(f \o b) = FlattenSeq(f) \o FlattenSeq(b)
    BY <2>1, FlatJoins
  <2>. QED BY <2>2, <2>3 DEF WordsOf, f
<1>4. ASSUME NEW e \in Seq(Seq(Seq(W))) PROVE WordsOf(c \o e) = WordsOf(c) \o WordsOf(e)
  <2>. DEFINE g == FlattenSeq(e)
  <2>0. e \in Seq(Seq(R))
    OBVIOUS
  <2>1. FlattenSeq(c \o e) = f \o g /\ g \in Seq(R)
    <3>. HIDE DEF R
    <3>. QED BY <1>0, <2>0, FlatJoins, FlatGrows
  <2>2. f \in Seq(Seq(W)) /\ g \in Seq(Seq(W))
    BY <1>1, <2>1
  <2>. HIDE DEF f, g
  <2>3. FlattenSeq(f \o g) = FlattenSeq(f) \o FlattenSeq(g)
    BY <2>2, FlatJoins
  <2>. QED BY <2>1, <2>3 DEF WordsOf, f, g
<1>. QED BY <1>1, <1>2, <1>3, <1>4 DEF WordsOf

\* Read from the first chunk to the last, the words of the chunks are, each at its
\* first time, words, and what is buffered adds the rest of them.
Packs(s, W, words) ==
  /\ s = [chunks |-> s.chunks, buffer |-> s.buffer, len |-> s.len]
  /\ s.chunks \in Seq(Seq(Seq(W))) /\ s.buffer \in Seq(Seq(W))
  /\ Merged(Merged(<<>>, WordsOf(s.chunks)), FlattenSeq(s.buffer)) = words

\* After a flush the chunks have them all.
Flushed(s, W, words) ==
  /\ s = [chunks |-> s.chunks, buffer |-> s.buffer, len |-> s.len]
  /\ s.chunks \in Seq(Seq(Seq(W))) /\ s.buffer \in Seq(Seq(W))
  /\ Merged(<<>>, WordsOf(s.chunks)) = words
  /\ ToSet(FlattenSeq(s.buffer)) \subseteq ToSet(words)

LEMMA FlatSubset ==
  ASSUME NEW W, NEW a \in Seq(Seq(W)), NEW b \in Seq(Seq(W)), ToSet(a) \subseteq ToSet(b)
  PROVE  ToSet(FlattenSeq(a)) \subseteq ToSet(FlattenSeq(b))
<1>1. /\ ToSet(FlattenSeq(a)) = UNION {ToSet(y) : y \in ToSet(a)}
      /\ ToSet(FlattenSeq(b)) = UNION {ToSet(y) : y \in ToSet(b)}
  BY FlatHas
<1>. QED BY <1>1

LEMMA FlushLoses ==
  ASSUME NEW W, NEW words \in Seq(W), NEW s, Packs(s, W, words)
  PROVE  Flushed(Flush(s), W, words)
<1>. DEFINE c == s.chunks
            b == s.buffer
            f == FlattenSeq(b)
            m == Merged(<<>>, WordsOf(c))
            carried == Carried(b)
            t == Flush(s)
<1>1. /\ s = [chunks |-> c, buffer |-> b, len |-> s.len]
      /\ c \in Seq(Seq(Seq(W))) /\ b \in Seq(Seq(W)) /\ Merged(m, f) = words
  BY DEF Packs
<1>2. WordsOf(c) \in Seq(W) /\ WordsOf(Append(c, b)) = WordsOf(c) \o f /\ f \in Seq(W)
  BY <1>1, WordsOfGrow, FlatGrows
<1>3. carried \in Seq(Seq(W)) /\ ToSet(carried) \subseteq ToSet(b)
  BY <1>1, CarriedFrom
<1>. HIDE DEF c, b, f, m, carried
<1>4. CASE b = <<>>
  <2>1. t = s
    BY <1>4 DEF Flush, b
  <2>2. f = <<>> /\ ToSet(f) = {}
    BY <1>4, FlatGrows DEF f, ToSet
  <2>3. m = words
    BY <1>1, <2>2, MergedGrows
  <2>4. Flushed(s, W, words)
    BY <1>1, <2>2, <2>3 DEF Flushed, m, c, b, f
  <2>. QED BY <2>1, <2>4
<1>5. CASE b # <<>>
  <2>. DEFINE l == IF carried = <<>> THEN 0 ELSE ChunkLen(carried)
              e == Append(c, b)
  <2>1. t = [chunks |-> e, buffer |-> carried, len |-> l]
    BY <1>5 DEF Flush, b, c, carried
  <2>2. e \in Seq(Seq(Seq(W)))
    BY <1>1
  <2>3. Merged(<<>>, WordsOf(c) \o f) = Merged(m, f)
    BY <1>2, MergedJoins DEF m
  <2>4. Merged(<<>>, WordsOf(e)) = words
    BY <1>1, <1>2, <2>3
  <2>5. ToSet(words) = ToSet(m) \cup ToSet(f)
    <3>1. <<>> \in Seq(W)
      OBVIOUS
    <3>2. m \in Seq(W)
      BY <1>2, <3>1, MergedHas DEF m, IsMerged
    <3>3. IsMerged(Merged(m, f), W, m, f)
      BY <1>2, <3>2, MergedHas
    <3>. QED BY <1>1, <3>3 DEF IsMerged
  <2>6. ToSet(FlattenSeq(carried)) \subseteq ToSet(f)
    BY <1>1, <1>3, FlatSubset DEF f
  <2>. HIDE DEF t, l, e
  <2>7. t.chunks = e /\ t.buffer = carried /\ t.len = l
    BY <2>1
  <2>8. Flushed(t, W, words)
    BY <1>3, <2>1, <2>2, <2>4, <2>5, <2>6, <2>7 DEF Flushed
  <2>. QED BY <2>8 DEF t
<1>. QED BY <1>4, <1>5

LEMMA BufferedIs ==
  ASSUME NEW s, s = [chunks |-> s.chunks, buffer |-> s.buffer, len |-> s.len], NEW p
  PROVE  Buffered(s, p) = [chunks |-> s.chunks, buffer |-> Append(s.buffer, p),
                           len |-> s.len + ParagraphLen(p) + 2]
<1>. DEFINE c == s.chunks
            b == s.buffer
            z == s.len
            a == Append(b, p)
            l == z + ParagraphLen(p) + 2
            u == [s EXCEPT !.buffer = a]
<1>1. Buffered(s, p) = [s EXCEPT !.buffer = a, !.len = l]
  BY DEF Buffered
<1>2. s = [chunks |-> c, buffer |-> b, len |-> z]
  OBVIOUS
<1>. HIDE DEF c, b, z, a, l
<1>3. u = [chunks |-> c, buffer |-> a, len |-> z]
  BY <1>2
<1>4. [s EXCEPT !.buffer = a, !.len = l] = [u EXCEPT !.len = l]
  OBVIOUS
<1>. HIDE DEF u
<1>5. [u EXCEPT !.len = l] = [chunks |-> c, buffer |-> a, len |-> l]
  BY <1>3
<1>6. Buffered(s, p) = [chunks |-> c, buffer |-> a, len |-> l]
  BY <1>1, <1>4, <1>5
<1>. QED BY <1>6 DEF c, b, z, a, l

LEMMA BufferedPacks ==
  ASSUME NEW W, NEW words, NEW p \in Seq(W), NEW s,
         s = [chunks |-> s.chunks, buffer |-> s.buffer, len |-> s.len],
         s.chunks \in Seq(Seq(Seq(W))), s.buffer \in Seq(Seq(W)),
         Merged(Merged(Merged(<<>>, WordsOf(s.chunks)), FlattenSeq(s.buffer)), p) = words
  PROVE  Packs(Buffered(s, p), W, words)
<1>. DEFINE c == s.chunks
            b == s.buffer
            f == FlattenSeq(b)
            m == Merged(<<>>, WordsOf(c))
            a == Append(b, p)
            t == Buffered(s, p)
            l == s.len + ParagraphLen(p) + 2
<1>1. t = [chunks |-> c, buffer |-> a, len |-> l]
  BY BufferedIs
<1>2. c \in Seq(Seq(Seq(W))) /\ b \in Seq(Seq(W)) /\ Merged(Merged(m, f), p) = words
  OBVIOUS
<1>. HIDE DEF t, l, c, b, m
<1>3. f \in Seq(W) /\ FlattenSeq(a) = f \o p
  BY <1>2, FlatGrows
<1>4. a \in Seq(Seq(W))
  BY <1>2
<1>. HIDE DEF f, a
<1>5. Merged(m, f \o p) = Merged(Merged(m, f), p)
  BY <1>3, MergedJoins
<1>6. t.chunks = c /\ t.buffer = a /\ t.len = l
  BY <1>1
<1>7. Merged(Merged(<<>>, WordsOf(t.chunks)), FlattenSeq(t.buffer)) = words
  BY <1>2, <1>3, <1>5, <1>6 DEF m
<1>8. Packs(t, W, words)
  BY <1>1, <1>2, <1>4, <1>6, <1>7 DEF Packs
<1>. QED BY <1>8 DEF t

LEMMA FreshIsAdded ==
  ASSUME NEW W, NEW words \in Seq(W), NEW p \in Seq(W), Once(words \o p)
  PROVE  Merged(words, p) = words \o p
<1>1. Once(p) /\ ToSet(words) \cap ToSet(p) = {}
  BY OnceJoins
<1>. QED BY <1>1, MergedFresh

LEMMA PackLoses ==
  ASSUME NEW W, NEW words \in Seq(W), NEW s, Packs(s, W, words),
         NEW p \in Seq(W), Once(words \o p)
  PROVE  Packs(Pack(s, p), W, words \o p)
<1>. DEFINE c == s.chunks
            b == s.buffer
            all == words \o p
<1>1. /\ s = [chunks |-> c, buffer |-> b, len |-> s.len]
      /\ c \in Seq(Seq(Seq(W))) /\ b \in Seq(Seq(W))
      /\ Merged(Merged(<<>>, WordsOf(c)), FlattenSeq(b)) = words
  BY DEF Packs
<1>2. Merged(words, p) = all
  BY FreshIsAdded
<1>3. Flushed(Flush(s), W, words)
  BY FlushLoses
<1>. DEFINE t == Flush(s)
            d == t.chunks
            e == t.buffer
            g == FlattenSeq(e)
<1>4. /\ t = [chunks |-> d, buffer |-> e, len |-> t.len]
      /\ d \in Seq(Seq(Seq(W))) /\ e \in Seq(Seq(W))
      /\ Merged(<<>>, WordsOf(d)) = words
      /\ ToSet(g) \subseteq ToSet(words)
  BY <1>3 DEF Flushed
<1>5. g \in Seq(W)
  <2>1. e \in Seq(Seq(W))
    BY <1>4
  <2>. HIDE DEF e
  <2>. QED BY <2>1, FlatGrows
<1>6. CASE ParagraphLen(p) > ChunkSize
  <2>. DEFINE pieces == HardSplit(p)
              ones == Singles(pieces)
              h == d \o ones
              n == t.len
              r == Pack(s, p)
  <2>1. pieces \in Seq(Seq(W)) /\ FlattenSeq(pieces) = p
    BY HardSplitLoses
  <2>2. r = [t EXCEPT !.chunks = @ \o ones]
    BY <1>6 DEF Pack, Singles
  <2>3. ones \in Seq(Seq(Seq(W))) /\ FlattenSeq(ones) = pieces
    <3>. DEFINE R == Seq(W)
    <3>1. pieces \in Seq(R)
      BY <2>1
    <3>. HIDE DEF R, pieces
    <3>2. Singles(pieces) \in Seq(Seq(R)) /\ FlattenSeq(Singles(pieces)) = pieces
      BY <3>1, FlatSingles
    <3>. QED BY <3>2 DEF R, pieces
  <2>4. t = [chunks |-> d, buffer |-> e, len |-> n] /\ d \in Seq(Seq(Seq(W)))
    BY <1>4
  <2>5. t.chunks = d
    OBVIOUS
  <2>6. r = [t EXCEPT !.chunks = h]
    BY <2>2
  <2>. HIDE DEF pieces, ones, d, e, n, t, r
  <2>7. h \in Seq(Seq(Seq(W))) /\ WordsOf(h) = WordsOf(d) \o WordsOf(ones)
    <3>1. h \in Seq(Seq(Seq(W)))
      BY <2>3, <2>4
    <3>. QED BY <2>3, <2>4, <3>1, WordsOfGrow
  <2>8. WordsOf(ones) = p
    BY <2>1, <2>3 DEF WordsOf
  <2>9. WordsOf(d) \in Seq(W)
    BY <2>4, WordsOfGrow
  <2>. HIDE DEF h
  <2>10. r = [chunks |-> h, buffer |-> e, len |-> n]
    BY <2>4, <2>6
  <2>11. r.chunks = h /\ r.buffer = e /\ r.len = n
    BY <2>10
  <2>12. Merged(<<>>, WordsOf(h)) = all
    <3>1. Merged(<<>>, WordsOf(d) \o p) = Merged(Merged(<<>>, WordsOf(d)), p)
      BY <2>9, MergedJoins
    <3>. HIDE DEF all
    <3>. QED BY <1>2, <1>4, <2>7, <2>8, <3>1
  <2>13. ToSet(g) \subseteq ToSet(all)
    <3>1. ToSet(all) = ToSet(words) \cup ToSet(p)
      BY ToSetJoins
    <3>. QED BY <1>4, <3>1
  <2>14. Merged(all, g) = all
    <3>. HIDE DEF all, g
    <3>. QED BY <1>5, <2>13, MergedSeen
  <2>15. Merged(Merged(<<>>, WordsOf(r.chunks)), FlattenSeq(r.buffer)) = all
    BY <2>11, <2>12, <2>14
  <2>. HIDE DEF all, g
  <2>16. e \in Seq(Seq(W))
    BY <1>4
  <2>17. Packs(r, W, all)
    BY <2>7, <2>10, <2>11, <2>15, <2>16 DEF Packs
  <2>. QED BY <2>17 DEF r, all
<1>7. CASE ~(ParagraphLen(p) > ChunkSize) /\ s.len + ParagraphLen(p) + 2 > ChunkSize
  <2>1. Pack(s, p) = Buffered(t, p)
    BY <1>7 DEF Pack
  <2>. HIDE DEF t, d, e, g, all
  <2>2. Merged(words, g) = words
    BY <1>4, <1>5, MergedSeen
  <2>3. Merged(Merged(Merged(<<>>, WordsOf(t.chunks)), FlattenSeq(t.buffer)), p) = all
    BY <1>2, <1>4, <2>2 DEF d, e, g
  <2>4. Packs(Buffered(t, p), W, all)
    BY <1>4, <2>3, BufferedPacks DEF d, e
  <2>. QED BY <2>1, <2>4 DEF all
<1>8. CASE ~(ParagraphLen(p) > ChunkSize) /\ ~(s.len + ParagraphLen(p) + 2 > ChunkSize)
  <2>1. Pack(s, p) = Buffered(s, p)
    BY <1>8 DEF Pack
  <2>. HIDE DEF all
  <2>2. Packs(Buffered(s, p), W, all)
    BY <1>1, <1>2, BufferedPacks
  <2>. QED BY <2>1, <2>2 DEF all
<1>. QED BY <1>6, <1>7, <1>8

LEMMA ChunksLoseNothing ==
  ASSUME NEW W, NEW d \in Seq(Seq(W)), Once(FlattenSeq(d))
  PROVE  FirstTimes(WordsOf(Chunks(d))) = FlattenSeq(d)
<1>. DEFINE P == {s \in Seq(Seq(W)) : Once(FlattenSeq(s)) => Packs(PackOf(s), W, FlattenSeq(s))}
<1>1. <<>> \in P
  <2>1. <<>> \in Seq(Seq(W)) /\ <<>> \in Seq(Seq(Seq(W))) /\ FlattenSeq(<<>>) = <<>>
    <3>1. <<>> \in Seq(Seq(W)) /\ <<>> \in Seq(Seq(Seq(W)))
      OBVIOUS
    <3>. QED BY <3>1, FlatGrows
  <2>2. Merged(Merged(<<>>, WordsOf(<<>>)), FlattenSeq(<<>>)) = <<>>
    BY <2>1, MergedGrows DEF WordsOf
  <2>3. Packs(Empty, W, <<>>)
    BY <2>1, <2>2 DEF Packs, Empty
  <2>. QED BY <2>1, <2>3, PackGrows
<1>2. ASSUME NEW s \in Seq(Seq(W)), NEW p \in Seq(W), s \in P PROVE Append(s, p) \in P
  <2>. DEFINE f == FlattenSeq(s)
  <2>1. f \in Seq(W) /\ FlattenSeq(Append(s, p)) = f \o p
    BY FlatGrows
  <2>2. Append(s, p) \in Seq(Seq(W)) /\ PackOf(Append(s, p)) = Pack(PackOf(s), p)
    <3>1. PackOf(Append(s, p)) = Pack(PackOf(s), p)
      <4>. DEFINE R == Seq(W)
      <4>1. s \in Seq(R) /\ p \in R
        OBVIOUS
      <4>. HIDE DEF R
      <4>. QED BY <4>1, PackGrows
    <3>. QED BY <3>1
  <2>3. ASSUME Once(f \o p) PROVE Packs(Pack(PackOf(s), p), W, f \o p)
    <3>. HIDE DEF f
    <3>1. Once(f)
      BY <2>1, <2>3, OnceJoins
    <3>2. Packs(PackOf(s), W, f)
      BY <1>2, <3>1 DEF f
    <3>. QED BY <2>1, <2>3, <3>2, PackLoses
  <2>. HIDE DEF f
  <2>. QED BY <2>1, <2>2, <2>3
<1>. HIDE DEF P
<1>3. d \in P
  BY <1>1, <1>2, SequenceInduction
<1>. DEFINE f == FlattenSeq(d)
<1>4. f \in Seq(W)
  BY FlatGrows
<1>5. Packs(PackOf(d), W, f)
  BY <1>3 DEF P
<1>. HIDE DEF f
<1>6. Flushed(Flush(PackOf(d)), W, f)
  BY <1>4, <1>5, FlushLoses
<1>7. Merged(<<>>, WordsOf(Chunks(d))) = f
  BY <1>6 DEF Flushed, Chunks, PackOf
<1>8. \A w : FirstTimes(w) = Merged(<<>>, w)
  BY DEF FirstTimes, Merged
<1>. QED BY <1>7, <1>8 DEF f

\* The words of a document are apart: each has its place.
Placed(p, lengths) == [w \in DOMAIN lengths |-> [at |-> <<p, w>>, len |-> lengths[w]]]
DocumentOf(d) == [p \in DOMAIN d |-> Placed(p, d[p])]
PlacedWords == [at : Nat \X Nat, len : Nat]

LEMMA PlacedIs ==
  ASSUME NEW p \in Nat, NEW s \in Seq(Nat)
  PROVE  /\ Placed(p, s) \in Seq(PlacedWords) /\ Once(Placed(p, s))
         /\ \A w \in ToSet(Placed(p, s)) : w.at[1] = p
<1>. DEFINE n == Len(s)
            f == Placed(p, s)
<1>1. n \in Nat /\ DOMAIN s = 1..n /\ \A i \in 1..n : s[i] \in Nat /\ i \in Nat
  OBVIOUS
<1>. HIDE DEF n
<1>2. f = [i \in 1..n |-> [at |-> <<p, i>>, len |-> s[i]]]
  BY <1>1 DEF Placed
<1>. HIDE DEF f
<1>3. \A i \in 1..n : f[i] = [at |-> <<p, i>>, len |-> s[i]]
  BY <1>2
<1>4. DOMAIN f = 1..n
  BY <1>2
<1>5. ASSUME NEW i \in 1..n
      PROVE  f[i].at = <<p, i>> /\ f[i].at[1] = p /\ f[i].at[2] = i /\ f[i] \in PlacedWords
  <2>. DEFINE y == s[i]
              z == <<p, i>>
  <2>1. y \in Nat /\ z \in Nat \X Nat /\ z[1] = p /\ z[2] = i
    BY <1>1
  <2>2. f[i] = [at |-> z, len |-> y]
    BY <1>3
  <2>. HIDE DEF y, z
  <2>3. f[i].at = z /\ f[i] \in PlacedWords
    BY <2>1, <2>2 DEF PlacedWords
  <2>. QED BY <2>1, <2>3 DEF z
<1>6. f \in [1..n -> PlacedWords]
  BY <1>2, <1>5
<1>7. f \in Seq(PlacedWords)
  BY <1>1, <1>6, FunctionIsSeq
<1>8. Once(f)
  <2>1. ASSUME NEW i \in 1..n, NEW j \in 1..n, f[i] = f[j] PROVE i = j
    BY <1>5, <2>1
  <2>. QED BY <1>4, <2>1 DEF Once
<1>9. ASSUME NEW w \in ToSet(f) PROVE w.at[1] = p
  <2>1. PICK i \in 1..n : w = f[i]
    BY <1>4, <1>9 DEF ToSet
  <2>. QED BY <1>5, <2>1
<1>. QED BY <1>7, <1>8, <1>9 DEF f

LEMMA DocumentGrows ==
  ASSUME NEW d \in Seq(Seq(Nat)), NEW p \in Seq(Nat), DocumentOf(d) \in Seq(Seq(PlacedWords))
  PROVE  DocumentOf(Append(d, p)) = Append(DocumentOf(d), Placed(Len(d) + 1, p))
<1>. DEFINE n == Len(d)
            m == n + 1
            e == Append(d, p)
            f == DocumentOf(d)
            g == DocumentOf(e)
            x == Placed(m, p)
            R == Seq(PlacedWords)
<1>1. /\ n \in Nat /\ m = n + 1 /\ m \in Nat /\ DOMAIN d = 1..n /\ DOMAIN e = 1..m /\ e[m] = p
      /\ m \in 1..m /\ \A i \in 1..n : i \in 1..m /\ e[i] = d[i] /\ d[i] \in Seq(Nat) /\ i \in Nat
      /\ \A i \in 1..m : i = m \/ i \in 1..n
  <2>. DEFINE T == Seq(Nat)
  <2>1. d \in Seq(T) /\ p \in T
    OBVIOUS
  <2>. HIDE DEF T
  <2>2. /\ n \in Nat /\ m = n + 1 /\ m \in Nat /\ DOMAIN d = 1..n /\ DOMAIN e = 1..m /\ e[m] = p
        /\ \A i \in 1..n : e[i] = d[i] /\ d[i] \in T
    BY <2>1
  <2>. HIDE DEF e
  <2>3. /\ m \in 1..m /\ \A i \in 1..n : i \in 1..m /\ i \in Nat
        /\ \A i \in 1..m : i = m \/ i \in 1..n
    BY <2>2
  <2>. QED BY <2>2, <2>3 DEF T
<1>2. f \in Seq(R) /\ DOMAIN f = DOMAIN d
  BY DEF DocumentOf
<1>3. x \in R
  BY <1>1, PlacedIs
<1>. HIDE DEF n, m, e, R
<1>4. Len(f) = n
  <2>. HIDE DEF f
  <2>. QED BY <1>1, <1>2
<1>5. f = [i \in 1..n |-> Placed(i, d[i])] /\ g = [i \in 1..m |-> Placed(i, e[i])]
  BY <1>1 DEF DocumentOf
<1>6. \A i \in 1..n : Placed(i, d[i]) \in R
  BY <1>1, PlacedIs DEF R
<1>. HIDE DEF f, g, x
<1>7. g[m] = x /\ \A i \in 1..n : g[i] = f[i]
  BY <1>1, <1>5 DEF x
<1>8. g \in [1..m -> R]
  <2>1. \A i \in 1..m : Placed(i, e[i]) \in R
    BY <1>1, <1>3, <1>6 DEF x
  <2>. QED BY <1>5, <2>1
<1>9. g = Append(f, x)
  BY <1>1, <1>2, <1>3, <1>4, <1>7, <1>8, Appended
<1>. QED BY <1>9 DEF g, f, x, e, m, n

LEMMA DocumentApart ==
  ASSUME NEW d \in Seq(Seq(Nat))
  PROVE  DocumentOf(d) \in Seq(Seq(PlacedWords)) /\ Once(FlattenSeq(DocumentOf(d)))
<1>. DEFINE P == {s \in Seq(Seq(Nat)) :
                    /\ DocumentOf(s) \in Seq(Seq(PlacedWords))
                    /\ Once(FlattenSeq(DocumentOf(s)))
                    /\ \A w \in ToSet(FlattenSeq(DocumentOf(s))) : w.at[1] \in 1..Len(s)}
<1>1. <<>> \in P
  <2>1. DocumentOf(<<>>) = <<>> /\ <<>> \in Seq(Seq(Nat)) /\ <<>> \in Seq(Seq(PlacedWords))
    BY DEF DocumentOf
  <2>2. Once(<<>>) /\ ToSet(<<>>) = {} /\ FlattenSeq(<<>>) = <<>>
    BY FlatGrows DEF Once, ToSet
  <2>. QED BY <2>1, <2>2
<1>2. ASSUME NEW s \in Seq(Seq(Nat)), NEW p \in Seq(Nat), s \in P PROVE Append(s, p) \in P
  <2>. DEFINE n == Len(s)
              e == Append(s, p)
              f == DocumentOf(s)
              x == Placed(n + 1, p)
              a == FlattenSeq(f)
  <2>1. /\ f \in Seq(Seq(PlacedWords)) /\ Once(a)
        /\ \A w \in ToSet(a) : w.at[1] \in 1..n
    BY <1>2
  <2>2. n \in Nat /\ n + 1 \in Nat /\ e \in Seq(Seq(Nat)) /\ Len(e) = n + 1
    OBVIOUS
  <2>3. x \in Seq(PlacedWords) /\ Once(x) /\ \A w \in ToSet(x) : w.at[1] = n + 1
    <3>. HIDE DEF n
    <3>. QED BY <2>2, PlacedIs
  <2>4. DocumentOf(e) = Append(f, x)
    BY <2>1, DocumentGrows
  <2>. HIDE DEF n, e, f, x
  <2>5. a \in Seq(PlacedWords) /\ FlattenSeq(Append(f, x)) = a \o x
    BY <2>1, <2>3, FlatGrows
  <2>6. Append(f, x) \in Seq(Seq(PlacedWords))
    BY <2>1, <2>3
  <2>. HIDE DEF a
  <2>7. ToSet(a) \cap ToSet(x) = {}
    <3>1. ASSUME NEW w \in ToSet(a), w \in ToSet(x) PROVE FALSE
      <4>1. w.at[1] \in 1..n /\ w.at[1] = n + 1
        BY <2>1, <2>3, <3>1
      <4>. QED BY <2>2, <4>1
    <3>. QED BY <3>1
  <2>8. Once(a \o x)
    BY <2>1, <2>3, <2>5, <2>7, OnceJoins
  <2>9. \A w \in ToSet(a \o x) : w.at[1] \in 1..(n + 1)
    <3>1. ToSet(a \o x) = ToSet(a) \cup ToSet(x)
      BY <2>3, <2>5, ToSetJoins
    <3>2. \A k \in 1..n : k \in 1..(n + 1)
      BY <2>2
    <3>3. n + 1 \in 1..(n + 1)
      BY <2>2
    <3>. QED BY <2>1, <2>3, <3>1, <3>2, <3>3
  <2>10. e \in P
    BY <2>2, <2>4, <2>5, <2>6, <2>8, <2>9
  <2>. QED BY <2>10 DEF e
<1>. HIDE DEF P
<1>3. d \in P
  BY <1>1, <1>2, SequenceInduction
<1>. QED BY <1>3 DEF P

-----------------------------------------------------------------------------
(* What is spoken                                                          *)

Seeing    == INSTANCE FoldLaws
             WITH Op <- LAMBDA c, d, s, x : IF x \in Spaces THEN s ELSE Append(s, x)
Stripping == INSTANCE FoldLaws
             WITH Op <- LAMBDA c, d, s, x : IF Strip(x) = <<>> THEN s ELSE Append(s, Strip(x))

LEMMA VisibleGrows ==
  ASSUME NEW S, NEW s \in Seq(S), NEW x \in S
  PROVE  /\ Visible(<<>>) = <<>>
         /\ Visible(Append(s, x)) = IF x \in Spaces THEN Visible(s) ELSE Append(Visible(s), x)
<1>1. \A u : Visible(u) = Seeing!Folded(0, 0, <<>>, u)
  BY DEF Visible, Seeing!Folded, Seeing!Solves, FoldLeft, MapThenFoldSet, Max, Seeing!Greatest
<1>2. Visible(<<>>) = <<>>
  BY <1>1, Seeing!FoldEmpty, LeastNumber DEF Seeing!WellOrdered
<1>3. Visible(Append(s, x)) = IF x \in Spaces THEN Visible(s) ELSE Append(Visible(s), x)
  BY <1>1, Seeing!FoldAppend, LeastNumber DEF Seeing!WellOrdered
<1>. QED BY <1>2, <1>3

LEMMA NothingVisible == Visible(<<>>) = <<>>
<1>1. \A u : Visible(u) = Seeing!Folded(0, 0, <<>>, u)
  BY DEF Visible, Seeing!Folded, Seeing!Solves, FoldLeft, MapThenFoldSet, Max, Seeing!Greatest
<1>. QED BY <1>1, Seeing!FoldEmpty, LeastNumber DEF Seeing!WellOrdered

LEMMA VisibleIs ==
  ASSUME NEW S
  PROVE  \A s \in Seq(S) : Visible(s) \in Seq(S)
<1>. DEFINE P == {s \in Seq(S) : Visible(s) \in Seq(S)}
<1>1. <<>> \in P
  <2>1. <<>> \in Seq(S)
    OBVIOUS
  <2>. QED BY <2>1, NothingVisible
<1>2. ASSUME NEW s \in Seq(S), NEW x \in S, s \in P PROVE Append(s, x) \in P
  <2>1. Append(s, x) \in Seq(S) /\ Append(Visible(s), x) \in Seq(S)
    BY <1>2
  <2>. QED BY <1>2, <2>1, VisibleGrows
<1>. HIDE DEF P
<1>3. \A s \in Seq(S) : s \in P
  BY <1>1, <1>2, SequenceInduction
<1>. QED BY <1>3 DEF P

LEMMA VisibleJoins ==
  ASSUME NEW S, NEW s \in Seq(S)
  PROVE  \A t \in Seq(S) : Visible(s \o t) = Visible(s) \o Visible(t)
<1>. DEFINE P == {t \in Seq(S) : Visible(s \o t) = Visible(s) \o Visible(t)}
            v == Visible(s)
<1>0. v \in Seq(S)
  BY VisibleIs
<1>1. <<>> \in P
  <2>1. s \o <<>> = s /\ v \o <<>> = v /\ <<>> \in Seq(S)
    BY <1>0, ConcatEmptySeq
  <2>. QED BY <2>1, NothingVisible
<1>2. ASSUME NEW t \in Seq(S), NEW x \in S, t \in P PROVE Append(t, x) \in P
  <2>. DEFINE st == s \o t
              w == Visible(t)
  <2>1. s \o Append(t, x) = Append(st, x) /\ st \in Seq(S) /\ Append(t, x) \in Seq(S)
    BY JoinOneMore
  <2>2. Visible(st) = v \o w /\ w \in Seq(S)
    BY <1>2, VisibleIs
  <2>. HIDE DEF st, v
  <2>3. Visible(Append(st, x)) = IF x \in Spaces THEN Visible(st) ELSE Append(Visible(st), x)
    BY <2>1, VisibleGrows
  <2>4. Visible(Append(t, x)) = IF x \in Spaces THEN w ELSE Append(w, x)
    BY VisibleGrows
  <2>. HIDE DEF w
  <2>5. v \o Append(w, x) = Append(v \o w, x)
    BY <1>0, <2>2, JoinOneMore
  <2>. QED BY <2>1, <2>2, <2>3, <2>4, <2>5 DEF v
<1>. HIDE DEF P
<1>3. \A t \in Seq(S) : t \in P
  BY <1>1, <1>2, SequenceInduction
<1>. QED BY <1>3 DEF P

LEMMA BlankIsInvisible ==
  ASSUME NEW S
  PROVE  \A s \in Seq(S) : (\A i \in 1..Len(s) : s[i] \in Spaces) => Visible(s) = <<>>
<1>. DEFINE blank(s) == \A i \in 1..Len(s) : s[i] \in Spaces
            P == {s \in Seq(S) : blank(s) => Visible(s) = <<>>}
<1>1. <<>> \in P
  <2>1. <<>> \in Seq(S)
    OBVIOUS
  <2>. QED BY <2>1, NothingVisible
<1>2. ASSUME NEW s \in Seq(S), NEW x \in S, s \in P PROVE Append(s, x) \in P
  <2>. DEFINE e == Append(s, x)
              n == Len(s)
              m == n + 1
  <2>1. /\ n \in Nat /\ e \in Seq(S) /\ Len(e) = m /\ m \in 1..m /\ e[m] = x
        /\ \A i \in 1..n : i \in 1..m /\ e[i] = s[i]
    OBVIOUS
  <2>2. Visible(e) = IF x \in Spaces THEN Visible(s) ELSE Append(Visible(s), x)
    BY VisibleGrows
  <2>. HIDE DEF e, m, n
  <2>3. ASSUME blank(e) PROVE blank(s) /\ x \in Spaces
    BY <2>1, <2>3 DEF n
  <2>4. blank(s) => Visible(s) = <<>>
    BY <1>2
  <2>5. e \in P
    BY <2>1, <2>2, <2>3, <2>4
  <2>. QED BY <2>5 DEF e
<1>. HIDE DEF P
<1>3. \A s \in Seq(S) : s \in P
  BY <1>1, <1>2, SequenceInduction
<1>. QED BY <1>3 DEF P

\* A sequence in two.
LEMMA InTwo ==
  ASSUME NEW S, NEW s \in Seq(S), NEW k \in 0..Len(s)
  PROVE  /\ SubSeq(s, 1, k) \in Seq(S) /\ SubSeq(s, k + 1, Len(s)) \in Seq(S)
         /\ Len(SubSeq(s, 1, k)) = k /\ Len(SubSeq(s, k + 1, Len(s))) = Len(s) - k
         /\ \A i \in 1..k : SubSeq(s, 1, k)[i] = s[i]
         /\ \A i \in 1..(Len(s) - k) : SubSeq(s, k + 1, Len(s))[i] = s[k + i]
         /\ SubSeq(s, 1, k) \o SubSeq(s, k + 1, Len(s)) = s
<1>. DEFINE n == Len(s)
            a == SubSeq(s, 1, k)
            b == SubSeq(s, k + 1, n)
<1>1. n \in Nat /\ k \in Nat /\ k <= n
  OBVIOUS
<1>2. a \in Seq(S) /\ Len(a) = k /\ \A i \in 1..k : a[i] = s[i]
  BY <1>1
<1>3. b \in Seq(S) /\ Len(b) = n - k /\ \A i \in 1..(n - k) : b[i] = s[k + i]
  BY <1>1
<1>. HIDE DEF a, b
<1>4. a \o b = s
  <2>1. a \o b \in Seq(S) /\ Len(a \o b) = n
    BY <1>1, <1>2, <1>3
  <2>2. \A i \in 1..n : (a \o b)[i] = s[i]
    <3>1. ASSUME NEW i \in 1..n PROVE (a \o b)[i] = s[i]
      <4>1. CASE i \in 1..k
        BY <1>1, <1>2, <1>3, <4>1
      <4>2. CASE i \notin 1..k
        <5>1. i - k \in 1..(n - k) /\ k + (i - k) = i /\ (a \o b)[i] = b[i - k]
          BY <1>1, <1>2, <1>3, <4>2
        <5>. QED BY <1>3, <5>1
      <4>. QED BY <4>1, <4>2
    <3>. QED BY <3>1
  <2>. DEFINE ab == a \o b
  <2>3. ab \in Seq(S) /\ Len(ab) = Len(s) /\ \A i \in 1..Len(s) : ab[i] = s[i]
    BY <2>1, <2>2
  <2>. HIDE DEF ab
  <2>4. ab = s
    BY <2>3
  <2>. QED BY <2>4 DEF ab
<1>. QED BY <1>2, <1>3, <1>4 DEF a, b

\* What stripping leaves of s begins at k.
LeadsTo(s, k) ==
  /\ k \in 1..(Len(s) + 1) /\ LStrip(s) = SubSeq(s, k, Len(s))
  /\ \A i \in 1..(k - 1) : s[i] \in Spaces
  /\ k <= Len(s) => s[k] \notin Spaces

LEMMA StripsLeft ==
  ASSUME NEW S, NEW s \in Seq(S)
  PROVE  \E k : LeadsTo(s, k)
<1>. DEFINE n == Len(s)
            m == n + 1
            dark == {i \in 1..n : s[i] \notin Spaces}
            N == {m} \cup dark
            k == Min(N)
<1>1. n \in Nat /\ m = n + 1 /\ m \in Nat /\ DOMAIN s = 1..n
  OBVIOUS
<1>. HIDE DEF n, m
<1>2. N \in SUBSET Nat /\ N # {} /\ N \in SUBSET (1..m)
  BY <1>1
<1>3. k \in N /\ \A i \in N : k <= i
  <2>. HIDE DEF N
  <2>1. PICK j \in N : \A i \in N : j <= i
    BY <1>2, LeastNumber
  <2>. QED BY <2>1 DEF Min
<1>4. LStrip(s) = SubSeq(s, k, n)
  BY <1>1 DEF LStrip, m, n
<1>. HIDE DEF k
<1>5. k \in 1..m /\ \A i \in 1..(k - 1) : i \in 1..n /\ i \notin N
  BY <1>1, <1>2, <1>3
<1>6. \A i \in 1..(k - 1) : s[i] \in Spaces
  BY <1>5
<1>7. k <= n => s[k] \notin Spaces
  BY <1>1, <1>3
<1>. QED BY <1>4, <1>5, <1>6, <1>7 DEF LeadsTo, m, n

\* str.strip: t is s without the blanks around it.
StripsTo(s, t, S) ==
  /\ t \in Seq(S) /\ Visible(t) = Visible(s)
  /\ t # <<>> => /\ Head(t) \notin Spaces
                 /\ \E k \in 1..Len(s) : s[k] = Head(t) /\ \A i \in 1..(k - 1) : s[i] \in Spaces

LEMMA LStripIs ==
  ASSUME NEW S, NEW s \in Seq(S)
  PROVE  StripsTo(s, LStrip(s), S)
<1>. DEFINE n == Len(s)
            t == LStrip(s)
<1>1. PICK k : LeadsTo(s, k)
  BY StripsLeft
<1>. DEFINE j == k - 1
            a == SubSeq(s, 1, j)
<1>2. n \in Nat /\ k \in 1..(n + 1) /\ j \in 0..n /\ j + 1 = k /\ t = SubSeq(s, j + 1, n)
  BY <1>1 DEF LeadsTo
<1>3. /\ a \in Seq(S) /\ t \in Seq(S) /\ Len(a) = j /\ Len(t) = n - j
      /\ \A i \in 1..j : a[i] = s[i]
      /\ \A i \in 1..(n - j) : t[i] = s[j + i]
      /\ a \o t = s
  <2>1. j \in 0..Len(s) /\ t = SubSeq(s, j + 1, Len(s))
    BY <1>2
  <2>. HIDE DEF j, t
  <2>. QED BY <2>1, InTwo
<1>. HIDE DEF a, t, n, j
<1>4. Visible(a) = <<>>
  <2>1. \A i \in 1..Len(a) : a[i] \in Spaces
    BY <1>1, <1>3 DEF LeadsTo, j
  <2>. QED BY <1>3, <2>1, BlankIsInvisible
<1>5. Visible(t) = Visible(s)
  <2>1. Visible(s) = Visible(a) \o Visible(t) /\ Visible(t) \in Seq(S)
    BY <1>3, VisibleJoins, VisibleIs
  <2>. HIDE DEF Visible
  <2>. QED BY <1>4, <2>1, ConcatEmptySeq
<1>6. ASSUME t # <<>>
      PROVE  /\ Head(t) \notin Spaces
             /\ \E h \in 1..n : s[h] = Head(t) /\ \A i \in 1..(h - 1) : s[i] \in Spaces
  <2>1. Len(t) # 0 /\ Head(t) = t[1]
    BY <1>3, <1>6
  <2>2. 1 \in 1..(n - j) /\ k \in 1..n /\ k <= n
    BY <1>2, <1>3, <2>1
  <2>3. t[1] = s[k]
    BY <1>2, <1>3, <2>2
  <2>. QED BY <1>1, <2>1, <2>2, <2>3 DEF LeadsTo, n
<1>. QED BY <1>3, <1>5, <1>6 DEF StripsTo, n, t

\* From the right.
LEMMA RStripIs ==
  ASSUME NEW S, NEW s \in Seq(S)
  PROVE  /\ Reverse(LStrip(Reverse(s))) \in Seq(S)
         /\ Visible(Reverse(LStrip(Reverse(s)))) = Visible(s)
         /\ \/ Reverse(LStrip(Reverse(s))) = <<>>
            \/ s # <<>> /\ Head(Reverse(LStrip(Reverse(s)))) = Head(s)
<1>. DEFINE n == Len(s)
            r == Reverse(s)
            v == LStrip(r)
            t == Reverse(v)
<1>1. n \in Nat /\ DOMAIN s = 1..n /\ \A i \in 1..n : n - i + 1 \in 1..n /\ s[i] \in S
  OBVIOUS
<1>2. r \in Seq(S) /\ Len(r) = n /\ \A i \in 1..n : r[i] = s[n - i + 1]
  <2>1. r = [i \in 1..n |-> s[n - i + 1]]
    BY DEF Reverse
  <2>. HIDE DEF r, n
  <2>2. r \in [1..n -> S]
    BY <1>1, <2>1
  <2>3. r \in Seq(S) /\ Len(r) = n
    BY <1>1, <2>2, FunctionIsSeq
  <2>. QED BY <1>1, <2>1, <2>3
<1>. HIDE DEF n, r
<1>3. PICK k : LeadsTo(r, k)
  BY <1>2, StripsLeft
<1>. DEFINE j == k - 1
            m == n - j
<1>4. /\ k \in 1..(n + 1) /\ j \in 0..n /\ j + 1 = k /\ v = SubSeq(r, j + 1, n) /\ m \in 0..n
      /\ n - m = j
  BY <1>1, <1>2, <1>3 DEF LeadsTo
<1>5. v \in Seq(S) /\ Len(v) = m /\ \A i \in 1..m : v[i] = r[j + i]
  <2>1. /\ SubSeq(r, j + 1, Len(r)) \in Seq(S) /\ Len(SubSeq(r, j + 1, Len(r))) = Len(r) - j
        /\ \A i \in 1..(Len(r) - j) : SubSeq(r, j + 1, Len(r))[i] = r[j + i]
    <3>. HIDE DEF j
    <3>. QED BY <1>2, <1>4, InTwo
  <2>. QED BY <1>2, <1>4, <2>1
<1>. HIDE DEF v
<1>6. \A i \in 1..m : /\ m - i + 1 \in 1..m /\ i \in 1..n
                      /\ j + (m - i + 1) \in 1..n /\ n - (j + (m - i + 1)) + 1 = i
  BY <1>1, <1>4
<1>7. t = [i \in 1..m |-> v[m - i + 1]]
  BY <1>5 DEF Reverse
<1>. HIDE DEF t, j, m
<1>8. \A i \in 1..m : t[i] = s[i] /\ s[i] \in S
  <2>1. ASSUME NEW i \in 1..m PROVE t[i] = s[i] /\ s[i] \in S
    <3>1. t[i] = v[m - i + 1] /\ v[m - i + 1] = r[j + (m - i + 1)]
      BY <1>5, <1>6, <1>7
    <3>2. r[j + (m - i + 1)] = s[i]
      BY <1>2, <1>6
    <3>. QED BY <1>1, <1>6, <3>1, <3>2
  <2>. QED BY <2>1
<1>9. t \in Seq(S) /\ Len(t) = m
  <2>1. t \in [1..m -> S]
    BY <1>7, <1>8
  <2>. QED BY <1>4, <2>1, FunctionIsSeq
<1>. DEFINE a == SubSeq(s, 1, m)
            b == SubSeq(s, m + 1, n)
<1>10. /\ a \in Seq(S) /\ b \in Seq(S) /\ Len(a) = m /\ Len(b) = j /\ a \o b = s
       /\ \A i \in 1..m : a[i] = s[i]
       /\ \A i \in 1..j : b[i] = s[m + i]
  BY <1>4, InTwo DEF n
<1>. HIDE DEF a, b
<1>11. t = a
  BY <1>8, <1>9, <1>10
<1>12. Visible(b) = <<>>
  <2>1. \A i \in 1..j : b[i] \in Spaces
    <3>1. ASSUME NEW i \in 1..j PROVE b[i] \in Spaces
      <4>. DEFINE h == n - (m + i) + 1
      <4>1. h \in 1..(k - 1) /\ h \in 1..n /\ n - h + 1 = m + i
        BY <1>1, <1>4
      <4>. HIDE DEF h
      <4>2. r[h] = s[m + i] /\ r[h] \in Spaces
        BY <1>2, <1>3, <4>1 DEF LeadsTo
      <4>. QED BY <1>10, <4>2
    <3>. QED BY <3>1
  <2>. QED BY <1>10, <2>1, BlankIsInvisible
<1>13. Visible(t) = Visible(s)
  <2>1. Visible(s) = Visible(a) \o Visible(b) /\ Visible(a) \in Seq(S)
    BY <1>10, VisibleJoins, VisibleIs
  <2>. QED BY <1>11, <1>12, <2>1, ConcatEmptySeq
<1>14. t = <<>> \/ (s # <<>> /\ Head(t) = Head(s))
  <2>1. SUFFICES ASSUME t # <<>> PROVE s # <<>> /\ Head(t) = Head(s)
    OBVIOUS
  <2>2. m # 0 /\ Head(t) = t[1]
    BY <1>9, <2>1
  <2>3. 1 \in 1..m /\ n # 0
    BY <1>1, <1>4, <2>2
  <2>4. s # <<>> /\ Head(s) = s[1]
    BY <1>1, <2>3 DEF n
  <2>. QED BY <1>8, <2>2, <2>3, <2>4
<1>. QED BY <1>9, <1>13, <1>14 DEF t, v, r

LEMMA StripIs ==
  ASSUME NEW S, NEW s \in Seq(S)
  PROVE  StripsTo(s, Strip(s), S)
<1>. DEFINE u == LStrip(s)
            t == Reverse(LStrip(Reverse(u)))
<1>1. StripsTo(s, u, S)
  BY LStripIs
<1>2. u \in Seq(S)
  BY <1>1 DEF StripsTo
<1>. HIDE DEF u
<1>3. /\ t \in Seq(S) /\ Visible(t) = Visible(u)
      /\ t = <<>> \/ (u # <<>> /\ Head(t) = Head(u))
  BY <1>2, RStripIs
<1>4. Strip(s) = t
  BY DEF Strip, u
<1>. HIDE DEF t
<1>. QED BY <1>1, <1>3, <1>4 DEF StripsTo

Draining == INSTANCE FoldLaws WITH Op <- LAMBDA c, d, s, x : Cut(s)

\* The segmenter has taken in the visible text v, said or held back.
Holds(s, S, v) ==
  /\ s = [held |-> s.held, said |-> s.said]
  /\ s.held \in Seq(S) /\ s.said \in Seq(Seq(S))
  /\ Visible(FlattenSeq(s.said)) \o Visible(s.held) = v

LEMMA SayKeeps ==
  ASSUME NEW S, NEW v, NEW s, Holds(s, S, v), NEW cut \in 0..Len(s.held)
  PROVE  Holds(Say(s, cut), S, v)
<1>. DEFINE h == s.held
            w == s.said
            a == SubSeq(h, 1, cut)
            b == SubSeq(h, cut + 1, Len(h))
            y == Strip(a)
            f == FlattenSeq(w)
            x == IF y = <<>> THEN w ELSE Append(w, y)
            t == Say(s, cut)
            p == Visible(f)
            q == Visible(a)
            r == Visible(b)
<1>1. h \in Seq(S) /\ w \in Seq(Seq(S)) /\ p \o Visible(h) = v
  BY DEF Holds
<1>2. t = [held |-> b, said |-> x]
  BY DEF Say
<1>. HIDE DEF t, h, w
<1>3. a \in Seq(S) /\ b \in Seq(S) /\ a \o b = h
  <2>1. cut \in 0..Len(h)
    BY DEF h
  <2>. QED BY <1>1, <2>1, InTwo
<1>. HIDE DEF a, b
<1>4. y \in Seq(S) /\ Visible(y) = q
  BY <1>3, StripIs DEF StripsTo
<1>5. f \in Seq(S) /\ FlattenSeq(Append(w, y)) = f \o y /\ Append(w, y) \in Seq(Seq(S))
  BY <1>1, <1>4, FlatGrows
<1>. HIDE DEF y, f
<1>6. p \in Seq(S) /\ q \in Seq(S) /\ r \in Seq(S) /\ Visible(h) = q \o r
  BY <1>3, <1>5, VisibleIs, VisibleJoins
<1>7. Visible(f \o y) = p \o q
  BY <1>4, <1>5, VisibleJoins
<1>. HIDE DEF p, q, r
<1>8. (p \o q) \o r = v
  <2>1. \A i, j, k \in Seq(S) : (i \o j) \o k = i \o (j \o k)
    BY ConcatAssociative
  <2>2. (p \o q) \o r = p \o (q \o r)
    BY <1>6, <2>1
  <2>. QED BY <1>1, <1>6, <2>2
<1>9. x \in Seq(Seq(S)) /\ Visible(FlattenSeq(x)) = p \o q
  <2>1. CASE y = <<>>
    <3>1. q = <<>>
      BY <1>4, <2>1, NothingVisible
    <3>2. p \o q = p
      BY <1>6, <3>1, ConcatEmptySeq
    <3>. QED BY <1>1, <2>1, <3>2 DEF p, f
  <2>2. CASE y # <<>>
    BY <1>5, <1>7, <2>2
  <2>. QED BY <2>1, <2>2
<1>. HIDE DEF x
<1>10. t.held = b /\ t.said = x
  BY <1>2
<1>11. Holds(t, S, v)
  BY <1>2, <1>3, <1>8, <1>9, <1>10 DEF Holds, r
<1>. QED BY <1>11 DEF t

LEMMA LastInIs ==
  ASSUME NEW S, NEW s \in Seq(S), NEW chars
  PROVE  LastIn(s, chars) \in 0..Len(s)
<1>. DEFINE n == Len(s)
            all == {0} \cup {i \in DOMAIN s : s[i] \in chars}
<1>1. n \in Nat /\ all \in SUBSET (0..n) /\ all # {}
  OBVIOUS
<1>2. LastIn(s, chars) = Max(all)
  BY DEF LastIn
<1>. HIDE DEF n, all
<1>3. Max(all) \in 0..n
  BY <1>1, MaxIsGreatest
<1>. QED BY <1>2, <1>3 DEF n

LEMMA CutKeeps ==
  ASSUME NEW S, NEW v, NEW s, Holds(s, S, v)
  PROVE  Holds(Cut(s), S, v)
<1>. DEFINE h == s.held
            n == Len(h)
            last == LastIn(h, Boundaries)
            space == LastIn(h, Spaces)
            word == WordCut(h)
            half == MinChars \div 2
            t == Say(s, word)
<1>1. h \in Seq(S)
  BY DEF Holds
<1>. HIDE DEF h
<1>2. n \in Nat /\ last \in 0..n /\ space \in 0..n
  BY <1>1, LastInIs
<1>3. half \in Nat
  BY SegmenterAssumption
<1>4. word = IF space - 1 > half THEN space - 1 ELSE n
  BY DEF WordCut
<1>. HIDE DEF last, space, half, word
<1>5. word \in 0..n
  BY <1>2, <1>3, <1>4
<1>6. \A k \in 0..n : Holds(Say(s, k), S, v)
  BY SayKeeps DEF h
<1>7. Holds(HardCut(s), S, v)
  <2>1. Holds(t, S, v) /\ HardCut(s) = [t EXCEPT !.held = LStrip(@)]
    BY <1>5, <1>6 DEF HardCut, h, word
  <2>. HIDE DEF t
  <2>. DEFINE g == t.held
              x == t.said
              l == LStrip(g)
              r == HardCut(s)
  <2>2. /\ t = [held |-> g, said |-> x] /\ g \in Seq(S) /\ x \in Seq(Seq(S))
        /\ Visible(FlattenSeq(x)) \o Visible(g) = v
    BY <2>1 DEF Holds
  <2>3. r = [t EXCEPT !.held = l]
    BY <2>1
  <2>. HIDE DEF g, x, r
  <2>4. l \in Seq(S) /\ Visible(l) = Visible(g)
    BY <2>2, LStripIs DEF StripsTo
  <2>. HIDE DEF l
  <2>5. r = [held |-> l, said |-> x]
    BY <2>2, <2>3
  <2>6. r.held = l /\ r.said = x
    BY <2>5
  <2>7. Holds(r, S, v)
    BY <2>2, <2>4, <2>5, <2>6 DEF Holds
  <2>. QED BY <2>7 DEF r
<1>8. Cut(s) = Say(s, last) \/ Cut(s) = HardCut(s) \/ Cut(s) = s
  BY DEF Cut, last, h
<1>. QED BY <1>2, <1>6, <1>7, <1>8

LEMMA DrainKeeps ==
  ASSUME NEW S, NEW v, NEW s, Holds(s, S, v)
  PROVE  Holds(Drain(s), S, v)
<1>. DEFINE drained(x) == Draining!Folded(0, 0, s, x)
            P == {x \in Seq(S) : Holds(drained(x), S, v)}
<1>1. drained(<<>>) = s /\ \A x \in Seq(S), y \in S : drained(Append(x, y)) = Cut(drained(x))
  BY Draining!FoldEmpty, Draining!FoldAppend, LeastNumber DEF Draining!WellOrdered
<1>2. Drain(s) = drained(s.held)
  BY DEF Drain, Draining!Folded, Draining!Solves, FoldLeft, MapThenFoldSet, Max, Draining!Greatest
<1>. HIDE DEF drained
<1>3. <<>> \in P
  <2>1. <<>> \in Seq(S)
    OBVIOUS
  <2>. QED BY <1>1, <2>1
<1>4. ASSUME NEW x \in Seq(S), NEW y \in S, x \in P PROVE Append(x, y) \in P
  <2>1. Append(x, y) \in Seq(S) /\ Holds(drained(x), S, v)
    BY <1>4
  <2>2. Holds(Cut(drained(x)), S, v)
    BY <2>1, CutKeeps
  <2>. QED BY <1>1, <2>1, <2>2
<1>. HIDE DEF P
<1>5. s.held \in P
  <2>1. s.held \in Seq(S)
    BY DEF Holds
  <2>. QED BY <1>3, <1>4, <2>1, SequenceInduction
<1>. QED BY <1>2, <1>5 DEF P

\* What is fed is added to it.
LEMMA FeedAdds ==
  ASSUME NEW S, NEW v, NEW s, Holds(s, S, v), NEW text \in Seq(S)
  PROVE  Holds(Feed(s, text), S, v \o Visible(text))
<1>. DEFINE h == s.held
            w == s.said
            p == Visible(FlattenSeq(w))
            q == Visible(h)
            r == Visible(text)
            g == h \o text
            t == [s EXCEPT !.held = g]
<1>1. s = [held |-> h, said |-> w] /\ h \in Seq(S) /\ w \in Seq(Seq(S)) /\ p \o q = v
  BY DEF Holds
<1>2. Feed(s, text) = Drain(t)
  BY DEF Feed
<1>. HIDE DEF h, w
<1>3. g \in Seq(S)
  BY <1>1
<1>4. Visible(g) = q \o r /\ q \in Seq(S) /\ r \in Seq(S)
  BY <1>1, VisibleJoins, VisibleIs
<1>5. p \in Seq(S)
  <2>1. FlattenSeq(w) \in Seq(S)
    BY <1>1, FlatGrows
  <2>. QED BY <2>1, VisibleIs
<1>. HIDE DEF g, p, q, r
<1>6. t = [held |-> g, said |-> w]
  BY <1>1
<1>. HIDE DEF t
<1>7. t.held = g /\ t.said = w
  BY <1>6
<1>8. p \o (q \o r) = v \o r
  <2>1. \A i, j, k \in Seq(S) : (i \o j) \o k = i \o (j \o k)
    BY ConcatAssociative
  <2>. QED BY <1>1, <1>4, <1>5, <2>1
<1>9. Holds(t, S, v \o r)
  BY <1>1, <1>3, <1>4, <1>6, <1>7, <1>8 DEF Holds, p
<1>. QED BY <1>2, <1>9, DrainKeeps DEF r

\* After a flush everything is said.
LEMMA FlushSays ==
  ASSUME NEW S, NEW v, NEW s, Holds(s, S, v)
  PROVE  Visible(FlattenSeq(FlushSegmenter(s).said)) = v
<1>. DEFINE h == s.held
            n == Len(h)
            t == Say(s, n)
            f == FlattenSeq(t.said)
<1>1. h \in Seq(S) /\ n \in Nat /\ n \in 0..n
  BY DEF Holds
<1>2. Holds(t, S, v)
  BY <1>1, SayKeeps
<1>3. t.held = SubSeq(h, n + 1, n)
  BY DEF Say
<1>. HIDE DEF n
<1>4. SubSeq(h, n + 1, n) = <<>>
  BY <1>1
<1>. HIDE DEF t
<1>5. /\ t.said \in Seq(Seq(S)) /\ Visible(f) \o Visible(t.held) = v
  BY <1>2 DEF Holds
<1>6. f \in Seq(S)
  BY <1>5, FlatGrows
<1>. HIDE DEF f
<1>7. Visible(f) \o <<>> = Visible(f)
  <2>1. Visible(f) \in Seq(S)
    BY <1>6, VisibleIs
  <2>. QED BY <2>1, ConcatEmptySeq
<1>8. Visible(f) = v
  BY <1>3, <1>4, <1>5, <1>7, NothingVisible
<1>. QED BY <1>8 DEF FlushSegmenter, t, f, n

Parsing    == INSTANCE FoldLaws WITH Op <- LAMBDA c, d, p, x : ReadLine(p, x)
Extracting == INSTANCE FoldLaws WITH Op <- LAMBDA c, d, e, x : FeedToken(e, x)
Lining     == INSTANCE FoldLaws
              WITH Op <- LAMBDA c, d, ls, x : IF x = "\n" THEN Append(ls, <<>>)
                                              ELSE [ls EXCEPT ![Len(ls)] = Append(@, x)]

\* The two readers after the same complete lines: line is the one begun.
IsExtractor(e) == e = [line |-> e.line, done |-> e.done, segmenter |-> e.segmenter]
IsParse(p) == p = [mode |-> p.mode, text |-> p.text, category |-> p.category, hints |-> p.hints]

Agree(e, p, line) ==
  /\ IsExtractor(e) /\ IsParse(p) /\ p.text \in Seq(Characters)
  /\ Holds(e.segmenter, Characters, Visible(p.text))
  /\ IF e.done THEN p.mode \in {"kv", "hints"} ELSE p.mode = "question" /\ e.line = line

LEMMA Extracted ==
  ASSUME NEW e, IsExtractor(e), NEW a, NEW b
  PROVE  /\ [e EXCEPT !.line = a, !.segmenter = b] = [line |-> a, done |-> e.done, segmenter |-> b]
         /\ [e EXCEPT !.line = a, !.done = b] = [line |-> a, done |-> b, segmenter |-> e.segmenter]
         /\ [e EXCEPT !.line = a] = [line |-> a, done |-> e.done, segmenter |-> e.segmenter]
<1>. DEFINE x == e.line
            y == e.done
            z == e.segmenter
            u == [e EXCEPT !.line = a]
<1>1. e = [line |-> x, done |-> y, segmenter |-> z]
  BY DEF IsExtractor
<1>2. /\ [e EXCEPT !.line = a, !.segmenter = b] = [u EXCEPT !.segmenter = b]
      /\ [e EXCEPT !.line = a, !.done = b] = [u EXCEPT !.done = b]
  OBVIOUS
<1>. HIDE DEF x, y, z
<1>3. u = [line |-> a, done |-> y, segmenter |-> z]
  BY <1>1
<1>. HIDE DEF u
<1>4. [u EXCEPT !.segmenter = b] = [line |-> a, done |-> y, segmenter |-> b]
  BY <1>3
<1>5. [u EXCEPT !.done = b] = [line |-> a, done |-> b, segmenter |-> z]
  BY <1>3
<1>. QED BY <1>2, <1>3, <1>4, <1>5 DEF y, z, u

LEMMA Parsed ==
  ASSUME NEW p, IsParse(p), NEW a, NEW b
  PROVE  /\ [p EXCEPT !.mode = a, !.category = b]
              = [mode |-> a, text |-> p.text, category |-> b, hints |-> p.hints]
         /\ [p EXCEPT !.mode = a]
              = [mode |-> a, text |-> p.text, category |-> p.category, hints |-> p.hints]
         /\ [p EXCEPT !.text = a]
              = [mode |-> p.mode, text |-> a, category |-> p.category, hints |-> p.hints]
         /\ [p EXCEPT !.hints = a]
              = [mode |-> p.mode, text |-> p.text, category |-> p.category, hints |-> a]
<1>. DEFINE w == p.mode
            x == p.text
            y == p.category
            z == p.hints
            u == [p EXCEPT !.mode = a]
<1>1. p = [mode |-> w, text |-> x, category |-> y, hints |-> z]
  BY DEF IsParse
<1>2. [p EXCEPT !.mode = a, !.category = b] = [u EXCEPT !.category = b]
  OBVIOUS
<1>. HIDE DEF w, x, y, z
<1>3. u = [mode |-> a, text |-> x, category |-> y, hints |-> z]
  BY <1>1
<1>. HIDE DEF u
<1>4. [u EXCEPT !.category = b] = [mode |-> a, text |-> x, category |-> b, hints |-> z]
  BY <1>3
<1>5. [p EXCEPT !.text = a] = [mode |-> w, text |-> a, category |-> y, hints |-> z]
  BY <1>1
<1>6. [p EXCEPT !.hints = a] = [mode |-> w, text |-> x, category |-> y, hints |-> a]
  BY <1>1
<1>. QED BY <1>2, <1>3, <1>4, <1>5, <1>6 DEF w, x, y, z, u

LEMMA EndsApart ==
  ASSUME NEW a, NEW b, NEW c, NEW d
  PROVE  LET p == [mode |-> a, text |-> b, category |-> c, hints |-> d]
         IN IsParse(p) /\ p.mode = a /\ p.text = b
BY DEF IsParse

\* After the first key nothing is added to the text of the question.
LEMMA KeysEndTheText ==
  ASSUME NEW p, IsParse(p), NEW line,
         p.mode \in {"kv", "hints"} \/ (p.mode = "question" /\ Head(line) \in ParserKeys)
  PROVE  /\ IsParse(ReadLine(p, line)) /\ ReadLine(p, line).text = p.text
         /\ ReadLine(p, line).mode \in {"kv", "hints"}
<1>. DEFINE key == Head(line)
            value == Strip(Tail(line))
            inQuestion == p.mode = "question" /\ key \notin ParserKeys
            inKeys == p.mode \in {"question", "kv"} /\ ~inQuestion
            r == ReadLine(p, line)
            h == IF key = "-" /\ value # NoValue THEN p.hints + 1 ELSE p.hints
<1>1. ~inQuestion
  OBVIOUS
<1>2. \/ r = [p EXCEPT !.mode = "hints"]
      \/ r = [p EXCEPT !.mode = "kv", !.category = value]
      \/ r = [p EXCEPT !.mode = "kv"]
      \/ p.mode \in {"kv", "hints"} /\ r = [p EXCEPT !.hints = h]
  BY <1>1 DEF ReadLine
<1>. HIDE DEF r, value, h
<1>3. \/ r = [mode |-> "hints", text |-> p.text, category |-> p.category, hints |-> p.hints]
      \/ r = [mode |-> "kv", text |-> p.text, category |-> value, hints |-> p.hints]
      \/ r = [mode |-> "kv", text |-> p.text, category |-> p.category, hints |-> p.hints]
      \/ /\ p.mode \in {"kv", "hints"}
         /\ r = [mode |-> p.mode, text |-> p.text, category |-> p.category, hints |-> h]
  BY <1>2, Parsed
<1>4. IsParse(r) /\ r.text = p.text /\ r.mode \in {"kv", "hints"}
  BY <1>3, EndsApart
<1>. QED BY <1>4 DEF r

\* A line of the question.
LEMMA QuestionGrows ==
  ASSUME NEW p, IsParse(p), NEW line, p.mode = "question", Head(line) \notin ParserKeys, NEW z,
         z = IF Head(line) = Header THEN Strip(Tail(line)) ELSE line
  PROVE  /\ IsParse(ReadLine(p, line)) /\ ReadLine(p, line).text = p.text \o z
         /\ ReadLine(p, line).mode = "question"
<1>. DEFINE r == ReadLine(p, line)
            a == p.text \o z
<1>1. r = [p EXCEPT !.text = a]
  BY DEF ReadLine
<1>. HIDE DEF r, a
<1>2. r = [mode |-> p.mode, text |-> a, category |-> p.category, hints |-> p.hints]
  BY <1>1, Parsed
<1>3. IsParse(r) /\ r.text = a /\ r.mode = "question"
  BY <1>2, EndsApart
<1>. QED BY <1>3 DEF r, a

\* A complete line read by the one and by the other.
ReadRaw(p, line) == IF Strip(line) = <<>> THEN p ELSE ReadLine(p, Strip(line))
AtMargin(line) ==
  \A k \in 1..Len(line) : line[k] = Header /\ (\A i \in 1..(k - 1) : line[i] \in Spaces) => k = 1
Fed(e, text) == [e EXCEPT !.line = <<>>, !.segmenter = Feed(@, text)]

LEMMA FedAgrees ==
  ASSUME NEW e, NEW p, NEW line, Agree(e, p, line), ~e.done, NEW text \in Seq(Characters),
         NEW q, IsParse(q), q.mode = "question", q.text \in Seq(Characters),
         Visible(q.text) = Visible(p.text) \o Visible(text)
  PROVE  Agree(Fed(e, text), q, <<>>)
<1>. DEFINE s == Feed(e.segmenter, text)
            t == Fed(e, text)
<1>1. IsExtractor(e) /\ Holds(e.segmenter, Characters, Visible(p.text))
  BY DEF Agree
<1>2. Holds(s, Characters, Visible(q.text))
  <2>1. Holds(s, Characters, Visible(p.text) \o Visible(text))
    BY <1>1, FeedAdds
  <2>. QED BY <2>1
<1>3. t = [e EXCEPT !.line = <<>>, !.segmenter = s]
  BY DEF Fed
<1>. HIDE DEF s, t
<1>4. t = [line |-> <<>>, done |-> e.done, segmenter |-> s]
  BY <1>1, <1>3, Extracted
<1>5. t.line = <<>> /\ t.done = e.done /\ t.segmenter = s
  BY <1>4
<1>6. IsExtractor(t)
  BY <1>4, <1>5 DEF IsExtractor
<1>7. Agree(t, q, <<>>)
  BY <1>2, <1>5, <1>6 DEF Agree
<1>. QED BY <1>7 DEF t

LEMMA KeysApart == Header \notin ParserKeys /\ ExtractorKeys = ParserKeys
BY DEF Header, ParserKeys, ExtractorKeys, Hints

\* What follows the header at the margin.
LEMMA AfterHeader ==
  ASSUME NEW S, NEW line \in Seq(S), Strip(line) # <<>>, Head(Strip(line)) = Header, AtMargin(line)
  PROVE  /\ Body(line) = Tail(line) /\ Tail(line) \in Seq(S) /\ Tail(Strip(line)) \in Seq(S)
         /\ Visible(Tail(Strip(line))) = Visible(Tail(line))
<1>. DEFINE y == Strip(line)
            a == Tail(line)
            b == Tail(y)
            h == <<Header>>
            p == Visible(a)
            q == Visible(b)
<1>1. /\ y \in Seq(S) /\ Visible(y) = Visible(line)
      /\ \E k \in 1..Len(line) : line[k] = Header /\ \A i \in 1..(k - 1) : line[i] \in Spaces
  BY StripIs DEF StripsTo
<1>. HIDE DEF y
<1>2. line[1] = Header /\ 1 \in 1..Len(line)
  BY <1>1 DEF AtMargin
<1>3. line # <<>> /\ Head(line) = Header /\ a \in Seq(S) /\ line = h \o a /\ Header \in S
  BY <1>2
<1>4. y # <<>> /\ Head(y) = Header
  BY DEF y
<1>5. b \in Seq(S) /\ y = h \o b
  BY <1>1, <1>4
<1>6. Visible(h) = h /\ h \in Seq(S)
  <2>1. h = Append(<<>>, Header) /\ <<>> \in Seq(S) /\ Append(<<>>, Header) \in Seq(S)
    BY <1>3
  <2>2. Header \notin Spaces
    BY DEF Header, Spaces
  <2>3. Visible(Append(<<>>, Header)) = Append(Visible(<<>>), Header)
    BY <1>3, <2>1, <2>2, VisibleGrows
  <2>. QED BY <2>1, <2>3, NothingVisible
<1>. HIDE DEF a, b, h
<1>7. Visible(line) = h \o p /\ Visible(y) = h \o q /\ p \in Seq(S) /\ q \in Seq(S)
  <2>1. Visible(h \o a) = Visible(h) \o p /\ Visible(h \o b) = Visible(h) \o q
    BY <1>3, <1>5, <1>6, VisibleJoins
  <2>. QED BY <1>3, <1>5, <1>6, <2>1, VisibleIs
<1>. HIDE DEF p, q
<1>8. p = q
  <2>1. h \o p = h \o q
    BY <1>1, <1>7
  <2>. QED BY <1>6, <1>7, <2>1, ConcatSimplifications
<1>9. Body(line) = a
  BY <1>3 DEF Body, a
<1>. QED BY <1>3, <1>5, <1>8, <1>9 DEF a, b, p, q, y

LEMMA LineStep ==
  ASSUME NEW e, NEW p, NEW line \in Seq(Characters), Agree(e, p, line), AtMargin(line)
  PROVE  Agree(IF e.done THEN e ELSE ProcessLine(e), ReadRaw(p, line), <<>>)
<1>. DEFINE C == Characters
            y == Strip(line)
            q == ReadRaw(p, line)
<1>1. y \in Seq(C) /\ Visible(y) = Visible(line)
  BY StripIs DEF StripsTo
<1>2. /\ IsExtractor(e) /\ IsParse(p) /\ p.text \in Seq(C)
      /\ Holds(e.segmenter, C, Visible(p.text))
      /\ e.done => p.mode \in {"kv", "hints"}
      /\ ~e.done => p.mode = "question" /\ e.line = line
  BY DEF Agree
<1>3. q = IF y = <<>> THEN p ELSE ReadLine(p, y)
  BY DEF ReadRaw
<1>. HIDE DEF y, q
<1>4. CASE e.done
  <2>1. IsParse(q) /\ q.text = p.text /\ q.mode \in {"kv", "hints"}
    BY <1>2, <1>3, <1>4, KeysEndTheText
  <2>2. Agree(e, q, <<>>)
    BY <1>2, <1>4, <2>1 DEF Agree
  <2>. QED BY <1>4, <2>2 DEF q
<1>5. CASE ~e.done /\ y = <<>>
  <2>1. ProcessLine(e) = Fed(e, line)
    BY <1>2, <1>5 DEF ProcessLine, Starts, Fed, y
  <2>2. Visible(p.text) = Visible(p.text) \o Visible(line)
    <3>1. Visible(line) = <<>>
      BY <1>1, <1>5, NothingVisible
    <3>2. Visible(p.text) \in Seq(C)
      BY <1>2, VisibleIs
    <3>. QED BY <3>1, <3>2, ConcatEmptySeq
  <2>3. q = p
    BY <1>3, <1>5
  <2>4. Agree(Fed(e, line), p, <<>>)
    BY <1>2, <1>5, <2>2, FedAgrees
  <2>. QED BY <1>5, <2>1, <2>3, <2>4 DEF q
<1>6. CASE ~e.done /\ y # <<>> /\ Head(y) \in ParserKeys
  <2>. DEFINE t == ProcessLine(e)
  <2>1. t = [e EXCEPT !.line = <<>>, !.done = TRUE]
    BY <1>2, <1>6, KeysApart DEF ProcessLine, Starts, y
  <2>. HIDE DEF t
  <2>2. t = [line |-> <<>>, done |-> TRUE, segmenter |-> e.segmenter]
    BY <1>2, <2>1, Extracted
  <2>3. t.line = <<>> /\ t.done = TRUE /\ t.segmenter = e.segmenter
    BY <2>2
  <2>4. IsExtractor(t)
    BY <2>2, <2>3 DEF IsExtractor
  <2>5. IsParse(q) /\ q.text = p.text /\ q.mode \in {"kv", "hints"}
    BY <1>2, <1>3, <1>6, KeysEndTheText
  <2>6. Agree(t, q, <<>>)
    BY <1>2, <2>3, <2>4, <2>5 DEF Agree
  <2>. QED BY <1>6, <2>6 DEF t, q
<1>7. CASE ~e.done /\ y # <<>> /\ Head(y) \notin ParserKeys
  <2>. DEFINE z == IF Head(y) = Header THEN Strip(Tail(y)) ELSE y
              text == IF Head(y) # Header THEN line
                      ELSE IF Visible(Tail(line)) = <<>> THEN <<>> ELSE Tail(line)
  <2>1. ProcessLine(e) = Fed(e, text)
    <3>1. ~Starts(e.line, ExtractorKeys)
      BY <1>2, <1>7, KeysApart DEF Starts, y
    <3>2. Starts(e.line, {Header}) <=> Head(y) = Header
      BY <1>2, <1>7 DEF Starts, y
    <3>3. Head(y) = Header => Body(line) = Tail(line)
      BY <1>7, AfterHeader DEF y
    <3>. QED BY <1>2, <1>7, <3>1, <3>2, <3>3 DEF ProcessLine, Fed
  <2>2. z \in Seq(C) /\ text \in Seq(C) /\ Visible(z) = Visible(text)
    <3>1. CASE Head(y) # Header
      BY <1>1, <3>1
    <3>2. CASE Head(y) = Header
      <4>. DEFINE a == Tail(line)
                  b == Tail(y)
      <4>1. a \in Seq(C) /\ b \in Seq(C) /\ Visible(b) = Visible(a)
        BY <1>7, <3>2, AfterHeader DEF y
      <4>. HIDE DEF a, b
      <4>2. Strip(b) \in Seq(C) /\ Visible(Strip(b)) = Visible(b)
        BY <4>1, StripIs DEF StripsTo
      <4>3. z = Strip(b) /\ text = IF Visible(a) = <<>> THEN <<>> ELSE a
        BY <3>2 DEF a, b
      <4>4. <<>> \in Seq(C)
        OBVIOUS
      <4>. HIDE DEF z, text
      <4>. QED BY <4>1, <4>2, <4>3, <4>4, NothingVisible
    <3>. QED BY <3>1, <3>2
  <2>. HIDE DEF text
  <2>3. IsParse(q) /\ q.text = p.text \o z /\ q.mode = "question"
    BY <1>2, <1>3, <1>7, QuestionGrows
  <2>. HIDE DEF z
  <2>4. Visible(q.text) = Visible(p.text) \o Visible(text) /\ q.text \in Seq(C)
    <3>. DEFINE x == p.text
    <3>1. x \in Seq(C) /\ z \in Seq(C) /\ q.text = x \o z
      BY <1>2, <2>2, <2>3
    <3>. HIDE DEF x
    <3>2. Visible(x \o z) = Visible(x) \o Visible(z) /\ x \o z \in Seq(C)
      BY <3>1, VisibleJoins
    <3>. QED BY <2>2, <3>1, <3>2 DEF x
  <2>5. Agree(Fed(e, text), q, <<>>)
    BY <1>7, <2>2, <2>3, <2>4, FedAgrees
  <2>. QED BY <1>7, <2>1, <2>5 DEF q
<1>. QED BY <1>4, <1>5, <1>6, <1>7

LEMMA StreamGrows ==
  ASSUME NEW S
  PROVE  /\ Streamed(<<>>) = Extractor
         /\ \A u \in Seq(S), x \in S : Streamed(Append(u, x)) = FeedToken(Streamed(u), x)
<1>1. \A u : Streamed(u) = Extracting!Folded(0, 0, Extractor, u)
  BY DEF Streamed, Extracting!Folded, Extracting!Solves, FoldLeft, MapThenFoldSet, Max,
         Extracting!Greatest
<1>2. Streamed(<<>>) = Extractor
  BY <1>1, Extracting!FoldEmpty, LeastNumber DEF Extracting!WellOrdered
<1>3. ASSUME NEW u \in Seq(S), NEW x \in S
      PROVE  Streamed(Append(u, x)) = FeedToken(Streamed(u), x)
  BY <1>1, Extracting!FoldAppend, LeastNumber DEF Extracting!WellOrdered
<1>. QED BY <1>2, <1>3

\* The last line of a text has one character more, or another begins.
LEMMA SplitsGrow ==
  ASSUME NEW S
  PROVE  /\ Split(<<>>) = <<<<>>>>
         /\ \A u \in Seq(S), x \in S :
              Split(Append(u, x))
                = IF x = "\n" THEN Append(Split(u), <<>>)
                  ELSE [Split(u) EXCEPT ![Len(Split(u))] = Append(@, x)]
<1>1. \A u : Split(u) = Lining!Folded(0, 0, <<<<>>>>, u)
  BY DEF Split, Lining!Folded, Lining!Solves, FoldLeft, MapThenFoldSet, Max, Lining!Greatest
<1>2. Split(<<>>) = <<<<>>>>
  BY <1>1, Lining!FoldEmpty, LeastNumber DEF Lining!WellOrdered
<1>3. ASSUME NEW u \in Seq(S), NEW x \in S
      PROVE  Split(Append(u, x))
               = IF x = "\n" THEN Append(Split(u), <<>>)
                 ELSE [Split(u) EXCEPT ![Len(Split(u))] = Append(@, x)]
  BY <1>1, Lining!FoldAppend, LeastNumber DEF Lining!WellOrdered
<1>. QED BY <1>2, <1>3

ParseStart == [mode |-> "question", text |-> <<>>, category |-> NoValue, hints |-> 0]
ParseOf(lines) == FoldLeft(ReadLine, ParseStart, Stripped(lines))

LEMMA StrippedGrows ==
  ASSUME NEW S
  PROVE  /\ Stripped(<<>>) = <<>>
         /\ \A ls \in Seq(Seq(S)), x \in Seq(S) :
              /\ Stripped(ls) \in Seq(Seq(S))
              /\ Stripped(Append(ls, x))
                   = IF Strip(x) = <<>> THEN Stripped(ls) ELSE Append(Stripped(ls), Strip(x))
<1>. DEFINE R == Seq(S)
            P == {ls \in Seq(R) : Stripped(ls) \in Seq(R)}
<1>1. \A ls : Stripped(ls) = Stripping!Folded(0, 0, <<>>, ls)
  BY DEF Stripped, Stripping!Folded, Stripping!Solves, FoldLeft, MapThenFoldSet, Max,
         Stripping!Greatest
<1>2. Stripped(<<>>) = <<>>
  BY <1>1, Stripping!FoldEmpty, LeastNumber DEF Stripping!WellOrdered
<1>3. ASSUME NEW T, NEW ls \in Seq(T), NEW x \in T
      PROVE  Stripped(Append(ls, x))
               = IF Strip(x) = <<>> THEN Stripped(ls) ELSE Append(Stripped(ls), Strip(x))
  BY <1>1, Stripping!FoldAppend, LeastNumber DEF Stripping!WellOrdered
<1>4. \A x \in R : Strip(x) \in R
  BY StripIs DEF StripsTo
<1>. HIDE DEF R
<1>5. <<>> \in P
  <2>1. <<>> \in Seq(R)
    OBVIOUS
  <2>. QED BY <1>2, <2>1
<1>6. ASSUME NEW ls \in Seq(R), NEW x \in R, ls \in P PROVE Append(ls, x) \in P
  <2>. DEFINE y == Strip(x)
              v == Stripped(ls)
  <2>1. y \in R /\ v \in Seq(R) /\ Append(ls, x) \in Seq(R)
    BY <1>4, <1>6
  <2>2. Stripped(Append(ls, x)) = IF y = <<>> THEN v ELSE Append(v, y)
    BY <1>3
  <2>. HIDE DEF y, v
  <2>3. Append(v, y) \in Seq(R)
    BY <2>1
  <2>. QED BY <2>1, <2>2, <2>3
<1>. HIDE DEF P
<1>7. \A ls \in Seq(R) : ls \in P
  BY <1>5, <1>6, SequenceInduction
<1>8. \A ls \in Seq(R), x \in R :
        /\ Stripped(ls) \in Seq(R)
        /\ Stripped(Append(ls, x))
             = IF Strip(x) = <<>> THEN Stripped(ls) ELSE Append(Stripped(ls), Strip(x))
  BY <1>3, <1>7 DEF P
<1>. QED BY <1>2, <1>8 DEF R

LEMMA ParseGrows ==
  ASSUME NEW S
  PROVE  /\ ParseOf(<<>>) = ParseStart
         /\ \A ls \in Seq(Seq(S)), x \in Seq(S) :
              ParseOf(Append(ls, x)) = ReadRaw(ParseOf(ls), x)
<1>. DEFINE parsed(ls) == Parsing!Folded(0, 0, ParseStart, ls)
            R == Seq(S)
<1>1. \A ls : ParseOf(ls) = parsed(Stripped(ls))
  BY DEF ParseOf, Parsing!Folded, Parsing!Solves, FoldLeft, MapThenFoldSet, Max, Parsing!Greatest
<1>2. parsed(<<>>) = ParseStart
  BY Parsing!FoldEmpty, LeastNumber DEF Parsing!WellOrdered
<1>3. ASSUME NEW T, NEW ls \in Seq(T), NEW x \in T
      PROVE  parsed(Append(ls, x)) = ReadLine(parsed(ls), x)
  BY Parsing!FoldAppend, LeastNumber DEF Parsing!WellOrdered
<1>4. ASSUME NEW ls \in Seq(Seq(S)), NEW x \in Seq(S)
      PROVE  ParseOf(Append(ls, x)) = ReadRaw(ParseOf(ls), x)
  <2>. DEFINE y == Strip(x)
              v == Stripped(ls)
  <2>1. y \in R
    BY StripIs DEF StripsTo
  <2>2. v \in Seq(R) /\ Stripped(Append(ls, x)) = IF y = <<>> THEN v ELSE Append(v, y)
    BY StrippedGrows
  <2>. HIDE DEF y, v, parsed, R
  <2>3. parsed(Append(v, y)) = ReadLine(parsed(v), y)
    BY <1>3, <2>1, <2>2
  <2>. QED BY <1>1, <2>2, <2>3 DEF ReadRaw, y, v
<1>5. ParseOf(<<>>) = ParseStart
  BY <1>1, <1>2, StrippedGrows
<1>. QED BY <1>4, <1>5

\* line is what follows the last line break of u.
LastLine(u, line) ==
  LET n == Len(u) - Len(line)
  IN /\ n \in Nat
     /\ n = 0 \/ u[n] = "\n"
     /\ \A i \in 1..Len(line) : line[i] = u[n + i] /\ line[i] # "\n"

IndentedIn(u) ==
  \E i \in DOMAIN u :
    /\ u[i] = Header
    /\ \E j \in 1..(i - 1) :
         /\ \A k \in j..(i - 1) : u[k] = " "
         /\ j = 1 \/ u[j - 1] = "\n"

LEMMA Margins ==
  ASSUME NEW S, NEW u \in Seq(S), NEW line \in Seq(S), LastLine(u, line), ~IndentedIn(u)
  PROVE  AtMargin(line)
<1>. DEFINE m == Len(line)
            n == Len(u) - m
<1>1. /\ m \in Nat /\ n \in Nat /\ DOMAIN u = 1..(n + m)
      /\ n = 0 \/ u[n] = "\n"
      /\ \A i \in 1..m : line[i] = u[n + i] /\ line[i] # "\n"
  BY DEF LastLine
<1>. HIDE DEF m, n
<1>2. SUFFICES ASSUME NEW k \in 1..m, line[k] = Header,
                      \A i \in 1..(k - 1) : line[i] \in Spaces, k # 1
               PROVE  FALSE
  BY DEF AtMargin, m
<1>. DEFINE i == n + k
            j == n + 1
<1>3. /\ i \in 1..(n + m) /\ j \in 1..(i - 1) /\ j - 1 = n
      /\ \A h \in j..(i - 1) : h - n \in 1..(k - 1) /\ h - n \in 1..m /\ n + (h - n) = h
      /\ n = 0 => j = 1
  <2>1. n \in Nat /\ m \in Nat /\ k \in 1..m /\ k # 1
    BY <1>1, <1>2
  <2>2. i \in 1..(n + m) /\ j \in 1..(i - 1) /\ j - 1 = n /\ (n = 0 => j = 1)
    BY <2>1
  <2>3. \A h \in j..(i - 1) : h - n \in 1..(k - 1) /\ h - n \in 1..m /\ n + (h - n) = h
    BY <2>1
  <2>. QED BY <2>2, <2>3
<1>. HIDE DEF i, j
<1>4. u[i] = Header
  BY <1>1, <1>2 DEF i
<1>5. ASSUME NEW h \in j..(i - 1) PROVE u[h] = " "
  <2>1. h - n \in 1..(k - 1) /\ h - n \in 1..m /\ n + (h - n) = h
    BY <1>3
  <2>2. u[h] = line[h - n] /\ line[h - n] \in Spaces /\ line[h - n] # "\n"
    BY <1>1, <1>2, <2>1
  <2>. QED BY <2>2 DEF Spaces
<1>6. j = 1 \/ u[j - 1] = "\n"
  BY <1>1, <1>3
<1>. QED BY <1>1, <1>3, <1>4, <1>5, <1>6 DEF IndentedIn

LEMMA IndentedStays ==
  ASSUME NEW S, NEW u \in Seq(S), NEW x \in S, IndentedIn(u)
  PROVE  IndentedIn(Append(u, x))
<1>. DEFINE e == Append(u, x)
            n == Len(u)
<1>1. /\ n \in Nat /\ DOMAIN u = 1..n /\ \A i \in 1..n : i \in DOMAIN e /\ e[i] = u[i]
  OBVIOUS
<1>. HIDE DEF e, n
<1>2. PICK i \in 1..n : /\ u[i] = Header
                        /\ \E j \in 1..(i - 1) : /\ \A k \in j..(i - 1) : u[k] = " "
                                                 /\ j = 1 \/ u[j - 1] = "\n"
  BY <1>1 DEF IndentedIn
<1>3. PICK j \in 1..(i - 1) : (\A k \in j..(i - 1) : u[k] = " ") /\ (j = 1 \/ u[j - 1] = "\n")
  BY <1>2
<1>4. /\ \A k \in j..(i - 1) : k \in 1..n
      /\ j # 1 => j - 1 \in 1..n
  BY <1>1
<1>5. /\ e[i] = Header /\ i \in DOMAIN e
      /\ \A k \in j..(i - 1) : e[k] = " "
      /\ j = 1 \/ e[j - 1] = "\n"
  BY <1>1, <1>2, <1>3, <1>4
<1>6. IndentedIn(e)
  BY <1>5 DEF IndentedIn
<1>. QED BY <1>6 DEF e

\* Both readers have read the complete lines of u, ls, and are at the line begun.
Follows(u, ls, line) ==
  /\ ls \in Seq(Seq(Characters)) /\ line \in Seq(Characters)
  /\ Split(u) = Append(ls, line) /\ LastLine(u, line)
  /\ Agree(Streamed(u), ParseOf(ls), line)

LEMMA FollowsAtFirst == Follows(<<>>, <<>>, <<>>)
<1>. DEFINE C == Characters
            none == <<>>
<1>1. none \in Seq(C) /\ none \in Seq(Seq(C)) /\ Len(none) = 0
  OBVIOUS
<1>2. Split(none) = Append(none, none)
  BY SplitsGrow
<1>3. LastLine(none, none)
  BY DEF LastLine
<1>4. Holds(Segmenter, C, Visible(none))
  <2>1. FlattenSeq(none) = none /\ none \o none = none
    <3>1. FlattenSeq(<<>>) = <<>>
      BY FlatGrows
    <3>. QED BY <1>1, <3>1, ConcatEmptySeq
  <2>. QED BY <1>1, <2>1, NothingVisible DEF Holds, Segmenter
<1>5. Streamed(none) = Extractor /\ ParseOf(none) = ParseStart
  BY StreamGrows, ParseGrows
<1>6. Agree(Extractor, ParseStart, none)
  BY <1>1, <1>4 DEF Agree, Extractor, ParseStart, IsExtractor, IsParse
<1>. QED BY <1>1, <1>2, <1>3, <1>5, <1>6 DEF Follows

LEMMA BreakFollows ==
  ASSUME NEW u \in Seq(Characters), "\n" \in Characters, ~IndentedIn(u),
         NEW ls, NEW line, Follows(u, ls, line)
  PROVE  Follows(Append(u, "\n"), Append(ls, line), <<>>)
<1>. DEFINE C == Characters
            w == Append(u, "\n")
            e == Streamed(u)
            p == ParseOf(ls)
            f == Streamed(w)
            q == ParseOf(Append(ls, line))
<1>1. /\ ls \in Seq(Seq(C)) /\ line \in Seq(C) /\ Split(u) = Append(ls, line)
      /\ LastLine(u, line) /\ Agree(e, p, line)
  BY DEF Follows
<1>2. AtMargin(line)
  BY <1>1, Margins
<1>3. Split(w) = Append(Append(ls, line), <<>>)
  BY <1>1, SplitsGrow
<1>4. LastLine(w, <<>>)
  <2>1. Len(w) \in Nat /\ w[Len(w)] = "\n" /\ Len(<<>>) = 0 /\ Len(w) - 0 = Len(w)
    OBVIOUS
  <2>. HIDE DEF w
  <2>. QED BY <2>1 DEF LastLine
<1>5. f = IF e.done THEN e ELSE ProcessLine(e)
  BY StreamGrows DEF FeedToken
<1>6. q = ReadRaw(p, line)
  BY <1>1, ParseGrows
<1>. HIDE DEF e, p, f, q, w
<1>7. Agree(f, q, <<>>)
  BY <1>1, <1>2, <1>5, <1>6, LineStep
<1>8. Append(ls, line) \in Seq(Seq(C)) /\ <<>> \in Seq(C)
  BY <1>1
<1>. QED BY <1>3, <1>4, <1>7, <1>8 DEF Follows, f, q, w

LEMMA CharacterFollows ==
  ASSUME NEW u \in Seq(Characters), NEW x \in Characters, x # "\n",
         NEW ls, NEW line, Follows(u, ls, line)
  PROVE  Follows(Append(u, x), ls, Append(line, x))
<1>. DEFINE C == Characters
            w == Append(u, x)
            more == Append(line, x)
            e == Streamed(u)
            p == ParseOf(ls)
            f == Streamed(w)
<1>1. /\ ls \in Seq(Seq(C)) /\ line \in Seq(C) /\ Split(u) = Append(ls, line)
      /\ LastLine(u, line) /\ Agree(e, p, line)
  BY DEF Follows
<1>2. Split(w) = Append(ls, more)
  <2>. DEFINE R == Seq(C)
              b == Append(ls, line)
              m == Len(b)
  <2>1. Split(w) = [b EXCEPT ![m] = Append(@, x)]
    <3>1. Split(Append(u, x)) = [Split(u) EXCEPT ![Len(Split(u))] = Append(@, x)]
      <4>1. u \in Seq(C) /\ x \in C /\ x # "\n"
        OBVIOUS
      <4>. HIDE DEF C
      <4>. QED BY <4>1, SplitsGrow
    <3>2. Split(u) = b
      BY <1>1
    <3>. QED BY <3>1, <3>2
  <2>2. ls \in Seq(R) /\ line \in R /\ more \in R
    BY <1>1
  <2>. HIDE DEF R
  <2>3. m = Len(ls) + 1 /\ b[m] = line /\ m \in DOMAIN b /\ b \in Seq(R)
    BY <2>2
  <2>4. Split(w) = [b EXCEPT ![m] = more]
    BY <2>1, <2>3
  <2>. HIDE DEF more
  <2>5. [Append(ls, line) EXCEPT ![Len(ls) + 1] = more] = Append(ls, more)
    <3>. DEFINE l == [Append(ls, line) EXCEPT ![Len(ls) + 1] = more]
                r == Append(ls, more)
                n == Len(ls)
    <3>1. n \in Nat /\ l \in Seq(R) /\ r \in Seq(R) /\ Len(l) = n + 1 /\ Len(r) = n + 1
      BY <2>2
    <3>2. \A i \in 1..(n + 1) : l[i] = r[i]
      <4>1. ASSUME NEW i \in 1..(n + 1) PROVE l[i] = r[i]
        <5>1. /\ m = n + 1 /\ b \in Seq(R) /\ DOMAIN b = 1..(n + 1)
              /\ r[n + 1] = more /\ (i = n + 1 \/ i \in 1..n)
              /\ \A h \in 1..n : b[h] = ls[h] /\ r[h] = ls[h]
          BY <2>2
        <5>2. l = [b EXCEPT ![n + 1] = more]
          OBVIOUS
        <5>. HIDE DEF l, b, r
        <5>3. l[i] = IF i = n + 1 THEN more ELSE b[i]
          BY <5>1, <5>2
        <5>4. i \in 1..n => i # n + 1
          BY <3>1
        <5>. QED BY <5>1, <5>3, <5>4
      <4>. QED BY <4>1
    <3>. HIDE DEF l, r, n
    <3>3. l = r
      BY <3>1, <3>2
    <3>. QED BY <3>3 DEF l, r
  <2>. QED BY <2>3, <2>4, <2>5
<1>3. LastLine(w, more)
  <2>. DEFINE n == Len(u) - Len(line)
  <2>1. /\ n \in Nat
        /\ n = 0 \/ u[n] = "\n"
        /\ \A i \in 1..Len(line) : line[i] = u[n + i] /\ line[i] # "\n"
    BY <1>1 DEF LastLine
  <2>2. /\ Len(w) = Len(u) + 1 /\ Len(more) = Len(line) + 1 /\ Len(w) - Len(more) = n
        /\ Len(u) \in Nat /\ Len(line) \in Nat /\ n + Len(line) = Len(u)
        /\ w[Len(u) + 1] = x /\ more[Len(line) + 1] = x
        /\ \A i \in 1..Len(u) : w[i] = u[i]
        /\ \A i \in 1..Len(line) : more[i] = line[i]
    BY <1>1
  <2>. HIDE DEF w, more, n
  <2>3. n = 0 \/ w[n] = "\n"
    BY <2>1, <2>2
  <2>4. ASSUME NEW i \in 1..Len(more) PROVE more[i] = w[n + i] /\ more[i] # "\n"
    <3>1. CASE i \in 1..Len(line)
      <4>1. n + i \in 1..Len(u)
        BY <2>1, <2>2, <3>1
      <4>. QED BY <2>1, <2>2, <3>1, <4>1
    <3>2. CASE i \notin 1..Len(line)
      <4>. DEFINE a == Len(line)
                  b == Len(u)
      <4>0. a \in Nat /\ b \in Nat /\ n \in Nat /\ n + a = b /\ i \in 1..(a + 1) /\ i \notin 1..a
        BY <2>1, <2>2, <3>2
      <4>. HIDE DEF a, b
      <4>2. i = a + 1 /\ n + i = b + 1
        BY <4>0
      <4>1. i = Len(line) + 1 /\ n + i = Len(u) + 1
        BY <4>2 DEF a, b
      <4>. QED BY <2>2, <4>1
    <3>. QED BY <3>1, <3>2
  <2>. QED BY <2>1, <2>2, <2>3, <2>4 DEF LastLine
<1>4. f = FeedToken(e, x)
  BY StreamGrows
<1>. HIDE DEF e, p, f, w
<1>5. Agree(f, p, more)
  <2>1. IsExtractor(e) /\ (~e.done => e.line = line)
    BY <1>1 DEF Agree
  <2>2. CASE e.done
    <3>1. f = e
      BY <1>4, <2>2 DEF FeedToken
    <3>. QED BY <1>1, <2>2, <3>1 DEF Agree
  <2>3. CASE ~e.done
    <3>1. f = [e EXCEPT !.line = more]
      BY <1>4, <2>1, <2>3 DEF FeedToken
    <3>. HIDE DEF more
    <3>2. f = [line |-> more, done |-> e.done, segmenter |-> e.segmenter]
      BY <2>1, <3>1, Extracted
    <3>3. f.line = more /\ f.done = e.done /\ f.segmenter = e.segmenter
      BY <3>2
    <3>4. IsExtractor(f)
      BY <3>2, <3>3 DEF IsExtractor
    <3>. QED BY <1>1, <2>3, <3>3, <3>4 DEF Agree
  <2>. QED BY <2>2, <2>3
<1>6. more \in Seq(C)
  BY <1>1
<1>. QED BY <1>1, <1>2, <1>3, <1>5, <1>6 DEF Follows, f, p, w

LEMMA ReadersAgree ==
  ASSUME NEW text \in Seq(Characters), ~IndentedIn(text)
  PROVE  \E ls, line : Follows(text, ls, line)
<1>. DEFINE P == {u \in Seq(Characters) : ~IndentedIn(u) => \E ls, line : Follows(u, ls, line)}
<1>1. <<>> \in P
  <2>1. <<>> \in Seq(Characters)
    OBVIOUS
  <2>. QED BY <2>1, FollowsAtFirst
<1>2. ASSUME NEW u \in Seq(Characters), NEW x \in Characters, u \in P
      PROVE  Append(u, x) \in P
  <2>1. Append(u, x) \in Seq(Characters)
    OBVIOUS
  <2>2. ASSUME ~IndentedIn(Append(u, x))
        PROVE  \E ls, line : Follows(Append(u, x), ls, line)
    <3>1. ~IndentedIn(u)
      BY <2>2, IndentedStays
    <3>2. PICK ls, line : Follows(u, ls, line)
      BY <1>2, <3>1
    <3>3. CASE x = "\n"
      <4>1. "\n" \in Characters
        BY <3>3
      <4>2. Follows(Append(u, "\n"), Append(ls, line), <<>>)
        BY <3>1, <3>2, <4>1, BreakFollows
      <4>. QED BY <3>3, <4>2
    <3>4. CASE x # "\n"
      <4>1. Follows(Append(u, x), ls, Append(line, x))
        BY <3>2, <3>4, CharacterFollows
      <4>. QED BY <4>1
    <3>. QED BY <3>3, <3>4
  <2>. QED BY <2>1, <2>2
<1>. HIDE DEF P
<1>3. text \in P
  BY <1>1, <1>2, SequenceInduction
<1>. QED BY <1>3 DEF P

LEMMA SpokenAndStored ==
  ASSUME NEW text \in Seq(Characters), ~IndentedIn(text)
  PROVE  Visible(Spoken(text)) = Visible(Parse(text).text)
<1>1. PICK ls, line : Follows(text, ls, line)
  BY ReadersAgree
<1>. DEFINE e == Streamed(text)
            p == ParseOf(ls)
            q == Parse(text)
            f == FlushExtractor(e)
<1>2. /\ ls \in Seq(Seq(Characters)) /\ line \in Seq(Characters) /\ Agree(e, p, line)
      /\ Split(text) = Append(ls, line) /\ AtMargin(line)
  BY <1>1, Margins DEF Follows
<1>3. q = ReadRaw(p, line)
  <2>1. q = ParseOf(Append(ls, line))
    BY <1>2 DEF Parse, ParseOf, ParseStart, Lines
  <2>. QED BY <1>2, <2>1, ParseGrows
<1>. HIDE DEF e, p, q
<1>4. Agree(IF e.done THEN e ELSE ProcessLine(e), q, <<>>)
  BY <1>2, <1>3, LineStep
<1>5. Holds(f.segmenter, Characters, Visible(q.text))
  <2>1. CASE e.done \/ e.line # <<>>
    <3>1. f = IF e.done THEN e ELSE ProcessLine(e)
      BY <2>1 DEF FlushExtractor
    <3>. QED BY <1>4, <3>1 DEF Agree
  <2>2. CASE ~e.done /\ e.line = <<>>
    <3>1. f = e
      BY <2>2 DEF FlushExtractor
    <3>2. line = <<>>
      BY <1>2, <2>2 DEF Agree
    <3>3. Strip(line) = <<>>
      <4>1. StripsTo(line, Strip(line), Characters)
        BY <1>2, StripIs
      <4>2. 1..Len(line) = {}
        BY <3>2
      <4>. QED BY <4>1, <4>2 DEF StripsTo
    <3>4. q = p
      BY <1>3, <3>3 DEF ReadRaw
    <3>. QED BY <1>2, <3>1, <3>4 DEF Agree
  <2>. QED BY <2>1, <2>2
<1>. HIDE DEF f
<1>6. Visible(FlattenSeq(FlushSegmenter(f.segmenter).said)) = Visible(q.text)
  BY <1>5, FlushSays
<1>. QED BY <1>6 DEF Spoken, f, e, q

-----------------------------------------------------------------------------
(* What an input is made of                                                *)

InputOK ==
  /\ subject = "speech"   => input \in Seq(Characters)
  /\ subject = "document" => input \in Seq(Paragraphs)
  /\ subject = "search"   => input \in Seq(Found)
  /\ subject = "session"  => input \in Seq(Events)
  /\ subject = "evidence" => input \in Seq(Evidence)
  /\ subject = "plan"     => input \in Seq(Competency)
  /\ subject = "series"   => input \in Seq(Points)

LEMMA Grown ==
  ASSUME NEW S, NEW of, NEW most, NEW x \in S, Grow(of, most, x), subject = of => input \in Seq(S)
  PROVE  subject = of /\ subject' = of /\ input' = Append(input, x) /\ input' \in Seq(S)
BY DEF Grow

LEMMA InputStep == InputOK /\ [Next]_vars => InputOK'
<1> SUFFICES ASSUME InputOK, [Next]_vars PROVE InputOK'
  OBVIOUS
<1>1. CASE StreamCharacter
  <2>1. PICK ch \in Characters : Grow("speech", MaxText, ch)
    BY <1>1 DEF StreamCharacter
  <2>2. subject = "speech" => input \in Seq(Characters)
    BY DEF InputOK
  <2>3. subject' = "speech" /\ input' \in Seq(Characters)
    <3>. HIDE DEF Characters
    <3>. QED BY <2>1, <2>2, Grown
  <2>. QED BY <2>3 DEF InputOK
<1>2. CASE AddParagraph
  <2>1. PICK p \in Paragraphs : Grow("document", MaxParagraphs, p)
    BY <1>2 DEF AddParagraph
  <2>2. subject = "document" => input \in Seq(Paragraphs)
    BY DEF InputOK
  <2>3. subject' = "document" /\ input' \in Seq(Paragraphs)
    <3>. HIDE DEF Paragraphs
    <3>. QED BY <2>1, <2>2, Grown
  <2>. QED BY <2>3 DEF InputOK
<1>3. CASE FindChunk
  <2>1. PICK leg \in {"vector", "text"}, chunk \in Hits :
          Grow("search", 2 * FetchPerSide, [leg |-> leg, chunk |-> chunk])
    BY <1>3 DEF FindChunk
  <2>2. [leg |-> leg, chunk |-> chunk] \in Found
    BY DEF Found
  <2>3. subject = "search" => input \in Seq(Found)
    BY DEF InputOK
  <2>4. subject' = "search" /\ input' \in Seq(Found)
    BY <2>1, <2>2, <2>3, Grown
  <2>. QED BY <2>4 DEF InputOK
<1>4. CASE AskQuestion
  <2>1. PICK target \in Targets : Grow("session", MaxEvents, [kind |-> "ask", target |-> target])
    BY <1>4 DEF AskQuestion
  <2>2. [kind |-> "ask", target |-> target] \in Events
    BY DEF Events
  <2>3. subject = "session" => input \in Seq(Events)
    BY DEF InputOK
  <2>4. subject' = "session" /\ input' \in Seq(Events)
    BY <2>1, <2>2, <2>3, Grown
  <2>. QED BY <2>4 DEF InputOK
<1>11. CASE EvaluateAnswer
  <2>1. PICK question \in 1..Cardinality(OfKind("ask")) \ Evaluated, reasoning \in Reasonings :
          Grow("session", MaxEvents,
               [kind |-> "evaluate", question |-> question, reasoning |-> reasoning])
    BY <1>11 DEF EvaluateAnswer
  <2>2. [kind |-> "evaluate", question |-> question, reasoning |-> reasoning] \in Events
    BY DEF Events
  <2>3. subject = "session" => input \in Seq(Events)
    BY DEF InputOK
  <2>4. subject' = "session" /\ input' \in Seq(Events)
    BY <2>1, <2>2, <2>3, Grown
  <2>. QED BY <2>4 DEF InputOK
<1>5. CASE RecordEvidence
  <2>1. PICK e \in Evidence : Grow("evidence", MaxEvidence, e)
    BY <1>5 DEF RecordEvidence
  <2>2. subject = "evidence" => input \in Seq(Evidence)
    BY DEF InputOK
  <2>3. subject' = "evidence" /\ input' \in Seq(Evidence)
    BY <2>1, <2>2, Grown
  <2>. QED BY <2>3 DEF InputOK
<1>6. CASE AddCompetency
  <2>1. PICK c \in Competency : Grow("plan", MaxEvidence, c)
    BY <1>6 DEF AddCompetency
  <2>2. subject = "plan" => input \in Seq(Competency)
    BY DEF InputOK
  <2>3. subject' = "plan" /\ input' \in Seq(Competency)
    BY <2>1, <2>2, Grown
  <2>. QED BY <2>3 DEF InputOK
<1>7. CASE InsertQuestion
  BY <1>7 DEF InsertQuestion, Grow, InputOK
<1>8. CASE InsertAnswer
  BY <1>8 DEF InsertAnswer, Grow, InputOK
<1>9. CASE AddPoint
  <2>1. PICK competency \in {"go", "sql"}, at \in 1..MaxRows, overall \in {2, 7} :
          Grow("series", MaxRows, [competency |-> competency, at |-> at, overall |-> overall])
    BY <1>9 DEF AddPoint
  <2>2. [competency |-> competency, at |-> at, overall |-> overall] \in Points
    BY DEF Points
  <2>3. subject = "series" => input \in Seq(Points)
    BY DEF InputOK
  <2>4. subject' = "series" /\ input' \in Seq(Points)
    BY <2>1, <2>2, <2>3, Grown
  <2>. QED BY <2>4 DEF InputOK
<1>10. CASE UNCHANGED vars
  BY <1>10 DEF vars, InputOK
<1>. QED BY <1>1, <1>2, <1>3, <1>4, <1>5, <1>6, <1>7, <1>8, <1>9, <1>10, <1>11 DEF Next

\* An input is made of elements of its subject.
LEMMA InputTypes == Spec => []InputOK
<1>1. Init => InputOK
  BY DEF Init, InputOK
<1>. QED BY <1>1, InputStep, PTL DEF Spec

\* The queue of plan_preparation has every required competency below its
\* level once, larger gaps first, for plans of any length.
THEOREM LargestGapsTheorem == Spec => []LargestGapsFirst
<1>1. InputOK => LargestGapsFirst
  <2>1. SUFFICES ASSUME InputOK, subject = "plan", NEW weak, NEW recent,
                        NEW plan, plan = PlanPreparation(CriticalGaps(Listed(input), Shown(input)),
                                                         weak, recent)
                 PROVE  /\ Len(plan) = Cardinality(Below(input))
                        /\ {plan[i].id : i \in DOMAIN plan} = Below(input)
                        /\ \A i, j \in DOMAIN plan : i < j => plan[i].gap >= plan[j].gap
    BY DEF LargestGapsFirst, Listed, Shown, Below
  <2>2. input \in Seq(Competency)
    BY <2>1 DEF InputOK
  <2>. QED BY <2>1, <2>2, PlanAnswersGaps
<1>. QED BY <1>1, InputTypes, PTL

\* One more demonstrated piece of evidence of full strength lowers neither the
\* coverage nor the score nor the level, whatever evidence there is.
THEOREM ProofNeverHurtsTheorem == Spec => []ProofNeverHurts
<1>1. InputOK => ProofNeverHurts
  <2>1. SUFFICES ASSUME InputOK, subject = "evidence", NEW evaluations \in Evaluations,
                        NEW before, before = Assess(input, evaluations),
                        NEW after, after = Assess(Append(input, Full), evaluations)
                 PROVE  /\ after.coverage >= before.coverage
                        /\ after.score >= before.score
                        /\ after.level >= before.level
    BY DEF ProofNeverHurts, Full
  <2>2. input \in Seq(Evidence)
    BY <2>1 DEF InputOK
  <2>3. evaluations \in Seq(Nat)
    <3>1. <<>> \in Seq(Nat) /\ <<20>> \in Seq(Nat) /\ <<95>> \in Seq(Nat)
          /\ <<50, 100>> \in Seq(Nat)
      OBVIOUS
    <3>. QED BY <3>1 DEF Evaluations
  <2>. QED BY <2>1, <2>2, <2>3, ReadinessRises
<1>. QED BY <1>1, InputTypes, PTL

\* Each question left to the focus takes up one more competency until all
\* have come up, in sessions of every length and with every draw.
THEOREM RotationTheorem == Spec => []RotationCoversAll
<1>1. InputOK => RotationCoversAll
  <2>1. SUFFICES ASSUME InputOK, subject = "session",
                        NEW snapshot \in Snapshots, NEW draw \in Draws(3),
                        NEW comps, comps = snapshot.competencies,
                        NEW free, free = {n \in OfKind("ask") :
                           /\ input[n].target = Unnamed
                           /\ LatestTopic(After(n - 1, snapshot, draw).directives)
                                \notin ToSet(comps)}
                 PROVE  Cardinality(Covered(After(Len(input), snapshot, draw), comps))
                          >= Least(Len(comps), Cardinality(free))
    BY DEF RotationCoversAll
  <2>2. input \in Seq(Events)
    BY <2>1 DEF InputOK
  <2>3. CASE comps = Comps
    <3>1. Len(Comps) = 3
      BY DEF Comps
    <3>2. free = Free(input, snapshot, draw)
      BY <2>1, <2>3 DEF Free, IsFree, FreeNext, OfKind, After
    <3>3. After(Len(input), snapshot, draw) = Session(input, snapshot, draw)
      <4>1. SubSeq(input, 1, Len(input)) = input
        BY <2>2, SubSeqFull
      <4>. QED BY <4>1 DEF After
    <3>4. Rotates(input, snapshot, draw)
      BY <2>1, <2>2, <2>3, Rotation
    <3>. QED BY <2>3, <3>1, <3>2, <3>3, <3>4 DEF Rotates, KeepsUp, Among, Covered
  <2>4. CASE comps = <<>>
    <3>. DEFINE covered == Covered(After(Len(input), snapshot, draw), comps)
    <3>1. covered = {} /\ Len(comps) = 0
      BY <2>4 DEF Covered, ToSet
    <3>2. IsFiniteSet(free) /\ Cardinality(free) \in Nat
      <4>1. free \in SUBSET (1..Len(input)) /\ Len(input) \in Nat
        BY <2>1, <2>2 DEF OfKind
      <4>2. IsFiniteSet(1..Len(input))
        BY <4>1, FS_Interval
      <4>. QED BY <4>1, <4>2, FS_Subset, FS_CardinalityType
    <3>3. Cardinality(covered) = 0
      BY <3>1, FS_EmptySet
    <3>. HIDE DEF covered
    <3>. QED BY <3>1, <3>2, <3>3 DEF Least, covered
  <2>. QED BY <2>1, <2>3, <2>4, SnapshotsAre
<1>. QED BY <1>1, InputTypes, PTL

\* The gaps of a session are those of its last evaluation: what its reasoning
\* names, and every requirement nothing speaks for that no question stored by
\* then was about.
THEOREM GapsTheorem == Spec => []GapsFollowEvaluations
<1>1. InputOK => GapsFollowEvaluations
  <2>. DEFINE E == OfKind("evaluate")
              last == Max(E)
  <2>1. SUFFICES ASSUME InputOK, subject = "session",
                        NEW snapshot \in Snapshots, NEW draw \in Draws(3),
                        NEW session, session = After(Len(input), snapshot, draw),
                        NEW asked, asked = ToSet(After(last, snapshot, draw).questions)
                 PROVE  IF E = {} THEN session.gaps = <<>>
                        ELSE ToSet(session.gaps)
                               = OpenIn(snapshot, asked) \cup ToSet(Detected(input[last].reasoning))
    BY DEF GapsFollowEvaluations, OpenIn
  <2>2. input \in Seq(Events) /\ Len(input) \in Nat /\ DOMAIN input = 1..Len(input)
    BY <2>1 DEF InputOK
  <2>3. session = Session(input, snapshot, draw)
    <3>1. SubSeq(input, 1, Len(input)) = input
      BY <2>2, SubSeqFull
    <3>. QED BY <2>1, <3>1 DEF After
  <2>4. At(input, "evaluate") = E /\ Follow(input, snapshot, draw)
    BY <2>2, Following DEF At, OfKind
  <2>5. CASE E = {}
    BY <2>3, <2>4, <2>5 DEF Follow
  <2>6. CASE E # {}
    <3>1. last \in E
      <4>1. E \in SUBSET (0..Len(input))
        BY <2>2 DEF OfKind
      <4>. HIDE DEF E
      <4>. QED BY <2>2, <2>6, <4>1, MaxIsGreatest
    <3>2. last \in 1..Len(input) /\ input[last] \in Events /\ input[last].kind = "evaluate"
      BY <2>2, <3>1 DEF OfKind
    <3>. DEFINE then == After(last, snapshot, draw)
                reasoned == Detected(input[last].reasoning)
    <3>3. reasoned \in Seq(Names)
      BY <3>2, EventsAre
    <3>4. ToSet(then.coverage) = asked
      <4>1. SubSeq(input, 1, last) \in Seq(Events)
        <5>. HIDE DEF last
        <5>. QED BY <2>2, <3>2
      <4>2. Kept(then)
        <5>. HIDE DEF last
        <5>. QED BY <4>1, SessionsAreKept DEF After
      <4>. QED BY <2>1, <4>2 DEF Kept
    <3>5. session.gaps = ComputeGaps(snapshot, then.coverage, reasoned)
      BY <2>3, <2>4, <2>6 DEF Follow, GapsAt, After
    <3>. HIDE DEF then, last, E
    <3>6. ToSet(session.gaps) = OpenIn(snapshot, asked) \cup ToSet(reasoned)
      <4>. HIDE DEF reasoned
      <4>. QED BY <3>3, <3>4, <3>5, GapsAre
    <3>. QED BY <2>6, <3>6
  <2>. QED BY <2>5, <2>6
<1>. QED BY <1>1, InputTypes, PTL

\* No question of a session is evaluated twice.
EvaluatedOnce == subject = "session" => OnceEach(input)

LEMMA EvaluatedOnceStays == InputOK /\ EvaluatedOnce /\ [Next]_vars => EvaluatedOnce'
<1> SUFFICES ASSUME InputOK, EvaluatedOnce, [Next]_vars, subject' = "session"
             PROVE  OnceEach(input')
  BY DEF EvaluatedOnce
<1>1. CASE UNCHANGED vars
  BY <1>1 DEF vars, EvaluatedOnce
<1>2. ASSUME subject = "session", NEW x \in Events, input' = Append(input, x),
             x.kind = "ask" \/ x.question \notin Evaluated
      PROVE  OnceEach(input')
  <2>. DEFINE s == input
              t == Append(input, x)
              m == Len(s) + 1
  <2>1. s \in Seq(Events) /\ OnceEach(s)
    BY <1>2 DEF InputOK, EvaluatedOnce
  <2>2. IsLonger(t, s, x)
    BY <2>1, Longer
  <2>. HIDE DEF t
  <2>3. /\ DOMAIN s = 1..Len(s) /\ DOMAIN t = 1..m /\ t[m] = x
        /\ \A i \in 1..m : i # m => i \in 1..Len(s) /\ t[i] = s[i]
    BY <2>2 DEF IsLonger
  <2>. HIDE DEF m
  <2>4. m \in At(t, "evaluate") => \A i \in At(s, "evaluate") : s[i].question # x.question
    BY <1>2, <2>3 DEF At, Evaluated, OfKind
  <2>5. \A i \in At(t, "evaluate") : i # m => i \in At(s, "evaluate") /\ t[i] = s[i]
    BY <2>3 DEF At
  <2>6. OnceEach(t)
    BY <2>1, <2>3, <2>4, <2>5 DEF OnceEach
  <2>. QED BY <1>2, <2>6 DEF t
<1>3. CASE AskQuestion
  <2>1. PICK target \in Targets : Grow("session", MaxEvents, [kind |-> "ask", target |-> target])
    BY <1>3 DEF AskQuestion
  <2>2. [kind |-> "ask", target |-> target] \in Events
    BY DEF Events
  <2>. QED BY <1>2, <2>1, <2>2 DEF Grow
<1>4. CASE EvaluateAnswer
  <2>1. PICK question \in 1..Cardinality(OfKind("ask")) \ Evaluated, reasoning \in Reasonings :
          Grow("session", MaxEvents,
               [kind |-> "evaluate", question |-> question, reasoning |-> reasoning])
    BY <1>4 DEF EvaluateAnswer
  <2>2. [kind |-> "evaluate", question |-> question, reasoning |-> reasoning] \in Events
    BY DEF Events
  <2>. QED BY <1>2, <2>1, <2>2 DEF Grow
<1>5. ASSUME Next, ~AskQuestion, ~EvaluateAnswer PROVE FALSE
  BY <1>5 DEF Next, StreamCharacter, AddParagraph, FindChunk, RecordEvidence,
              AddCompetency, InsertQuestion, InsertAnswer, AddPoint, Grow
<1>. QED BY <1>1, <1>3, <1>4, <1>5

\* The next question left to the focus takes up the topic the evaluation of the
\* newest question asked for, in whatever order the evaluations finish.
THEOREM NewestTopicTheorem == Spec => []NewestTopicLeads
<1>1. Init => EvaluatedOnce
  BY DEF Init, EvaluatedOnce, OnceEach, At
<1>2. InputOK /\ EvaluatedOnce => NewestTopicLeads
  <2>1. SUFFICES ASSUME InputOK, EvaluatedOnce, subject = "session",
                        NEW snapshot \in Snapshots, NEW draw \in Draws(3),
                        NEW n \in OfKind("evaluate"), input[n].reasoning # NoReasoning,
                        \A m \in OfKind("evaluate") :
                          input[m].reasoning # NoReasoning
                            => input[m].question <= input[n].question,
                        NEW topic, topic = input[n].reasoning.topic,
                        topic \in ToSet(snapshot.competencies)
                 PROVE  Focus(After(Len(input), snapshot, draw), snapshot, draw) = topic
    BY DEF NewestTopicLeads
  <2>. DEFINE session == After(Len(input), snapshot, draw)
              d == session.directives
              q == input[n].question
  <2>2. input \in Seq(Events) /\ OnceEach(input) /\ \A m \in DOMAIN input : input[m] \in Events
    BY <2>1 DEF InputOK, EvaluatedOnce
  <2>3. session = Session(input, snapshot, draw)
    <3>1. SubSeq(input, 1, Len(input)) = input
      BY <2>2, SubSeqFull
    <3>. QED BY <3>1 DEF After
  <2>4. IsTold(d, input)
    BY <2>2, <2>3, Telling
  <2>5. n \in Told(input) /\ \A m \in Told(input) : input[m].question <= q
    BY <2>1 DEF Told, At, OfKind
  <2>6. \A m \in Told(input) : input[m].question \in Int
    BY <2>2, EventsAre DEF Told, At
  <2>. HIDE DEF session, q, d
  <2>7. /\ q \in DOMAIN d /\ d[q] = topic
        /\ \A k \in DOMAIN d : k \in Int /\ k <= q
    BY <2>1, <2>4, <2>5, <2>6 DEF IsTold, q
  <2>8. Max(DOMAIN d) = q
    <3>. DEFINE S == DOMAIN d
    <3>1. q \in S /\ \A k \in S : q >= k
      BY <2>7
    <3>2. \A k \in S : (\A l \in S : k >= l) => k = q
      BY <2>7
    <3>. HIDE DEF S
    <3>. QED BY <3>1, <3>2 DEF Max, S
  <2>9. LatestTopic(d) = topic
    BY <2>7, <2>8 DEF LatestTopic
  <2>10. topic # Unnamed /\ snapshot.competencies # <<>>
    <3>1. ToSet(<<>>) = {}
      BY DEF ToSet
    <3>. QED BY <2>1, <3>1, SnapshotsAre, NamesAre
  <2>. QED BY <2>1, <2>9, <2>10 DEF Focus, FocusCompetency, d, session
<1>. QED BY <1>1, <1>2, InputTypes, EvaluatedOnceStays, PTL DEF Spec

\* No two points of a series are of one moment.
PointsApart == subject = "series" => Apart(input)

LEMMA PointsStayApart == InputOK /\ PointsApart /\ [Next]_vars => PointsApart'
<1> SUFFICES ASSUME InputOK, PointsApart, [Next]_vars, subject' = "series" PROVE Apart(input')
  BY DEF PointsApart
<1>1. CASE UNCHANGED vars
  BY <1>1 DEF vars, PointsApart
<1>2. CASE AddPoint
  <2>1. PICK competency \in {"go", "sql"}, at \in 1..MaxRows, overall \in {2, 7} :
          /\ subject = "series"
          /\ \A i \in DOMAIN input : input[i].at # at
          /\ Grow("series", MaxRows, [competency |-> competency, at |-> at, overall |-> overall])
    BY <1>2 DEF AddPoint
  <2>. DEFINE x == [competency |-> competency, at |-> at, overall |-> overall]
              n == Len(input)
              m == n + 1
  <2>2. input \in Seq(Points) /\ Apart(input) /\ input' = Append(input, x)
    BY <2>1 DEF InputOK, PointsApart, Grow
  <2>. DEFINE s == input
              t == Append(input, x)
  <2>3. /\ n \in Nat /\ DOMAIN s = 1..n /\ DOMAIN t = 1..m /\ t[m] = x
        /\ \A i \in 1..m : i # m => i \in 1..n /\ t[i] = s[i]
    BY <2>2
  <2>4. x.at = at /\ \A i \in DOMAIN s : s[i].at # at
    BY <2>1
  <2>. HIDE DEF n, m, t, x
  <2>5. Apart(t)
    BY <2>2, <2>3, <2>4 DEF Apart
  <2>. QED BY <2>2, <2>5 DEF t
<1>3. ASSUME Next, ~AddPoint PROVE FALSE
  BY <1>3 DEF Next, StreamCharacter, AddParagraph, FindChunk, AskQuestion, EvaluateAnswer,
              RecordEvidence,               AddCompetency, InsertQuestion, InsertAnswer, Grow
<1>. QED BY <1>1, <1>2, <1>3

\* The summary of points is the same in whatever order the rows come, for
\* series of every length.
THEOREM SummaryIsOrderFreeTheorem == Spec => []SummaryIsOrderFree
<1>1. Init => PointsApart
  BY DEF Init, PointsApart, Apart
<1>2. InputOK /\ PointsApart => SummaryIsOrderFree
  BY AggregateIsOne DEF InputOK, PointsApart, SummaryIsOrderFree
<1>. QED BY <1>1, <1>2, InputTypes, PointsStayApart, PTL DEF Spec

LegsOK == subject = "search" => LegOK("vector") /\ LegOK("text")

LEMMA LegsStay == InputOK /\ LegsOK /\ [Next]_vars => LegsOK'
<1> SUFFICES ASSUME InputOK, LegsOK, [Next]_vars, subject' = "search",
                    NEW leg \in {"vector", "text"}
             PROVE  LegOK(leg)'
  BY DEF LegsOK
<1>1. CASE UNCHANGED vars
  <2>1. input' = input /\ LegOK(leg)
    BY <1>1 DEF vars, LegsOK
  <2>2. Of(leg)' = Of(leg)
    BY <2>1 DEF Of
  <2>. QED BY <2>1, <2>2 DEF LegOK
<1>2. CASE FindChunk
  <2>1. PICK into \in {"vector", "text"}, chunk \in Hits :
          /\ subject = "search"
          /\ Len(LegHits(into)) < FetchPerSide
          /\ chunk \notin ToSet(LegHits(into))
          /\ Grow("search", 2 * FetchPerSide, [leg |-> into, chunk |-> chunk])
    BY <1>2 DEF FindChunk
  <2>. DEFINE x == [leg |-> into, chunk |-> chunk]
              n == Len(input) + 1
  <2>2. input \in Seq(Found) /\ input' = Append(input, x) /\ LegOK(leg)
    BY <2>1 DEF InputOK, LegsOK, Grow
  <2>3. x.leg = into /\ x.chunk = chunk
    OBVIOUS
  <2>. HIDE DEF x, n
  <2>4. /\ n \notin DOMAIN input /\ input'[n] = x
        /\ \A i \in DOMAIN input : input'[i] = input[i]
        /\ Of(leg)' = Of(leg) \cup {i \in {n} : x.leg = leg}
    BY <2>2, LegOf DEF n
  <2>5. /\ Len(LegHits(leg)) = Cardinality(Of(leg))
        /\ ToSet(LegHits(leg)) = {input[i].chunk : i \in Of(leg)}
    BY <2>2, LegHitsAre
  <2>6. Of(leg) \in SUBSET DOMAIN input
    BY DEF Of
  <2>7. CASE into # leg
    <3>1. Of(leg)' = Of(leg)
      BY <2>3, <2>4, <2>7
    <3>2. \A i \in Of(leg) : input'[i] = input[i]
      BY <2>4, <2>6
    <3>3. Cardinality(Of(leg)') <= FetchPerSide
      BY <2>2, <3>1 DEF LegOK
    <3>4. \A i, j \in Of(leg) : input[i].chunk = input[j].chunk => i = j
      BY <2>2 DEF LegOK
    <3>5. \A i, j \in Of(leg)' : input'[i].chunk = input'[j].chunk => i = j
      BY <3>1, <3>2, <3>4
    <3>. QED BY <3>3, <3>5 DEF LegOK
  <2>8. CASE into = leg
    <3>1. Of(leg)' = Of(leg) \cup {n}
      BY <2>3, <2>4, <2>8
    <3>2. IsFiniteSet(Of(leg))
      <4>1. DOMAIN input = 1..Len(input) /\ Len(input) \in Nat
        BY <2>2
      <4>2. IsFiniteSet(DOMAIN input)
        BY <4>1, Places
      <4>. QED BY <2>6, <4>2, FS_Subset
    <3>3. n \notin Of(leg)
      BY <2>4, <2>6
    <3>4. Cardinality(Of(leg) \cup {n}) = Cardinality(Of(leg)) + 1 /\ Cardinality(Of(leg)) \in Nat
      BY <3>2, <3>3, FS_AddElement, FS_CardinalityType
    <3>5. Cardinality(Of(leg)') <= FetchPerSide
      BY <2>1, <2>5, <2>8, <3>1, <3>4, RetrievalAssumption
    <3>6. \A i \in Of(leg) : input'[i] = input[i] /\ input[i].chunk # chunk
      BY <2>1, <2>4, <2>5, <2>6, <2>8
    <3>7. input'[n].chunk = chunk
      BY <2>3, <2>4
    <3>8. \A i, j \in Of(leg) : input[i].chunk = input[j].chunk => i = j
      BY <2>2 DEF LegOK
    <3>9. \A i, j \in Of(leg)' : input'[i].chunk = input'[j].chunk => i = j
      BY <3>1, <3>6, <3>7, <3>8
    <3>. QED BY <3>5, <3>9 DEF LegOK
  <2>. QED BY <2>7, <2>8
<1>3. ASSUME Next, ~FindChunk PROVE FALSE
  BY <1>3 DEF Next, StreamCharacter, AddParagraph, AskQuestion, EvaluateAnswer, RecordEvidence,
              AddCompetency, InsertQuestion, InsertAnswer, AddPoint, Grow
<1>. QED BY <1>1, <1>2, <1>3

\* A chunk ahead of another in both legs comes before it when the reranker
\* does not answer, what is returned scored no less than what is left out when
\* it does, and nothing comes up twice: for legs of every length, every answer
\* of the reranker and every RRF_K.
THEOREM BestComeFirstTheorem == Spec => []BestComeFirst
<1>1. Init => LegsOK
  <2>1. SUFFICES ASSUME Init, NEW leg PROVE LegOK(leg)
    BY DEF LegsOK
  <2>2. Of(leg) = {}
    BY <2>1 DEF Of, Init
  <2>3. Cardinality(Of(leg)) = 0
    BY <2>2, FS_EmptySet
  <2>. QED BY <2>2, <2>3, RetrievalAssumption DEF LegOK
<1>2. InputOK /\ LegsOK => BestComeFirst
  <2>. DEFINE vector == LegHits("vector")
              fts    == LegHits("text")
  <2>1. SUFFICES ASSUME InputOK, LegsOK, subject = "search",
                        NEW scores \in [DOMAIN Fused -> {Unscored, 1, 2}] \cup {Unavailable},
                        NEW found, found = Search(Vector, fts, scores).chunks
                 PROVE  /\ Len(found) = Cardinality(ToSet(found))
                        /\ Len(found) = Least(TopK, Len(Fused))
                        /\ scores = Unavailable =>
                             \A c \in ToSet(Fused), d \in ToSet(found) :
                               Dominates(c, d) =>
                                 c \in ToSet(found) /\ Rank(found, c) < Rank(found, d)
                        /\ scores # Unavailable =>
                             \A c \in ToSet(found), d \in ToSet(Fused) \ ToSet(found) :
                               ScoreOf(scores, Rank(Fused, c)) >= ScoreOf(scores, Rank(Fused, d))
    BY DEF BestComeFirst
  <2>2. IsLeg(vector) /\ IsLeg(fts)
    BY <2>1, LegHitsAre DEF InputOK, LegsOK
  <2>3. /\ Fused = Fuse(vector, fts)
        /\ found = Answer(vector, fts, scores)
        /\ scores \in ScoresOf(Fused)
    BY <2>1 DEF Fused, Vector, ScoresOf, Answer
  <2>4. ASSUME NEW c, NEW d, Dominates(c, d)
        PROVE  ScoreIn(vector, fts, c) > ScoreIn(vector, fts, d)
    <3>1. /\ LegAhead(vector, c, d) \/ LegNeutral(vector, c, d)
          /\ LegAhead(fts, c, d) \/ LegNeutral(fts, c, d)
          /\ LegAhead(vector, c, d) \/ LegAhead(fts, c, d)
      BY <2>4 DEF Dominates, Ahead, LegAhead, LegNeutral
    <3>. HIDE DEF vector, fts
    <3>. QED BY <2>2, <3>1, AheadScoresMore
  <2>. HIDE DEF vector, fts
  <2>5. Judged(Fused, found, scores, vector, fts)
    BY <2>2, <2>3, SearchJudged
  <2>. QED BY <2>4, <2>5 DEF Judged
<1>. QED BY <1>1, <1>2, InputTypes, LegsStay, PTL DEF Spec

\* No word of a document is lost in its chunks, whatever the size of a chunk
\* and of the overlap, at a flush, in an oversized paragraph or at the end.
THEOREM EveryWordTheorem == Spec => []EveryWordIsIndexed
<1>1. InputOK => EveryWordIsIndexed
  <2>1. SUFFICES ASSUME InputOK, subject = "document"
                 PROVE  FirstTimes(FlattenSeq(FlattenSeq(Chunks(Document)))) = FlattenSeq(Document)
    BY DEF EveryWordIsIndexed
  <2>2. input \in Seq(Seq(Nat))
    <3>1. input \in Seq(Paragraphs)
      BY <2>1 DEF InputOK
    <3>2. Paragraphs \subseteq Seq(Nat)
      BY DEF Paragraphs
    <3>. HIDE DEF Paragraphs
    <3>. QED BY <3>1, <3>2
  <2>3. Document = DocumentOf(input)
    BY DEF Document, DocumentOf, Placed
  <2>4. FirstTimes(WordsOf(Chunks(DocumentOf(input)))) = FlattenSeq(DocumentOf(input))
    BY <2>2, DocumentApart, ChunksLoseNothing
  <2>. QED BY <2>3, <2>4 DEF WordsOf
<1>. QED BY <1>1, InputTypes, PTL

\* What is heard of a question is what is stored, for texts of any length, cut
\* anywhere, and any bounds of a segment.
THEOREM SpokenTheorem == Spec => []SpokenIsStored
<1>1. InputOK => SpokenIsStored
  <2>1. SUFFICES ASSUME InputOK, subject = "speech", ~Indented
                 PROVE  Visible(Spoken(input)) = Visible(Parse(input).text)
    BY DEF SpokenIsStored
  <2>2. input \in Seq(Characters)
    BY <2>1 DEF InputOK
  <2>3. ~IndentedIn(input)
    BY <2>1 DEF Indented, IndentedIn
  <2>. QED BY <2>2, <2>3, SpokenAndStored
<1>. QED BY <1>1, InputTypes, PTL
=============================================================================
