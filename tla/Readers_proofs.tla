--------------------------- MODULE Readers_proofs ----------------------------
(***************************************************************************)
(* The usage exporter and the electricity briefing.                        *)
(*                                                                         *)
(* UsageQueue. The exporter counts every record once and shows what it     *)
(* committed, for any pairs, caps, batch sizes and number of restarts. A   *)
(* record is in the queue, in the poller's hand, in a series or lost, and  *)
(* the hand is empty except between a pop and its commit (Conserved). That *)
(* each step moves as many records as it takes is arithmetic about two     *)
(* folds: the sum over the series (Total) and the tally of a batch         *)
(* (Tally). The first section shows that such folds are defined, the next  *)
(* what a sum is of functions that are added, the third that a batch of n  *)
(* records adds n to the sum and leaves the pairs within the cap. What a   *)
(* kill may lose is paid for when the process starts (KilledOnce), and     *)
(* what is shown is stale only while a poll has committed (UpToDate).      *)
(*                                                                         *)
(* Briefing. What is said is true of the tariffs, for any number of days,  *)
(* prices, holes and any horizon, and no two instants are told alike when  *)
(* the horizon is less than a day. Nothing is said that was not built, at  *)
(* some instant, from rates of the tariffs that cover it (Answered): that  *)
(* the entities roll over while they are read needs no more, since a set   *)
(* of half-hours is what is charted and not a day.                         *)
(***************************************************************************)
EXTENDS UsageQueue, Briefing, Basics_proofs, FiniteSetTheorems

----------------------------------------------------------------------------
(* Induction over the subsets of a finite set, and folds. *)

\* A set of subsets of D that a set belongs to when all it has one element less
\* than do has all of them.
LEMMA SubsetInduction ==
  ASSUME NEW D, IsFiniteSet(D), NEW P,
         \A s \in SUBSET D : (\A x \in s : s \ {x} \in P) => s \in P
  PROVE  SUBSET D \subseteq P
<1> DEFINE Q == {n \in Nat : \A s \in SUBSET D : Cardinality(s) = n => s \in P}
<1>1. \A s \in SUBSET D : IsFiniteSet(s) /\ Cardinality(s) \in Nat
  BY FS_Subset, FS_CardinalityType
<1>2. 0 \in Q
  <2>1. \A s \in SUBSET D : Cardinality(s) = 0 => s = {}
    BY <1>1, FS_EmptySet
  <2> QED BY <2>1
<1>3. ASSUME NEW n \in Nat, n \in Q PROVE n + 1 \in Q
  <2> SUFFICES ASSUME NEW s \in SUBSET D, Cardinality(s) = n + 1, NEW x \in s PROVE s \ {x} \in P
    OBVIOUS
  <2>1. Cardinality(s \ {x}) = n
    BY <1>1, FS_RemoveElement
  <2> QED BY <2>1, <1>3
<1> HIDE DEF Q
<1>4. Nat \subseteq Q
  BY <1>2, <1>3, SetInduction
<1> QED BY <1>1, <1>4 DEF Q

\* A fold takes one element after the other out of a finite set, as those of the
\* community modules do: first pick[s] out of s.
Foldable(D, V, base, pick, step) ==
  /\ IsFiniteSet(D)
  /\ base \in V
  /\ \A s \in SUBSET D : s # {} => pick[s] \in s
  /\ \A s \in SUBSET D : \A v \in V : step[s][v] \in V

IsFold(f, D, V, base, pick, step) ==
  /\ f = [s \in SUBSET D |-> f[s]]
  /\ \A s \in SUBSET D :
       f[s] \in V /\ f[s] = IF s = {} THEN base ELSE step[s][f[s \ {pick[s]}]]

\* There is a function on all subsets that satisfies the recursive equation.
LEMMA FoldIsDefined ==
  ASSUME NEW D, NEW V, NEW base, NEW pick, NEW step, Foldable(D, V, base, pick, step)
  PROVE  \E f : IsFold(f, D, V, base, pick, step)
<1> USE DEF Foldable
<1> DEFINE Upto(n) == {s \in SUBSET D : Cardinality(s) <= n}
           Body(f, s) == IF s = {} THEN base ELSE step[s][f[s \ {pick[s]}]]
           Q == {n \in Nat : \E f \in [Upto(n) -> V] : \A s \in Upto(n) : f[s] = Body(f, s)}
<1>1. \A s \in SUBSET D : IsFiniteSet(s) /\ Cardinality(s) \in Nat
  BY FS_Subset, FS_CardinalityType
<1>2. 0 \in Q
  <2>1. Upto(0) = {{}}
    BY <1>1, FS_EmptySet
  <2> DEFINE f == [s \in Upto(0) |-> base]
  <2>2. f \in [Upto(0) -> V] /\ \A s \in Upto(0) : f[s] = Body(f, s)
    BY <2>1
  <2> QED BY <2>2
<1>3. ASSUME NEW n \in Nat, n \in Q PROVE n + 1 \in Q
  <2>1. PICK f \in [Upto(n) -> V] : \A s \in Upto(n) : f[s] = Body(f, s)
    BY <1>3
  <2> DEFINE g == [s \in Upto(n + 1) |-> Body(f, s)]
  <2>2. ASSUME NEW s \in Upto(n + 1), s # {}
        PROVE  s \ {pick[s]} \in Upto(n)
    <3>1. pick[s] \in s /\ s \ {pick[s]} \in SUBSET D
      BY <2>2
    <3>2. Cardinality(s \ {pick[s]}) = Cardinality(s) - 1
      BY <1>1, <3>1, FS_RemoveElement
    <3> QED BY <1>1, <3>1, <3>2
  <2>3. Upto(n) \subseteq Upto(n + 1)
    BY <1>1
  <2>4. ASSUME NEW s \in Upto(n) PROVE g[s] = f[s]
    BY <2>1, <2>3
  <2>5. ASSUME NEW s \in Upto(n + 1) PROVE g[s] \in V /\ g[s] = Body(g, s)
    <3>1. CASE s = {}
      BY <3>1
    <3>2. CASE s # {}
      <4> DEFINE t == s \ {pick[s]}
      <4>1. t \in Upto(n) /\ f[t] \in V
        BY <2>2, <3>2
      <4>2. g[t] = f[t]
        BY <2>4, <4>1
      <4>3. step[s][f[t]] \in V
        BY <4>1
      <4>4. g[s] = step[s][f[t]]
        BY <3>2
      <4> HIDE DEF t, g
      <4> QED BY <4>2, <4>3, <4>4, <3>2 DEF t
    <3> QED BY <3>1, <3>2
  <2>6. g \in [Upto(n + 1) -> V]
    BY <2>5
  <2> HIDE DEF g, Upto
  <2>7. \A s \in Upto(n + 1) : g[s] = Body(g, s)
    BY <2>5
  <2>8. \E h \in [Upto(n + 1) -> V] : \A s \in Upto(n + 1) : h[s] = Body(h, s)
    BY <2>6, <2>7, Zenon
  <2>9. n + 1 \in Nat
    OBVIOUS
  <2> QED BY <2>8, <2>9, Zenon
<1> HIDE DEF Q
<1>4. Cardinality(D) \in Q
  BY <1>1, <1>2, <1>3, SetInduction
<1>5. Upto(Cardinality(D)) = SUBSET D
  BY <1>1, FS_Subset
<1>6. PICK f \in [SUBSET D -> V] : \A s \in SUBSET D : f[s] = Body(f, s)
  BY <1>4, <1>5 DEF Q
<1>7. f = [s \in SUBSET D |-> f[s]] /\ \A s \in SUBSET D : f[s] \in V
  OBVIOUS
<1> QED BY <1>6, <1>7 DEF IsFold


----------------------------------------------------------------------------
(* Sums *)

\* What Total adds up, for each set of summands.
SumOf(f) == LET iter[s \in SUBSET DOMAIN f] ==
                  IF s = {} THEN 0
                  ELSE LET x == CHOOSE x \in s : TRUE
                       IN  f[x] + iter[s \ {x}]
            IN  iter

\* The element of s that MapThenSumSet takes out of it first.
First(s) == CHOOSE x \in s : TRUE

\* The function that Total applies satisfies its equation.
LEMMA SumIsDefined ==
  ASSUME NEW S, IsFiniteSet(S), NEW f \in [S -> Nat]
  PROVE  /\ Total(f) = SumOf(f)[S]
         /\ \A s \in SUBSET S :
              /\ SumOf(f)[s] \in Nat
              /\ SumOf(f)[s] = IF s = {} THEN 0 ELSE f[First(s)] + SumOf(f)[s \ {First(s)}]
<1> DEFINE Body(g, s) == IF s = {} THEN 0
                         ELSE f[CHOOSE x \in s : TRUE] + g[s \ {CHOOSE x \in s : TRUE}]
           pick == [s \in SUBSET S |-> CHOOSE x \in s : TRUE]
           step == [s \in SUBSET S |-> [v \in Nat |-> IF s = {} THEN v ELSE f[pick[s]] + v]]
           it == SumOf(f)
<1>1. \A s \in SUBSET S : s # {} => pick[s] \in s /\ f[pick[s]] \in Nat
  OBVIOUS
<1>2. \A s \in SUBSET S : \A v \in Nat : step[s][v] \in Nat
  BY <1>1
<1>3. PICK g : IsFold(g, S, Nat, 0, pick, step)
  <2>1. Foldable(S, Nat, 0, pick, step)
    BY <1>1, <1>2 DEF Foldable
  <2> HIDE DEF pick, step
  <2> QED BY <2>1, FoldIsDefined
<1>3a. \A s \in SUBSET S :
        g[s] \in Nat /\ g[s] = IF s = {} THEN 0 ELSE step[s][g[s \ {pick[s]}]]
  <2> HIDE DEF pick, step
  <2> QED BY <1>3 DEF IsFold
<1>4. \A s \in SUBSET S : g[s] = Body(g, s)
  <2> SUFFICES ASSUME NEW s \in SUBSET S, s # {} PROVE g[s] = Body(g, s)
    BY <1>3a
  <2>1. g[s \ {pick[s]}] \in Nat
    BY <1>3a
  <2>2. step[s][g[s \ {pick[s]}]] = f[pick[s]] + g[s \ {pick[s]}]
    BY <2>1
  <2> QED BY <1>3a, <2>2
<1>5. g = [s \in SUBSET S |-> Body(g, s)]
  BY <1>3, <1>4 DEF IsFold
<1>6. it = [s \in SUBSET S |-> Body(it, s)]
  <2>1. DOMAIN f = S
    OBVIOUS
  <2>2. \E h : h = [s \in SUBSET DOMAIN f |-> Body(h, s)]
    BY <1>5, <2>1
  <2> QED BY <2>1, <2>2, Zenon DEF SumOf
<1> HIDE DEF it
<1>7. \A s \in SUBSET S : it[s] = g[s]
  <2> DEFINE P == {s \in SUBSET S : it[s] = g[s]}
  <2>1. ASSUME NEW s \in SUBSET S, \A x \in s : s \ {x} \in P PROVE s \in P
    <3>1. it[s] = Body(it, s)
      BY <1>6
    <3>2. CASE s = {}
      BY <3>1, <3>2, <1>4
    <3>3. CASE s # {}
      <4>1. s \ {CHOOSE x \in s : TRUE} \in P
        BY <2>1, <3>3
      <4> QED BY <3>1, <4>1, <1>4
    <3> QED BY <3>2, <3>3
  <2> HIDE DEF P
  <2>2. \A s \in SUBSET S : (\A x \in s : s \ {x} \in P) => s \in P
    BY <2>1
  <2>3. IsFiniteSet(S)
    OBVIOUS
  <2>4. SUBSET S \subseteq P
    BY <2>2, <2>3, SubsetInduction
  <2> QED BY <2>4 DEF P
<1>8. \A s \in SUBSET S : it[s] \in Nat /\ it[s] = Body(it, s)
  BY <1>3a, <1>6, <1>7
<1>9. Total(f) = it[S]
  BY Zenon DEF Total, MapThenSumSet, MapThenFoldSet, SumOf, it
<1> QED BY <1>8, <1>9, Zenon DEF it, First

\* The same, as three facts the provers can apply one at a time.
LEMMA TotalIsSum ==
  ASSUME NEW S, IsFiniteSet(S), NEW f \in [S -> Nat]
  PROVE  Total(f) = SumOf(f)[S] /\ SumOf(f)[{}] = 0
<1>1. {} \in SUBSET S
  OBVIOUS
<1> QED BY <1>1, SumIsDefined, Zenon

LEMMA SumIsNat ==
  ASSUME NEW S, IsFiniteSet(S), NEW f \in [S -> Nat], NEW s \in SUBSET S
  PROVE  SumOf(f)[s] \in Nat
BY SumIsDefined, Zenon

LEMMA SumStep ==
  ASSUME NEW S, IsFiniteSet(S), NEW f \in [S -> Nat], NEW s \in SUBSET S, s # {}
  PROVE  /\ First(s) \in s
         /\ SumOf(f)[s] = f[First(s)] + SumOf(f)[s \ {First(s)}]
<1>1. First(s) \in s
  BY DEF First
<1> QED BY <1>1, SumIsDefined

\* The sum of sums.
LEMMA TotalAdds ==
  ASSUME NEW S, IsFiniteSet(S), NEW f \in [S -> Nat], NEW g \in [S -> Nat], NEW h \in [S -> Nat],
         \A x \in S : h[x] = f[x] + g[x]
  PROVE  Total(h) = Total(f) + Total(g)
<1> DEFINE P == {s \in SUBSET S : SumOf(h)[s] = SumOf(f)[s] + SumOf(g)[s]}
<1>1. ASSUME NEW s \in SUBSET S, \A x \in s : s \ {x} \in P PROVE s \in P
  <2>1. CASE s = {}
    <3>1. SumOf(f)[s] = 0 /\ SumOf(g)[s] = 0 /\ SumOf(h)[s] = 0
      BY <2>1, TotalIsSum
    <3> QED BY <3>1
  <2>2. CASE s # {}
    <3>1. PICK x : x = First(s)
      OBVIOUS
    <3>2. x \in s
      BY <3>1, <2>2, SumStep
    <3> DEFINE t == s \ {x}
    <3>3. /\ SumOf(f)[s] = f[x] + SumOf(f)[t]
          /\ SumOf(g)[s] = g[x] + SumOf(g)[t]
          /\ SumOf(h)[s] = h[x] + SumOf(h)[t]
      <4>1. /\ SumOf(f)[s] = f[First(s)] + SumOf(f)[s \ {First(s)}]
            /\ SumOf(g)[s] = g[First(s)] + SumOf(g)[s \ {First(s)}]
            /\ SumOf(h)[s] = h[First(s)] + SumOf(h)[s \ {First(s)}]
        BY <2>2, SumStep
      <4> QED BY <3>1, <4>1
    <3>4. t \in SUBSET S /\ x \in S
      BY <3>2
    <3>5. SumOf(f)[t] \in Nat /\ SumOf(g)[t] \in Nat
      BY <3>4, SumIsNat
    <3>6. SumOf(h)[t] = SumOf(f)[t] + SumOf(g)[t]
      BY <1>1, <3>2
    <3>7. f[x] \in Nat /\ g[x] \in Nat /\ h[x] = f[x] + g[x]
      BY <3>4
    <3> HIDE DEF t
    <3> QED BY <3>3, <3>5, <3>6, <3>7
  <2> QED BY <2>1, <2>2
<1> HIDE DEF P
<1>2. SUBSET S \subseteq P
  BY <1>1, SubsetInduction
<1>3. SumOf(h)[S] = SumOf(f)[S] + SumOf(g)[S]
  BY <1>2 DEF P
<1> QED BY <1>3, TotalIsSum

\* A sum with one summand.
LEMMA TotalOfOne ==
  ASSUME NEW S, IsFiniteSet(S), NEW a \in S, NEW n \in Nat
  PROVE  Total([x \in S |-> IF x = a THEN n ELSE 0]) = n
<1> DEFINE f == [x \in S |-> IF x = a THEN n ELSE 0]
           P == {s \in SUBSET S : SumOf(f)[s] = IF a \in s THEN n ELSE 0}
<1>0. f \in [S -> Nat] /\ f[a] = n /\ \A x \in S \ {a} : f[x] = 0
  OBVIOUS
<1> HIDE DEF f
<1>1. ASSUME NEW s \in SUBSET S, \A x \in s : s \ {x} \in P PROVE s \in P
  <2>1. CASE s = {}
    <3>1. SumOf(f)[s] = 0
      BY <2>1, <1>0, TotalIsSum
    <3> QED BY <3>1, <2>1
  <2>2. CASE s # {}
    <3>1. PICK x : x = First(s)
      OBVIOUS
    <3>2. x \in s /\ x \in S
      BY <1>0, <3>1, <2>2, SumStep
    <3>3. SumOf(f)[s] = f[x] + SumOf(f)[s \ {x}]
      BY <1>0, <2>2, <3>1, SumStep
    <3>4. SumOf(f)[s \ {x}] = IF a \in s \ {x} THEN n ELSE 0
      BY <1>1, <3>2
    <3>5. CASE x = a
      <4>1. SumOf(f)[s \ {x}] = 0 /\ f[x] = n
        BY <3>4, <3>5, <1>0
      <4> QED BY <4>1, <3>2, <3>3, <3>5
    <3>6. CASE x # a
      <4>1. f[x] = 0 /\ SumOf(f)[s \ {x}] = IF a \in s THEN n ELSE 0
        BY <3>2, <3>4, <3>6, <1>0
      <4> QED BY <4>1, <3>3
    <3> QED BY <3>5, <3>6
  <2> QED BY <2>1, <2>2
<1> HIDE DEF P
<1>2. SUBSET S \subseteq P
  BY <1>1, SubsetInduction
<1>3. SumOf(f)[S] = n
  BY <1>2 DEF P
<1>4. Total(f) = n
  BY <1>0, <1>3, TotalIsSum
<1> QED BY <1>4 DEF f

\* One of the summands grows.
LEMMA TotalGrows ==
  ASSUME NEW S, IsFiniteSet(S), NEW f \in [S -> Nat], NEW a \in S, NEW n \in Nat
  PROVE  Total([f EXCEPT ![a] = @ + n]) = Total(f) + n
<1> DEFINE g == [x \in S |-> IF x = a THEN n ELSE 0]
           h == [f EXCEPT ![a] = @ + n]
<1>1. g \in [S -> Nat] /\ h \in [S -> Nat] /\ \A x \in S : h[x] = f[x] + g[x]
  OBVIOUS
<1>2. Total(g) = n
  BY TotalOfOne
<1> HIDE DEF g, h
<1>3. Total(h) = Total(f) + Total(g)
  BY <1>1, TotalAdds
<1> QED BY <1>2, <1>3 DEF h

\* A total is a natural number, and no summand is greater.
LEMMA TotalBounds ==
  ASSUME NEW S, IsFiniteSet(S), NEW f \in [S -> Nat]
  PROVE  Total(f) \in Nat /\ \A x \in S : f[x] <= Total(f)
<1> DEFINE P == {s \in SUBSET S : \A x \in s : f[x] <= SumOf(f)[s]}
<1>1. ASSUME NEW s \in SUBSET S, \A x \in s : s \ {x} \in P PROVE s \in P
  <2> SUFFICES ASSUME NEW y \in s PROVE f[y] <= SumOf(f)[s]
    OBVIOUS
  <2>1. PICK x : x = First(s)
    OBVIOUS
  <2>2. x \in s /\ x \in S /\ s # {}
    BY <2>1, SumStep
  <2>3. SumOf(f)[s] = f[x] + SumOf(f)[s \ {x}]
    BY <2>1, <2>2, SumStep
  <2>4. s \ {x} \in SUBSET S
    OBVIOUS
  <2>4a. SumOf(f)[s \ {x}] \in Nat
    BY <2>4, SumIsNat
  <2>5. CASE y = x
    BY <2>2, <2>3, <2>4a, <2>5
  <2>6. CASE y # x
    <3>1. f[y] <= SumOf(f)[s \ {x}]
      BY <1>1, <2>2, <2>6
    <3>2. f[x] \in Nat /\ f[y] \in Nat
      BY <2>2
    <3> QED BY <3>1, <3>2, <2>3, <2>4a
  <2> QED BY <2>5, <2>6
<1> HIDE DEF P
<1>2. SUBSET S \subseteq P
  BY <1>1, SubsetInduction
<1>3. \A x \in S : f[x] <= SumOf(f)[S]
  BY <1>2 DEF P
<1>4. S \in SUBSET S
  OBVIOUS
<1>5. Total(f) = SumOf(f)[S] /\ SumOf(f)[S] \in Nat
  BY <1>4, TotalIsSum, SumIsNat
<1> QED BY <1>3, <1>5

\* Nothing adds up to nothing.
LEMMA TotalOfNone ==
  ASSUME NEW S, IsFiniteSet(S)
  PROVE  Total([x \in S |-> 0]) = 0
<1> DEFINE f == [x \in S |-> 0]
<1>1. f \in [S -> Nat] /\ \A x \in S : f[x] = f[x] + f[x]
  OBVIOUS
<1> HIDE DEF f
<1>2. Total(f) = Total(f) + Total(f)
  BY <1>1, TotalAdds
<1>3. Total(f) \in Nat
  BY <1>1, TotalBounds
<1>4. ASSUME NEW n \in Nat, n = n + n PROVE n = 0
  BY <1>4
<1>5. Total(f) = 0
  BY <1>2, <1>3, <1>4
<1> QED BY <1>5 DEF f

----------------------------------------------------------------------------
(* The tally of a batch *)

\* A non-empty set of places of a sequence has a last one.
LEMMA MaxIsInSet ==
  ASSUME NEW n \in Nat, NEW s \in SUBSET (1 .. n), s # {}
  PROVE  Max(s) \in s
<1> DEFINE P == {m \in Nat : \A r \in SUBSET (1 .. m) : r # {} => \E x \in r : \A y \in r : x >= y}
<1>1. 0 \in P
  <2>1. \A r \in SUBSET (1 .. 0) : r = {}
    OBVIOUS
  <2> QED BY <2>1
<1>2. ASSUME NEW m \in Nat, m \in P PROVE m + 1 \in P
  <2> SUFFICES ASSUME NEW r \in SUBSET (1 .. m + 1), r # {} PROVE \E x \in r : \A y \in r : x >= y
    OBVIOUS
  <2>1. CASE m + 1 \in r
    BY <2>1
  <2>2. CASE m + 1 \notin r
    <3>1. r \in SUBSET (1 .. m)
      BY <2>2
    <3> QED BY <3>1, <1>2
  <2> QED BY <2>1, <2>2
<1> HIDE DEF P
<1>3. n \in P
  BY <1>1, <1>2, SetInduction
<1>4. \E x \in s : \A y \in s : x >= y
  BY <1>3 DEF P
<1> QED BY <1>4 DEF Max

Tallies == [new : SUBSET Pairs, add : [Series -> Nat]]
NoTally == [new |-> {}, add |-> Zero]

\* What one more record makes of a tally.
SeriesFor(acc, r) == IF r = Malformed THEN r ELSE SeriesOf(r, acc.new)
Adds(acc, r) ==
  [new |-> IF SeriesFor(acc, r) \in Pairs \ pairs THEN acc.new \cup {SeriesFor(acc, r)} ELSE acc.new,
   add |-> [acc.add EXCEPT ![SeriesFor(acc, r)] = @ + 1]]

\* One more record keeps a tally's type.
LEMMA AddsIsTally ==
  ASSUME NEW acc \in Tallies, NEW r \in Record
  PROVE  SeriesFor(acc, r) \in Series /\ Adds(acc, r) \in Tallies
<1>1. acc.new \in SUBSET Pairs /\ acc.add \in [Series -> Nat]
  BY DEF Tallies
<1>2. SeriesFor(acc, r) \in Series
  BY DEF SeriesFor, SeriesOf, Record, Series
<1>3. [acc.add EXCEPT ![SeriesFor(acc, r)] = @ + 1] \in [Series -> Nat]
  BY <1>1, <1>2
<1>4. Adds(acc, r).new \in SUBSET Pairs
  BY <1>1 DEF Adds
<1> QED BY <1>1, <1>2, <1>3, <1>4 DEF Adds, Tallies

\* The tallies of all prefixes of records.
IsTally(t, records) ==
  /\ t[0] = NoTally
  /\ \A n \in 0 .. Len(records) : t[n] \in Tallies
  /\ \A n \in 1 .. Len(records) : t[n] = Adds(t[n - 1], records[n])
  /\ Tally(records) = t[Len(records)]

\* Tally goes through the records in their order.
LEMMA TallyIsDefined ==
  ASSUME NEW records \in Seq(Record)
  PROVE  \E t : IsTally(t, records)
<1> DEFINE D == DOMAIN records
           N == Len(records)
           Body(g, s) == IF s = {} THEN NoTally ELSE Adds(g[s \ {Max(s)}], records[Max(s)])
           pick == [s \in SUBSET D |-> Max(s)]
           step == [s \in SUBSET D |-> [v \in Tallies |-> IF s = {} THEN v ELSE Adds(v, records[pick[s]])]]
           it == CHOOSE g : g = [s \in SUBSET D |-> Body(g, s)]
<1>1. D = 1 .. N /\ N \in Nat /\ IsFiniteSet(D) /\ \A k \in D : records[k] \in Record
  BY FS_Interval
<1>2. \A s \in SUBSET D : s # {} => Max(s) \in s
  BY <1>1, MaxIsInSet
<1>3. NoTally \in Tallies
  BY DEF NoTally, Tallies, Zero
<1>4. Foldable(D, Tallies, NoTally, pick, step)
  <2>1. ASSUME NEW s \in SUBSET D, NEW v \in Tallies PROVE step[s][v] \in Tallies
    <3>1. step[s][v] = IF s = {} THEN v ELSE Adds(v, records[pick[s]])
      OBVIOUS
    <3>2. CASE s # {}
      <4>1. records[pick[s]] \in Record
        BY <3>2, <1>1, <1>2
      <4>2. Adds(v, records[pick[s]]) \in Tallies
        BY <4>1, AddsIsTally
      <4> QED BY <3>1, <3>2, <4>2
    <3> QED BY <3>1, <3>2
  <2>2. \A s \in SUBSET D : s # {} => pick[s] \in s
    BY <1>2
  <2> HIDE DEF D, pick, step
  <2> QED BY <1>1, <1>3, <2>1, <2>2 DEF Foldable
<1>5. PICK g : IsFold(g, D, Tallies, NoTally, pick, step)
  <2> HIDE DEF D, pick, step
  <2> QED BY <1>4, FoldIsDefined
<1>6. \A s \in SUBSET D :
        g[s] \in Tallies /\ g[s] = IF s = {} THEN NoTally ELSE step[s][g[s \ {pick[s]}]]
  <2> HIDE DEF D, pick, step
  <2> QED BY <1>5 DEF IsFold
<1>7. ASSUME NEW s \in SUBSET D PROVE g[s] = Body(g, s)
  <2>1. CASE s = {}
    BY <1>6, <2>1
  <2>2. CASE s # {}
    <3>1. s \ {pick[s]} \in SUBSET D /\ pick[s] = Max(s)
      OBVIOUS
    <3>2. g[s \ {pick[s]}] \in Tallies
      BY <1>6, <3>1
    <3>3. step[s][g[s \ {pick[s]}]] = Adds(g[s \ {pick[s]}], records[pick[s]])
      BY <2>2, <3>2
    <3>4. g[s] = step[s][g[s \ {pick[s]}]]
      BY <1>6, <2>2
    <3> HIDE DEF step, pick, D
    <3> QED BY <2>2, <3>1, <3>3, <3>4
  <2> QED BY <2>1, <2>2
<1>8. it = [s \in SUBSET D |-> Body(it, s)]
  <2>1. g = [s \in SUBSET D |-> g[s]]
    <3> HIDE DEF D, pick, step
    <3> QED BY <1>5 DEF IsFold
  <2>2. g = [s \in SUBSET D |-> Body(g, s)]
    BY <2>1, <1>7
  <2>3. \E h : h = [s \in SUBSET D |-> Body(h, s)]
    BY <2>2
  <2> QED BY <2>3, Zenon
<1>9. Tally(records) = it[D]
  BY Zenon DEF Tally, FoldLeft, MapThenFoldSet, Adds, SeriesFor, NoTally
<1> HIDE DEF it
<1> DEFINE t == [n \in 0 .. N |-> it[1 .. n]]
<1>10. ASSUME NEW n \in 1 .. N
       PROVE  t[n] = Adds(t[n - 1], records[n])
  <2>1. 1 .. n \in SUBSET D /\ 1 .. n # {} /\ (1 .. n) \ {n} = 1 .. n - 1
    BY <1>1
  <2>2. Max(1 .. n) = n
    BY DEF Max
  <2>3. it[1 .. n] = Adds(it[(1 .. n) \ {n}], records[n])
    BY <1>8, <2>1, <2>2
  <2>4. t[n] = it[1 .. n] /\ t[n - 1] = it[1 .. n - 1]
    BY <1>1
  <2> QED BY <2>1, <2>3, <2>4
<1>11. t[0] = NoTally
  <2>1. 1 .. 0 = {} /\ {} \in SUBSET D
    OBVIOUS
  <2>2. it[{}] = NoTally
    BY <1>8, <2>1
  <2>3. t[0] = it[1 .. 0]
    BY <1>1
  <2> QED BY <2>1, <2>2, <2>3
<1>12. Tally(records) = t[N]
  BY <1>1, <1>9
<1> HIDE DEF t
<1>13. \A n \in 0 .. N : t[n] \in Tallies
  <2> DEFINE P == {n \in Nat : n <= N => t[n] \in Tallies}
  <2>1. 0 \in P
    BY <1>3, <1>11
  <2>2. ASSUME NEW n \in Nat, n \in P PROVE n + 1 \in P
    <3> SUFFICES ASSUME n + 1 <= N PROVE t[n + 1] \in Tallies
      OBVIOUS
    <3>1. t[n] \in Tallies /\ n + 1 \in 1 .. N /\ records[n + 1] \in Record
      BY <1>1, <2>2
    <3>2. t[n + 1] = Adds(t[n], records[n + 1])
      BY <1>10, <3>1
    <3> QED BY <3>1, <3>2, AddsIsTally
  <2> HIDE DEF P
  <2>3. Nat \subseteq P
    BY <2>1, <2>2, SetInduction
  <2> QED BY <1>1, <2>3 DEF P
<1> QED BY <1>10, <1>11, <1>12, <1>13 DEF IsTally

\* What a tally of n records says, of pairs within the cap.
Fine(acc, n) ==
  /\ Total(acc.add) = n
  /\ \A p \in Pairs : acc.add[p] # 0 => p \in pairs \cup acc.new
  /\ Cardinality((pairs \cup acc.new) \cap Pairs) <= MaxPairs

\* There are finitely many series to sum over.
LEMMA SeriesAreFinite ==
  ASSUME UsageSeries
  PROVE  IsFiniteSet(Series) /\ \A s \in SUBSET Series : IsFiniteSet(s) /\ Cardinality(s) \in Nat
<1>1. IsFiniteSet(Pairs \cup {Malformed})
  BY FS_AddElement DEF UsageSeries
<1>2. Series = (Pairs \cup {Malformed}) \cup {Overflow}
  BY DEF Series
<1>3. IsFiniteSet(Series)
  BY <1>1, <1>2, FS_AddElement
<1> QED BY <1>3, FS_Subset, FS_CardinalityType

\* Each record counts once, in a series that is within the cap.
LEMMA AddsIsFine ==
  ASSUME UsageSizes, UsageSeries, pairs \subseteq Pairs \cup {Overflow},
         NEW n \in Nat, NEW acc \in Tallies, Fine(acc, n), NEW r \in Record
  PROVE  Fine(Adds(acc, r), n + 1)
<1> DEFINE s == SeriesFor(acc, r)
           next == Adds(acc, r)
<1>1. acc.new \in SUBSET Pairs /\ acc.add \in [Series -> Nat] /\ s \in Series
  BY AddsIsTally DEF Tallies
<1>2. next.add = [acc.add EXCEPT ![s] = @ + 1]
  BY DEF Adds
<1>3. Total(next.add) = n + 1
  <2>1. Total([acc.add EXCEPT ![s] = @ + 1]) = Total(acc.add) + 1
    <3> HIDE DEF s
    <3> QED BY <1>1, SeriesAreFinite, TotalGrows
  <2> QED BY <1>2, <2>1 DEF Fine
<1>4. next.new = IF s \in Pairs \ pairs THEN acc.new \cup {s} ELSE acc.new
  BY DEF Adds
<1>5. ASSUME NEW p \in Pairs, next.add[p] # 0 PROVE p \in pairs \cup next.new
  <2>1. p \in Series
    BY DEF Series
  <2>2. CASE p = s
    BY <1>4, <2>2
  <2>3. CASE p # s
    <3>1. next.add[p] = acc.add[p]
      BY <1>1, <1>2, <2>1, <2>3
    <3>2. p \in pairs \cup acc.new
      BY <1>5, <3>1 DEF Fine
    <3> QED BY <1>4, <3>2
  <2> QED BY <2>2, <2>3
<1>6. Cardinality((pairs \cup next.new) \cap Pairs) <= MaxPairs
  <2>1. CASE s \in Pairs \ (pairs \cup acc.new)
    <3>1. ~Full(acc.new)
      BY <2>1, <1>1 DEF SeriesFor, SeriesOf, UsageSeries
    <3>2. pairs \in SUBSET Series /\ acc.new \in SUBSET Series
      BY <1>1 DEF Series
    <3>3. IsFiniteSet(pairs) /\ IsFiniteSet(acc.new)
      BY <3>2, SeriesAreFinite
    <3>4. PICK a, b \in Nat : a = Cardinality(pairs) /\ b = Cardinality(acc.new)
      BY <3>2, SeriesAreFinite
    <3>5. a + b < MaxPairs
      BY <3>1, <3>4 DEF Full, UsageSizes
    <3>6. IsFiniteSet(pairs \cup acc.new) /\ Cardinality(pairs \cup acc.new) <= a + b
      <4>1. IsFiniteSet(pairs \cap acc.new)
        BY <3>3, FS_Intersection
      <4>2. IsFiniteSet(pairs \cup acc.new)
        BY <3>3, FS_Union
      <4>3. Cardinality(pairs \cup acc.new) = a + b - Cardinality(pairs \cap acc.new)
        BY <3>3, <3>4, FS_Union
      <4>4. Cardinality(pairs \cap acc.new) \in Nat
        BY <4>1, FS_CardinalityType
      <4> QED BY <4>2, <4>3, <4>4
    <3>7. PICK c \in Nat : c = Cardinality(pairs \cup acc.new)
      BY <3>6, FS_CardinalityType
    <3>8. /\ IsFiniteSet((pairs \cup acc.new) \cup {s})
          /\ Cardinality((pairs \cup acc.new) \cup {s}) = c + 1
      BY <2>1, <3>6, <3>7, FS_AddElement
    <3>9. (pairs \cup next.new) \cap Pairs \subseteq (pairs \cup acc.new) \cup {s}
      BY <1>4
    <3>10. /\ Cardinality((pairs \cup next.new) \cap Pairs) <= c + 1
      BY <3>8, <3>9, FS_Subset
    <3>11. Cardinality((pairs \cup next.new) \cap Pairs) \in Nat
      BY <3>8, <3>9, FS_Subset, FS_CardinalityType
    <3> QED BY <3>5, <3>6, <3>7, <3>10, <3>11 DEF UsageSizes
  <2>2. CASE s \notin Pairs \ (pairs \cup acc.new)
    <3>1. (pairs \cup next.new) \cap Pairs = (pairs \cup acc.new) \cap Pairs
      BY <1>4, <2>2
    <3> QED BY <3>1 DEF Fine
  <2> QED BY <2>1, <2>2
<1> HIDE DEF next
<1> QED BY <1>3, <1>5, <1>6 DEF Fine, next

\* So does a batch.
LEMMA TallyIsFine ==
  ASSUME UsageSizes, UsageSeries, pairs \subseteq Pairs \cup {Overflow},
         Cardinality(pairs \cap Pairs) <= MaxPairs,
         NEW records \in Seq(Record)
  PROVE  Tally(records) \in Tallies /\ Fine(Tally(records), Len(records))
<1>1. PICK t : IsTally(t, records)
  BY TallyIsDefined
<1> DEFINE P == {n \in Nat : n <= Len(records) => Fine(t[n], n)}
<1>2. 0 \in P
  <2>1. t[0] = NoTally
    BY <1>1 DEF IsTally
  <2>2. Total(Zero) = 0
    BY SeriesAreFinite, TotalOfNone DEF Zero
  <2>3. Fine(NoTally, 0)
    <3>1. NoTally.new = {} /\ NoTally.add = Zero
      BY DEF NoTally
    <3>2. \A p \in Pairs : Zero[p] = 0
      BY DEF Zero, Series
    <3>3. pairs \cup {} = pairs
      OBVIOUS
    <3> QED BY <2>2, <3>1, <3>2, <3>3 DEF Fine
  <2> QED BY <2>1, <2>3
<1>3. ASSUME NEW n \in Nat, n \in P PROVE n + 1 \in P
  <2> SUFFICES ASSUME n + 1 <= Len(records) PROVE Fine(t[n + 1], n + 1)
    OBVIOUS
  <2>1. n + 1 \in 1 .. Len(records) /\ records[n + 1] \in Record /\ n \in 0 .. Len(records)
    OBVIOUS
  <2>2. t[n] \in Tallies /\ t[n + 1] = Adds(t[n], records[n + 1])
    BY <1>1, <2>1 DEF IsTally
  <2>3. Fine(t[n], n)
    BY <1>3
  <2> QED BY <2>1, <2>2, <2>3, AddsIsFine
<1> HIDE DEF P
<1>4. Len(records) \in P /\ Len(records) \in 0 .. Len(records)
  BY <1>2, <1>3, SetInduction
<1> QED BY <1>1, <1>4 DEF P, IsTally

----------------------------------------------------------------------------
(* The inductive invariant *)

Types ==
  /\ queue \in Seq(Record) /\ hand \in Seq(Record) /\ Len(hand) <= Batch
  /\ counts \in [Series -> Nat]
  /\ shown \in [Series -> 0 .. MaxRecords]
  /\ pairs \subseteq Pairs \cup {Overflow}
  /\ stage \in {"down", "wait", "pop", "apply", "finish"}
  /\ pops \in 0 .. MaxBatches /\ (stage = "pop" => pops # 0)
  /\ committed \in BOOLEAN /\ ok \in BOOLEAN /\ stopping \in BOOLEAN
  /\ starts \in 0 .. MaxStarts /\ born \in 0 .. MaxRecords
  /\ gone \in [Reasons -> Nat]

\* Every record is in one place, or was lost once.
Conserved ==
  /\ born = Len(queue) + Len(hand) + Total(counts) + Total(gone)
  /\ stage # "apply" => hand = <<>>

\* A process that runs may still take a batch with it.
KilledOnce == gone["killed"] + (IF stage = "down" THEN 0 ELSE Batch) <= starts * Batch

\* Between polls, and in a poll as long as it committed nothing.
UpToDate ==
  stage \in {"wait", "pop", "apply", "finish"} /\ (stage = "wait" \/ ~committed) => shown = counts

Counted == {p \in Pairs : counts[p] > 0}
Capped == Counted \subseteq pairs /\ Cardinality(pairs \cap Pairs) <= MaxPairs

UsageIInv == Types /\ Conserved /\ KilledOnce /\ UpToDate /\ Capped

\* There are finitely many reasons to sum over.
LEMMA ReasonsAreFinite == IsFiniteSet(Reasons)
<1>1. IsFiniteSet({"retired"})
  BY FS_Singleton
<1>2. IsFiniteSet({"retired"} \cup {"response"})
  BY <1>1, FS_AddElement
<1>3. IsFiniteSet(({"retired"} \cup {"response"}) \cup {"rollback"})
  BY <1>2, FS_AddElement
<1>4. IsFiniteSet((({"retired"} \cup {"response"}) \cup {"rollback"}) \cup {"killed"})
  BY <1>3, FS_AddElement
<1>5. Reasons = (({"retired"} \cup {"response"}) \cup {"rollback"}) \cup {"killed"}
  BY DEF Reasons
<1> QED BY <1>4, <1>5

\* All that is added up is a natural number.
LEMMA Sizes ==
  ASSUME UsageSeries, Types
  PROVE  /\ Len(queue) \in Nat /\ Len(hand) \in Nat
         /\ Total(counts) \in Nat /\ \A s \in Series : counts[s] \in Nat /\ counts[s] <= Total(counts)
         /\ Total(gone) \in Nat /\ \A r \in Reasons : gone[r] \in Nat /\ gone[r] <= Total(gone)
BY SeriesAreFinite, ReasonsAreFinite, TotalBounds DEF Types

\* No count and no loss exceeds what CLIProxy queued.
LEMMA Bounded ==
  ASSUME UsageSizes, UsageSeries, Types, Conserved
  PROVE  /\ counts \in [Series -> 0 .. MaxRecords]
         /\ gone \in [Reasons -> 0 .. MaxRecords]
<1> DEFINE c == Total(counts)
           g == Total(gone)
<1>1. c \in Nat /\ g \in Nat /\ Len(queue) \in Nat /\ Len(hand) \in Nat /\ born <= MaxRecords
  BY Sizes DEF Types
<1>2. born = Len(queue) + Len(hand) + c + g
  BY DEF Conserved
<1>3. c <= MaxRecords /\ g <= MaxRecords /\ MaxRecords \in Nat
  <2> HIDE DEF c, g
  <2> QED BY <1>1, <1>2 DEF UsageSizes, Types
<1>4. \A s \in Series : counts[s] \in 0 .. MaxRecords
  <2>1. ASSUME NEW s \in Series PROVE counts[s] \in Nat /\ counts[s] <= c
    BY Sizes
  <2> HIDE DEF c
  <2> QED BY <1>1, <1>3, <2>1
<1>5. \A r \in Reasons : gone[r] \in 0 .. MaxRecords
  <2>1. ASSUME NEW r \in Reasons PROVE gone[r] \in Nat /\ gone[r] <= g
    BY Sizes
  <2> HIDE DEF g
  <2> QED BY <1>1, <1>3, <2>1
<1> QED BY <1>4, <1>5 DEF Types

\* A loss is one of the reasons, and counts as often as it should.
LEMMA LosesAdds ==
  ASSUME UsageSeries, Types, NEW n \in Nat, NEW reason \in Reasons, Loses(n, reason)
  PROVE  /\ gone' \in [Reasons -> Nat]
         /\ Total(gone') = Total(gone) + n
         /\ gone'[reason] = gone[reason] + n
         /\ \A r \in Reasons \ {reason} : gone'[r] = gone[r]
<1>1. gone' = [gone EXCEPT ![reason] = @ + n] /\ gone \in [Reasons -> Nat]
  BY DEF Loses, Types
<1>2. Total([gone EXCEPT ![reason] = @ + n]) = Total(gone) + n
  BY <1>1, ReasonsAreFinite, TotalGrows
<1>3. \A r \in Reasons : gone'[r] = IF r = reason THEN gone[r] + n ELSE gone[r]
  BY <1>1
<1>4. gone' \in [Reasons -> Nat]
  BY <1>1
<1> QED BY <1>1, <1>2, <1>3, <1>4

\* The exporter starts with an empty database.
LEMMA InitUsageIInv == ASSUME UsageSizes, UsageSeries PROVE UsageInit => UsageIInv
<1> SUFFICES ASSUME UsageInit PROVE UsageIInv
  OBVIOUS
<1> USE DEF UsageSizes
<1>1. Types
  <2>1. Zero \in [Series -> Nat] /\ Zero \in [Series -> 0 .. MaxRecords]
    BY DEF Zero
  <2>2. <<>> \in Seq(Record) /\ Len(<<>>) = 0
    OBVIOUS
  <2>3. gone \in [Reasons -> Nat]
    BY DEF UsageInit
  <2>4. shown = Zero /\ counts = Zero /\ queue \in Seq(Record) /\ hand \in Seq(Record) /\ Len(hand) <= Batch
    BY <2>2 DEF UsageInit
  <2>5. /\ pairs = {} /\ stage = "down" /\ pops = 0 /\ committed = FALSE /\ ok = TRUE
        /\ stopping = FALSE /\ starts = 0 /\ born = 0
    BY DEF UsageInit
  <2>6. pops \in 0 .. MaxBatches /\ starts \in 0 .. MaxStarts /\ born \in 0 .. MaxRecords
    BY <2>5
  <2> HIDE DEF UsageSizes
  <2> QED BY <2>1, <2>3, <2>4, <2>5, <2>6 DEF Types
<1>2. Conserved
  <2>1. Total(Zero) = 0
    BY SeriesAreFinite, TotalOfNone DEF Zero
  <2>2. Total([r \in Reasons |-> 0]) = 0
    BY ReasonsAreFinite, TotalOfNone
  <2> QED BY <2>1, <2>2 DEF UsageInit, Conserved
<1>3. KilledOnce
  <2>1. gone["killed"] = 0
    BY DEF UsageInit, Reasons
  <2> QED BY <2>1 DEF UsageInit, KilledOnce
<1>4. UpToDate
  BY DEF UsageInit, UpToDate
<1>5. Capped
  <2>1. Counted = {}
    BY DEF UsageInit, Counted, Zero, Series
  <2>2. pairs \cap Pairs = {}
    BY DEF UsageInit
  <2> QED BY <2>1, <2>2, FS_EmptySet DEF Capped
<1> QED BY <1>1, <1>2, <1>3, <1>4, <1>5 DEF UsageIInv

\* What the steps that leave the database alone have to show.
LEMMA Capping == ASSUME Capped, UNCHANGED db PROVE Capped'
BY DEF Capped, Counted, db

\* CLIProxy queues, or retires.
LEMMA QueueKeeps ==
  ASSUME UsageSizes, UsageSeries, UsageIInv, Retire \/ \E r \in Record : Request(r)
  PROVE  UsageIInv'
<1> USE DEF UsageSizes, UsageIInv
<1>1. ASSUME NEW r \in Record, Request(r) PROVE UsageIInv'
  <2> USE <1>1 DEF Request, poll, db
  <2>1. queue' \in Seq(Record) /\ Len(queue') = Len(queue) + 1
    BY DEF Types
  <2>2. Types'
    BY <2>1 DEF Types
  <2>3. Conserved'
    <3>1. UNCHANGED <<counts, gone, hand, stage>> /\ born' = born + 1
      OBVIOUS
    <3>2. Total(counts)' = Total(counts) /\ Total(gone)' = Total(gone)
      BY <3>1
    <3>3. /\ born \in Nat /\ Len(queue) \in Nat /\ Len(hand) \in Nat
          /\ Total(counts) \in Nat /\ Total(gone) \in Nat
      BY Sizes DEF Types
    <3>4. born = Len(queue) + Len(hand) + Total(counts) + Total(gone) /\ (stage # "apply" => hand = <<>>)
      BY DEF Conserved
    <3> HIDE <1>1 DEF Request, poll, db, UsageSizes, UsageIInv
    <3>5. Len(hand') = Len(hand) /\ Len(queue') = Len(queue) + 1 /\ born' = born + 1
      BY <2>1, <3>1
    <3>6. born' = Len(queue') + Len(hand') + Total(counts)' + Total(gone)'
      BY <3>2, <3>3, <3>4, <3>5
    <3> QED BY <3>1, <3>4, <3>6 DEF Conserved
  <2>4. KilledOnce' /\ UpToDate'
    BY DEF KilledOnce, UpToDate
  <2> QED BY <2>2, <2>3, <2>4, Capping
<1>2. CASE Retire
  <2> USE <1>2 DEF Retire, poll, db
  <2>1. queue' \in Seq(Record) /\ Len(queue') = Len(queue) - 1
    BY HeadTailProperties DEF Types
  <2>2. /\ gone' \in [Reasons -> Nat] /\ Total(gone') = Total(gone) + 1
        /\ gone'["killed"] = gone["killed"]
    <3>1. "retired" \in Reasons /\ "killed" \in Reasons \ {"retired"}
      BY DEF Reasons
    <3> QED BY <3>1, LosesAdds
  <2>3. Types'
    BY <2>1, <2>2 DEF Types
  <2>4. Conserved'
    <3>1. UNCHANGED <<counts, hand, stage, born>>
      OBVIOUS
    <3> QED BY <2>1, <2>2, <3>1, Sizes DEF Conserved
  <2>5. KilledOnce' /\ UpToDate'
    BY <2>2 DEF KilledOnce, UpToDate
  <2> QED BY <2>3, <2>4, <2>5, Capping
<1> QED BY <1>1, <1>2

\* A batch is added as a whole.
LEMMA CommitKeeps == ASSUME UsageSizes, UsageSeries, UsageIInv, Commit PROVE UsageIInv'
<1> USE DEF UsageSizes, UsageIInv
<1> DEFINE t == Tally(hand)
<1>1. t \in Tallies /\ Fine(t, Len(hand))
  BY TallyIsFine DEF Types, Capped
<1>2. t.new \in SUBSET Pairs /\ t.add \in [Series -> Nat]
  BY <1>1 DEF Tallies
<1>3. counts' = [s \in Series |-> counts[s] + t.add[s]] /\ pairs' = pairs \cup t.new
  BY DEF Commit
<1> HIDE DEF t
<1>4. counts' \in [Series -> Nat] /\ \A s \in Series : counts'[s] = counts[s] + t.add[s]
  BY <1>2, <1>3 DEF Types
<1>5. Total(counts') = Total(counts) + Len(hand)
  <2>1. Total(counts') = Total(counts) + Total(t.add)
    <3>1. counts \in [Series -> Nat] /\ IsFiniteSet(Series)
      BY SeriesAreFinite DEF Types
    <3>2. \A f, g, h \in [Series -> Nat] :
            (\A s \in Series : h[s] = f[s] + g[s]) => Total(h) = Total(f) + Total(g)
      BY <3>1, TotalAdds
    <3> QED BY <1>2, <1>4, <3>1, <3>2
  <2> QED BY <1>1, <2>1 DEF Fine
<1>6. hand' = <<>> /\ Len(<<>>) = 0 /\ <<>> \in Seq(Record) /\ UNCHANGED <<queue, shown, pops, ok, stopping, starts, born, gone>>
  BY DEF Commit
<1>7. stage = "apply" /\ committed' = TRUE /\ stage' \in {"finish", "pop"} /\ (stage' = "pop" => pops # 0)
  BY DEF Commit
<1>8. Types'
  <2>1. pairs' \subseteq Pairs \cup {Overflow}
    BY <1>2, <1>3 DEF Types
  <2> QED BY <1>4, <1>6, <1>7, <2>1 DEF Types
<1>9. Conserved'
  BY <1>5, <1>6, <1>7, Sizes DEF Conserved
<1>10. KilledOnce' /\ UpToDate'
  BY <1>6, <1>7 DEF KilledOnce, UpToDate
<1>11. Capped'
  <2>1. Cardinality(pairs' \cap Pairs) <= MaxPairs
    BY <1>1, <1>3 DEF Fine
  <2>2. ASSUME NEW p \in Pairs, counts'[p] > 0 PROVE p \in pairs'
    <3>1. p \in Series /\ counts'[p] = counts[p] + t.add[p] /\ counts[p] \in Nat /\ t.add[p] \in Nat
      BY <1>2, <1>4, Sizes DEF Series
    <3>2. CASE counts[p] > 0
      BY <3>2, <1>3 DEF Capped, Counted
    <3>3. CASE t.add[p] # 0
      BY <1>1, <1>3, <3>3 DEF Fine
    <3> QED BY <2>2, <3>1, <3>2, <3>3
  <2> QED BY <2>1, <2>2 DEF Capped, Counted
<1> QED BY <1>8, <1>9, <1>10, <1>11

\* Or not at all.
LEMMA RollbackKeeps == ASSUME UsageSizes, UsageSeries, UsageIInv, Rollback PROVE UsageIInv'
<1> USE DEF UsageSizes, UsageIInv
<1>1. counts' = counts /\ Loses(Len(hand), "rollback")
  BY DEF Rollback, RolledBack
<1>2. /\ hand' = <<>> /\ Len(<<>>) = 0 /\ <<>> \in Seq(Record) /\ ok' = FALSE
      /\ stage = "apply" /\ stage' = "finish"
      /\ UNCHANGED <<queue, pairs, shown, pops, committed, stopping, starts, born>>
  BY DEF Rollback
<1>3. /\ gone' \in [Reasons -> Nat] /\ Total(gone') = Total(gone) + Len(hand)
      /\ gone'["killed"] = gone["killed"]
  <2>1. "rollback" \in Reasons /\ "killed" \in Reasons \ {"rollback"}
    BY DEF Reasons
  <2> QED BY <1>1, <2>1, Sizes, LosesAdds
<1>4. Types'
  <2>1. hand' \in Seq(Record) /\ Len(hand') <= Batch
    BY <1>2
  <2>2. /\ ok' = FALSE /\ stage' = "finish" /\ counts' = counts
        /\ UNCHANGED <<queue, pairs, shown, pops, committed, stopping, starts, born>>
    BY <1>1, <1>2
  <2> QED BY <1>3, <2>1, <2>2 DEF Types
<1>5. Conserved'
  BY <1>1, <1>2, <1>3, Sizes DEF Conserved
<1>6. KilledOnce' /\ UpToDate'
  BY <1>1, <1>2, <1>3 DEF KilledOnce, UpToDate
<1> QED BY <1>1, <1>2, <1>4, <1>5, <1>6, Capping DEF db

\* What is popped and what is left are the two parts of the queue.
LEMMA PoppedAndLeft ==
  ASSUME UsageSizes, Types
  PROVE  /\ Popped \in Seq(Record) /\ Left \in Seq(Record)
         /\ Len(Popped) \in Nat /\ Len(Left) \in Nat
         /\ Len(Popped) <= Batch
         /\ Len(queue) = Len(Popped) + Len(Left)
<1> DEFINE m == Min({Batch, Len(queue)})
<1>1. m \in 0 .. Len(queue) /\ m <= Batch
  <2>1. Batch \in Nat /\ Len(queue) \in Nat
    BY DEF Types, UsageSizes
  <2>2. \E x \in {Batch, Len(queue)} : \A y \in {Batch, Len(queue)} : x <= y
    BY <2>1
  <2>3. m \in {Batch, Len(queue)} /\ m <= Batch /\ m <= Len(queue)
    BY <2>2 DEF Min
  <2> QED BY <2>1, <2>3
<1> HIDE DEF m
<1>2. Popped = SubSeq(queue, 1, m)
  BY DEF Popped, m
<1>3. \A i \in 1 .. Len(queue) : queue[i] \in Record
  BY DEF Types
<1>4. Len(queue) \in Nat
  BY DEF Types
<1>5. Popped \in Seq(Record) /\ Len(Popped) = m
  <2>1. \A i \in 1 .. m : queue[i] \in Record
    BY <1>1, <1>3, <1>4
  <2>2. /\ SubSeq(queue, 1, m) \in Seq(Record)
        /\ Len(SubSeq(queue, 1, m)) = IF 1 <= m THEN m - 1 + 1 ELSE 0
    BY <1>1, <1>4, <2>1, SubSeqProperties
  <2> QED BY <1>1, <1>2, <1>4, <2>2
<1>6. Left \in Seq(Record) /\ Len(Left) = Len(queue) - m
  <2>1. Left = SubSeq(queue, m + 1, Len(queue))
    BY <1>5 DEF Left
  <2>2. \A i \in m + 1 .. Len(queue) : queue[i] \in Record
    BY <1>1, <1>3, <1>4
  <2>3. /\ SubSeq(queue, m + 1, Len(queue)) \in Seq(Record)
        /\ Len(SubSeq(queue, m + 1, Len(queue))) =
             IF m + 1 <= Len(queue) THEN Len(queue) - (m + 1) + 1 ELSE 0
    BY <1>1, <1>4, <2>2, SubSeqProperties
  <2> QED BY <1>1, <1>4, <2>1, <2>3
<1> QED BY <1>1, <1>4, <1>5, <1>6

\* A pop hands the oldest records over, or loses them.
LEMMA PopKeeps == ASSUME UsageSizes, UsageSeries, UsageIInv, Pop \/ PopFails PROVE UsageIInv'
<1> USE DEF UsageSizes, UsageIInv
<1>0. /\ Popped \in Seq(Record) /\ Left \in Seq(Record)
      /\ Len(Popped) \in Nat /\ Len(Left) \in Nat
      /\ Len(Popped) <= Batch
      /\ Len(queue) = Len(Popped) + Len(Left)
  BY PoppedAndLeft
<1>1. stage = "pop" /\ hand = <<>> /\ Len(hand) = 0
  BY DEF Pop, PopFails, Conserved
<1>2. CASE Pop
  <2>1. /\ hand' = Popped /\ queue' = Left /\ pops' = pops - 1 /\ stage' = "apply"
        /\ UNCHANGED <<counts, pairs, shown, committed, ok, stopping, starts, born, gone>>
    BY <1>2 DEF Pop, db
  <2>2. Types'
    BY <1>0, <1>1, <2>1 DEF Types
  <2>3. Conserved'
    <3>1. Total(counts') = Total(counts) /\ Total(gone') = Total(gone) /\ born' = born
      BY <2>1
    <3>2. Len(queue') + Len(hand') = Len(queue) + Len(hand)
      BY <1>0, <1>1, <2>1
    <3>3. Len(queue') \in Nat /\ Len(hand') \in Nat
      BY <1>0, <2>1
    <3> QED BY <2>1, <3>1, <3>2, <3>3, Sizes DEF Conserved
  <2>4. KilledOnce' /\ UpToDate'
    BY <1>1, <2>1 DEF KilledOnce, UpToDate
  <2> QED BY <2>1, <2>2, <2>3, <2>4, Capping DEF db
<1>3. CASE PopFails
  <2>1. /\ ok' = FALSE /\ stage' = "finish"
        /\ UNCHANGED <<counts, pairs, shown, hand, pops, committed, stopping, starts, born>>
    BY <1>3 DEF PopFails, db
  <2>2. /\ queue' \in Seq(Record) /\ gone' \in [Reasons -> Nat]
        /\ Len(queue') + Total(gone') = Len(queue) + Total(gone)
        /\ gone'["killed"] = gone["killed"]
    <3>1. CASE UNCHANGED <<queue, gone>>
      BY <3>1 DEF Types
    <3>2. CASE queue' = Left /\ Loses(Len(Popped), "response")
      <4>1. "response" \in Reasons /\ "killed" \in Reasons \ {"response"}
        BY DEF Reasons
      <4>2. /\ gone' \in [Reasons -> Nat] /\ Total(gone') = Total(gone) + Len(Popped)
            /\ gone'["killed"] = gone["killed"]
        BY <1>0, <3>2, <4>1, LosesAdds
      <4> QED BY <1>0, <3>2, <4>2, Sizes
    <3> QED BY <1>3, <3>1, <3>2 DEF PopFails
  <2>3. Types'
    BY <2>1, <2>2 DEF Types
  <2>4. Conserved'
    <3>1. Total(gone') \in Nat
      BY <2>2, ReasonsAreFinite, TotalBounds
    <3>2. Len(queue') \in Nat
      BY <2>2
    <3>3. Total(counts') = Total(counts) /\ born' = born /\ hand' = <<>> /\ Len(hand') = 0
      BY <1>1, <2>1
    <3>4. born = Len(queue) + 0 + Total(counts) + Total(gone)
      BY <1>1 DEF Conserved
    <3>5. born' = Len(queue') + Len(hand') + Total(counts') + Total(gone')
      BY <2>2, <3>1, <3>2, <3>3, <3>4, Sizes
    <3> QED BY <3>3, <3>5 DEF Conserved
  <2>5. KilledOnce' /\ UpToDate'
    BY <1>1, <2>1, <2>2 DEF KilledOnce, UpToDate
  <2> QED BY <2>1, <2>3, <2>4, <2>5, Capping DEF db
<1> QED BY <1>2, <1>3

\* A poll begins, breaks off or finishes; SIGTERM arrives, or the exporter
\* exits: records and counts stay where they are.
LEMMA PollKeeps ==
  ASSUME UsageSizes, UsageSeries, UsageIInv, PollBegins \/ BreakOff \/ Finish \/ Terminate \/ Exit
  PROVE  UsageIInv'
<1> USE DEF UsageIInv
<1>1. /\ UNCHANGED <<queue, counts, pairs, hand, starts, born, gone>>
      /\ stage = "apply" => stage' = "apply"
      /\ stage # "down"
  BY DEF PollBegins, BreakOff, Finish, Terminate, Exit, db, poll
<1>2. Conserved'
  <2>1. Total(counts') = Total(counts) /\ Total(gone') = Total(gone)
    BY <1>1
  <2> QED BY <1>1, <2>1 DEF Conserved
<1>3. KilledOnce'
  <2>1. gone["killed"] \in Nat
    BY Sizes DEF Reasons
  <2> QED BY <1>1, <2>1 DEF KilledOnce, UsageSizes, Types
<1>4. Capped'
  BY <1>1, Capping DEF db
<1>5. CASE PollBegins
  <2>1. Types'
    <3>1. pops' \in 0 .. MaxBatches /\ pops' # 0
      BY <1>5 DEF PollBegins, UsageSizes
    <3>2. /\ stage' = "pop" /\ committed' = FALSE /\ ok' = TRUE
          /\ UNCHANGED <<queue, counts, pairs, shown, hand, stopping, starts, born, gone>>
      BY <1>5 DEF PollBegins, db
    <3> QED BY <3>1, <3>2 DEF Types
  <2>2. UpToDate'
    BY <1>5 DEF PollBegins, UpToDate, db
  <2> QED BY <1>2, <1>3, <1>4, <2>1, <2>2
<1>6. CASE BreakOff
  <2>1. Types' /\ UpToDate'
    BY <1>6 DEF BreakOff, Types, UpToDate, db
  <2> QED BY <1>2, <1>3, <1>4, <2>1
<1>7. CASE Finish
  <2>1. shown' = IF committed THEN counts ELSE shown
    BY <1>7 DEF Finish, Renders, Rendered
  <2>2. shown' \in [Series -> 0 .. MaxRecords]
    BY <2>1, Bounded DEF Types
  <2>3. Types'
    BY <1>1, <1>7, <2>2 DEF Finish, Types, db
  <2>4. UpToDate'
    BY <1>7, <2>1 DEF Finish, UpToDate, db
  <2> QED BY <1>2, <1>3, <1>4, <2>3, <2>4
<1>8. CASE Terminate
  <2>1. Types' /\ UpToDate'
    BY <1>8 DEF Terminate, Types, UpToDate, db, poll
  <2> QED BY <1>2, <1>3, <1>4, <2>1
<1>9. CASE Exit
  <2>1. Types' /\ UpToDate'
    BY <1>9 DEF Exit, Types, UpToDate, db
  <2> QED BY <1>2, <1>3, <1>4, <2>1
<1> QED BY <1>5, <1>6, <1>7, <1>8, <1>9

\* A new process reads the pairs back, and may lose a batch of its own.
LEMMA StartKeeps == ASSUME UsageSizes, UsageSeries, UsageIInv, Start PROVE UsageIInv'
<1> USE DEF UsageIInv
<1>1. /\ UNCHANGED <<queue, counts, hand, pops, committed, ok, born, gone>>
      /\ stage = "down" /\ stage' = "wait" /\ stopping' = FALSE /\ shown' = counts
      /\ starts < MaxStarts /\ starts' = starts + 1
      /\ pairs' = {s \in Pairs \cup {Overflow} : counts[s] > 0}
  BY DEF Start, Rendered
<1>2. Types'
  <2>1. shown' \in [Series -> 0 .. MaxRecords]
    BY <1>1, Bounded
  <2>2. starts' \in 0 .. MaxStarts
    BY <1>1 DEF Types, UsageSizes
  <2>3. pairs' \subseteq Pairs \cup {Overflow}
    BY <1>1
  <2> QED BY <1>1, <2>1, <2>2, <2>3 DEF Types
<1>3. Conserved'
  <2>1. Total(counts') = Total(counts) /\ Total(gone') = Total(gone)
    BY <1>1
  <2> QED BY <1>1, <2>1 DEF Conserved
<1>4. KilledOnce'
  <2>1. gone["killed"] \in Nat /\ starts \in Nat /\ Batch \in Nat
    BY Sizes DEF Reasons, Types, UsageSizes
  <2>2. (starts + 1) * Batch = starts * Batch + Batch
    BY <2>1
  <2>3. starts * Batch \in Nat /\ gone["killed"] <= starts * Batch
    BY <1>1, <2>1 DEF KilledOnce
  <2>4. gone'["killed"] + Batch <= starts' * Batch
    BY <1>1, <2>1, <2>2, <2>3
  <2> QED BY <1>1, <2>4 DEF KilledOnce
<1>5. UpToDate'
  BY <1>1 DEF UpToDate
<1>6. Capped'
  <2>1. Counted' = Counted /\ Counted = pairs' \cap Pairs
    BY <1>1 DEF Counted
  <2>2. Counted \subseteq pairs \cap Pairs
    BY DEF Capped, Counted
  <2>3. pairs \cap Pairs \in SUBSET Series
    BY DEF Series
  <2>4. IsFiniteSet(pairs \cap Pairs) /\ Cardinality(pairs \cap Pairs) \in Nat
    BY <2>3, SeriesAreFinite
  <2>5. Cardinality(Counted) <= Cardinality(pairs \cap Pairs) /\ Cardinality(Counted) \in Nat
    BY <2>2, <2>4, FS_Subset, FS_CardinalityType
  <2>6. Cardinality(Counted) <= MaxPairs
    BY <2>4, <2>5 DEF Capped, UsageSizes
  <2> QED BY <2>1, <2>6 DEF Capped
<1> QED BY <1>2, <1>3, <1>4, <1>5, <1>6

\* A killed process takes the batch in its hand with it.
LEMMA KillKeeps == ASSUME UsageSizes, UsageSeries, UsageIInv, Kill PROVE UsageIInv'
<1> USE DEF UsageIInv
<1>1. /\ UNCHANGED <<queue, counts, pairs, shown, pops, committed, ok, stopping, starts, born>>
      /\ stage # "down" /\ stage' = "down" /\ hand' = <<>> /\ Loses(Len(hand), "killed")
  BY DEF Kill, db
<1>2. /\ gone' \in [Reasons -> Nat] /\ Total(gone') = Total(gone) + Len(hand)
      /\ gone'["killed"] = gone["killed"] + Len(hand)
  BY <1>1, Sizes, LosesAdds DEF Reasons
<1>3. hand' \in Seq(Record) /\ Len(hand') = 0
  BY <1>1
<1>4. Types'
  BY <1>1, <1>2, <1>3 DEF Types, UsageSizes
<1>5. Conserved'
  <2>1. Total(counts') = Total(counts) /\ born' = born /\ queue' = queue
    BY <1>1
  <2>2. born' = Len(queue') + Len(hand') + Total(counts') + Total(gone')
    BY <1>2, <1>3, <2>1, Sizes DEF Conserved
  <2> QED BY <1>1, <2>2 DEF Conserved
<1>6. KilledOnce'
  <2>1. gone["killed"] \in Nat /\ Len(hand) \in Nat /\ Len(hand) <= Batch /\ Batch \in Nat
    BY Sizes DEF Reasons, Types, UsageSizes
  <2>2. starts * Batch \in Nat
    BY <2>1 DEF Types, UsageSizes
  <2>3. gone["killed"] + Batch <= starts * Batch
    BY <1>1 DEF KilledOnce
  <2>4. gone'["killed"] <= starts * Batch /\ gone'["killed"] \in Nat
    BY <1>2, <2>1, <2>2, <2>3
  <2> QED BY <1>1, <2>4 DEF KilledOnce
<1>7. UpToDate' /\ Capped'
  BY <1>1, Capping DEF UpToDate, db
<1> QED BY <1>4, <1>5, <1>6, <1>7

\* Every step keeps the invariant.
LEMMA UsageNextKeeps == ASSUME UsageSizes, UsageSeries, UsageIInv, [UsageNext]_usageVars PROVE UsageIInv'
<1>1. CASE UNCHANGED usageVars
  <2>1. UNCHANGED <<queue, counts, pairs, shown, stage, hand, pops, committed, ok, stopping, starts, born, gone>>
    BY <1>1 DEF usageVars
  <2>2. Total(counts') = Total(counts) /\ Total(gone') = Total(gone)
    BY <2>1
  <2>3. Types' /\ Conserved' /\ KilledOnce'
    BY <2>1, <2>2 DEF UsageIInv, Types, Conserved, KilledOnce
  <2>4. UpToDate' /\ Capped'
    BY <2>1, Capping DEF UsageIInv, UpToDate, db
  <2> QED BY <2>3, <2>4 DEF UsageIInv
<1>2. CASE UsageNext
  BY <1>2, QueueKeeps, CommitKeeps, RollbackKeeps, PollKeeps, PopKeeps, StartKeeps, KillKeeps DEF UsageNext
<1> QED BY <1>1, <1>2

\* The invariant of CLIProxy's queue, the poller and the store holds throughout.
THEOREM UsageInvariant == ASSUME UsageSizes, UsageSeries PROVE UsageSpec => []UsageIInv
<1>1. UsageIInv /\ [UsageNext]_usageVars => UsageIInv'
  BY UsageNextKeeps
<1> QED BY InitUsageIInv, <1>1, PTL DEF UsageSpec

\* Counts, caches and stages keep their types, within the bounds on them.
THEOREM UsageTypeCorrect == ASSUME UsageSizes, UsageSeries PROVE UsageSpec => []UsageTypeOK
<1>1. UsageIInv => UsageTypeOK
  <2> SUFFICES ASSUME UsageIInv PROVE UsageTypeOK
    OBVIOUS
  <2>1. counts \in [Series -> 0 .. MaxRecords] /\ gone \in [Reasons -> 0 .. MaxRecords]
    BY Bounded DEF UsageIInv
  <2> QED BY <2>1 DEF UsageIInv, Types, UsageTypeOK
<1> QED BY UsageInvariant, <1>1, PTL

\* apply() and _pop: no record is counted twice or in part, and a killed process
\* takes at most one batch with it.
THEOREM RecordsAreCountedOnce == ASSUME UsageSizes, UsageSeries PROVE UsageSpec => []CountedOnce
<1>1. UsageIInv => CountedOnce
  <2> SUFFICES ASSUME UsageIInv PROVE CountedOnce
    OBVIOUS
  <2>1. gone["killed"] \in Nat /\ starts * Batch \in Nat /\ Batch \in Nat
    BY Sizes DEF UsageIInv, Reasons, Types, UsageSizes
  <2>2. gone["killed"] <= starts * Batch
    BY <2>1 DEF UsageIInv, KilledOnce
  <2> QED BY <2>2 DEF UsageIInv, Conserved, CountedOnce
<1> QED BY UsageInvariant, <1>1, PTL

\* _finish and _pair: /metrics shows what was committed, and the series stay
\* within MAX_SERIES_PAIRS.
THEOREM CommittedIsShown == ASSUME UsageSizes, UsageSeries PROVE UsageSpec => []ShownAndCapped
<1>1. UsageIInv => ShownAndCapped
  <2> SUFFICES ASSUME UsageIInv PROVE ShownAndCapped
    OBVIOUS
  <2>1. Counted \subseteq pairs \cap Pairs
    BY DEF UsageIInv, Capped, Counted
  <2>2. pairs \cap Pairs \in SUBSET Series
    BY DEF Series
  <2>3. IsFiniteSet(pairs \cap Pairs) /\ Cardinality(pairs \cap Pairs) \in Nat
    BY <2>2, SeriesAreFinite
  <2>4. Cardinality(Counted) <= Cardinality(pairs \cap Pairs) /\ Cardinality(Counted) \in Nat
    BY <2>1, <2>3, FS_Subset, FS_CardinalityType
  <2>5. Cardinality(Counted) <= MaxPairs
    BY <2>3, <2>4 DEF UsageIInv, Capped, UsageSizes
  <2>6. stage = "wait" => shown = counts
    BY DEF UsageIInv, UpToDate
  <2> QED BY <2>5, <2>6 DEF ShownAndCapped, Counted
<1> QED BY UsageInvariant, <1>1, PTL

----------------------------------------------------------------------------
(* Briefing: instants and charts. *)

\* The day of an instant within the tariffs is one of theirs.
LEMMA DayInRange ==
  ASSUME BriefingSizes, NEW t \in Nat, t < 2 * (Days * PerDay)
  PROVE  DayOf(t) \in 0 .. Days - 1
<1>1. PerDay \in Nat \ {0} /\ Days \in Nat \ {0}
  BY DEF BriefingSizes
<1> DEFINE p == 2 * PerDay
<1>2. p \in Nat \ {0} /\ 2 * (Days * PerDay) = p * Days
  BY <1>1
<1> DEFINE d == t \div p
<1> HIDE DEF p
<1>3. t \div p \in Int /\ t % p \in 0 .. p - 1 /\ t = p * (t \div p) + (t % p)
  BY <1>2, Remainder
<1>4. d \in Int
  BY <1>3
<1>5. p * d \in Int /\ p * d <= t /\ t < p * Days /\ t < p * d + p
  <2>1. p * d \in Int
    BY <1>2, <1>4, MultiplesAreApart
  <2> QED BY <1>2, <1>3, <2>1
<1> HIDE DEF d
<1>6. d < Days
  <2>1. p * (d - Days) = p * d - p * Days /\ p * Days \in Int
    BY <1>1, <1>2, <1>4
  <2>2. d - Days >= 1 => p * (d - Days) >= p
    BY <1>1, <1>2, <1>4, MultiplesAreApart
  <2>3. d = Days => p * d = p * Days
    OBVIOUS
  <2> QED BY <1>1, <1>2, <1>5, <1>4, <2>1, <2>2, <2>3
<1>7. d >= 0
  <2>1. d <= -1 => p * d <= -p
    BY <1>2, <1>4, MultiplesAreApart
  <2> QED BY <1>2, <1>5, <1>4, <2>1
<1> QED BY <1>1, <1>4, <1>6, <1>7 DEF DayOf, d, p

\* An entity holds half-hours of the tariffs.
LEMMA RatesOfADay ==
  ASSUME BriefingSizes, NEW d \in 0 .. Days - 1 \cup {Nothing}
  PROVE  Of(d) \subseteq HalfHours
<1>1. CASE d = Nothing
  BY <1>1 DEF Of
<1>2. CASE d \in 0 .. Days - 1
  <2>1. PerDay \in Nat \ {0} /\ Days \in Nat \ {0} /\ d # Nothing /\ d \in Nat
    BY <1>2 DEF BriefingSizes
  <2>2. d * PerDay \in Nat /\ (d + 1) * PerDay <= Days * PerDay
    BY <1>2, <2>1
  <2>3. (d + 1) * PerDay \in Nat /\ Days * PerDay \in Nat
    BY <2>1
  <2>4. d * PerDay .. (d + 1) * PerDay - 1 \subseteq 0 .. Days * PerDay - 1
    BY <2>2, <2>3
  <2> QED BY <2>1, <2>4 DEF Of, HalfHours
<1> QED BY <1>1, <1>2

\* chart_slots: from the half-hour of t without a gap to the last one.
LEMMA ChartHasNoGap ==
  ASSUME BriefingSizes, NEW t \in Nat, NEW rates \in SUBSET HalfHours, Covering(t) \in rates
  PROVE  /\ Covering(t) \in Chart(rates, t) /\ Max(Chart(rates, t)) \in Chart(rates, t)
         /\ Chart(rates, t) \subseteq HalfHours
         /\ \A r \in Chart(rates, t) :
              Covering(t) <= r /\ r <= Max(Chart(rates, t)) /\ 2 * r < t + 2 * Horizon
         /\ Covering(t) .. Max(Chart(rates, t)) \subseteq Chart(rates, t)
<1>1. Horizon \in Nat \ {0} /\ Days * PerDay \in Nat /\ HalfHours \subseteq Nat
  BY DEF BriefingSizes, HalfHours
<1> DEFINE first  == Covering(t)
           inside == {r \in rates : 2 * r + 2 > t /\ 2 * r < t + 2 * Horizon}
           chart  == {r \in inside : \A q \in Min(inside) .. r : q \in inside}
<1>2. first \in Nat /\ first \in rates /\ 2 * first <= t /\ t < 2 * first + 2
  BY DEF Covering
<1> HIDE DEF first
<1>3. first \in inside /\ inside \subseteq Nat
  <2>1. 2 * first < t + 2 * Horizon
    BY <1>1, <1>2
  <2>2. first \in inside
    BY <1>2, <2>1
  <2>3. inside \subseteq HalfHours
    OBVIOUS
  <2> HIDE DEF inside
  <2> QED BY <1>1, <2>2, <2>3
<1>4. \A r \in inside : first <= r /\ r \in Nat
  BY <1>1, <1>2
<1>5. \A r \in inside : 2 * r < t + 2 * Horizon
  OBVIOUS
<1>6. inside \subseteq HalfHours
  OBVIOUS
<1>7. Chart(rates, t) = chart
  BY DEF Chart
<1> HIDE DEF inside
<1>8. Min(inside) = first
  <2>1. inside \subseteq Int /\ inside # {} /\ 0 \in Int /\ \A r \in inside : 0 <= r
    BY <1>3, <1>4
  <2>2. Min(inside) \in inside /\ \A r \in inside : Min(inside) <= r
    BY <2>1, LeastElement
  <2>3. first <= Min(inside) /\ Min(inside) \in Nat /\ Min(inside) <= first
    BY <1>3, <1>4, <2>2
  <2> QED BY <1>2, <2>3
<1>9. first \in chart
  <2>1. first .. first = {first}
    BY <1>2
  <2> QED BY <1>3, <1>8, <2>1
<1>10. Max(chart) \in chart /\ \A r \in chart : r <= Max(chart)
  <2>1. chart \subseteq Int /\ chart # {}
    <3>1. chart \subseteq inside
      OBVIOUS
    <3> HIDE DEF chart
    <3> QED BY <1>3, <1>9, <3>1
  <2>2. t + 2 * Horizon \in Int
    BY <1>1
  <2>3. \A r \in chart : r <= t + 2 * Horizon
    BY <1>1, <1>3, <1>5, <1>4
  <2> HIDE DEF chart
  <2> QED BY <2>1, <2>3, <2>2, GreatestElement
<1>11. ASSUME NEW q \in first .. Max(chart) PROVE q \in chart
  <2>1. Max(chart) \in Nat /\ \A k \in first .. Max(chart) : k \in inside
    BY <1>3, <1>8, <1>10
  <2>2. \A k \in first .. q : k \in first .. Max(chart)
    BY <1>2, <2>1
  <2> QED BY <1>8, <2>1, <2>2
<1>12. chart \subseteq inside
  OBVIOUS
<1> HIDE DEF chart
<1> QED BY <1>7, <1>9, <1>5, <1>10, <1>11, <1>6, <1>4, <1>12 DEF first

----------------------------------------------------------------------------
(* What a briefing says *)

\* A number for each half-hour.
Prices == pence \in [HalfHours -> Int]

\* cheapest and dearest are of the chart, and the extremes of its prices.
LEMMA ExtremesOfAChart ==
  ASSUME BriefingSizes, Prices, NEW chart, chart \subseteq HalfHours, chart # {}
  PROVE  /\ \A h \in chart : pence[Cheapest(chart)] <= pence[h]
         /\ \A h \in chart : pence[h] <= pence[Dearest(chart)]
<1> DEFINE low  == {r \in chart : \A q \in chart : pence[r] <= pence[q]}
           high == {r \in chart : \A q \in chart : pence[r] >= pence[q]}
           debt == [r \in chart |-> -pence[r]]
           last == Days * PerDay
<1>1. last \in Nat /\ HalfHours \subseteq 0 .. last /\ HalfHours \subseteq Int
  BY DEF BriefingSizes, HalfHours
<1>2. \A r \in chart : pence[r] \in Int /\ debt[r] \in Int /\ debt[r] = -pence[r]
  BY DEF Prices
<1> HIDE DEF last, debt
<1>3. low # {}
  BY <1>1, <1>2, LeastValue
<1>4. high # {}
  <2>1. PICK r \in chart : \A q \in chart : debt[r] <= debt[q]
    BY <1>1, <1>2, LeastValue
  <2>2. ASSUME NEW q \in chart PROVE pence[r] >= pence[q]
    <3>1. debt[r] <= debt[q] /\ debt[r] = -pence[r] /\ debt[q] = -pence[q]
      BY <1>2, <2>1
    <3>2. pence[r] \in Int /\ pence[q] \in Int
      BY <1>2
    <3> QED BY <3>1, <3>2
  <2> QED BY <2>2
<1>5. low \subseteq chart /\ high \subseteq chart
  OBVIOUS
<1>6. \A r \in low, q \in chart : pence[r] <= pence[q]
  OBVIOUS
<1>7. \A r \in high, q \in chart : pence[q] <= pence[r]
  BY <1>2
<1>8. Cheapest(chart) = Min(low) /\ Dearest(chart) = Min(high)
  BY DEF Cheapest, Dearest
<1> HIDE DEF low, high
<1>9. low \subseteq Int /\ high \subseteq Int /\ 0 \in Int
      /\ (\A r \in low : 0 <= r) /\ (\A r \in high : 0 <= r)
  <2>1. \A r \in chart : r \in Nat
    BY <1>1
  <2> QED BY <1>5, <2>1
<1>10. Min(low) \in low
  BY <1>3, <1>9, LeastElement
<1>11. Min(high) \in high
  BY <1>4, <1>9, LeastElement
<1> QED BY <1>6, <1>7, <1>8, <1>10, <1>11

\* A record of what was built, as far as anything is said of it.
LEMMA BuiltFields ==
  ASSUME NEW t, NEW rates
  PROVE  LET b == Built(rates, t) IN
         /\ b.kind = "briefing" /\ b.at = t
         /\ b.hours = {FloorHour(t), FloorHour(t) + 2, FloorHour(t) + 4}
         /\ b.chart = Chart(rates, t)
         /\ b.now2 = SumOver(rates, FloorHour(t)) /\ b.next2 = SumOver(rates, FloorHour(t) + 2)
         /\ b.cheapest = Cheapest(Chart(rates, t)) /\ b.dearest = Dearest(Chart(rates, t))
         /\ b.truncated = (2 * (Max(Chart(rates, t)) + 1) < t + 2 * Horizon)
BY DEF Built

\* An answer is none, a refusal, or a briefing built from rates of the tariffs.
Refusals == {"link", "deadline", "unavailable", "malformed", "no_coverage"}
IsBuilt(t, rates) ==
  t \in Nat /\ rates \subseteq HalfHours /\ Covering(t) \in rates /\ answer = Built(rates, t)
Answered ==
  \/ answer = Unsaid
  \/ \E kind \in Refusals : answer = Says(kind)
  \/ \E t, rates : IsBuilt(t, rates)

\* Only a built answer is spoken.
LEMMA SpokenIsBuilt ==
  ASSUME Answered, Spoken PROVE \E t, rates : IsBuilt(t, rates)
<1>1. ASSUME NEW kind \in Refusals, answer = Says(kind) PROVE FALSE
  BY <1>1 DEF Spoken, Says, Refusals
<1> QED BY <1>1 DEF Answered, Spoken

\* What was built says what BriefingIsRight asks of it.
LEMMA BuiltIsRight ==
  ASSUME BriefingSizes, Prices, Answered PROVE BriefingIsRight
<1> SUFFICES ASSUME Spoken PROVE BriefingIsRight
  BY DEF BriefingIsRight
<1>1. PICK t, rates : IsBuilt(t, rates)
  BY SpokenIsBuilt
<1> DEFINE chart == Chart(rates, t)
           hour  == FloorHour(t)
<1>2. t \in Nat /\ rates \in SUBSET HalfHours /\ Covering(t) \in rates
  BY <1>1 DEF IsBuilt
<1>3. /\ answer.at = t /\ answer.chart = chart
      /\ answer.now2 = SumOver(rates, hour) /\ answer.next2 = SumOver(rates, hour + 2)
      /\ answer.cheapest = Cheapest(chart) /\ answer.dearest = Dearest(chart)
      /\ answer.truncated = (2 * (Max(chart) + 1) < t + 2 * Horizon)
  BY <1>1, BuiltFields DEF IsBuilt
<1>4. /\ Covering(t) \in chart /\ Max(chart) \in chart /\ chart \subseteq HalfHours
      /\ Covering(t) .. Max(chart) \subseteq chart
  BY <1>2, ChartHasNoGap
<1> HIDE DEF chart, hour
<1>5. \A h \in Covering(t) .. Max(chart) :
         pence[Cheapest(chart)] <= pence[h] /\ pence[h] <= pence[Dearest(chart)]
  BY <1>4, ExtremesOfAChart
<1>6. /\ answer.now2 # Unpriced => answer.now2 = pence[hour] + pence[hour + 1]
      /\ answer.next2 # Unpriced => answer.next2 = pence[hour + 2] + pence[hour + 3]
  <2>1. hour \in Int
    BY <1>2 DEF hour, FloorHour
  <2>2. hour + 2 + 1 = hour + 3
    BY <2>1
  <2> QED BY <1>3, <2>2 DEF SumOver
<1>7. ~answer.truncated => 2 * (Max(chart) + 1) >= t + 2 * Horizon
  <2>1. Max(chart) \in Nat /\ Horizon \in Nat
    <3>1. Max(chart) \in HalfHours
      BY <1>4, Zenon
    <3>2. HalfHours \subseteq Nat /\ Horizon \in Nat
      BY DEF HalfHours, BriefingSizes
    <3> QED BY <3>1, <3>2
  <2>2. ~answer.truncated => ~(2 * (Max(chart) + 1) < t + 2 * Horizon)
    BY <1>3, Zenon
  <2> QED BY <1>2, <2>1, <2>2
<1> QED BY <1>3, <1>5, <1>6, <1>7 DEF BriefingIsRight, hour

----------------------------------------------------------------------------
(* The labels *)

\* Every boundary a briefing tells is within a day of every other one.
LEMMA ToldWithinADay ==
  ASSUME BriefingSizes, HorizonWithinDay, NEW t, NEW rates, IsBuilt(t, rates),
         NEW m \in ZonesOf(answer), NEW n \in ZonesOf(answer)
  PROVE  m \in Nat /\ n \in Nat /\ m - n < PerDay /\ n - m < PerDay
<1> DEFINE chart == Chart(rates, t)
           now   == Covering(t)
           hour  == FloorHour(t)
<1>1. t \in Nat /\ rates \in SUBSET HalfHours /\ Covering(t) \in rates
  BY DEF IsBuilt
<1>2. answer.chart = chart /\ answer.hours = {hour, hour + 2, hour + 4}
  BY BuiltFields DEF IsBuilt
<1>3. now \in Nat /\ hour \in Nat /\ hour <= now /\ now <= hour + 1 /\ t <= 2 * now + 1
  BY <1>1 DEF Covering, FloorHour
<1>4. Horizon \in Nat /\ PerDay \in Nat /\ Horizon + 2 < PerDay /\ 4 < PerDay
  BY DEF BriefingSizes, HorizonWithinDay
<1>5. chart \subseteq HalfHours /\ HalfHours \subseteq Nat
      /\ \A r \in chart : now <= r /\ 2 * r < t + 2 * Horizon
  BY <1>1, ChartHasNoGap DEF HalfHours
<1> HIDE DEF chart, now, hour
<1>6. ASSUME NEW k \in ZonesOf(answer)
      PROVE  k \in Nat /\ hour <= k /\ (k <= hour + 4 \/ k <= hour + Horizon + 2)
  <2>1. CASE k \in answer.hours
    BY <1>2, <1>3, <2>1
  <2>2. ASSUME NEW r \in chart, k \in {r, r + 1}
        PROVE  k \in Nat /\ hour <= k /\ k <= hour + Horizon + 2
    <3>1. r \in Nat /\ now <= r /\ 2 * r < t + 2 * Horizon
      BY <1>5
    <3>2. r <= now + Horizon
      BY <1>1, <1>3, <1>4, <3>1
    <3> QED BY <1>3, <1>4, <2>2, <3>1, <3>2
  <2> QED BY <1>2, <2>1, <2>2 DEF ZonesOf
<1>7. m \in Nat /\ hour <= m /\ (m <= hour + 4 \/ m <= hour + Horizon + 2)
  BY <1>6
<1>8. n \in Nat /\ hour <= n /\ (n <= hour + 4 \/ n <= hour + Horizon + 2)
  BY <1>6
<1> QED BY <1>3, <1>4, <1>7, <1>8

\* A label says the zone when more than one is about: equal labels are of one.
LEMMA OneZonePerLabel ==
  ASSUME NEW b, NEW m \in ZonesOf(b), NEW n \in ZonesOf(b), Label(b, m) = Label(b, n)
  PROVE  Zone(m) = Zone(n) /\ Local(m) % PerDay = Local(n) % PerDay
<1> DEFINE zones == {Zone(x) : x \in ZonesOf(b)}
<1>1. Local(m) % PerDay = Local(n) % PerDay
      /\ (Cardinality(zones) > 1 => Zone(m) = Zone(n))
  BY DEF Label
<1>2. ASSUME Zone(m) # Zone(n) PROVE Cardinality(zones) > 1
  <2>1. zones = {"BST", "GMT"}
    BY <1>2 DEF Zone
  <2>2. IsFiniteSet({"BST"}) /\ Cardinality({"BST"}) = 1
    BY FS_Singleton
  <2>3. Cardinality({"BST"} \cup {"GMT"}) = 2
    BY <2>2, FS_AddElement
  <2>4. {"BST"} \cup {"GMT"} = zones
    BY <2>1
  <2> QED BY <2>3, <2>4
<1> QED BY <1>1, <1>2

\* No two instants of a briefing have the same label.
LEMMA BuiltLabelsDiffer ==
  ASSUME BriefingSizes, HorizonWithinDay, Answered PROVE LabelsDiffer
<1> SUFFICES ASSUME Spoken, NEW m \in ZonesOf(answer), NEW n \in ZonesOf(answer),
                    Label(answer, m) = Label(answer, n)
             PROVE  m = n
  BY DEF LabelsDiffer, ZonesOf
<1>1. PICK t, rates : IsBuilt(t, rates)
  BY SpokenIsBuilt
<1>2. m \in Nat /\ n \in Nat /\ m - n < PerDay /\ n - m < PerDay
  BY <1>1, ToldWithinADay
<1>3. Zone(m) = Zone(n) /\ Local(m) % PerDay = Local(n) % PerDay
  BY OneZonePerLabel
<1>4. PerDay \in Nat \ {0}
  BY DEF BriefingSizes
<1>5. Local(m) = Local(n)
  <2>1. Local(m) \in Int /\ Local(n) \in Int /\ Local(m) - Local(n) = m - n
    BY <1>2, <1>3 DEF Local
  <2>2. Local(m) - Local(n) < PerDay /\ Local(n) - Local(m) < PerDay
    BY <1>2, <1>4, <2>1
  <2> QED BY <1>3, <1>4, <2>1, <2>2, SameRemainder
<1> QED BY <1>2, <1>3, <1>5 DEF Local

----------------------------------------------------------------------------
(* The inductive invariant *)

Kinds == Failures \cup {"pending", "ok", "timeout"}
Fetched == [kind : Kinds, rates : SUBSET HalfHours]

BriefingIInv ==
  /\ clock \in Nat /\ clock < 2 * (Days * PerDay)
  /\ Prices
  /\ today \in 0 .. Days - 1 /\ tomorrow \in 0 .. Days - 1 \cup {Nothing}
  /\ got \in [Feeds -> Fetched]
  /\ Answered

\* The half-hours of the tariffs.
LEMMA CountOfHalfHours == ASSUME BriefingSizes PROVE Cardinality(HalfHours) = Days * PerDay
<1>1. Days * PerDay \in Nat \ {0}
  BY DEF BriefingSizes
<1> DEFINE last == Days * PerDay - 1
<1>2. last \in Int /\ last + 1 = Days * PerDay /\ 0 <= last
  BY <1>1
<1> HIDE DEF last
<1>3. Cardinality(0 .. last) = last - 0 + 1
  BY <1>2, FS_Interval
<1> QED BY <1>2, <1>3 DEF HalfHours, last

\* A fresh skill satisfies it.
LEMMA InitBriefingIInv == ASSUME BriefingSizes, BriefingInit PROVE BriefingIInv
<1>1. 0 \in Nat /\ 0 < 2 * (Days * PerDay) /\ 0 \in 0 .. Days - 1
  BY DEF BriefingSizes
<1>2. Prices
  BY DEF BriefingInit, BriefingSizes, Prices, HalfHours
<1>3. got \in [Feeds -> Fetched]
  BY DEF BriefingInit, Fetched, Pending, Kinds
<1> QED BY <1>1, <1>2, <1>3 DEF BriefingInit, BriefingIInv, Answered

\* While neither changes, what was answered stays an answer.
LEMMA SameAnswer == ASSUME Answered, UNCHANGED <<pence, answer>> PROVE Answered'
<1>1. ASSUME NEW t, NEW rates, IsBuilt(t, rates) PROVE IsBuilt(t, rates)'
  BY <1>1 DEF IsBuilt, Built, SumOver, Cheapest, Dearest
<1> QED BY <1>1 DEF Answered

\* Time and the rate entities leave what was said.
LEMMA WorldKeepsBriefing ==
  ASSUME BriefingSizes, BriefingIInv, TimePasses \/ RollOver \/ PublishTomorrow
  PROVE  BriefingIInv'
<1>1. UNCHANGED <<pence, got, answer>>
  BY DEF TimePasses, RollOver, PublishTomorrow
<1>2. Prices' /\ got' \in [Feeds -> Fetched] /\ Answered'
  BY <1>1, SameAnswer DEF BriefingIInv, Prices
<1>3. CASE TimePasses
  <2>1. clock' \in Nat /\ clock' < 2 * (Days * PerDay)
    BY <1>3, CountOfHalfHours DEF BriefingIInv, TimePasses
  <2> QED BY <1>2, <1>3, <2>1 DEF BriefingIInv, TimePasses
<1>4. CASE RollOver
  <2>1. DayOf(clock) \in 0 .. Days - 1
    BY DayInRange DEF BriefingIInv
  <2>2. today' \in 0 .. Days - 1
    <3>1. Days \in Nat /\ DayOf(clock) > today /\ today' = today + 1 /\ today \in 0 .. Days - 1
      BY <1>4 DEF BriefingSizes, BriefingIInv, RollOver
    <3> QED BY <2>1, <3>1
  <2> QED BY <1>2, <1>4, <2>2 DEF BriefingIInv, RollOver
<1>5. CASE PublishTomorrow
  <2>1. tomorrow' \in 0 .. Days - 1
    BY <1>5 DEF BriefingIInv, PublishTomorrow, BriefingSizes
  <2> QED BY <1>2, <1>5, <2>1 DEF BriefingIInv, PublishTomorrow
<1> QED BY <1>3, <1>4, <1>5

\* A fetch returns rates of an entity's day, or none.
LEMMA FetchKeepsBriefing ==
  ASSUME BriefingSizes, BriefingIInv, NEW f \in Feeds, Fetch(f) PROVE BriefingIInv'
<1>1. UNCHANGED <<clock, pence, today, tomorrow, answer>>
  BY DEF Fetch
<1>2. PICK kind \in Failures \cup {"ok"}, day \in 0 .. Days - 1 \cup {Nothing} :
         got' = [got EXCEPT ![f] = [kind |-> kind, rates |-> IF kind = "ok" THEN Of(day) ELSE {}]]
  <2>1. CASE \E kind \in Failures : got' = [got EXCEPT ![f] = [kind |-> kind, rates |-> {}]]
    <3>1. PICK kind \in Failures : got' = [got EXCEPT ![f] = [kind |-> kind, rates |-> {}]]
      BY <2>1
    <3>2. kind # "ok"
      BY DEF Failures
    <3> QED BY <3>1, <3>2, Zenon
  <2>2. CASE \E day \in {IF f = "current" THEN today ELSE tomorrow, Nothing} :
               got' = [got EXCEPT ![f] = [kind |-> "ok", rates |-> Of(day)]]
    <3>1. PICK day \in {IF f = "current" THEN today ELSE tomorrow, Nothing} :
            got' = [got EXCEPT ![f] = [kind |-> "ok", rates |-> Of(day)]]
      BY <2>2
    <3>2. day \in 0 .. Days - 1 \cup {Nothing}
      BY DEF BriefingIInv
    <3> QED BY <3>1, <3>2, Zenon
  <2> QED BY <2>1, <2>2 DEF Fetch
<1> DEFINE seen == [kind |-> kind, rates |-> IF kind = "ok" THEN Of(day) ELSE {}]
<1>3. Of(day) \subseteq HalfHours
  BY RatesOfADay
<1>4. seen \in Fetched
  BY <1>3 DEF Fetched, Kinds
<1>5. got' \in [Feeds -> Fetched]
  <2> HIDE DEF seen
  <2>1. got' = [got EXCEPT ![f] = seen]
    BY <1>2 DEF seen
  <2> QED BY <1>4, <2>1 DEF BriefingIInv
<1> QED BY <1>1, <1>5, SameAnswer DEF BriefingIInv, Prices

\* A deadline only marks fetches.
LEMMA DeadlineKeepsBriefing ==
  ASSUME BriefingSizes, BriefingIInv, Deadline PROVE BriefingIInv'
<1>1. UNCHANGED <<clock, pence, today, tomorrow, answer>>
  BY DEF Deadline
<1>2. got' \in [Feeds -> Fetched]
  <2>1. \A f \in Feeds : got[f] \in Fetched /\ [got[f] EXCEPT !.kind = "timeout"] \in Fetched
    BY DEF BriefingIInv, Fetched, Kinds
  <2> QED BY <2>1 DEF Deadline
<1> QED BY <1>1, <1>2, SameAnswer DEF BriefingIInv, Prices

\* A reply is built from what was fetched, for the instant it is built at.
LEMMA RespondKeepsBriefing ==
  ASSUME BriefingSizes, BriefingIInv, Respond \/ Again PROVE BriefingIInv'
<1>1. UNCHANGED <<clock, pence, today, tomorrow>>
  BY DEF Respond, Again
<1>2. got' \in [Feeds -> Fetched]
  BY DEF BriefingIInv, Respond, Again, Fetched, Pending, Kinds
<1>3. CASE Again
  <2>1. Answered'
    BY <1>3 DEF Again, Answered
  <2> QED BY <1>1, <1>2, <2>1 DEF BriefingIInv, Prices
<1>4. CASE Respond
  <2>1. MergedRates \subseteq HalfHours
    BY DEF MergedRates, BriefingIInv, Fetched
  <2>2. answer' = Reply
    BY <1>4 DEF Respond
  <2>3. CASE Reply = Built(MergedRates, clock) /\ Covering(clock) \in MergedRates
    <3>1. answer' = Built(MergedRates, clock)'
      BY <1>1, <1>2, <1>4, <2>2, <2>3 DEF Respond, Built, MergedRates, SumOver, Cheapest, Dearest
    <3> DEFINE rates == MergedRates
    <3>2. IsBuilt(clock, rates)'
      BY <1>1, <1>4, <2>1, <2>3, <3>1 DEF IsBuilt, BriefingIInv, Respond, MergedRates
    <3> QED BY <1>1, <1>2, <3>2 DEF BriefingIInv, Prices, Answered
  <2>4. CASE \E kind \in Refusals : Reply = Says(kind)
    <3>1. Answered'
      BY <2>2, <2>4 DEF Answered, Says
    <3> QED BY <1>1, <1>2, <3>1 DEF BriefingIInv, Prices
  <2> QED BY <2>3, <2>4 DEF Reply, Refusals
<1> QED BY <1>3, <1>4

\* Every step keeps the invariant.
LEMMA BriefingNextKeeps ==
  ASSUME BriefingSizes, BriefingIInv, [BriefingNext]_briefingVars PROVE BriefingIInv'
<1>1. CASE UNCHANGED briefingVars
  BY <1>1, SameAnswer DEF briefingVars, BriefingIInv, Prices
<1> QED BY <1>1, WorldKeepsBriefing, FetchKeepsBriefing, DeadlineKeepsBriefing, RespondKeepsBriefing
        DEF BriefingNext

----------------------------------------------------------------------------
(* The theorems. *)

\* The invariant holds in every state of the skill.
THEOREM BriefingInvariant ==
  ASSUME BriefingSizes PROVE BriefingSpec => []BriefingIInv
<1>1. BriefingInit => BriefingIInv
  BY InitBriefingIInv
<1>2. BriefingIInv /\ [BriefingNext]_briefingVars => BriefingIInv'
  BY BriefingNextKeeps
<1> QED BY <1>1, <1>2, PTL DEF BriefingSpec

\* Every fetch holds half-hours of the tariffs, and what is answered is a briefing
\* or one of the refusals.
THEOREM BriefingTypeCorrect ==
  ASSUME BriefingSizes PROVE BriefingSpec => []BriefingTypeOK
<1>1. BriefingIInv => BriefingTypeOK
  <2> SUFFICES ASSUME BriefingIInv PROVE BriefingTypeOK
    OBVIOUS
  <2>1. clock \in 0 .. 2 * Cardinality(HalfHours) - 1
    BY CountOfHalfHours DEF BriefingIInv, BriefingSizes
  <2>2. \A f \in Feeds : got[f].kind \in Kinds /\ got[f].rates \subseteq HalfHours
    BY DEF BriefingIInv, Fetched
  <2>3. answer = Unsaid \/ answer.kind \in Refusals \cup {"briefing"}
    BY BuiltFields DEF BriefingIInv, Answered, IsBuilt, Says
  <2> QED BY <2>1, <2>2, <2>3 DEF BriefingIInv, BriefingTypeOK, Kinds, Refusals
<1> QED BY <1>1, BriefingInvariant, PTL

\* What _build_response says of now, of the next two hours, of the cheapest and the
\* dearest half-hour is what the tariffs say, whichever entities rolled over, were
\* published late, failed or have holes.
THEOREM BriefingsAreTrue ==
  ASSUME BriefingSizes PROVE BriefingSpec => []BriefingIsRight
<1>1. BriefingIInv => BriefingIsRight
  BY BuiltIsRight DEF BriefingIInv
<1> QED BY <1>1, BriefingInvariant, PTL

\* No two instants of a briefing are told alike, through the hour that comes twice:
\* they are less than a day apart, and where both zones occur the label says which.
THEOREM InstantsAreToldApart ==
  ASSUME BriefingSizes, HorizonWithinDay PROVE BriefingSpec => []LabelsDiffer
<1>1. BriefingIInv => LabelsDiffer
  BY BuiltLabelsDiffer DEF BriefingIInv
<1> QED BY <1>1, BriefingInvariant, PTL
=============================================================================
