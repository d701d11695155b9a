--------------------------- MODULE Basics_proofs ----------------------------
(***************************************************************************)
(* Facts that the proofs of several components share. What Select returns, *)
(* for every sequence: a sequence of the selected elements, all of them,   *)
(* in the order they had. What Min and Max return of a set of integers     *)
(* that has a bound, and what % and multiples of a number are.             *)
(*                                                                         *)
(* The facts about a recursive function, and about the least element of a  *)
(* set, come by induction over the set of the numbers they hold for, from  *)
(* the well-foundedness of < on Nat: the library's induction theorems take *)
(* an operator and cannot be cited.                                        *)
(***************************************************************************)
EXTENDS SeqSelect, Integers, FiniteSetsExt, SequenceTheorems, WellFoundedInduction, TLAPS

\* A set with 0 and every successor of its elements has every natural number:
\* a least number outside of it would have a predecessor inside.
LEMMA SetInduction ==
  ASSUME NEW P, 0 \in P, \A n \in Nat : n \in P => n + 1 \in P
  PROVE  Nat \subseteq P
<1> DEFINE less == OpToRel(<, Nat)
           bad == Nat \ P
<1>1. IsWellFoundedOn(less, Nat)
  BY NatLessThanWellFounded, Zenon
<1>2. \A x, y \in Nat : x < y => <<x, y>> \in less
  BY Zenon DEF OpToRel
<1> HIDE DEF less
<1>3. SUFFICES ASSUME bad # {} PROVE FALSE
  OBVIOUS
<1>4. PICK x \in bad : \A y \in bad : <<y, x>> \notin less
  BY <1>1, <1>3, WFMin
<1>5. x - 1 \in bad /\ x - 1 < x
  OBVIOUS
<1> QED BY <1>2, <1>4, <1>5

\* The recursive definition defines the function: there is one up to each N.
LEMMA ChosenIsDefined ==
  ASSUME NEW S, NEW s \in Seq(S), NEW T
  PROVE  Chosen(s, T) =
           [n \in 0 .. Len(s) |->
              IF n = 0 THEN <<>>
              ELSE IF s[n] \in T THEN Append(Chosen(s, T)[n - 1], s[n]) ELSE Chosen(s, T)[n - 1]]
<1> DEFINE Body(f, n) == IF n = 0 THEN <<>>
                         ELSE IF s[n] \in T THEN Append(f[n - 1], s[n]) ELSE f[n - 1]
           P == {N \in Nat : \E f : f = [n \in 0 .. N |-> Body(f, n)]}
<1>1. 0 \in P
  <2> DEFINE f == [n \in 0 .. 0 |-> <<>>]
  <2>1. f = [n \in 0 .. 0 |-> Body(f, n)]
    OBVIOUS
  <2> HIDE DEF f
  <2> QED BY <2>1
<1>2. ASSUME NEW N \in Nat, N \in P PROVE N + 1 \in P
  <2>1. PICK f : f = [n \in 0 .. N |-> Body(f, n)]
    BY <1>2
  <2> DEFINE g == [n \in 0 .. N + 1 |-> IF n = N + 1 THEN Body(f, N + 1) ELSE f[n]]
  <2>2. ASSUME NEW n \in 0 .. N + 1 PROVE g[n] = Body(g, n)
    <3>1. CASE n = N + 1
      <4>1. g[n - 1] = f[n - 1] /\ n - 1 \in 0 .. N
        BY <3>1
      <4> QED BY <3>1, <4>1
    <3>2. CASE n \in 1 .. N
      <4>1. g[n - 1] = f[n - 1] /\ n \in 0 .. N
        BY <3>2
      <4>2. g[n] = f[n]
        BY <3>2
      <4>3. f[n] = Body(f, n)
        BY <2>1, <4>1
      <4> QED BY <4>1, <4>2, <4>3, <3>2
    <3>3. CASE n = 0
      BY <3>3, <2>1
    <3> QED BY <3>1, <3>2, <3>3
  <2>3. g = [n \in 0 .. N + 1 |-> Body(g, n)]
    BY <2>2
  <2> HIDE DEF g
  <2> QED BY <2>3
<1>3. Len(s) \in P
  <2> HIDE DEF P
  <2> QED BY <1>1, <1>2, SetInduction
<1>4. \E f : f = [n \in 0 .. Len(s) |-> Body(f, n)]
  BY <1>3
<1> QED BY <1>4, Zenon DEF Chosen

\* pos[k] is the place in the first n of s of the k-th of r.
Picks(pos, r, s, T, n) ==
  /\ pos \in [1 .. Len(r) -> 1 .. n]
  /\ \A k \in 1 .. Len(r) : r[k] = s[pos[k]] /\ s[pos[k]] \in T
  /\ \A j, k \in 1 .. Len(r) : j < k => pos[j] < pos[k]
  /\ \A i \in 1 .. n : s[i] \in T => \E k \in 1 .. Len(r) : pos[k] = i

\* Each prefix of the selection picks all of the prefix it is selected from.
LEMMA ChosenPicks ==
  ASSUME NEW S, NEW s \in Seq(S), NEW T, NEW n \in 0 .. Len(s)
  PROVE  Chosen(s, T)[n] \in Seq(S) /\ \E pos : Picks(pos, Chosen(s, T)[n], s, T, n)
<1> DEFINE c == Chosen(s, T)
           Good(m) == c[m] \in Seq(S) /\ \E pos : Picks(pos, c[m], s, T, m)
           P == {m \in Nat : m <= Len(s) => Good(m)}
<1>0. c = [m \in 0 .. Len(s) |->
             IF m = 0 THEN <<>> ELSE IF s[m] \in T THEN Append(c[m - 1], s[m]) ELSE c[m - 1]]
  <2>1. Chosen(s, T) =
          [k \in 0 .. Len(s) |->
             IF k = 0 THEN <<>>
             ELSE IF s[k] \in T THEN Append(Chosen(s, T)[k - 1], s[k]) ELSE Chosen(s, T)[k - 1]]
    BY ChosenIsDefined
  <2> QED BY <2>1
<1> HIDE DEF c
<1>1. \A m \in 0 .. Len(s) :
        c[m] = IF m = 0 THEN <<>> ELSE IF s[m] \in T THEN Append(c[m - 1], s[m]) ELSE c[m - 1]
  BY <1>0
<1>2. 0 \in P
  <2>1. c[0] = <<>>
    BY <1>1
  <2>2. Picks(<<>>, <<>>, s, T, 0)
    BY DEF Picks
  <2>3. c[0] \in Seq(S) /\ \E pos : Picks(pos, c[0], s, T, 0)
    BY <2>1, <2>2
  <2> QED BY <2>3
<1>3. ASSUME NEW m \in Nat, m \in P PROVE m + 1 \in P
  <2> SUFFICES ASSUME m + 1 <= Len(s) PROVE Good(m + 1)
    OBVIOUS
  <2>1. Good(m) /\ s[m + 1] \in S
    BY <1>3
  <2>2. PICK pos : Picks(pos, c[m], s, T, m)
    BY <2>1
  <2>3. CASE s[m + 1] \notin T
    <3>1. c[m + 1] = c[m]
      BY <1>1, <2>3
    <3>2. Picks(pos, c[m], s, T, m + 1)
      BY <2>2, <2>3, <2>1 DEF Picks
    <3> QED BY <2>1, <3>1, <3>2
  <2>4. CASE s[m + 1] \in T
    <3> DEFINE r == Append(c[m], s[m + 1])
               q == [k \in 1 .. Len(c[m]) + 1 |-> IF k = Len(c[m]) + 1 THEN m + 1 ELSE pos[k]]
    <3>1. c[m + 1] = r
      <4>1. m + 1 \in 0 .. Len(s) /\ m + 1 # 0 /\ (m + 1) - 1 = m
        OBVIOUS
      <4> QED BY <1>1, <2>4, <4>1, Zenon
    <3>2. r \in Seq(S) /\ Len(r) = Len(c[m]) + 1 /\ Len(c[m]) \in Nat
      BY <2>1
    <3>3. \A k \in 1 .. Len(r) : r[k] = IF k = Len(r) THEN s[m + 1] ELSE c[m][k]
      BY <2>1
    <3> HIDE DEF r
    <3>4. q \in [1 .. Len(r) -> 1 .. m + 1]
      BY <2>2, <3>2 DEF Picks
    <3>5. \A k \in 1 .. Len(r) : r[k] = s[q[k]] /\ s[q[k]] \in T
      BY <2>2, <2>4, <3>2, <3>3 DEF Picks
    <3>6. \A j, k \in 1 .. Len(r) : j < k => q[j] < q[k]
      <4> SUFFICES ASSUME NEW j \in 1 .. Len(r), NEW k \in 1 .. Len(r), j < k PROVE q[j] < q[k]
        OBVIOUS
      <4>1. j \in 1 .. Len(c[m]) /\ q[j] = pos[j] /\ pos[j] \in 1 .. m
        <5>1. j \in 1 .. Len(c[m]) /\ j # Len(c[m]) + 1
          BY <3>2
        <5>2. pos[j] \in 1 .. m
          BY <5>1, <2>2 DEF Picks
        <5> QED BY <5>1, <5>2, <3>2
      <4>2. CASE k = Len(r)
        BY <4>1, <4>2, <3>2
      <4>3. CASE k # Len(r)
        BY <4>1, <4>3, <2>2, <3>2 DEF Picks
      <4> QED BY <4>2, <4>3
    <3>7. \A i \in 1 .. m + 1 : s[i] \in T => \E k \in 1 .. Len(r) : q[k] = i
      <4> SUFFICES ASSUME NEW i \in 1 .. m + 1, s[i] \in T PROVE \E k \in 1 .. Len(r) : q[k] = i
        OBVIOUS
      <4>1. CASE i = m + 1
        BY <4>1, <3>2
      <4>2. CASE i \in 1 .. m
        <5>1. PICK k \in 1 .. Len(c[m]) : pos[k] = i
          BY <4>2, <2>2 DEF Picks
        <5>2. k \in 1 .. Len(r) /\ q[k] = i
          BY <5>1, <3>2
        <5> QED BY <5>2
      <4> QED BY <4>1, <4>2
    <3> HIDE DEF q
    <3>8. Picks(q, r, s, T, m + 1)
      BY <3>4, <3>5, <3>6, <3>7 DEF Picks
    <3> QED BY <3>1, <3>2, <3>8
  <2> QED BY <2>3, <2>4
<1>4. n \in P
  <2> HIDE DEF P
  <2> QED BY <1>2, <1>3, SetInduction
<1> QED BY <1>4 DEF c

\* The selection is a sequence of elements, at growing places of s.
LEMMA SelectProperties ==
  ASSUME NEW S, NEW s \in Seq(S), NEW T
  PROVE  /\ Select(s, T) \in Seq(S)
         /\ \E pos : Picks(pos, Select(s, T), s, T, Len(s))
BY ChosenPicks DEF Select

\* Exactly the elements of the set are selected.
LEMMA SelectRange ==
  ASSUME NEW S, NEW s \in Seq(S), NEW T
  PROVE  Range(Select(s, T)) = Range(s) \cap T
<1> DEFINE r == Select(s, T)
<1>1. r \in Seq(S)
  BY SelectProperties
<1>2. PICK pos : Picks(pos, r, s, T, Len(s))
  BY SelectProperties
<1>3. Range(r) = {r[k] : k \in 1 .. Len(r)} /\ Range(s) = {s[k] : k \in 1 .. Len(s)}
  BY <1>1, RangeEquality
<1> HIDE DEF r
<1>4. Range(r) \subseteq Range(s) \cap T
  BY <1>2, <1>3 DEF Picks
<1>5. ASSUME NEW i \in 1 .. Len(s), s[i] \in T PROVE s[i] \in Range(r)
  BY <1>2, <1>3, <1>5 DEF Picks
<1> QED BY <1>3, <1>4, <1>5 DEF r

----------------------------------------------------------------------------
(* Least and greatest elements, and remainders. *)

\* A set of integers with a lower bound has a least element, which is its Min.
LEMMA LeastElement ==
  ASSUME NEW S, S \subseteq Int, S # {}, NEW b \in Int, \A y \in S : b <= y
  PROVE  Min(S) \in S /\ \A y \in S : Min(S) <= y
<1> DEFINE less == OpToRel(<, Nat)
           over == {n \in Nat : n + b \in S}
<1>1. IsWellFoundedOn(less, Nat)
  BY NatLessThanWellFounded, Zenon
<1>2. \A x, y \in Nat : x < y => <<x, y>> \in less
  BY Zenon DEF OpToRel
<1>3. \A y \in S : y - b \in over
  <2> TAKE y \in S
  <2>1. y \in Int /\ b <= y
    OBVIOUS
  <2>2. y - b \in Nat /\ (y - b) + b = y
    BY <2>1
  <2> QED BY <2>2
<1>4. over \subseteq Nat /\ over # {}
  BY <1>3
<1> HIDE DEF less
<1>5. PICK x \in over : \A y \in over : <<y, x>> \notin less
  <2> HIDE DEF over
  <2> QED BY <1>1, <1>4, WFMin
<1>6. x \in Nat /\ x + b \in S
  OBVIOUS
<1>7. ASSUME NEW y \in S PROVE x + b <= y
  <2>1. y - b \in Nat /\ ~(y - b < x) /\ y \in Int
    BY <1>2, <1>3, <1>4, <1>5
  <2> QED BY <1>6, <2>1
<1> QED BY <1>6, <1>7 DEF Min

\* The least of two numbers.
LEMMA LeastOfTwo ==
  ASSUME NEW a \in Int, NEW b \in Int
  PROVE  Min({a, b}) = IF b < a THEN b ELSE a
<1>1. {a, b} \subseteq Int /\ a \in {a, b} /\ a \in Int
  OBVIOUS
<1>2. Min({a, b}) \in {a, b} /\ \A x \in {a, b} : Min({a, b}) <= x
  <2> DEFINE S == {a, b}
             m == IF a < b THEN a ELSE b
  <2>1. m \in Int /\ \A x \in S : m <= x
    OBVIOUS
  <2>2. S \subseteq Int /\ a \in S
    OBVIOUS
  <2> HIDE DEF S, m
  <2>3. Min(S) \in S /\ \A x \in S : Min(S) <= x
    BY <2>1, <2>2, LeastElement
  <2> QED BY <2>3 DEF S
<1> QED BY <1>2

\* One with an upper bound has a greatest element, which is its Max.
LEMMA GreatestElement ==
  ASSUME NEW S, S \subseteq Int, S # {}, NEW b \in Int, \A y \in S : y <= b
  PROVE  Max(S) \in S /\ \A y \in S : y <= Max(S)
<1> DEFINE under == {y \in Int : -y \in S}
<1>1. \A y \in S : -y \in under
  <2> TAKE y \in S
  <2>1. -y \in Int /\ -(-y) = y
    OBVIOUS
  <2> QED BY <2>1
<1>2. under \subseteq Int /\ under # {} /\ -b \in Int
  <2>1. PICK y \in S : TRUE
    OBVIOUS
  <2>2. -y \in under
    BY <1>1
  <2> QED BY <2>2
<1>3. ASSUME NEW y \in under PROVE -b <= y
  <2>1. y \in Int /\ -y <= b
    OBVIOUS
  <2> QED BY <2>1
<1>4. Min(under) \in under /\ \A y \in under : Min(under) <= y
  <2> HIDE DEF under
  <2> QED BY <1>2, <1>3, LeastElement
<1> DEFINE x == -Min(under)
<1>5. x \in S /\ x \in Int
  BY <1>4
<1>6. ASSUME NEW y \in S PROVE y <= x
  <2>1. Min(under) <= -y /\ Min(under) \in Int /\ y \in Int
    BY <1>1, <1>4
  <2> QED BY <2>1
<1> HIDE DEF x
<1> QED BY <1>5, <1>6 DEF Max

\* A function has a least value on a nonempty set of numbers with a bound.
LEMMA LeastValue ==
  ASSUME NEW S, S # {}, NEW b \in Nat, S \subseteq 0 .. b, NEW f, \A x \in S : f[x] \in Int
  PROVE  \E x \in S : \A y \in S : f[x] <= f[y]
<1> DEFINE P == {n \in Nat : S \cap 0 .. n # {} =>
                   \E x \in S \cap 0 .. n : \A y \in S \cap 0 .. n : f[x] <= f[y]}
<1>1. 0 \in P
  OBVIOUS
<1>2. ASSUME NEW n \in Nat, n \in P PROVE n + 1 \in P
  <2>1. CASE n + 1 \notin S
    <3>1. S \cap 0 .. n + 1 = S \cap 0 .. n
      BY <2>1
    <3> QED BY <1>2, <3>1
  <2>2. CASE n + 1 \in S /\ S \cap 0 .. n = {}
    <3>1. S \cap 0 .. n + 1 = {n + 1}
      BY <2>2
    <3> QED BY <2>2, <3>1
  <2>3. CASE n + 1 \in S /\ S \cap 0 .. n # {}
    <3>1. PICK x \in S \cap 0 .. n : \A y \in S \cap 0 .. n : f[x] <= f[y]
      BY <1>2, <2>3
    <3>2. S \cap 0 .. n + 1 = (S \cap 0 .. n) \cup {n + 1}
      BY <2>3
    <3>3. CASE f[x] <= f[n + 1]
      BY <3>1, <3>2, <3>3
    <3>4. CASE f[n + 1] < f[x]
      BY <2>3, <3>1, <3>2, <3>4
    <3> QED BY <2>3, <3>3, <3>4
  <2> QED BY <2>1, <2>2, <2>3
<1>3. b \in P
  <2> HIDE DEF P
  <2> QED BY <1>1, <1>2, SetInduction
<1>4. S \cap 0 .. b = S
  OBVIOUS
<1> QED BY <1>3, <1>4

\* A multiple of p other than 0 is at least p away from it.
LEMMA MultiplesAreApart ==
  ASSUME NEW p \in Nat \ {0}, NEW k \in Int
  PROVE  p * k \in Int /\ (k >= 1 => p * k >= p) /\ (k <= -1 => p * k <= -p)
OBVIOUS

\* What % returns.
LEMMA Remainder ==
  ASSUME NEW p \in Nat \ {0}, NEW a \in Int
  PROVE  a \div p \in Int /\ a % p \in 0 .. p - 1 /\ a = p * (a \div p) + (a % p)
OBVIOUS

\* Numbers less than p apart with one remainder are one number.
LEMMA SameRemainder ==
  ASSUME NEW p \in Nat \ {0}, NEW a \in Int, NEW b \in Int,
         a % p = b % p, a - b < p, b - a < p
  PROVE  a = b
<1>1. a = p * (a \div p) + (a % p) /\ b = p * (b \div p) + (b % p)
  BY Remainder
<1>2. p * (a \div p) - p * (b \div p) = p * ((a \div p) - (b \div p))
  BY Remainder
<1> DEFINE k == (a \div p) - (b \div p)
<1>3. k \in Int
  BY Remainder
<1>4. a - b = p * k
  <2>1. p * (a \div p) \in Int /\ p * (b \div p) \in Int /\ a % p \in Int
    BY Remainder, MultiplesAreApart
  <2> QED BY <1>1, <1>2, <2>1
<1> HIDE DEF k
<1>5. k = 0
  BY <1>3, <1>4, MultiplesAreApart
<1> QED BY <1>4, <1>5

\* What is between 0 and p is the remainder of what differs from it by a multiple.
LEMMA UniqueRemainder ==
  ASSUME NEW p \in Nat \ {0}, NEW q \in Int, NEW r \in 0 .. p - 1, NEW a \in Int, a = p * q + r
  PROVE  a % p = r
<1> DEFINE k == q - (a \div p)
<1>1. a \div p \in Int /\ a % p \in 0 .. p - 1 /\ a = p * (a \div p) + (a % p)
  BY Remainder
<1>2. k \in Int /\ p * k = p * q - p * (a \div p) /\ p * q \in Int /\ p * (a \div p) \in Int
  BY <1>1
<1> HIDE DEF k
<1>3. p * k = (a % p) - r /\ r \in Int /\ a % p \in Int
  BY <1>1, <1>2
<1>4. k = 0
  BY <1>1, <1>2, <1>3, MultiplesAreApart
<1>5. p * k = 0
  BY <1>4
<1> QED BY <1>3, <1>5
=============================================================================
