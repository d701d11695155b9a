-------------------------- MODULE SolisPlan_proofs ---------------------------
(***************************************************************************)
(* A programmed plan charges only at cheap or free instants, uses the      *)
(* cheap half-hour it is made in, and has no slot that wraps, for any      *)
(* half-hours in a day, prices, sessions, skews and numbers of slots.      *)
(*                                                                         *)
(* A slot is two times of the day by the inverter's clock. The first       *)
(* section shows what it means: when it is on, its window is, a whole      *)
(* number of days away. That holds because a window never ends past the    *)
(* midnight after its start, or ends a minute early on it (Proper). The    *)
(* second follows a tick through the passes of run_optimizer: it is cheap  *)
(* and less than a day ahead, or of a session (Meant). The invariant then  *)
(* remembers that the registers are the plan of some run at p (Planned),   *)
(* the clock being what it was. What is left is that no other day than     *)
(* the one that was meant lies between p and the time the first slot comes *)
(* round again.                                                            *)
(*                                                                         *)
(* That the current half-hour is used goes the other way, and forwards:    *)
(* its ticks are in a window, in the merged one around it, and in a piece  *)
(* of that (CurrentPiece). The piece keeps its place among MAX_SLOTS since *)
(* no piece that is paid for starts earlier; and the free ones, which go   *)
(* first, are at most the two of one session, so that when they leave no   *)
(* place they fill every slot (CurrentPlanned).                            *)
(***************************************************************************)
EXTENDS SolisPlan, Basics_proofs, FiniteSetTheorems

----------------------------------------------------------------------------
(* The clock *)

\* A window: half-open, in ticks.
Windows == [from : Int, to : Int, free : BOOLEAN, early : BOOLEAN]

\* What Split leaves: it does not end before it starts, what ends early ends at
\* the midnight after its start, and what does not either ends before that
\* midnight or starts on one.
Proper(w) ==
  /\ w \in Windows /\ w.from < w.to
  /\ w.early => w.to = Midnight(w)
  /\ ~w.early => w.to < Midnight(w) \/ (w.from + Offset) % Day = 0

\* A day has ticks, and its half fits twice.
LEMMA DayIsPositive == Day \in Nat \ {0} /\ 2 * (Day \div 2) <= Day /\ Day \div 2 \in Nat
<1>1. PerDay \in Nat \ {0}
  BY PlanSizes
<1>2. Day \in Nat \ {0}
  BY <1>1 DEF Day, HalfHour
<1> QED BY <1>2

\* The inverter's clock is a zone and a drift.
LEMMA ClockIsInt == ASSUME skew \in Int PROVE Offset \in Int /\ Drift \in Int /\ skew = Offset + Drift
BY DEF Offset, Drift, Snap

\* The next midnight lies ahead, a whole number of days on.
LEMMA MidnightIsAhead ==
  ASSUME skew \in Int, NEW w, w.from \in Int
  PROVE  /\ Midnight(w) \in Int /\ w.from < Midnight(w)
         /\ Midnight(w) - w.from = Day - ((w.from + Offset) % Day)
         /\ (Midnight(w) + Offset) % Day = 0
<1> DEFINE a == w.from + Offset
           q == a \div Day
<1>1. Day \in Nat \ {0} /\ Offset \in Int /\ a \in Int
  BY DayIsPositive, ClockIsInt
<1>2. q \in Int /\ a % Day \in 0 .. Day - 1 /\ a = Day * q + (a % Day)
  BY <1>1, Remainder
<1>3. Midnight(w) = (q + 1) * Day - Offset
  BY DEF Midnight
<1>4. (q + 1) * Day = Day * q + Day /\ Day * q \in Int
  <2> HIDE DEF q
  <2> QED BY <1>1, <1>2, MultiplesAreApart
<1> HIDE DEF q
<1>5. (Midnight(w) + Offset) % Day = 0
  <2> DEFINE k == q + 1
  <2>1. k \in Int /\ Midnight(w) + Offset = Day * k + 0 /\ Midnight(w) + Offset \in Int
    BY <1>1, <1>2, <1>3, <1>4
  <2>2. 0 \in 0 .. Day - 1
    BY <1>1
  <2> HIDE DEF k
  <2> QED BY <1>1, <2>1, <2>2, UniqueRemainder
<1> QED BY <1>1, <1>2, <1>3, <1>4, <1>5

\* A slot that is on at x by the inverter's clock is on for a tick of its window
\* that is a whole number of days from x.
LEMMA SlotMeansItsWindow ==
  ASSUME skew \in Int, NEW w, Proper(w), NEW x \in Int,
         ClockTime(w)[1] <= (x + Offset) % Day, (x + Offset) % Day < ClockTime(w)[2]
  PROVE  \E k \in Int : x + Day * k \in w.from .. w.to - 1
<1> DEFINE a == w.from + Offset
           z == x + Offset
           e == w.to + Offset
           qa == a \div Day
           qz == z \div Day
           qe == e \div Day
           ra == a % Day
           rz == z % Day
           re == e % Day
<1>1. Day \in Nat \ {0} /\ Offset \in Int /\ w.from \in Int /\ w.to \in Int /\ w.from < w.to
      /\ w.early \in BOOLEAN
  BY DayIsPositive, ClockIsInt DEF Proper, Windows
<1>2. a \in Int /\ z \in Int /\ e \in Int /\ a < e
  BY <1>1
<1>3. qa \in Int /\ ra \in 0 .. Day - 1 /\ a = Day * qa + ra
  BY <1>1, <1>2, Remainder
<1>4. qz \in Int /\ rz \in 0 .. Day - 1 /\ z = Day * qz + rz
  BY <1>1, <1>2, Remainder
<1>5. qe \in Int /\ re \in 0 .. Day - 1 /\ e = Day * qe + re
  BY <1>1, <1>2, Remainder
<1>6. ra <= rz
  BY DEF ClockTime
<1>7. (~w.early => rz < re) /\ (w.early => w.to = Midnight(w))
  BY DEF ClockTime, Proper
<1>8. w.early => e = a + Day - ra
  BY <1>1, <1>7, MidnightIsAhead
<1> HIDE DEF qa, qz, qe, ra, rz, re
<1> DEFINE k == qa - qz
<1>9. Day * qa \in Int /\ Day * qz \in Int /\ Day * qe \in Int
      /\ Day * k = Day * qa - Day * qz
  BY <1>1, <1>3, <1>4, <1>5, MultiplesAreApart
<1>10. k \in Int /\ Day * k \in Int
  BY <1>3, <1>4, <1>9
<1> HIDE DEF k
<1>11. z + Day * k = a + rz - ra
  <2> HIDE DEF a, z, e
  <2>1. Day * qa \in Int /\ Day * qz \in Int /\ ra \in Int /\ rz \in Int /\ a \in Int /\ z \in Int
    BY <1>1, <1>2, <1>3, <1>4, <1>9
  <2>2. a = Day * qa + ra /\ z = Day * qz + rz /\ Day * k = Day * qa - Day * qz
    BY <1>3, <1>4, <1>9
  <2> DEFINE A == Day * qa
             B == Day * qz
             C == Day * k
  <2>3. A \in Int /\ B \in Int /\ C = A - B /\ a = A + ra /\ z = B + rz
    BY <2>1, <2>2
  <2> HIDE DEF A, B, C
  <2>4. z + C = a + rz - ra
    BY <2>1, <2>3
  <2> QED BY <2>4 DEF C
<1>12. a + rz - ra < e
  <2>1. CASE w.early
    BY <1>1, <1>2, <1>3, <1>4, <1>8, <2>1
  <2>2. CASE ~w.early
    <3> DEFINE j == qe - qa
    <3>1. j \in Int /\ Day * j = Day * qe - Day * qa
      BY <1>1, <1>3, <1>5, <1>9
    <3>2. j >= 0
      <4>1. j <= -1 => Day * j <= -Day
        BY <1>1, <3>1, MultiplesAreApart
      <4> QED BY <1>1, <1>2, <1>3, <1>5, <1>9, <3>1, <4>1
    <3>3. Day * j >= 0
      <4>1. j >= 1 => Day * j >= Day
        BY <1>1, <3>1, MultiplesAreApart
      <4>2. j = 0 => Day * j = 0
        BY <1>1
      <4> QED BY <1>1, <3>1, <3>2, <4>1, <4>2
    <3> HIDE DEF j
    <3> QED BY <1>1, <1>3, <1>4, <1>5, <1>7, <1>9, <2>2, <3>1, <3>3
  <2> QED BY <2>1, <2>2
<1>13. w.from <= x + Day * k /\ x + Day * k < w.to /\ x + Day * k \in Int
  BY <1>1, <1>3, <1>4, <1>6, <1>11, <1>12, <1>10
<1>14. x + Day * k \in w.from .. w.to - 1
  BY <1>1, <1>13
<1> QED BY <1>10, <1>14, Zenon

----------------------------------------------------------------------------
(* The windows of a plan *)

\* What is planned at p for tick y: it has a cheap price, less than the cutoff
\* ahead, or a session that begins within the horizon.
Meant(y, p) ==
  \/ IsCheap(HalfHourOf(y)) /\ y < p + Day - AbortDrift
  \/ InSession(y) /\ y < p + 2 * Day - AbortDrift

\* A run of S is a window of ticks of S that cannot be extended.
LEMMA RunTicks ==
  ASSUME NEW S, S \subseteq Int, NEW b \in Int, \A y \in S : y <= b, NEW w \in Runs(S)
  PROVE  /\ w \in Windows /\ w.from < w.to /\ ~w.early
         /\ Ticks(w) \subseteq S
         /\ w = Window(w.from, w.to) /\ w.from - 1 \notin S /\ w.to \notin S
<1> DEFINE After(t) == Min({u \in t .. Max(S) + 1 : u \notin S})
<1>1. PICK t \in S : t - 1 \notin S /\ w = Window(t, After(t))
  BY DEF Runs
<1>2. Max(S) \in S /\ \A y \in S : y <= Max(S)
  <2>1. S # {}
    OBVIOUS
  <2> QED BY <2>1, GreatestElement
<1> DEFINE U == {u \in t .. Max(S) + 1 : u \notin S}
<1>3. t \in Int /\ Max(S) \in Int /\ t <= Max(S)
  BY <1>2
<1>4. U \subseteq Int /\ \A u \in U : t <= u
  BY <1>3
<1>5. Max(S) + 1 \in U
  <2>1. Max(S) + 1 \notin S
    BY <1>2, <1>3
  <2> QED BY <1>3, <2>1
<1>6. Min(U) \in U /\ \A u \in U : Min(U) <= u
  <2> HIDE DEF U
  <2> QED BY <1>3, <1>4, <1>5, LeastElement
<1> DEFINE e == Min(U)
<1>7. e \in t .. Max(S) + 1 /\ e \notin S
  BY <1>6
<1>8. e \in Int /\ t < e
  BY <1>3, <1>7
<1>9. ASSUME NEW y \in t .. e - 1 PROVE y \in S
  <2>1. y \in Int /\ t <= y /\ y < e /\ y <= Max(S) + 1
    BY <1>3, <1>7, <1>8
  <2>2. y \notin U
    <3> HIDE DEF U
    <3> QED BY <1>6, <1>8, <2>1
  <2> QED BY <1>3, <2>1, <2>2
<1>10. w = [from |-> t, to |-> e, free |-> FALSE, early |-> FALSE]
  BY <1>1 DEF Window
<1> HIDE DEF e
<1>11. w \in Windows
  BY <1>3, <1>8, <1>10 DEF Windows
<1>12. w.from = t /\ w.to = e /\ ~w.early
  BY <1>10
<1>13. w = Window(w.from, w.to)
  BY <1>10, <1>12 DEF Window
<1> QED BY <1>1, <1>7, <1>8, <1>9, <1>11, <1>12, <1>13 DEF Ticks, e

\* Every tick of S is in one.
LEMMA RunAround ==
  ASSUME NEW S, S \subseteq Int, NEW a \in Int, \A y \in S : a <= y,
         NEW b \in Int, \A y \in S : y <= b, NEW t \in S
  PROVE  \E w \in Runs(S) : t \in Ticks(w)
<1> DEFINE starts == {u \in S : u <= t /\ \A x \in u .. t : x \in S}
           f == Min(starts)
<1>1. t \in Int /\ t \in starts
  <2>1. t \in Int /\ t .. t = {t}
    OBVIOUS
  <2> QED BY <2>1
<1>2. starts \subseteq S
  OBVIOUS
<1>3. f \in starts /\ \A u \in starts : f <= u
  <2> HIDE DEF starts
  <2> QED BY <1>1, <1>2, LeastElement
<1>4. f \in S /\ f \in Int /\ f <= t /\ \A x \in f .. t : x \in S
  BY <1>3
<1>5. f - 1 \notin S
  <2> SUFFICES ASSUME f - 1 \in S PROVE FALSE
    OBVIOUS
  <2> HIDE DEF f
  <2>1. \A x \in f - 1 .. t : x = f - 1 \/ x \in f .. t
    BY <1>1, <1>4
  <2>2. f - 1 \in starts
    BY <1>1, <1>4, <2>1
  <2> HIDE DEF starts
  <2> QED BY <1>3, <1>4, <2>2
<1> HIDE DEF f
<1> DEFINE w == Window(f, Min({u \in f .. Max(S) + 1 : u \notin S}))
<1>6. w \in Runs(S)
  BY <1>4, <1>5 DEF Runs
<1>7. w.from = f
  BY DEF Window
<1> HIDE DEF w
<1>8. w \in Windows /\ w.from < w.to /\ w.to \notin S
  BY <1>6, RunTicks
<1>9. t \in Ticks(w)
  <2>1. w.to \in Int /\ w.to \notin f .. t
    BY <1>4, <1>8 DEF Windows
  <2> QED BY <1>1, <1>4, <1>7, <1>8, <2>1 DEF Ticks
<1> QED BY <1>6, <1>9

\* And in one only.
LEMMA RunsAreApart ==
  ASSUME NEW S, S \subseteq Int, NEW b \in Int, \A y \in S : y <= b,
         NEW v \in Runs(S), NEW w \in Runs(S), NEW t \in Ticks(v), t \in Ticks(w)
  PROVE  v = w
<1>1. /\ v.from \in Int /\ v.to \in Int /\ Ticks(v) \subseteq S /\ v = Window(v.from, v.to)
      /\ v.from - 1 \notin S /\ v.to \notin S
  BY RunTicks DEF Windows
<1>2. /\ w.from \in Int /\ w.to \in Int /\ Ticks(w) \subseteq S /\ w = Window(w.from, w.to)
      /\ w.from - 1 \notin S /\ w.to \notin S
  BY RunTicks DEF Windows
<1>3. t \in Int /\ v.from <= t /\ t < v.to /\ w.from <= t /\ t < w.to
  BY <1>1, <1>2 DEF Ticks
<1>4. v.from = w.from
  <2>1. v.from < w.from => w.from - 1 \in Ticks(v)
    BY <1>1, <1>2, <1>3 DEF Ticks
  <2>2. w.from < v.from => v.from - 1 \in Ticks(w)
    BY <1>1, <1>2, <1>3 DEF Ticks
  <2> QED BY <1>1, <1>2, <2>1, <2>2
<1>5. v.to = w.to
  <2>1. v.to < w.to => v.to \in Ticks(w)
    BY <1>1, <1>2, <1>3 DEF Ticks
  <2>2. w.to < v.to => w.to \in Ticks(v)
    BY <1>1, <1>2, <1>3 DEF Ticks
  <2> QED BY <1>1, <1>2, <2>1, <2>2
<1> QED BY <1>1, <1>2, <1>4, <1>5

\* A tick belongs to the half-hour it lies in.
LEMMA TickOfHalfHour ==
  ASSUME NEW h \in Int, NEW y \in Starts(h) .. Ends(h) - 1
  PROVE  y \in Int /\ HalfHourOf(y) = h /\ y < Ends(h)
BY DEF Starts, Ends, HalfHourOf, HalfHour

\* Only half-hours that end by the cutoff are planned with.
LEMMA PlannedInTime ==
  ASSUME NEW cur, NEW nxt, NEW again, NEW h \in PlanningSlots(cur, nxt, again)
  PROVE  Ends(h) <= Cutoff
<1> DEFINE today == {g \in HalfHoursOf(Rates(cur, nxt)) : Ends(g) > now /\ Ends(g) <= Cutoff}
           ahead == {g \in HalfHoursOf(again) : g > Max(today) /\ Ends(g) <= Cutoff}
<1>1. h \in today \/ h \in ahead
  BY Zenon DEF PlanningSlots
<1>2. CASE h \in today
  BY <1>2
<1>3. CASE h \in ahead
  <2> HIDE DEF today
  <2> QED BY <1>3
<1> QED BY <1>1, <1>2, <1>3

\* The windows of cheap half-hours are windows of cheap ticks before the cutoff.
LEMMA CheapWindowTicks ==
  ASSUME now \in Nat, NEW upcoming, \A h \in upcoming : Ends(h) <= Cutoff,
         NEW w \in CheapWindows(upcoming), NEW y \in Ticks(w)
  PROVE  y \in Nat /\ IsCheap(HalfHourOf(y)) /\ y < Cutoff /\ HalfHourOf(y) \in upcoming
<1> DEFINE eligible == {h \in upcoming : IsCheap(h) /\ h % PerDay \in ChargeWindow}
           S == UNION {Starts(h) .. Ends(h) - 1 : h \in eligible}
<1>1. Cutoff \in Int
  BY DayIsPositive DEF Cutoff, AbortDrift
<1>2. ASSUME NEW x \in S
      PROVE  x \in Nat /\ IsCheap(HalfHourOf(x)) /\ x < Cutoff /\ HalfHourOf(x) \in upcoming
  <2>1. PICK h \in eligible : x \in Starts(h) .. Ends(h) - 1
    OBVIOUS
  <2>2. h \in Nat /\ IsCheap(h) /\ Ends(h) <= Cutoff
    <3>1. IsCheap(h) /\ h \in upcoming
      OBVIOUS
    <3>2. h \in 0 .. Days * PerDay - 1
      BY <3>1 DEF IsCheap
    <3> QED BY <3>1, <3>2
  <2>3. x \in Int /\ HalfHourOf(x) = h /\ x < Ends(h)
    BY <2>1, <2>2, TickOfHalfHour
  <2>4. x \in Nat
    BY <2>1, <2>2 DEF Starts, Ends, HalfHour
  <2> QED BY <1>1, <2>2, <2>3, <2>4 DEF Ends, HalfHour
<1>3. w \in Runs(S)
  BY Zenon DEF CheapWindows, Earliest
<1>4. S \subseteq Int /\ \A x \in S : x <= Cutoff
  <2> HIDE DEF S
  <2> QED BY <1>1, <1>2
<1>5. Ticks(w) \subseteq S
  <2> HIDE DEF S
  <2> QED BY <1>1, <1>3, <1>4, RunTicks
<1> QED BY <1>2, <1>5

\* Free ticks are ticks of a session, less than two days ahead.
LEMMA FreeTicksInTime ==
  ASSUME now \in Nat, sessions \subseteq Sessions, NEW y \in FreeTicks
  PROVE  y \in Nat /\ InSession(y) /\ y < now + 2 * Day - AbortDrift
<1>1. PICK s \in sessions : Upcoming(s) /\ y \in s[1] .. s[2] - 1
  BY DEF FreeTicks
<1>2. s[1] \in Nat /\ s[2] \in Nat
  BY PlanInputs
<1>3. s[1] < now + SessionHorizon /\ s[2] - s[1] <= Day \div 2 - AbortDrift
  BY <1>1, SessionsAreShort DEF Upcoming
<1>4. y \in Nat /\ InSession(y)
  BY <1>1, <1>2 DEF InSession
<1>5. y <= s[2] - 1
  BY <1>1, <1>2
<1>6. y < now + 2 * Day - AbortDrift
  <2> DEFINE d == Day
             c == Day \div 2
  <2>1. d \in Nat /\ c \in Nat /\ 2 * c <= d
    BY DayIsPositive
  <2>2. s[1] < now + (d + c) /\ s[2] - s[1] <= c - AbortDrift
    BY <1>3 DEF SessionHorizon
  <2> HIDE DEF d, c
  <2>3. y < now + 2 * d - AbortDrift
    BY <1>2, <1>4, <1>5, <2>1, <2>2 DEF AbortDrift
  <2> QED BY <2>3 DEF d
<1> QED BY <1>4, <1>6

\* Merging keeps to what was meant.
LEMMA MergedTicks ==
  ASSUME now \in Nat, sessions \subseteq Sessions, NEW upcoming,
         \A h \in upcoming : Ends(h) <= Cutoff,
         NEW w \in Merged(SafeWindows(CheapWindows(upcoming), upcoming))
  PROVE  /\ w \in Windows /\ w.from < w.to /\ ~w.early
         /\ \A y \in Ticks(w) : y \in Nat /\ Meant(y, now)
<1> DEFINE agile == SafeWindows(CheapWindows(upcoming), upcoming)
           S == FreeTicks \cup UNION {Ticks(v) : v \in agile}
           b == now + 2 * Day
<1>1. PICK v \in Runs(S) : w = [v EXCEPT !.free = Ticks(v) \cap FreeTicks # {}]
  BY DEF Merged
<1>2. ASSUME NEW y \in S PROVE y \in Nat /\ Meant(y, now)
  <2>1. CASE y \in FreeTicks
    BY <2>1, FreeTicksInTime DEF Meant
  <2>2. CASE y \notin FreeTicks
    <3>1. PICK u \in agile : y \in Ticks(u)
      BY <2>2
    <3>2. u \in CheapWindows(upcoming)
      BY DEF SafeWindows
    <3>3. y \in Nat /\ IsCheap(HalfHourOf(y)) /\ y < Cutoff
      BY <3>1, <3>2, CheapWindowTicks
    <3> QED BY <3>3 DEF Meant, Cutoff
  <2> QED BY <2>1, <2>2
<1> HIDE DEF S
<1>3. b \in Int /\ S \subseteq Int /\ \A y \in S : y <= b
  <2>1. Day \in Nat
    BY DayIsPositive
  <2> QED BY <1>2, <2>1 DEF Meant, AbortDrift
<1> HIDE DEF b
<1>4. v \in Windows /\ v.from < v.to /\ ~v.early /\ Ticks(v) \subseteq S
  BY <1>3, RunTicks
<1>5. w \in Windows /\ w.from = v.from /\ w.to = v.to /\ w.early = v.early
  BY <1>1, <1>4 DEF Windows
<1>6. Ticks(w) = Ticks(v)
  BY <1>5 DEF Ticks
<1> QED BY <1>2, <1>4, <1>5, <1>6

\* So does splitting at midnight, which leaves proper windows.
LEMMA SplitTicks ==
  ASSUME skew \in Int, NEW w \in Windows, w.from < w.to, ~w.early, NEW v \in Split(w)
  PROVE  Proper(v) /\ Ticks(v) \subseteq Ticks(w)
<1> DEFINE m == Midnight(w)
<1>1. w.from \in Int /\ w.to \in Int
  BY DEF Windows
<1>2. m \in Int /\ w.from < m
  BY <1>1, MidnightIsAhead
<1>3. \A u : u.from = w.from => Midnight(u) = m
  BY DEF Midnight
<1> HIDE DEF m
<1>4. CASE w.to < m
  <2>1. v = w
    BY <1>4 DEF Split, m
  <2> QED BY <1>4, <2>1 DEF Proper, m
<1>5. CASE ~(w.to < m) /\ v = [w EXCEPT !.to = m, !.early = TRUE]
  <2>1. v \in Windows /\ v.from = w.from /\ v.to = m
    BY <1>2, <1>5 DEF Windows
  <2>2. Midnight(v) = m
    BY <1>3, <2>1
  <2> QED BY <1>1, <1>2, <1>5, <2>1, <2>2 DEF Proper, Ticks
<1>6. CASE ~(w.to < m) /\ w.to # m /\ v = [w EXCEPT !.from = m]
  <2>1. v \in Windows /\ v.from = m /\ v.to = w.to /\ ~v.early
    BY <1>2, <1>6 DEF Windows
  <2>2. (v.from + Offset) % Day = 0
    BY <1>1, <2>1, MidnightIsAhead DEF m
  <2> QED BY <1>1, <1>2, <1>6, <2>1, <2>2 DEF Proper, Ticks
<1>7. (w.to < m) \/ (~(w.to < m) /\ v = [w EXCEPT !.to = m, !.early = TRUE])
      \/ (~(w.to < m) /\ w.to # m /\ v = [w EXCEPT !.from = m])
  BY DEF Split, m
<1> QED BY <1>4, <1>5, <1>6, <1>7

\* Every window of a plan is proper and charges only at what was meant.
LEMMA PlanTicks ==
  ASSUME now \in Nat, skew \in Int, sessions \subseteq Sessions, NEW upcoming,
         \A h \in upcoming : Ends(h) <= Cutoff, NEW w \in Plan(upcoming)
  PROVE  /\ Proper(w) /\ w.from \in Nat
         /\ \A y \in Ticks(w) : Meant(y, now)
<1> DEFINE M == Merged(SafeWindows(CheapWindows(upcoming), upcoming))
           all == UNION {Split(v) : v \in M}
<1>1. w \in Fitting(all)
  BY DEF Plan, RoundTrip
<1>2. w \in all
  <2> HIDE DEF all
  <2> QED BY <1>1 DEF Fitting, Earliest
<1>3. PICK v \in M : w \in Split(v)
  BY <1>2
<1>4. v \in Windows /\ v.from < v.to /\ ~v.early /\ \A y \in Ticks(v) : y \in Nat /\ Meant(y, now)
  BY MergedTicks
<1> HIDE DEF M, all
<1>5. Proper(w) /\ Ticks(w) \subseteq Ticks(v)
  BY <1>3, <1>4, SplitTicks
<1>6. w.from \in Ticks(w)
  BY <1>5 DEF Proper, Windows, Ticks
<1> QED BY <1>4, <1>5, <1>6

----------------------------------------------------------------------------
(* The registers *)

\* The armed slots are those a run at some p planned, by the clock as it is.
PlannedAt(p, W) ==
  /\ registers = {ClockTime(w) : w \in W}
  /\ \A w \in W : /\ Proper(w) /\ until <= w.from + Day
                  /\ \A y \in Ticks(w) : Meant(y, p)

Planned == until # 0 => ClockUsable /\ \E p \in 0 .. now : \E W : PlannedAt(p, W)

\* Clock times, in their order.
RegistersFit == registers \subseteq (0 .. Day) \X (0 .. Day) /\ NeverWraps

PlanIInv ==
  /\ now \in Nat /\ now < Days * Day /\ due \in BOOLEAN
  /\ cheap \in [0 .. Days - 1 -> Tariffs]
  /\ sessions \subseteq Sessions
  /\ current \in 0 .. Days - 1 /\ next \in 0 .. Days - 1 \cup {NoDay}
  /\ skew \in Skews
  /\ RegistersFit
  /\ until \in Nat /\ priced \in BOOLEAN
  /\ Planned

\* It holds before the first run.
LEMMA InitPlanIInv == Init => PlanIInv
<1> SUFFICES ASSUME Init PROVE PlanIInv
  OBVIOUS
<1>1. 1 < Days * Day
  <2>1. Days * PerDay >= 1
    BY PlanSizes
  <2>2. Days * Day = 6 * (Days * PerDay)
    BY PlanSizes DEF Day, HalfHour
  <2> QED BY <2>1, <2>2, PlanSizes
<1>2. now \in Nat /\ now < Days * Day /\ due \in BOOLEAN
  BY <1>1 DEF Init
<1>3. current \in 0 .. Days - 1 /\ next \in 0 .. Days - 1 \cup {NoDay}
  BY PlanSizes DEF Init
<1>4. cheap \in [0 .. Days - 1 -> Tariffs] /\ skew \in Skews
  BY DEF Init
<1>5. sessions \subseteq Sessions /\ RegistersFit
  BY DEF Init, RegistersFit, NeverWraps
<1>6. until \in Nat /\ priced \in BOOLEAN /\ Planned
  BY DEF Init, Planned
<1> QED BY <1>2, <1>3, <1>4, <1>5, <1>6 DEF PlanIInv

\* A register holds two clock times, and does not end before it starts.
LEMMA ClockTimes ==
  ASSUME skew \in Int, NEW w, Proper(w)
  PROVE  ClockTime(w) \in (0 .. Day) \X (0 .. Day) /\ ~(ClockTime(w)[1] > ClockTime(w)[2])
<1>1. Offset \in Int /\ Day \in Nat \ {0} /\ w.from \in Int /\ w.to \in Int /\ w.from < w.to
      /\ w.early \in BOOLEAN
  BY ClockIsInt, DayIsPositive DEF Proper, Windows
<1> DEFINE x == w.from + Offset
           y == w.to + Offset
           a == x % Day
           e == y % Day
<1>2. x \in Int /\ y \in Int /\ y - x = w.to - w.from
  BY <1>1
<1>3. a \in 0 .. Day - 1 /\ e \in 0 .. Day - 1 /\ x \div Day \in Int /\ x = Day * (x \div Day) + a
  BY <1>1, <1>2, Remainder
<1>4. ClockTime(w) = <<a, IF w.early THEN Day ELSE e>>
  BY DEF ClockTime
<1>5. CASE w.early
  <2>1. ClockTime(w) = <<a, Day>>
    BY <1>4, <1>5
  <2> HIDE DEF a, e
  <2>2. a \in 0 .. Day /\ Day \in 0 .. Day /\ ~(a > Day)
    BY <1>1, <1>3
  <2> QED BY <2>1, <2>2
<1>6. CASE ~w.early
  <2>1. ClockTime(w) = <<a, e>>
    BY <1>4, <1>6
  <2>2. a = 0 \/ (w.to < Midnight(w) /\ Midnight(w) - w.from = Day - a /\ Midnight(w) \in Int)
    BY <1>1, <1>6, MidnightIsAhead DEF Proper
  <2> DEFINE q == x \div Day
             r == a + (w.to - w.from)
  <2> HIDE DEF a, e, x, y, q
  <2>3. ASSUME w.to < Midnight(w), Midnight(w) - w.from = Day - a, Midnight(w) \in Int PROVE e = r
    <3>1. r \in 0 .. Day - 1
      BY <1>1, <1>3, <2>3
    <3>2. Day * q \in Int /\ q \in Int
      BY <1>1, <1>3, MultiplesAreApart DEF q
    <3>3. y = Day * q + r
      BY <1>1, <1>2, <1>3, <3>2 DEF q
    <3> HIDE DEF r
    <3> QED BY <1>1, <1>2, <3>1, <3>2, <3>3, UniqueRemainder DEF e
  <2>4. a \in 0 .. Day /\ e \in 0 .. Day /\ ~(a > e)
    BY <1>1, <1>3, <2>2, <2>3
  <2> QED BY <2>1, <2>4
<1> QED BY <1>1, <1>5, <1>6

\* What a run that succeeds leaves.
LEMMA ProgramsPlan ==
  ASSUME PlanIInv, ClockUsable, NEW upcoming, \A h \in upcoming : Ends(h) <= Cutoff,
         NEW plan, plan = Plan(upcoming),
         registers' = {ClockTime(w) : w \in plan},
         until' = Min({now} \cup {w.from : w \in plan}) + Day,
         now' = now, cheap' = cheap, sessions' = sessions, skew' = skew
  PROVE  /\ until' \in Nat /\ RegistersFit'
         /\ Planned'
<1>1. now \in Nat /\ skew \in Int /\ sessions \subseteq Sessions
  BY PlanInputs DEF PlanIInv
<1>2. \A w \in plan : Proper(w) /\ w.from \in Nat /\ \A y \in Ticks(w) : Meant(y, now)
  BY <1>1, PlanTicks
<1> DEFINE B == {now} \cup {w.from : w \in plan}
           least == Min(B)
<1>3. B \subseteq Int /\ now \in B /\ 0 \in Int /\ \A b \in B : 0 <= b
  BY <1>1, <1>2
<1>4. least \in B /\ \A b \in B : least <= b
  <2> HIDE DEF B
  <2> QED BY <1>3, LeastElement
<1>5. least \in Nat
  BY <1>3, <1>4
<1>6. \A w \in plan : w.from \in B
  OBVIOUS
<1> HIDE DEF B
<1>7. until' = least + Day
  BY DEF B
<1> HIDE DEF least
<1>8. Day \in Nat \ {0}
  BY DayIsPositive
<1>9. until' \in Nat
  BY <1>5, <1>7, <1>8
<1>10. \A w \in plan : until' <= w.from + Day
  BY <1>2, <1>4, <1>5, <1>6, <1>7, <1>8 DEF least
<1>11. RegistersFit'
  <2>1. \A w \in plan : ClockTime(w) \in (0 .. Day) \X (0 .. Day)
                         /\ ~(ClockTime(w)[1] > ClockTime(w)[2])
    BY <1>1, <1>2, ClockTimes
  <2>2. Day' = Day
    OBVIOUS
  <2> QED BY <2>1, <2>2 DEF RegistersFit, NeverWraps
<1>12. ClockUsable'
  BY DEF ClockUsable, Drift, Offset
<1>13. \A w : ClockTime(w)' = ClockTime(w) /\ (Proper(w) => Proper(w)')
  BY DEF ClockTime, Proper, Midnight, Offset
<1>14. \A y : Meant(y, now) => Meant(y, now)'
  BY DEF Meant, InSession, IsCheap
<1>15. PlannedAt(now, plan)'
  BY <1>2, <1>10, <1>13, <1>14 DEF PlannedAt
<1>16. now \in 0 .. now'
  BY <1>1
<1> QED BY <1>9, <1>11, <1>12, <1>15, <1>16, Zenon DEF Planned

\* What was planned stays planned while the world moves on and the registers
\* and the clock stay.
LEMMA PlannedStays ==
  ASSUME PlanIInv, now' \in Nat, now <= now', cheap' = cheap, sessions \subseteq sessions',
         skew' = skew, registers' = registers, until' = until
  PROVE  Planned'
<1> SUFFICES ASSUME until # 0
             PROVE  ClockUsable' /\ \E p \in 0 .. now' : \E W : PlannedAt(p, W)'
  BY Zenon DEF Planned
<1>1. PICK p \in 0 .. now : \E W : PlannedAt(p, W)
  BY DEF PlanIInv, Planned
<1>2. PICK W : PlannedAt(p, W)
  BY <1>1
<1>3. ClockUsable'
  BY DEF ClockUsable, Drift, Offset, PlanIInv, Planned
<1>4. \A w : ClockTime(w)' = ClockTime(w) /\ (Proper(w) => Proper(w)')
  BY DEF ClockTime, Proper, Midnight, Offset
<1>5. \A y : Meant(y, p) => Meant(y, p)'
  BY DEF Meant, InSession, IsCheap
<1>6. PlannedAt(p, W)'
  BY <1>2, <1>4, <1>5 DEF PlannedAt
<1>7. p \in 0 .. now'
  BY DEF PlanIInv
<1> QED BY <1>3, <1>6, <1>7, Zenon

\* Days are numbered from 0, and today is one of those with prices.
LEMMA TodayHasPrices ==
  ASSUME now \in Nat, now < Days * Day
  PROVE  Today \in 0 .. Days - 1
<1>1. Day \in Nat \ {0} /\ Days \in Nat
  BY DayIsPositive, PlanSizes
<1>2. now \div Day \in Int /\ now % Day \in 0 .. Day - 1 /\ now = Day * (now \div Day) + (now % Day)
  BY <1>1, Remainder
<1> DEFINE q == now \div Day
           j == q - Days
<1>3. q \in Int /\ j \in Int
  BY <1>1, <1>2
<1> HIDE DEF q
<1>4. Day * q \in Int /\ Day * j = Day * q - Day * Days /\ Day * j \in Int
      /\ Days * Day = Day * Days /\ Day * Days \in Int
  BY <1>1, <1>3
<1>5. q >= 0
  <2>1. q <= -1 => Day * q <= -Day
    BY <1>1, <1>3, MultiplesAreApart
  <2> QED BY <1>1, <1>2, <1>3, <1>4, <2>1 DEF q
<1>6. j <= -1
  <2>1. j >= 1 => Day * j >= Day
    BY <1>1, <1>3, MultiplesAreApart
  <2>2. j = 0 => Day * j = 0
    BY <1>1
  <2> HIDE DEF j
  <2> QED BY <1>1, <1>2, <1>3, <1>4, <2>1, <2>2 DEF q
<1> QED BY <1>1, <1>3, <1>5, <1>6 DEF Today, q

\* One run of the CronJob.
LEMMA RunKeepsPlanIInv ==
  ASSUME PlanIInv, NEW n \in 1 .. 3, NEW failing \in SUBSET (1 .. 3), Run(n, failing)
  PROVE  PlanIInv'
<1> DEFINE cur == Fetch(1, n, failing)
           nxt == Fetch(2, n, failing)
           upcoming == PlanningSlots(cur, nxt, Fetch(3, n, failing))
           plan == Plan(upcoming)
           slots == {ClockTime(w) : w \in plan}
           Programs == /\ registers' = slots
                       /\ until' = Min({now} \cup {w.from : w \in plan}) + Day
                       /\ priced' = Covers(Rates(cur, nxt))
           Mixes == /\ registers' \in {registers \cup slots, registers \cap slots}
                    /\ until' = 0 /\ priced' = FALSE
<1>1. /\ due' = FALSE /\ RollsAfter(n)
      /\ now' = now /\ cheap' = cheap /\ sessions' = sessions /\ skew' = skew
      /\ (ClockUsable /\ Programs) \/ Clears \/ Mixes
  BY Zenon DEF Run
<1>2. \A h \in upcoming : Ends(h) <= Cutoff
  BY Zenon, PlannedInTime
<1> HIDE DEF upcoming
<1>3. current' \in 0 .. Days - 1 /\ next' \in 0 .. Days - 1 \cup {NoDay}
  BY <1>1, TodayHasPrices DEF PlanIInv, RollsAfter
<1>4. until' \in Nat /\ RegistersFit' /\ Planned'
  <2>1. CASE ClockUsable /\ Programs
    BY <1>1, <1>2, <2>1, ProgramsPlan
  <2>2. CASE Clears
    BY <2>2 DEF Clears, Planned, RegistersFit, NeverWraps
  <2>3. CASE Mixes
    <3>1. \A w \in plan : Proper(w)
      BY <1>2, PlanTicks, PlanInputs DEF PlanIInv
    <3>2. \A w \in plan : ClockTime(w) \in (0 .. Day) \X (0 .. Day)
                           /\ ~(ClockTime(w)[1] > ClockTime(w)[2])
      BY <3>1, ClockTimes, PlanInputs DEF PlanIInv
    <3>3. \A r \in slots : r \in (0 .. Day) \X (0 .. Day) /\ ~(r[1] > r[2])
      <4> HIDE DEF plan
      <4> QED BY <3>2
    <3> HIDE DEF slots
    <3>4. \A r \in registers' : r \in registers \/ r \in slots
      BY <2>3
    <3>5. RegistersFit'
      BY <3>3, <3>4 DEF RegistersFit, NeverWraps, PlanIInv
    <3> QED BY <2>3, <3>5 DEF Planned
  <2> QED BY <1>1, <2>1, <2>2, <2>3
<1>5. priced' \in BOOLEAN
  <2>1. \A d : Covers(d) \in BOOLEAN
    BY DEF Covers
  <2> HIDE DEF slots, cur, nxt
  <2> QED BY <1>1, <2>1, Zenon DEF Clears
<1> QED BY <1>1, <1>3, <1>4, <1>5 DEF PlanIInv

\* Every step keeps it.
LEMMA NextKeepsPlanIInv == PlanIInv /\ [Next]_vars => PlanIInv'
<1> SUFFICES ASSUME PlanIInv, [Next]_vars PROVE PlanIInv'
  OBVIOUS
<1>1. now \in Nat /\ (registers' = registers => RegistersFit')
  BY DEF PlanIInv, RegistersFit, NeverWraps
<1>2. ASSUME NEW n \in 1 .. 3, NEW failing \in SUBSET (1 .. 3), Run(n, failing) PROVE PlanIInv'
  BY <1>2, RunKeepsPlanIInv
<1>3. CASE Missed
  <2>1. Planned'
    BY <1>1, <1>3, PlannedStays DEF Missed, world
  <2> QED BY <1>1, <1>3, <2>1 DEF Missed, world, PlanIInv
<1>4. CASE Tick
  <2>1. now' \in Nat /\ now <= now'
    BY <1>1, <1>4 DEF Tick, Interval
  <2>2. Planned'
    BY <1>4, <2>1, PlannedStays DEF Tick, world
  <2> QED BY <1>1, <1>4, <2>1, <2>2 DEF Tick, world, PlanIInv
<1>5. CASE Publish
  <2>1. Planned'
    BY <1>1, <1>5, PlannedStays DEF Publish
  <2>2. next' \in 0 .. Days - 1
    BY <1>5, PlanSizes DEF Publish, PlanIInv
  <2> QED BY <1>1, <1>5, <2>1, <2>2 DEF Publish, PlanIInv
<1>6. ASSUME NEW s \in Sessions, Announce(s) PROVE PlanIInv'
  <2>1. Planned'
    BY <1>1, <1>6, PlannedStays DEF Announce
  <2> QED BY <1>1, <1>6, <2>1 DEF Announce, PlanIInv
<1>7. ASSUME NEW k \in Skews, SetClock(k) PROVE PlanIInv'
  <2>1. Planned'
    BY <1>7 DEF SetClock, Planned
  <2> QED BY <1>1, <1>7, <2>1 DEF SetClock, PlanIInv
<1>8. CASE UNCHANGED vars
  <2>1. Planned'
    BY <1>1, <1>8, PlannedStays DEF vars
  <2> QED BY <1>1, <1>8, <2>1 DEF vars, PlanIInv
<1> QED BY <1>2, <1>3, <1>4, <1>5, <1>6, <1>7, <1>8 DEF Next, World

\* A slot that is on, and has not come round again, is on at a tick of its window:
\* on that very day, since a cheap tick is less than a day after the plan; on that
\* day or the next in a session.
LEMMA PlannedCharges ==
  ASSUME PlanIInv, NEW t \in now .. now + Interval - 1, Valid(t), Charges(t)
  PROVE  Wanted(t + Drift) \/ InSession(t + Drift + Day)
<1>1. now \in Nat /\ skew \in Int /\ until \in Nat
  BY PlanInputs DEF PlanIInv
<1>2. Offset \in Int /\ Drift \in Int /\ skew = Offset + Drift /\ Day \in Nat \ {0}
  BY <1>1, ClockIsInt, DayIsPositive
<1>3. t \in Int /\ now <= t
  BY <1>1 DEF Interval
<1> DEFINE x == t + Drift
<1>4. x \in Int /\ t + skew = x + Offset
  BY <1>2, <1>3
<1>5. until # 0 /\ x < until
  BY DEF Valid
<1>6. -AbortDrift <= Drift
  BY <1>2, <1>5 DEF PlanIInv, Planned, ClockUsable, AbortDrift
<1>7. PICK p \in 0 .. now : \E W : PlannedAt(p, W)
  BY <1>5 DEF PlanIInv, Planned
<1>8. PICK W : PlannedAt(p, W)
  BY <1>7
<1>9. PICK w \in W : ClockTime(w)[1] <= (t + skew) % Day /\ (t + skew) % Day < ClockTime(w)[2]
  BY <1>8 DEF PlannedAt, Charges
<1>10. Proper(w) /\ until <= w.from + Day /\ \A y \in Ticks(w) : Meant(y, p)
  BY <1>8 DEF PlannedAt
<1> HIDE DEF x
<1>11. PICK k \in Int : x + Day * k \in w.from .. w.to - 1
  BY <1>1, <1>4, <1>9, <1>10, SlotMeansItsWindow
<1> DEFINE y == x + Day * k
<1>12. Meant(y, p)
  BY <1>10, <1>11 DEF Ticks
<1>13. w.from \in Int /\ w.from <= y /\ Day * k \in Int
  BY <1>2, <1>10, <1>11 DEF Proper, Windows
<1>14. p \in Int /\ p <= now
  BY <1>1, <1>7
<1>15. k >= 0
  <2>1. k <= -1 => Day * k <= -Day
    BY <1>2, MultiplesAreApart
  <2> QED BY <1>1, <1>2, <1>4, <1>5, <1>10, <1>13, <2>1
<1>16. x >= p - AbortDrift
  BY <1>1, <1>2, <1>3, <1>6, <1>14 DEF x, AbortDrift
<1>17. CASE IsCheap(HalfHourOf(y)) /\ y < p + Day - AbortDrift
  <2>1. k >= 1 => Day * k >= Day
    BY <1>2, MultiplesAreApart
  <2>2. k = 0
    BY <1>2, <1>4, <1>13, <1>14, <1>15, <1>16, <1>17, <2>1 DEF AbortDrift
  <2>3. y = x
    BY <1>2, <1>4, <2>2
  <2> QED BY <1>17, <2>3 DEF Wanted, x
<1>18. CASE InSession(y) /\ y < p + 2 * Day - AbortDrift
  <2>1. k <= 1
    <3> DEFINE j == k - 1
    <3>1. j \in Int /\ Day * j = Day * k - Day /\ (j >= 1 => Day * j >= Day)
      BY <1>2, MultiplesAreApart
    <3> HIDE DEF y
    <3>2. ~(j >= 1)
      <4> HIDE DEF j
      <4> QED BY <1>2, <1>4, <1>13, <1>14, <1>16, <1>18, <3>1 DEF AbortDrift, y
    <3> QED BY <3>2
  <2>2. k = 0 \/ k = 1
    BY <1>15, <2>1
  <2>3. CASE k = 0
    <3>1. y = x
      BY <1>2, <1>4, <2>3
    <3> QED BY <1>18, <3>1 DEF Wanted, x
  <2>4. CASE k = 1
    <3>1. y = x + Day
      BY <1>2, <1>4, <2>4
    <3> QED BY <1>18, <3>1 DEF x
  <2> QED BY <2>2, <2>3, <2>4
<1> QED BY <1>12, <1>17, <1>18 DEF Meant

----------------------------------------------------------------------------
(* A cheap half-hour is used *)

Agile(upcoming) == SafeWindows(CheapWindows(upcoming), upcoming)

\* The ticks some window is for, and the windows of the inverter's days.
Covered(upcoming) == FreeTicks \cup UNION {Ticks(w) : w \in Agile(upcoming)}
Pieces(upcoming)  == UNION {Split(w) : w \in Merged(Agile(upcoming))}

\* The half-hours planned with begin with the current one, which is eligible.
PlansFromNow(upcoming) ==
  /\ now \in Nat /\ skew \in Int /\ sessions \subseteq Sessions
  /\ \A h \in upcoming : h \in Int /\ Ends(h) <= Cutoff /\ HalfHourOf(now) <= h
  /\ HalfHourOf(now) \in upcoming /\ IsCheap(HalfHourOf(now))
  /\ HalfHourOf(now) % PerDay \in ChargeWindow

\* A window contains the current half-hour so far: it is the first.
LEMMA CurrentWindow ==
  ASSUME NEW upcoming, PlansFromNow(upcoming)
  PROVE  \E w \in Agile(upcoming) : Starts(HalfHourOf(now)) .. now \subseteq Ticks(w)
<1> DEFINE h0 == HalfHourOf(now)
           eligible == {h \in upcoming : IsCheap(h) /\ h % PerDay \in ChargeWindow}
           S == UNION {Starts(h) .. Ends(h) - 1 : h \in eligible}
<1>1. h0 \in Int /\ Starts(h0) \in Int /\ Ends(h0) \in Int /\ now \in Nat
      /\ Starts(h0) <= now /\ now < Ends(h0)
  BY DEF PlansFromNow, HalfHourOf, Starts, Ends, HalfHour
<1>2. h0 \in eligible
  BY DEF PlansFromNow
<1>3. Cutoff \in Int
  BY <1>1, DayIsPositive DEF Cutoff, AbortDrift
<1>4. ASSUME NEW x \in S
      PROVE  /\ x \in Int /\ Starts(h0) <= x /\ x <= Cutoff
             /\ IsCheap(HalfHourOf(x))
  <2>1. PICK h \in eligible : x \in Starts(h) .. Ends(h) - 1
    OBVIOUS
  <2>2. h \in Int /\ Ends(h) <= Cutoff /\ h0 <= h /\ IsCheap(h)
    BY <2>1 DEF PlansFromNow
  <2>3. x \in Int /\ HalfHourOf(x) = h /\ x < Ends(h) /\ Starts(h) <= x
    BY <2>1, <2>2, TickOfHalfHour DEF Starts, Ends, HalfHour
  <2> HIDE DEF h0
  <2>4. Starts(h0) <= Starts(h) /\ Starts(h) \in Int /\ Ends(h) \in Int
    BY <1>1, <2>2 DEF Starts, Ends, HalfHour
  <2> QED BY <1>1, <1>3, <2>2, <2>3, <2>4
<1>5. \A x \in Starts(h0) .. now : x \in S
  <2> TAKE x \in Starts(h0) .. now
  <2>1. x \in Starts(h0) .. Ends(h0) - 1
    BY <1>1
  <2> QED BY <1>2, <2>1
<1> HIDE DEF S, h0, eligible
<1>6. S \subseteq Int /\ now \in S /\ \A x \in S : Starts(h0) <= x /\ x <= Cutoff
  BY <1>1, <1>4, <1>5
<1>7. PICK w \in Runs(S) : now \in Ticks(w)
  BY <1>1, <1>3, <1>6, RunAround
<1>8. /\ w.from \in Int /\ w.to \in Int /\ w.from < w.to /\ Ticks(w) \subseteq S /\ w.from - 1 \notin S
  BY <1>3, <1>6, RunTicks DEF Windows
<1>9. w.from <= now /\ now < w.to
  BY <1>7, <1>8 DEF Ticks
<1>10. w.from <= Starts(h0)
  <2>1. Starts(h0) < w.from => w.from - 1 \in Starts(h0) .. now
    BY <1>1, <1>8, <1>9
  <2> QED BY <1>1, <1>5, <1>8, <2>1
<1>11. w \in CheapWindows(upcoming)
  <2>1. ASSUME NEW v \in Runs(S) PROVE ~(v.from < w.from)
    <3>1. v \in Windows /\ v.from < v.to /\ Ticks(v) \subseteq S
      BY <1>3, <1>6, RunTicks
    <3>2. v.from \in Int /\ v.to \in Int
      BY <3>1 DEF Windows
    <3>3. v.from \in Int /\ v.from \in Ticks(v) /\ Ticks(v) \subseteq S
      BY <3>1, <3>2 DEF Ticks
    <3>4. Starts(h0) <= v.from
      BY <1>6, <3>3
    <3> QED BY <1>1, <1>8, <1>10, <3>3, <3>4
  <2>2. {v \in Runs(S) : v.from < w.from} = {}
    BY <2>1
  <2>3. Cardinality({}) < MaxSlots
    BY FS_EmptySet, PlanSizes
  <2>4. w \in Earliest(Runs(S), MaxSlots)
    BY <2>2, <2>3 DEF Earliest
  <2> QED BY <2>4 DEF CheapWindows, S, eligible
<1>12. ASSUME NEW h \in upcoming, Starts(h) < w.to, Ends(h) > w.from PROVE IsCheap(h)
  <2>1. h \in Int /\ Starts(h) \in Int /\ Ends(h) \in Int /\ Starts(h) < Ends(h)
    BY DEF PlansFromNow, Starts, Ends, HalfHour
  <2>2. PICK x \in Int : Starts(h) <= x /\ x < Ends(h) /\ w.from <= x /\ x < w.to
    <3>1. CASE Starts(h) >= w.from
      BY <1>12, <2>1, <3>1
    <3>2. CASE Starts(h) < w.from
      BY <1>8, <1>12, <2>1, <3>2
    <3> QED BY <1>8, <2>1, <3>1, <3>2
  <2>3. x \in S /\ x \in Starts(h) .. Ends(h) - 1
    BY <1>8, <2>1, <2>2 DEF Ticks
  <2>4. HalfHourOf(x) = h
    BY <2>1, <2>3, TickOfHalfHour
  <2> QED BY <1>4, <2>3, <2>4
<1>13. w \in Agile(upcoming)
  BY <1>11, <1>12 DEF Agile, SafeWindows
<1>14. Starts(h0) .. now \subseteq Ticks(w)
  BY <1>1, <1>8, <1>9, <1>10 DEF Ticks
<1> QED BY <1>13, <1>14 DEF h0

\* Until midnight the time of the day is what has passed since.
LEMMA SameDay ==
  ASSUME skew \in Int, NEW a \in Int, NEW b \in Int, a <= b,
         b - a < Day - ((a + Offset) % Day)
  PROVE  (b + Offset) % Day = ((a + Offset) % Day) + (b - a)
<1> DEFINE x == a + Offset
           y == b + Offset
           ra == x % Day
           r == ra + (b - a)
           q == x \div Day
<1>1. Day \in Nat \ {0} /\ Offset \in Int /\ x \in Int /\ y \in Int /\ y - x = b - a
  BY DayIsPositive, ClockIsInt
<1>2. q \in Int /\ ra \in 0 .. Day - 1 /\ x = Day * q + ra
  BY <1>1, Remainder
<1> HIDE DEF x, y, q, ra
<1>3. r \in 0 .. Day - 1
  BY <1>1, <1>2 DEF ra, x
<1>4. Day * q \in Int
  BY <1>1, <1>2, MultiplesAreApart
<1>5. y = Day * q + r
  BY <1>1, <1>2, <1>4
<1> HIDE DEF r
<1>6. y % Day = r
  BY <1>1, <1>2, <1>3, <1>5, UniqueRemainder
<1> QED BY <1>6 DEF r, ra, x, y

\* The slot w is on at t, by the inverter's clock.
OnAt(w, t) == ClockTime(w)[1] <= (t + Offset) % Day /\ (t + Offset) % Day < ClockTime(w)[2]

\* Each tick of a window is in one of its pieces, whose slot is then on, unless the
\* window goes on past a second midnight.
LEMMA SplitAround ==
  ASSUME skew \in Int, NEW w \in Windows, w.from < w.to, ~w.early, NEW t \in Ticks(w)
  PROVE  \E v \in Split(w) :
           /\ t \in Ticks(v) /\ v.free = w.free /\ Ticks(v) \subseteq Ticks(w)
           /\ v.from = w.from \/ (v.from = Midnight(w) /\ v.from <= t)
           /\ OnAt(v, t) \/ (Midnight(w) <= t /\ Midnight(w) + Day <= w.to)
<1> DEFINE m == Midnight(w)
           ra == (w.from + Offset) % Day
<1>1. w.from \in Int /\ w.to \in Int /\ t \in Int /\ w.from <= t /\ t < w.to
      /\ Day \in Nat \ {0} /\ Offset \in Int
  BY DayIsPositive, ClockIsInt DEF Windows, Ticks
<1>2. m \in Int /\ w.from < m /\ m - w.from = Day - ra /\ (m + Offset) % Day = 0
  BY <1>1, MidnightIsAhead
<1>3. ra \in Int /\ (t + Offset) % Day \in 0 .. Day - 1
  <2>1. w.from + Offset \in Int /\ t + Offset \in Int
    BY <1>1
  <2> QED BY <1>1, <2>1, Remainder
<1>4. ASSUME t < m PROVE (t + Offset) % Day = ra + (t - w.from)
  <2>1. t - w.from < Day - ra
    BY <1>1, <1>2, <1>3, <1>4
  <2> QED BY <1>1, <2>1, SameDay DEF ra
<1> HIDE DEF m, ra
<1>5. CASE w.to < m
  <2>1. w \in Split(w)
    BY <1>5 DEF Split, m
  <2>2. (w.to + Offset) % Day = ra + (w.to - w.from)
    <3>1. w.to - w.from < Day - ra
      BY <1>1, <1>2, <1>3, <1>5
    <3> QED BY <1>1, <3>1, SameDay DEF ra
  <2>3. (t + Offset) % Day = ra + (t - w.from)
    BY <1>1, <1>2, <1>4, <1>5
  <2>4. ClockTime(w) = <<ra, (w.to + Offset) % Day>>
    BY DEF ClockTime, ra
  <2>5. OnAt(w, t)
    BY <1>1, <1>3, <2>2, <2>3, <2>4 DEF OnAt
  <2> QED BY <2>1, <2>5
<1>6. CASE ~(w.to < m) /\ t < m
  <2> DEFINE v == [w EXCEPT !.to = m, !.early = TRUE]
  <2>1. v \in Split(w)
    BY <1>6 DEF Split, m
  <2>2. v.from = w.from /\ v.to = m /\ v.early /\ v.free = w.free
    BY DEF Windows
  <2> HIDE DEF v
  <2>3. ClockTime(v) = <<ra, Day>>
    BY <2>2 DEF ClockTime, ra
  <2>4. ra <= (t + Offset) % Day /\ (t + Offset) % Day < Day
    BY <1>1, <1>3, <1>4, <1>6
  <2>5. OnAt(v, t)
    BY <2>3, <2>4 DEF OnAt
  <2>6. t \in Ticks(v) /\ Ticks(v) \subseteq Ticks(w)
    BY <1>1, <1>2, <1>6, <2>2 DEF Ticks
  <2> QED BY <2>1, <2>2, <2>5, <2>6
<1>7. CASE ~(w.to < m) /\ ~(t < m)
  <2> DEFINE v == [w EXCEPT !.from = m]
  <2>1. v \in Split(w)
    BY <1>1, <1>2, <1>7 DEF Split, m
  <2>2. v.from = m /\ v.to = w.to /\ ~v.early /\ v.free = w.free
    BY DEF Windows
  <2> HIDE DEF v
  <2>3. ClockTime(v) = <<0, (w.to + Offset) % Day>>
    BY <1>2, <2>2 DEF ClockTime
  <2>4. ASSUME w.to < m + Day PROVE OnAt(v, t)
    <3> DEFINE rm == (m + Offset) % Day
    <3>1. rm = 0
      BY <1>2
    <3>2. w.to - m < Day - rm /\ t - m < Day - rm /\ m <= t /\ m <= w.to
      BY <1>1, <1>2, <1>7, <2>4, <3>1
    <3>3. (w.to + Offset) % Day = rm + (w.to - m) /\ (t + Offset) % Day = rm + (t - m)
      BY <1>1, <1>2, <3>2, SameDay
    <3> QED BY <1>1, <1>2, <1>7, <2>3, <3>1, <3>3 DEF OnAt
  <2>5. t \in Ticks(v) /\ Ticks(v) \subseteq Ticks(w)
    BY <1>1, <1>2, <1>7, <2>2 DEF Ticks
  <2>6. OnAt(v, t) \/ (m <= t /\ m + Day <= w.to)
    BY <1>1, <1>2, <1>7, <2>4
  <2>7. v.from = m /\ v.from <= t
    BY <1>1, <1>2, <1>7, <2>2
  <2> QED BY <2>1, <2>2, <2>5, <2>6, <2>7 DEF m
<1> QED BY <1>1, <1>2, <1>5, <1>6, <1>7

\* The two pieces of a window are two slots.
LEMMA PiecesDiffer ==
  ASSUME skew \in Int, NEW w \in Windows, w.from < w.to, ~w.early
  PROVE  \/ \E v : Split(w) = {v} /\ v.from \in Int
         \/ \E u, v : /\ Split(w) = {u, v} /\ u.from \in Int /\ v.from \in Int
                      /\ u.from < v.from /\ ClockTime(u) # ClockTime(v)
<1> DEFINE m == Midnight(w)
           u == [w EXCEPT !.to = m, !.early = TRUE]
           v == [w EXCEPT !.from = m]
<1>1. w.from \in Int /\ w.to \in Int /\ Day \in Nat \ {0} /\ Offset \in Int
  BY DayIsPositive, ClockIsInt DEF Windows
<1>2. m \in Int /\ w.from < m
  BY <1>1, MidnightIsAhead
<1>3. Split(w) = {w} \/ Split(w) = {u} \/ Split(w) = {u, v}
  BY <1>1, <1>2 DEF Split
<1>4. u.from = w.from /\ u.early /\ v.from = m /\ v.to = w.to /\ v.early = w.early
  BY DEF Windows
<1>5. ClockTime(u)[2] = Day
  BY <1>4 DEF ClockTime
<1> HIDE DEF u, v, m
<1>6. ClockTime(v)[2] = (w.to + Offset) % Day
  BY <1>4 DEF ClockTime
<1>7. (w.to + Offset) % Day < Day
  BY <1>1
<1>8. ClockTime(u) # ClockTime(v)
  BY <1>1, <1>5, <1>6, <1>7
<1> QED BY <1>1, <1>2, <1>3, <1>4, <1>8
\* What is covered is cheap from the current half-hour on, or free; for two days.
LEMMA CoveredTicks ==
  ASSUME NEW upcoming, PlansFromNow(upcoming), NEW y \in Covered(upcoming)
  PROVE  /\ y \in Nat /\ y <= now + 2 * Day
         /\ y \in FreeTicks \/ (IsCheap(HalfHourOf(y)) /\ Starts(HalfHourOf(now)) <= y)
<1>1. now \in Nat /\ sessions \subseteq Sessions /\ Day \in Nat
      /\ \A h \in upcoming : h \in Int /\ Ends(h) <= Cutoff /\ HalfHourOf(now) <= h
  BY DayIsPositive DEF PlansFromNow
<1>2. CASE y \in FreeTicks
  <2>1. y \in Nat /\ y < now + 2 * Day - AbortDrift
    BY <1>1, <1>2, FreeTicksInTime
  <2> QED BY <1>1, <1>2, <2>1 DEF AbortDrift
<1>3. CASE y \notin FreeTicks
  <2>1. PICK w \in Agile(upcoming) : y \in Ticks(w)
    BY <1>3 DEF Covered
  <2>2. w \in CheapWindows(upcoming)
    BY DEF Agile, SafeWindows
  <2>3. y \in Nat /\ IsCheap(HalfHourOf(y)) /\ y < Cutoff /\ HalfHourOf(y) \in upcoming
    BY <1>1, <2>1, <2>2, CheapWindowTicks
  <2>4. HalfHourOf(now) <= HalfHourOf(y)
    BY <1>1, <2>3
  <2>5. Starts(HalfHourOf(now)) <= y
    BY <1>1, <2>3, <2>4 DEF Starts, HalfHourOf, HalfHour
  <2>6. y <= now + 2 * Day
    BY <1>1, <2>3 DEF Cutoff, AbortDrift
  <2> QED BY <2>3, <2>5, <2>6
<1> QED BY <1>2, <1>3

\* A merged window is a run of covered ticks, free when one of them is.
LEMMA MergedWindow ==
  ASSUME NEW upcoming, PlansFromNow(upcoming), NEW m \in Merged(Agile(upcoming))
  PROVE  /\ m \in Windows /\ m.from < m.to /\ ~m.early /\ Ticks(m) \subseteq Covered(upcoming)
         /\ m.from - 1 \notin Covered(upcoming) /\ m.to \notin Covered(upcoming)
         /\ m.free = (Ticks(m) \cap FreeTicks # {})
         /\ \E v \in Runs(Covered(upcoming)) :
               /\ m = [v EXCEPT !.free = Ticks(v) \cap FreeTicks # {}]
               /\ Ticks(m) = Ticks(v)
<1> DEFINE S == Covered(upcoming)
           b == now + 2 * Day
<1>1. PICK v \in Runs(S) : m = [v EXCEPT !.free = Ticks(v) \cap FreeTicks # {}]
  BY DEF Merged, Covered
<1>2. b \in Int /\ S \subseteq Int /\ \A y \in S : y <= b
  <2>1. Day \in Nat /\ now \in Nat
    BY DayIsPositive DEF PlansFromNow
  <2> QED BY <2>1, CoveredTicks
<1> HIDE DEF S, b
<1>3. /\ v \in Windows /\ v.from < v.to /\ ~v.early /\ Ticks(v) \subseteq S
      /\ v.from - 1 \notin S /\ v.to \notin S
  BY <1>2, RunTicks
<1>4. m \in Windows /\ m.from = v.from /\ m.to = v.to /\ m.early = v.early
      /\ m.free = (Ticks(v) \cap FreeTicks # {})
  BY <1>1, <1>3 DEF Windows
<1>5. Ticks(m) = Ticks(v)
  BY <1>4 DEF Ticks
<1>6. /\ m \in Windows /\ m.from < m.to /\ ~m.early /\ Ticks(m) \subseteq S
      /\ m.from - 1 \notin S /\ m.to \notin S
  BY <1>3, <1>4, <1>5
<1>7. m.free = (Ticks(m) \cap FreeTicks # {})
  BY <1>4, <1>5, Zenon
<1> QED BY <1>1, <1>5, <1>6, <1>7, Zenon DEF S

\* Merged windows are apart.
LEMMA MergedAreApart ==
  ASSUME NEW upcoming, PlansFromNow(upcoming),
         NEW m \in Merged(Agile(upcoming)), NEW n \in Merged(Agile(upcoming)),
         NEW t \in Ticks(m), t \in Ticks(n)
  PROVE  m = n
<1> DEFINE S == Covered(upcoming)
           b == now + 2 * Day
<1>1. b \in Int /\ S \subseteq Int /\ \A y \in S : y <= b
  <2>1. Day \in Nat /\ now \in Nat
    BY DayIsPositive DEF PlansFromNow
  <2> QED BY <2>1, CoveredTicks
<1>2. PICK v \in Runs(S) : /\ m = [v EXCEPT !.free = Ticks(v) \cap FreeTicks # {}]
                           /\ Ticks(m) = Ticks(v)
  BY MergedWindow
<1>3. PICK w \in Runs(S) : /\ n = [w EXCEPT !.free = Ticks(w) \cap FreeTicks # {}]
                           /\ Ticks(n) = Ticks(w)
  BY MergedWindow
<1> HIDE DEF S, b
<1>4. v = w
  BY <1>1, <1>2, <1>3, RunsAreApart
<1> QED BY <1>2, <1>3, <1>4

\* One of them has the current half-hour so far.
LEMMA CurrentMerged ==
  ASSUME NEW upcoming, PlansFromNow(upcoming)
  PROVE  \E m \in Merged(Agile(upcoming)) : now \in Ticks(m) /\ m.from <= Starts(HalfHourOf(now))
<1> DEFINE S == Covered(upcoming)
           b == now + 2 * Day
           s0 == Starts(HalfHourOf(now))
<1>1. b \in Int /\ 0 \in Int /\ S \subseteq Int /\ (\A y \in S : 0 <= y) /\ \A y \in S : y <= b
  <2>1. Day \in Nat /\ now \in Nat
    BY DayIsPositive DEF PlansFromNow
  <2> QED BY <2>1, CoveredTicks
<1>2. now \in Int /\ s0 \in Int /\ s0 <= now
  BY DEF PlansFromNow, HalfHourOf, Starts, HalfHour
<1>3. \A y \in s0 .. now : y \in S
  BY CurrentWindow DEF Covered
<1> HIDE DEF b, s0
<1>4. now \in S
  BY <1>2, <1>3
<1>5. PICK v \in Runs(S) : now \in Ticks(v)
  <2> HIDE DEF S
  <2> QED BY <1>1, <1>4, RunAround
<1> DEFINE m == [v EXCEPT !.free = Ticks(v) \cap FreeTicks # {}]
<1>6. m \in Merged(Agile(upcoming))
  BY DEF Merged, Covered
<1>7. m.from = v.from /\ m.to = v.to
  <2>1. v \in Windows
    BY <1>1, <1>5, RunTicks
  <2> QED BY <2>1 DEF Windows
<1> HIDE DEF m, S
<1>8. now \in Ticks(m)
  BY <1>5, <1>7 DEF Ticks
<1>9. m.from - 1 \notin S /\ m.from \in Int /\ m.to \in Int
  BY <1>6, MergedWindow DEF Windows, S
<1>10. m.from <= s0
  <2>1. m.from <= now
    BY <1>2, <1>8, <1>9 DEF Ticks
  <2>2. s0 < m.from => m.from - 1 \in s0 .. now
    BY <1>2, <1>9, <2>1
  <2> QED BY <1>2, <1>3, <1>9, <2>2
<1> QED BY <1>6, <1>8, <1>10 DEF s0

\* Splitting keeps the tag.
LEMMA PieceKeepsFree ==
  ASSUME NEW w \in Windows, NEW v \in Split(w)
  PROVE  v.free = w.free
<1>1. v = w \/ v = [w EXCEPT !.to = Midnight(w), !.early = TRUE] \/ v = [w EXCEPT !.from = Midnight(w)]
  BY DEF Split
<1>2. CASE v = w
  BY <1>2
<1>3. CASE v = [w EXCEPT !.to = Midnight(w), !.early = TRUE]
  BY <1>3, Zenon DEF Windows
<1>4. CASE v = [w EXCEPT !.from = Midnight(w)]
  BY <1>4, Zenon DEF Windows
<1> QED BY <1>1, <1>2, <1>3, <1>4

\* A set of two has two elements.
LEMMA Pair == ASSUME NEW a, NEW b, a # b PROVE IsFiniteSet({a, b}) /\ Cardinality({a, b}) = 2
<1>1. {a, b} = {a} \cup {b}
  OBVIOUS
<1>2. IsFiniteSet({a}) /\ Cardinality({a}) = 1
  BY FS_Singleton
<1>3. IsFiniteSet({a} \cup {b}) /\ Cardinality({a} \cup {b}) = 1 + 1
  BY <1>2, FS_AddElement
<1> QED BY <1>1, <1>3

\* One session is announced at a time.
OneSession == sessions = {} \/ \E s : sessions = {s}

\* So at most one window is free.
LEMMA OneFreeWindow ==
  ASSUME NEW upcoming, PlansFromNow(upcoming), OneSession,
         NEW m \in Merged(Agile(upcoming)), NEW n \in Merged(Agile(upcoming)), m.free, n.free
  PROVE  m = n
<1> SUFFICES ASSUME NEW k \in Merged(Agile(upcoming)), NEW l \in Merged(Agile(upcoming)),
                    NEW f \in Ticks(k) \cap FreeTicks, NEW g \in Ticks(l) \cap FreeTicks,
                    f <= g
             PROVE  k = l
  <2>1. Ticks(m) \cap FreeTicks # {} /\ Ticks(n) \cap FreeTicks # {}
    BY MergedWindow
  <2>2. PICK f \in Ticks(m) \cap FreeTicks : TRUE
    BY <2>1
  <2>3. PICK g \in Ticks(n) \cap FreeTicks : TRUE
    BY <2>1
  <2>4. f \in Int /\ g \in Int
    BY <2>2, <2>3, FreeTicksInTime DEF PlansFromNow
  <2>5. f <= g \/ g <= f
    BY <2>4
  <2> QED BY <2>2, <2>3, <2>5
<1>1. PICK s : sessions = {s}
  <2>1. sessions # {}
    BY DEF FreeTicks
  <2> QED BY <2>1 DEF OneSession
<1>2. s[1] \in Nat /\ s[2] \in Nat
  BY <1>1, PlanInputs DEF PlansFromNow
<1>3. f \in s[1] .. s[2] - 1 /\ g \in s[1] .. s[2] - 1 /\ Upcoming(s)
  BY <1>1 DEF FreeTicks
<1>4. ASSUME NEW x \in f .. g PROVE x \in Covered(upcoming)
  <2>1. x \in s[1] .. s[2] - 1
    BY <1>2, <1>3
  <2> QED BY <1>1, <1>3, <2>1 DEF FreeTicks, Covered
<1>5. k.from \in Int /\ k.to \in Int /\ k.to \notin Covered(upcoming)
  BY MergedWindow DEF Windows
<1>6. g \in Ticks(k)
  <2>1. f \in Int /\ g \in Int /\ k.from <= f /\ f < k.to
    BY <1>2, <1>3, <1>5 DEF Ticks
  <2>2. k.to <= g => k.to \in f .. g
    BY <1>5, <2>1
  <2> QED BY <1>4, <1>5, <2>1, <2>2 DEF Ticks
<1> QED BY <1>6, MergedAreApart

\* The free pieces are those of one window.
LEMMA FreePieces ==
  ASSUME NEW upcoming, PlansFromNow(upcoming), OneSession
  PROVE  \/ {w \in Pieces(upcoming) : w.free} = {}
         \/ \E m \in Merged(Agile(upcoming)) : {w \in Pieces(upcoming) : w.free} = Split(m)
<1> SUFFICES ASSUME {w \in Pieces(upcoming) : w.free} # {}
             PROVE  \E m \in Merged(Agile(upcoming)) :
                      {w \in Pieces(upcoming) : w.free} = Split(m)
  OBVIOUS
<1>1. PICK w \in Pieces(upcoming) : w.free
  OBVIOUS
<1>2. PICK m \in Merged(Agile(upcoming)) : w \in Split(m)
  BY DEF Pieces
<1>3. m.free
  BY <1>1, <1>2, MergedWindow, PieceKeepsFree
<1>4. ASSUME NEW v \in Pieces(upcoming), v.free PROVE v \in Split(m)
  <2>1. PICK n \in Merged(Agile(upcoming)) : v \in Split(n)
    BY DEF Pieces
  <2>2. n.free
    BY <1>4, <2>1, MergedWindow, PieceKeepsFree
  <2> QED BY <1>3, <2>1, <2>2, OneFreeWindow
<1>5. ASSUME NEW v \in Split(m) PROVE v \in Pieces(upcoming) /\ v.free
  <2>1. v.free
    BY <1>3, MergedWindow, PieceKeepsFree
  <2> QED BY <2>1 DEF Pieces
<1> QED BY <1>4, <1>5

\* When windows are as many as the slots, or more, the first of them fill the
\* registers.
Fills(F) ==
  /\ IsFiniteSet(F) /\ Cardinality(F) \in Nat
  /\ Cardinality(F) >= MaxSlots =>
       Cardinality({ClockTime(w) : w \in Earliest(F, MaxSlots)}) = MaxSlots

\* One window fills one slot.
LEMMA OneFills == ASSUME NEW v, v.from \in Int PROVE Fills({v})
<1>1. MaxSlots \in Nat \ {0}
  BY PlanSizes
<1>2. IsFiniteSet({v}) /\ Cardinality({v}) = 1
  BY FS_Singleton
<1>3. {u \in {v} : u.from < v.from} = {} /\ Cardinality({}) = 0
  BY FS_EmptySet
<1>4. ASSUME MaxSlots = 1
      PROVE  Cardinality({ClockTime(w) : w \in Earliest({v}, MaxSlots)}) = MaxSlots
  <2>1. \A w \in {v} : Cardinality({u \in {v} : u.from < w.from}) < MaxSlots
    BY <1>3, <1>4
  <2>2. Earliest({v}, MaxSlots) = {v}
    BY <2>1 DEF Earliest
  <2>3. {ClockTime(w) : w \in {v}} = {ClockTime(v)}
    BY Zenon
  <2>4. Cardinality({ClockTime(v)}) = 1
    BY FS_Singleton
  <2> QED BY <1>4, <2>2, <2>3, <2>4
<1>5. 1 >= MaxSlots => MaxSlots = 1
  BY <1>1
<1> QED BY <1>2, <1>4, <1>5 DEF Fills

\* Two windows fill two slots, or the first of them one.
LEMMA TwoFill ==
  ASSUME NEW u, NEW v, u.from \in Int, v.from \in Int, u.from < v.from,
         ClockTime(u) # ClockTime(v)
  PROVE  Fills({u, v})
<1>1. MaxSlots \in Nat \ {0}
  BY PlanSizes
<1>2. u # v
  OBVIOUS
<1>3. IsFiniteSet({u, v}) /\ Cardinality({u, v}) = 2
  BY <1>2, Pair
<1> DEFINE Before(w) == {x \in {u, v} : x.from < w.from}
<1>4. Cardinality(Before(u)) = 0
  <2>1. Before(u) = {} /\ Cardinality({}) = 0
    BY FS_EmptySet
  <2> QED BY <2>1, Zenon
<1>5. Cardinality(Before(v)) = 1
  <2>1. Before(v) = {u} /\ Cardinality({u}) = 1
    BY FS_Singleton
  <2> QED BY <2>1, Zenon
<1>6. \A n : Earliest({u, v}, n) = {w \in {u, v} : Cardinality(Before(w)) < n}
  BY Zenon DEF Earliest
<1> HIDE DEF Before
<1>7. ASSUME MaxSlots = 1
      PROVE  Cardinality({ClockTime(w) : w \in Earliest({u, v}, MaxSlots)}) = MaxSlots
  <2>1. Cardinality(Before(u)) < MaxSlots /\ ~(Cardinality(Before(v)) < MaxSlots)
    BY <1>4, <1>5, <1>7
  <2>2. Earliest({u, v}, MaxSlots) = {u}
    BY <1>6, <2>1, Zenon
  <2>3. {ClockTime(w) : w \in {u}} = {ClockTime(u)}
    BY Zenon
  <2>4. Cardinality({ClockTime(u)}) = 1
    BY FS_Singleton
  <2> QED BY <1>7, <2>2, <2>3, <2>4
<1>8. ASSUME MaxSlots = 2
      PROVE  Cardinality({ClockTime(w) : w \in Earliest({u, v}, MaxSlots)}) = MaxSlots
  <2>1. Cardinality(Before(u)) < MaxSlots /\ Cardinality(Before(v)) < MaxSlots
    BY <1>4, <1>5, <1>8
  <2>2. Earliest({u, v}, MaxSlots) = {u, v}
    BY <1>6, <2>1, Zenon
  <2>3. {ClockTime(w) : w \in {u, v}} = {ClockTime(u), ClockTime(v)}
    BY Zenon
  <2>4. Cardinality({ClockTime(u), ClockTime(v)}) = 2
    BY Pair
  <2> QED BY <1>8, <2>2, <2>3, <2>4
<1>9. 2 >= MaxSlots => MaxSlots = 1 \/ MaxSlots = 2
  BY <1>1
<1> QED BY <1>3, <1>7, <1>8, <1>9 DEF Fills

\* The free pieces do.
LEMMA FreePiecesFill ==
  ASSUME NEW upcoming, PlansFromNow(upcoming), OneSession
  PROVE  Fills({w \in Pieces(upcoming) : w.free})
<1> DEFINE F == {w \in Pieces(upcoming) : w.free}
<1>1. CASE F = {}
  <2>1. MaxSlots \in Nat \ {0} /\ IsFiniteSet({}) /\ Cardinality({}) = 0
    BY PlanSizes, FS_EmptySet
  <2>2. Fills({})
    BY <2>1 DEF Fills
  <2> QED BY <1>1, <2>2
<1>2. CASE \E m \in Merged(Agile(upcoming)) : F = Split(m)
  <2>1. PICK m \in Merged(Agile(upcoming)) : F = Split(m)
    BY <1>2
  <2>2. m \in Windows /\ m.from < m.to /\ ~m.early /\ skew \in Int
    BY MergedWindow DEF PlansFromNow
  <2>3. Fills(Split(m))
    <3>1. CASE \E v : Split(m) = {v} /\ v.from \in Int
      BY <3>1, OneFills
    <3>2. CASE \E u, v : /\ Split(m) = {u, v} /\ u.from \in Int /\ v.from \in Int
                         /\ u.from < v.from /\ ClockTime(u) # ClockTime(v)
      BY <3>2, TwoFill
    <3> QED BY <2>2, <3>1, <3>2, PiecesDiffer
  <2> QED BY <2>1, <2>3
<1> QED BY <1>1, <1>2, FreePieces

\* A piece is made of covered ticks, and of free ones only when it is free.
LEMMA PieceIsCovered ==
  ASSUME NEW upcoming, PlansFromNow(upcoming), NEW u \in Pieces(upcoming)
  PROVE  /\ u \in Windows /\ u.from \in Ticks(u) /\ u.to - 1 \in Ticks(u)
         /\ Ticks(u) \subseteq Covered(upcoming)
         /\ ~u.free => Ticks(u) \cap FreeTicks = {}
<1>1. PICK n \in Merged(Agile(upcoming)) : u \in Split(n)
  BY DEF Pieces
<1>2. n \in Windows /\ n.from < n.to /\ ~n.early /\ Ticks(n) \subseteq Covered(upcoming)
      /\ n.free = (Ticks(n) \cap FreeTicks # {})
  BY MergedWindow
<1>3. Proper(u) /\ Ticks(u) \subseteq Ticks(n) /\ u.free = n.free
  BY <1>1, <1>2, SplitTicks, PieceKeepsFree DEF PlansFromNow
<1>4. u \in Windows /\ u.from \in Int /\ u.to \in Int /\ u.from < u.to
  BY <1>3 DEF Proper, Windows
<1>5. u.from \in Ticks(u) /\ u.to - 1 \in Ticks(u)
  BY <1>4 DEF Ticks
<1> QED BY <1>2, <1>3, <1>4, <1>5

\* There are finitely many pieces.
LEMMA PiecesFinite ==
  ASSUME NEW upcoming, PlansFromNow(upcoming)
  PROVE  IsFiniteSet(Pieces(upcoming))
<1> DEFINE b == now + 2 * Day
           P == Pieces(upcoming)
           T == ((0 .. b) \X (0 .. b + 1)) \X (BOOLEAN \X BOOLEAN)
           f == [w \in P |-> <<<<w.from, w.to>>, <<w.free, w.early>>>>]
<1>1. b \in Nat
  BY DayIsPositive DEF PlansFromNow
<1>2. ASSUME NEW w \in P
      PROVE  w \in Windows /\ w.from \in 0 .. b /\ w.to \in 0 .. b + 1
  <2>1. w \in Windows /\ w.from \in Covered(upcoming) /\ w.to - 1 \in Covered(upcoming)
    BY PieceIsCovered
  <2>2. w.from \in Nat /\ w.from <= b /\ w.to - 1 \in Nat /\ w.to - 1 <= b
    BY <2>1, CoveredTicks
  <2>3. w.to \in Int
    BY <2>1 DEF Windows
  <2> HIDE DEF b
  <2> QED BY <1>1, <2>1, <2>2, <2>3
<1>3. IsFiniteSet(T)
  <2> HIDE DEF b
  <2>1. IsFiniteSet(0 .. b) /\ IsFiniteSet(0 .. b + 1)
    BY <1>1, FS_Interval
  <2>2. IsFiniteSet(BOOLEAN)
    BY Pair
  <2>3. IsFiniteSet((0 .. b) \X (0 .. b + 1)) /\ IsFiniteSet(BOOLEAN \X BOOLEAN)
    BY <2>1, <2>2, FS_Product
  <2> QED BY <2>3, FS_Product
<1> HIDE DEF P, b
<1>4. f \in [P -> T]
  <2>1. \A w \in P : <<<<w.from, w.to>>, <<w.free, w.early>>>> \in T
    BY <1>2 DEF Windows
  <2> QED BY <2>1
<1>5. ASSUME NEW v \in P, NEW w \in P, f[v] = f[w] PROVE v = w
  <2>1. v.from = w.from /\ v.to = w.to /\ v.free = w.free /\ v.early = w.early
    BY <1>5
  <2> QED BY <1>2, <2>1 DEF Windows
<1>6. f \in Injection(P, T)
  <2> HIDE DEF f, T
  <2> QED BY <1>4, <1>5 DEF Injection, IsInjective
<1>7. IsFiniteSet(P)
  <2> HIDE DEF f, T
  <2> QED BY <1>3, <1>6, FS_Injection
<1> QED BY <1>7 DEF P

\* What is not free is cheap, and begins with the current half-hour or later.
LEMMA PaidPieces ==
  ASSUME NEW upcoming, PlansFromNow(upcoming), NEW u \in Pieces(upcoming), ~u.free
  PROVE  /\ \A y \in Ticks(u) : IsCheap(HalfHourOf(y))
         /\ u.from \in Int /\ Starts(HalfHourOf(now)) <= u.from
<1>1. /\ u \in Windows /\ u.from \in Ticks(u)
      /\ \A y \in Ticks(u) : y \in Covered(upcoming) /\ y \notin FreeTicks
  BY PieceIsCovered
<1>2. \A y \in Ticks(u) : IsCheap(HalfHourOf(y)) /\ Starts(HalfHourOf(now)) <= y
  BY <1>1, CoveredTicks
<1> QED BY <1>1, <1>2 DEF Windows

\* A midnight of the inverter's is not inside a half-hour.
LEMMA MidnightStartsHalfHour ==
  ASSUME skew \in Int, NEW w, w.from \in Int, NEW h \in Int, Starts(h) < Midnight(w)
  PROVE  Ends(h) <= Midnight(w)
<1> DEFINE q == (w.from + Offset) \div Day
           k == (skew + Snap \div 2) \div Snap
           A == (q + 1) * PerDay
<1>1. PerDay \in Nat /\ Day \in Nat \ {0} /\ Offset \in Int /\ k \in Int /\ Offset = k * 12
  BY PlanSizes, DayIsPositive, ClockIsInt DEF Offset, Snap
<1>2. w.from + Offset \in Int
  BY <1>1
<1>3. q \in Int
  BY <1>1, <1>2, Remainder
<1>4. Midnight(w) = (q + 1) * Day - Offset
  BY DEF Midnight
<1> HIDE DEF q, k
<1>5. A \in Int
  BY <1>1, <1>3
<1>6. (q + 1) * Day = A * 6
  BY <1>1, <1>3 DEF Day, HalfHour
<1> HIDE DEF A
<1>7. Midnight(w) = A * 6 - k * 12
  BY <1>1, <1>4, <1>6
<1>8. Starts(h) = h * 6 /\ Ends(h) = h * 6 + 6
  BY DEF Starts, Ends, HalfHour
<1> QED BY <1>1, <1>5, <1>7, <1>8

\* A window that goes on past a second midnight makes a whole day of what is
\* cheap or free.
LEMMA LongWindow ==
  ASSUME NEW upcoming, PlansFromNow(upcoming), NEW m \in Merged(Agile(upcoming)),
         now \in Ticks(m), Midnight(m) <= now, Midnight(m) + Day <= m.to
  PROVE  WholeDay
<1> DEFINE mid == Midnight(m)
           d == IF now < mid + Day THEN mid ELSE now - Day + 1
<1>1. m \in Windows /\ Ticks(m) \subseteq Covered(upcoming) /\ now \in Nat /\ skew \in Int
  BY MergedWindow DEF PlansFromNow
<1>2. m.from \in Int /\ m.to \in Int /\ now < m.to /\ Day \in Nat \ {0}
  BY <1>1, DayIsPositive DEF Windows, Ticks
<1>3. mid \in Int /\ m.from < mid /\ mid <= now /\ mid + Day <= m.to
  BY <1>1, <1>2, MidnightIsAhead
<1> HIDE DEF mid
<1>4. d \in now - Day + 1 .. now /\ m.from <= d /\ d + Day <= m.to
  <2>1. CASE now < mid + Day
    BY <1>1, <1>2, <1>3, <2>1
  <2>2. CASE ~(now < mid + Day)
    BY <1>1, <1>2, <1>3, <2>2
  <2> QED BY <2>1, <2>2
<1> HIDE DEF d
<1>5. ASSUME NEW t \in d .. d + Day - 1 PROVE IsCheap(HalfHourOf(t)) \/ t \in FreeTicks
  <2>1. d \in Int /\ t \in Int
    BY <1>1, <1>2, <1>4
  <2>2. t \in Ticks(m)
    BY <1>2, <1>4, <2>1 DEF Ticks
  <2> QED BY <1>1, <2>2, CoveredTicks
<1> QED BY <1>4, <1>5 DEF WholeDay

\* Some piece is on now, and if it is not free then it is the first that is not.
LEMMA CurrentPiece ==
  ASSUME NEW upcoming, PlansFromNow(upcoming), ~WholeDay
  PROVE  \E v \in Pieces(upcoming) :
           /\ OnAt(v, now)
           /\ ~v.free => \A u \in Pieces(upcoming) : ~u.free => ~(u.from < v.from)
<1> DEFINE h0 == HalfHourOf(now)
<1>1. PICK m \in Merged(Agile(upcoming)) : now \in Ticks(m) /\ m.from <= Starts(h0)
  BY CurrentMerged
<1>2. m \in Windows /\ m.from < m.to /\ ~m.early /\ skew \in Int /\ now \in Nat
  BY MergedWindow DEF PlansFromNow
<1>3. PICK v \in Split(m) :
         /\ now \in Ticks(v) /\ v.free = m.free
         /\ v.from = m.from \/ (v.from = Midnight(m) /\ v.from <= now)
         /\ OnAt(v, now) \/ (Midnight(m) <= now /\ Midnight(m) + Day <= m.to)
  BY <1>1, <1>2, SplitAround
<1>4. v \in Pieces(upcoming)
  BY <1>3 DEF Pieces
<1>5. OnAt(v, now)
  BY <1>1, <1>3, LongWindow
<1>6. ASSUME ~v.free, NEW u \in Pieces(upcoming), ~u.free PROVE ~(u.from < v.from)
  <2>1. u.from \in Int /\ Starts(h0) <= u.from /\ v.from \in Int /\ m.from \in Int
    BY <1>2, <1>4, <1>6, PaidPieces DEF Windows
  <2>2. h0 \in Int /\ Starts(h0) \in Int /\ now < Ends(h0) /\ Ends(h0) \in Int
    BY <1>2 DEF HalfHourOf, Starts, Ends, HalfHour
  <2>3. v.from <= Starts(h0)
    <3>1. CASE v.from = m.from
      BY <1>1, <3>1
    <3>2. CASE v.from = Midnight(m) /\ v.from <= now
      <4>1. Starts(h0) < Midnight(m) => Ends(h0) <= Midnight(m)
        <5> HIDE DEF h0
        <5> QED BY <1>2, <2>1, <2>2, MidnightStartsHalfHour
      <4> HIDE DEF h0
      <4> QED BY <1>2, <2>1, <2>2, <3>2, <4>1
    <3> QED BY <1>3, <3>1, <3>2
  <2> HIDE DEF h0
  <2> QED BY <2>1, <2>2, <2>3
<1> QED BY <1>4, <1>5, <1>6

\* It is planned, or free windows take every slot.
LEMMA CurrentPlanned ==
  ASSUME NEW upcoming, PlansFromNow(upcoming), OneSession, ~WholeDay
  PROVE  \/ \E w \in Plan(upcoming) : OnAt(w, now)
         \/ FreeTicks # {} /\ Cardinality({ClockTime(w) : w \in Plan(upcoming)}) = MaxSlots
<1> DEFINE W == Pieces(upcoming)
           F == {w \in W : w.free}
           c == Cardinality(F)
<1>1. PICK v \in W : /\ OnAt(v, now)
                     /\ ~v.free => \A u \in W : ~u.free => ~(u.from < v.from)
  BY CurrentPiece
<1>2. Fills(F) /\ IsFiniteSet(W)
  BY FreePiecesFill, PiecesFinite
<1>3. IsFiniteSet(F) /\ c \in Nat /\ MaxSlots \in Nat \ {0}
  BY <1>2, PlanSizes DEF Fills
<1>4. Plan(upcoming) = RoundTrip(Fitting(W), upcoming)
  BY Zenon DEF Plan, Pieces, Agile
<1>5. ASSUME v \in Fitting(W) PROVE v \in Plan(upcoming)
  <2>1. v.from \in Ticks(v) /\ v.to - 1 \in Ticks(v)
    BY PieceIsCovered
  <2>2. v.free \/ (IsCheap(HalfHourOf(v.from)) /\ IsCheap(HalfHourOf(v.to - 1)))
    BY <2>1, PaidPieces
  <2>3. v \in RoundTrip(Fitting(W), upcoming)
    BY <1>5, <2>2 DEF RoundTrip
  <2> QED BY <1>4, <2>3
<1>6. CASE Cardinality(W) <= MaxSlots
  <2>1. Fitting(W) = W
    BY <1>6 DEF Fitting
  <2> QED BY <1>1, <1>5, <2>1
<1> DEFINE left == MaxSlots - Min({MaxSlots, c})
<1>7. c < MaxSlots => left = MaxSlots - c
  BY <1>3, LeastOfTwo
<1>8. c >= MaxSlots => left = 0
  BY <1>3, LeastOfTwo
<1>9. ~(Cardinality(W) <= MaxSlots) =>
        Fitting(W) = Earliest(F, MaxSlots) \cup Earliest(W \ F, left)
  BY DEF Fitting
<1> HIDE DEF left
<1>10. CASE ~(Cardinality(W) <= MaxSlots) /\ c < MaxSlots
  <2>1. CASE v.free
    <3> DEFINE B == {u \in F : u.from < v.from}
    <3>1. Cardinality(B) <= c /\ Cardinality(B) \in Nat
      BY <1>3, FS_Subset, FS_CardinalityType
    <3>2. Cardinality(B) < MaxSlots
      BY <1>3, <1>10, <3>1
    <3>3. v \in Earliest(F, MaxSlots)
      BY <1>1, <2>1, <3>2 DEF Earliest
    <3> QED BY <1>1, <1>5, <1>9, <1>10, <3>3
  <2>2. CASE ~v.free
    <3>1. {u \in W \ F : u.from < v.from} = {}
      BY <1>1, <2>2
    <3>2. Cardinality({}) < left
      BY <1>3, <1>7, <1>10, FS_EmptySet
    <3>3. v \in Earliest(W \ F, left)
      BY <1>1, <2>2, <3>1, <3>2 DEF Earliest
    <3> QED BY <1>1, <1>5, <1>9, <1>10, <3>3
  <2> QED BY <2>1, <2>2
<1>11. CASE ~(Cardinality(W) <= MaxSlots) /\ ~(c < MaxSlots)
  <2>1. Earliest(W \ F, left) = {}
    <3> SUFFICES ASSUME NEW w \in Earliest(W \ F, left) PROVE FALSE
      OBVIOUS
    <3> DEFINE B == {u \in W \ F : u.from < w.from}
    <3>1. Cardinality(B) \in Nat
      BY <1>2, FS_Subset, FS_CardinalityType
    <3>2. Cardinality(B) < left /\ left = 0
      BY <1>3, <1>8, <1>11 DEF Earliest
    <3> HIDE DEF B
    <3> QED BY <3>1, <3>2
  <2>2. Fitting(W) = Earliest(F, MaxSlots)
    BY <1>9, <1>11, <2>1
  <2>3. Plan(upcoming) = Earliest(F, MaxSlots)
    <3>1. \A w \in Earliest(F, MaxSlots) : w.free
      BY DEF Earliest
    <3> QED BY <1>4, <2>2, <3>1 DEF RoundTrip
  <2>4. Cardinality({ClockTime(w) : w \in Plan(upcoming)}) = MaxSlots
    <3>1. c >= MaxSlots
      BY <1>3, <1>11
    <3> QED BY <1>2, <2>3, <3>1, Zenon DEF Fills
  <2>5. F # {}
    BY <1>3, <1>11, FS_EmptySet
  <2>6. FreeTicks # {}
    <3>1. PICK w \in W : w.free
      BY <2>5
    <3>2. PICK m \in Merged(Agile(upcoming)) : w \in Split(m)
      BY DEF Pieces
    <3>3. m \in Windows /\ m.free = (Ticks(m) \cap FreeTicks # {})
      BY MergedWindow
    <3>4. m.free
      BY <3>1, <3>2, <3>3, PieceKeepsFree
    <3>5. Ticks(m) \cap FreeTicks # {}
      BY <3>3, <3>4
    <3> QED BY <3>5
  <2> QED BY <2>4, <2>6
<1> QED BY <1>6, <1>10, <1>11

\* A run that has the price of a cheap half-hour plans from it on.
LEMMA PlansWhatIsPriced ==
  ASSUME now \in Nat, skew \in Int, sessions \subseteq Sessions,
         NEW cur \in Int \cup {NoDay}, NEW nxt \in Int \cup {NoDay},
         NEW again \in Int \cup {NoDay}, Covers(Rates(cur, nxt)),
         IsCheap(HalfHourOf(now)), HalfHourOf(now) % PerDay \in ChargeWindow
  PROVE  PlansFromNow(PlanningSlots(cur, nxt, again))
<1> DEFINE h0 == HalfHourOf(now)
           rates == Rates(cur, nxt)
           today == {h \in HalfHoursOf(rates) : Ends(h) > now /\ Ends(h) <= Cutoff}
           ahead == {h \in HalfHoursOf(again) : h > Max(today) /\ Ends(h) <= Cutoff}
           upcoming == PlanningSlots(cur, nxt, again)
<1>1. h0 \in Int /\ now < Ends(h0) /\ Ends(h0) <= now + HalfHour
  BY DEF HalfHourOf, Ends, HalfHour
<1>2. Cutoff \in Int /\ now + HalfHour <= Cutoff
  <2>1. PerDay \in Nat /\ PerDay >= 2
    BY PlanSizes
  <2>2. Day \in Int /\ Day >= 12
    BY <2>1 DEF Day, HalfHour
  <2> QED BY <2>2 DEF Cutoff, AbortDrift, HalfHour
<1>3. \A d \in Int \cup {NoDay} : HalfHoursOf(d) \subseteq Int
  <2> TAKE d \in Int \cup {NoDay}
  <2>1. CASE d = NoDay
    BY <2>1 DEF HalfHoursOf
  <2>2. CASE d \in Int /\ d # NoDay
    <3>1. d * PerDay \in Int /\ (d + 1) * PerDay - 1 \in Int
      BY <2>2, PlanSizes
    <3>2. HalfHoursOf(d) = d * PerDay .. (d + 1) * PerDay - 1
      BY <2>2 DEF HalfHoursOf
    <3> QED BY <3>1, <3>2
  <2> QED BY <2>1, <2>2
<1>4. rates \in Int \cup {NoDay}
  BY DEF Rates
<1> HIDE DEF rates
<1>5. ASSUME NEW h \in Int, Ends(h) > now PROVE h0 <= h
  BY <1>5 DEF HalfHourOf, Ends, HalfHour
<1>6. h0 \in HalfHoursOf(rates)
  BY DEF Covers, rates
<1> HIDE DEF h0
<1>7. h0 \in today
  <2>1. Ends(h0) \in Int
    BY <1>1 DEF Ends, HalfHour
  <2> QED BY <1>1, <1>2, <1>6, <2>1 DEF HalfHour
<1>8. today \subseteq Int /\ \A h \in today : h0 <= h /\ h <= Cutoff /\ Ends(h) <= Cutoff
  <2> SUFFICES ASSUME NEW h \in today
               PROVE  h \in Int /\ h0 <= h /\ h <= Cutoff /\ Ends(h) <= Cutoff
    OBVIOUS
  <2>1. h \in Int
    BY <1>3, <1>4
  <2>2. h0 <= h /\ Ends(h) <= Cutoff /\ Ends(h) > now
    BY <1>5, <2>1
  <2>3. h <= Cutoff
    BY <1>2, <2>1, <2>2 DEF Ends, HalfHour
  <2> QED BY <2>1, <2>2, <2>3
<1>9. today # {} /\ Max(today) \in today
  <2> HIDE DEF today
  <2> QED BY <1>2, <1>7, <1>8, GreatestElement
<1>10. upcoming = today \cup ahead
  BY <1>4, <1>9, Zenon DEF PlanningSlots, rates
<1>11. ASSUME NEW h \in ahead PROVE h \in Int /\ h0 <= h /\ Ends(h) <= Cutoff
  <2>1. h \in Int
    BY <1>3
  <2>2. h > Max(today) /\ Ends(h) <= Cutoff
    BY <1>11
  <2>3. Max(today) \in Int /\ h0 <= Max(today)
    <3> HIDE DEF today
    <3> QED BY <1>8, <1>9
  <2> HIDE DEF today
  <2> QED BY <1>1, <2>1, <2>2, <2>3
<1>12. \A h \in upcoming : h \in Int /\ Ends(h) <= Cutoff /\ h0 <= h
  <2> HIDE DEF today, ahead, upcoming
  <2> QED BY <1>8, <1>10, <1>11
<1>13. h0 \in upcoming
  <2> HIDE DEF today, ahead, upcoming
  <2> QED BY <1>7, <1>10
<1> QED BY <1>12, <1>13 DEF PlansFromNow, h0

\* What a run has read is a day with prices, or nothing.
LEMMA FetchedDays ==
  ASSUME PlanIInv, NEW i, NEW n, NEW failing
  PROVE  Fetch(i, n, failing) \in Int \cup {NoDay}
<1>1. Today \in Int
  BY TodayHasPrices DEF PlanIInv
<1>2. current \in Int /\ next \in Int \cup {NoDay}
  BY PlanSizes DEF PlanIInv
<1> QED BY <1>1, <1>2 DEF Fetch

\* CheapIsUsed, and why only the run just finished matters: the price it had is
\* forgotten before the next.
Used == OneSession /\ (due => ~priced) /\ CheapIsUsed

\* Nothing was priced before the first run.
LEMMA InitUsed == Init => Used
BY DEF Init, Used, OneSession, CheapIsUsed

\* One run of the CronJob.
LEMMA RunIsUsed ==
  ASSUME PlanIInv, Used, NEW n \in 1 .. 3, NEW failing \in SUBSET (1 .. 3), Run(n, failing)
  PROVE  Used'
<1> DEFINE cur == Fetch(1, n, failing)
           nxt == Fetch(2, n, failing)
           again == Fetch(3, n, failing)
           upcoming == PlanningSlots(cur, nxt, again)
           plan == Plan(upcoming)
           slots == {ClockTime(w) : w \in plan}
           Programs == /\ registers' = slots
                       /\ until' = Min({now} \cup {w.from : w \in plan}) + Day
                       /\ priced' = Covers(Rates(cur, nxt))
           Mixes == /\ registers' \in {registers \cup slots, registers \cap slots}
                    /\ until' = 0 /\ priced' = FALSE
<1>1. /\ due' = FALSE
      /\ now' = now /\ cheap' = cheap /\ sessions' = sessions /\ skew' = skew
      /\ (ClockUsable /\ Programs) \/ Clears \/ Mixes
  BY Zenon DEF Run
<1>2. OneSession'
  BY <1>1 DEF OneSession, Used
<1>3. /\ WholeDay' = WholeDay /\ FreeTicks' = FreeTicks /\ Offset' = Offset
      /\ IsCheap(HalfHourOf(now))' = IsCheap(HalfHourOf(now)) /\ HalfHourOf(now)' = HalfHourOf(now)
  <2>1. FreeTicks' = FreeTicks
    BY <1>1 DEF FreeTicks, Upcoming
  <2>2. \A h : IsCheap(h)' = IsCheap(h)
    BY <1>1 DEF IsCheap
  <2> QED BY <1>1, <2>1, <2>2 DEF WholeDay, Offset, HalfHourOf
<1>4. SUFFICES ASSUME priced', ~WholeDay, IsCheap(HalfHourOf(now)),
                      HalfHourOf(now) % PerDay \in ChargeWindow
               PROVE  \/ \E r \in registers' : r[1] <= (now + Offset) % Day
                                               /\ (now + Offset) % Day < r[2]
                      \/ Cardinality(registers') = MaxSlots /\ FreeTicks # {}
  BY <1>1, <1>2, <1>3 DEF Used, CheapIsUsed
<1>5. registers' = slots /\ Covers(Rates(cur, nxt))
  BY <1>1, <1>4, Zenon DEF Clears
<1>6. PlansFromNow(upcoming)
  <2>1. now \in Nat /\ skew \in Int /\ sessions \subseteq Sessions
    BY PlanInputs DEF PlanIInv
  <2>2. cur \in Int \cup {NoDay} /\ nxt \in Int \cup {NoDay} /\ again \in Int \cup {NoDay}
    BY FetchedDays
  <2> HIDE DEF cur, nxt, again
  <2> QED BY <1>4, <1>5, <2>1, <2>2, PlansWhatIsPriced
<1> HIDE DEF upcoming
<1>7. \/ \E w \in plan : OnAt(w, now)
      \/ FreeTicks # {} /\ Cardinality(slots) = MaxSlots
  BY <1>4, <1>6, CurrentPlanned DEF Used
<1>8. CASE \E w \in plan : OnAt(w, now)
  <2>1. PICK w \in plan : OnAt(w, now)
    BY <1>8
  <2>2. ClockTime(w) \in registers'
    BY <1>5
  <2> HIDE DEF plan
  <2> QED BY <2>1, <2>2, Zenon DEF OnAt
<1>9. CASE FreeTicks # {} /\ Cardinality(slots) = MaxSlots
  BY <1>5, <1>9, Zenon
<1> QED BY <1>7, <1>8, <1>9

\* Every step keeps it: no other makes priced true, and the world only changes
\* while it is false.
LEMMA NextKeepsUsed == PlanIInv /\ Used /\ [Next]_vars => Used'
<1> SUFFICES ASSUME PlanIInv, Used, [Next]_vars PROVE Used'
  OBVIOUS
<1>1. ASSUME NEW n \in 1 .. 3, NEW failing \in SUBSET (1 .. 3), Run(n, failing) PROVE Used'
  BY <1>1, RunIsUsed
<1>2. CASE Missed
  BY <1>2 DEF Missed, world, Used, OneSession, CheapIsUsed
<1>3. CASE Tick
  BY <1>3 DEF Tick, world, Used, OneSession, CheapIsUsed
<1>4. CASE World
  <2>1. due /\ due' = due /\ priced' = priced
    BY <1>4 DEF World, Publish, Announce, SetClock
  <2>2. OneSession'
    BY <1>4 DEF World, Publish, Announce, SetClock, OneSession, Used
  <2> QED BY <2>1, <2>2 DEF Used, CheapIsUsed
<1>5. CASE UNCHANGED vars
  <2>1. OneSession' /\ (due => ~priced)'
    BY <1>5 DEF vars, Used, OneSession
  <2>2. CheapIsUsed'
    BY <1>5 DEF vars, Used, CheapIsUsed, WholeDay, IsCheap, FreeTicks, Upcoming, HalfHourOf, Offset
  <2> QED BY <2>1, <2>2 DEF Used
<1> QED BY <1>1, <1>2, <1>3, <1>4, <1>5 DEF Next

----------------------------------------------------------------------------
(* The theorems. *)

\* The invariant holds in every state.
THEOREM PlanInvariant == Spec => []PlanIInv
BY InitPlanIInv, NextKeepsPlanIInv, PTL DEF Spec

\* The half-hours, the days of the entities and the clock times that are programmed
\* stay in their ranges.
THEOREM PlanTypeCorrect == Spec => []TypeOK
<1>1. PlanIInv => TypeOK
  BY DEF PlanIInv, RegistersFit, TypeOK
<1> QED BY <1>1, PlanInvariant, PTL

\* get_planning_slots, merge_windows and split_at_inverter_midnight, together with
\* the inverter's daily repetition: for a day after a run, whatever becomes of later
\* runs and of the prices, the slots charge only at cheap or free instants.
THEOREM ChargesAreWanted == Spec => []ChargesOnlyWanted
<1>1. PlanIInv => ChargesOnlyWanted
  BY PlannedCharges DEF ChargesOnlyWanted
<1> QED BY <1>1, PlanInvariant, PTL

\* split_at_inverter_midnight: no slot is ever armed that starts after it ends, in
\* whatever mixture of two plans a failed run leaves.
THEOREM SlotsNeverWrap == Spec => []NeverWraps
<1>1. PlanIInv => NeverWraps
  BY DEF PlanIInv, RegistersFit
<1> QED BY <1>1, PlanInvariant, PTL

\* get_planning_slots, merge_windows and the cut to MAX_SLOTS: a run in a cheap
\* half-hour of the charge window, whose price it has, leaves a slot that is on now,
\* unless free sessions take every slot or a whole day is cheap or free.
THEOREM CheapHalfHoursAreUsed == Spec => []CheapIsUsed
<1>1. Spec => []Used
  BY PlanInvariant, InitUsed, NextKeepsUsed, PTL DEF Spec
<1>2. Used => CheapIsUsed
  BY DEF Used
<1> QED BY <1>1, <1>2, PTL
=============================================================================
