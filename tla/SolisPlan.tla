------------------------------ MODULE SolisPlan ------------------------------
(***************************************************************************)
(* When the battery charges: how run_optimizer of solis_agile_charge.py    *)
(* turns half-hourly prices and free sessions into slots, and what those   *)
(* slots then do. A slot is a bare HH:MM pair on the inverter's own clock: *)
(* it recurs every day until a later run rewrites it.                      *)
(*                                                                         *)
(* Time is counted in ticks of five minutes. The runs come at :05, :20,    *)
(* :35 and :50, and the clock goes from one to the next; what the inverter *)
(* does in between is quantified over in the properties. The price         *)
(* entities roll over late, are unreadable, or roll over between two reads *)
(* of one run. The inverter's clock is off by a zone and a drift. How      *)
(* slots reach the registers is SolisSlots: here a run programs all of     *)
(* them, none, or, when it and its clear fail, some.                       *)
(*                                                                         *)
(* Discharge slots go through the same merge and split, and have no price  *)
(* to be checked against: they are left out.                               *)
(***************************************************************************)
EXTENDS Integers, FiniteSets, FiniteSetsExt

CONSTANTS
  PerDay,        \* half-hours in a day
  Days,          \* days with prices
  Tariffs,       \* sets of cheap half-hours a day may have (<= MAX_RATE)
  Sessions,      \* free-electricity sessions that may be announced, <<from, to>>
  Skews,         \* how far the inverter's clock may be ahead, zone included
  MaxSlots,      \* MAX_SLOTS
  ChargeWindow,  \* half-hours of the day inside CHARGE_WINDOW_START/END
  NoDay          \* an entity without rates, or one that could not be read

ASSUME PlanSizes == PerDay \in Nat \ {0, 1} /\ {Days, MaxSlots} \subseteq Nat \ {0}
ASSUME PlanInputs == /\ \A t \in Tariffs : t \subseteq 0 .. PerDay - 1
                     /\ Sessions \subseteq Nat \X Nat
                     /\ Skews \subseteq Int
                     /\ NoDay \notin Nat

HalfHour   == 6
Interval   == 3                \* the CronJob's 15 minutes
Snap       == 12               \* INVERTER_CLOCK_SNAP_SECONDS
AbortDrift == 5                \* INVERTER_CLOCK_ABORT_DRIFT_SECONDS
Day        == PerDay * HalfHour
SessionHorizon == Day + Day \div 2

\* A power-up lasts hours, not days.
ASSUME SessionsAreShort == \A s \in Sessions : s[2] - s[1] <= Day \div 2 - AbortDrift

VARIABLES
  now,        \* the tick of the latest run
  due,        \* that run has not happened yet
  cheap,      \* the tariff of each day
  sessions,   \* free sessions announced
  current,    \* day the current-day entity holds
  next,       \* day the next-day entity holds
  skew,       \* inverter clock minus UTC
  registers,  \* armed charge slots: HH:MM pairs
  until,      \* ghost: when the first slot of a finished run comes round again
  priced      \* ghost: the run just finished had the price of its half-hour

vars == <<now, due, cheap, sessions, current, next, skew, registers, until, priced>>
world == <<cheap, sessions, current, next, skew>>

Today == now \div Day

Init ==
  /\ now = 1 /\ due = TRUE
  /\ cheap \in [0 .. Days - 1 -> Tariffs]
  /\ sessions = {}
  /\ current = 0 /\ next = NoDay
  /\ skew \in Skews
  /\ registers = {}
  /\ until = 0 /\ priced = FALSE

----------------------------------------------------------------------------
(* The inverter's clock. *)

\* The nearest whole hour; the rest is drift. Halfway is out of tolerance.
Offset == ((skew + Snap \div 2) \div Snap) * Snap
Drift  == skew - Offset
ClockUsable == Drift \in -AbortDrift .. AbortDrift

\* The midnight of that clock after a window starts.
Midnight(w) == ((w.from + Offset) \div Day + 1) * Day - Offset

----------------------------------------------------------------------------
(* Faulty variants, for mutation tests of the properties. *)

\* The inverter's drift forgotten.
CutoffUndrifted == now + Day

\* The windows that start last.
Latest(W, n) == {w \in W : Cardinality({v \in W : v.from > w.from}) < n}

\* A window that ends at midnight is written as it is.
SplitInside(w) ==
  IF w.to <= Midnight(w) THEN {w}
  ELSE {[w EXCEPT !.to = Midnight(w), !.early = TRUE], [w EXCEPT !.from = Midnight(w)]}

----------------------------------------------------------------------------
(* Half-hours are numbered from the first day; prices are per half-hour. *)

Starts(h) == h * HalfHour
Ends(h)   == (h + 1) * HalfHour
HalfHourOf(t) == t \div HalfHour
HalfHoursOf(d) == IF d = NoDay THEN {} ELSE d * PerDay .. (d + 1) * PerDay - 1

IsCheap(h) ==
  /\ h \in 0 .. Days * PerDay - 1
  /\ h % PerDay \in cheap[h \div PerDay]

Covers(d) == HalfHourOf(now) \in HalfHoursOf(d)
Ahead(d)  == d # NoDay /\ d * Day > now

\* get_rates: the set that holds the current half-hour, else one to come.
Rates(cur, nxt) ==
  IF Covers(cur) THEN cur
  ELSE IF Covers(nxt) \/ Ahead(nxt) THEN nxt
  ELSE NoDay

\* 24 hours, less the drift the clock check lets pass.
Cutoff == now + Day - AbortDrift

\* get_planning_slots: what is left of those rates, then of the next day, up
\* to the cutoff. The next day is fetched once more.
PlanningSlots(cur, nxt, again) ==
  LET today == {h \in HalfHoursOf(Rates(cur, nxt)) : Ends(h) > now /\ Ends(h) <= Cutoff}
      ahead == {h \in HalfHoursOf(again) : h > Max(today) /\ Ends(h) <= Cutoff}
  IN IF today = {} THEN {} ELSE today \cup ahead

----------------------------------------------------------------------------
(* Windows: [from, to) in ticks. *)

Window(from, to) == [from |-> from, to |-> to, free |-> FALSE, early |-> FALSE]
Ticks(w) == w.from .. w.to - 1

\* The maximal runs of consecutive ticks of S.
Runs(S) ==
  LET firsts == {t \in S : t - 1 \notin S}
      After(t) == Min({u \in t .. Max(S) + 1 : u \notin S})
  IN {Window(t, After(t)) : t \in firsts}

\* The n windows that start first.
Earliest(W, n) == {w \in W : Cardinality({v \in W : v.from < w.from}) < n}

CheapWindows(upcoming) ==
  LET eligible == {h \in upcoming : IsCheap(h) /\ h % PerDay \in ChargeWindow}
  IN Earliest(Runs(UNION {Starts(h) .. Ends(h) - 1 : h \in eligible}), MaxSlots)

\* filter_safe_windows: none may overlap an expensive half-hour.
SafeWindows(W, upcoming) ==
  {w \in W : \A h \in upcoming : Starts(h) < w.to /\ Ends(h) > w.from => IsCheap(h)}

\* _future_sessions
Upcoming(s) == s[2] > now /\ s[1] < now + SessionHorizon
FreeTicks == UNION {s[1] .. s[2] - 1 : s \in {s \in sessions : Upcoming(s)}}

\* merge_windows: overlapping or adjacent windows become one, which is free
\* when one of them was.
Merged(W) ==
  {[w EXCEPT !.free = Ticks(w) \cap FreeTicks # {}] :
     w \in Runs(FreeTicks \cup UNION {Ticks(w) : w \in W})}

\* split_at_inverter_midnight: at most once, and a window that ends on that
\* midnight ends a minute early.
Split(w) ==
  IF w.to < Midnight(w) THEN {w}
  ELSE {[w EXCEPT !.to = Midnight(w), !.early = TRUE]}
       \cup (IF w.to = Midnight(w) THEN {} ELSE {[w EXCEPT !.from = Midnight(w)]})

\* More windows than slots: the free ones, then the earliest.
Fitting(W) ==
  LET free == {w \in W : w.free}
  IN IF Cardinality(W) <= MaxSlots THEN W
     ELSE Earliest(free, MaxSlots)
          \cup Earliest(W \ free, MaxSlots - Min({MaxSlots, Cardinality(free)}))

\* verify_written_slots_are_cheap: both ends must have a cheap rate, or none.
RoundTrip(W, upcoming) ==
  {w \in W : w.free \/ \A t \in {w.from, w.to - 1} :
                HalfHourOf(t) \in upcoming => IsCheap(HalfHourOf(t))}

\* _inverter_hhmm. Day stands for 23:59.
ClockTime(w) ==
  <<(w.from + Offset) % Day, IF w.early THEN Day ELSE (w.to + Offset) % Day>>

Plan(upcoming) ==
  LET agile == SafeWindows(CheapWindows(upcoming), upcoming)
      all   == UNION {Split(w) : w \in Merged(agile)}
  IN RoundTrip(Fitting(all), upcoming)

----------------------------------------------------------------------------
(* One run of the CronJob. *)

\* What the i-th fetch of a rate entity returns, when the entities roll over
\* after the first n fetches and those in failing raise.
Fetch(i, n, failing) ==
  IF i \in failing THEN NoDay
  ELSE IF i = 1 THEN (IF i <= n THEN current ELSE Today)
  ELSE (IF i <= n THEN next ELSE NoDay)

\* The entities roll over during the run when n < 3.
RollsAfter(n) ==
  /\ n < 3 => Today > current
  /\ current' = IF n < 3 THEN Today ELSE current
  /\ next'    = IF n < 3 THEN NoDay ELSE next

\* The clock or the mode was refused, a fetch raised, there was nothing to
\* plan with, or the write failed; and main() or run_optimizer cleared.
Clears ==
  /\ registers' = {}
  /\ until' = 0 /\ priced' = FALSE

Run(n, failing) ==
  LET cur == Fetch(1, n, failing)
      nxt == Fetch(2, n, failing)
      upcoming == PlanningSlots(cur, nxt, Fetch(3, n, failing))
      plan == Plan(upcoming)
      slots == {ClockTime(w) : w \in plan}
      Programs == /\ registers' = slots
                  /\ until' = Min({now} \cup {w.from : w \in plan}) + Day
                  /\ priced' = Covers(Rates(cur, nxt))
      Mixes == /\ registers' \in {registers \cup slots, registers \cap slots}
               /\ until' = 0 /\ priced' = FALSE
  IN /\ due /\ due' = FALSE
     /\ RollsAfter(n)
     /\ IF ClockUsable /\ upcoming # {} THEN Programs \/ Clears \/ Mixes ELSE Clears
     /\ UNCHANGED <<now, cheap, sessions, skew>>

\* The run is missed, or killed before its first write, or it fails and its
\* clear as well.
Missed ==
  /\ due /\ due' = FALSE
  /\ UNCHANGED <<now, world, registers, until, priced>>

----------------------------------------------------------------------------
(* The world. *)

\* 15 minutes later. Bounded by the last day with prices.
Tick ==
  /\ ~due /\ due' = TRUE
  /\ now + Interval < Days * Day
  /\ now' = now + Interval
  /\ priced' = FALSE
  /\ UNCHANGED <<world, registers, until>>

\* Octopus publishes tomorrow.
Publish ==
  /\ next = NoDay /\ current + 1 < Days
  /\ next' = current + 1
  /\ UNCHANGED <<now, due, cheap, sessions, current, skew, registers, until, priced>>

Announce(s) ==
  /\ sessions = {} /\ s[1] > now
  /\ sessions' = {s}
  /\ UNCHANGED <<now, due, cheap, current, next, skew, registers, until, priced>>

\* The clocks change, or someone sets the inverter's: once between two runs that
\* use it, which is as good as several times.
SetClock(k) ==
  /\ until # 0 \/ ~ClockUsable
  /\ k # skew /\ skew' = k /\ until' = 0
  /\ UNCHANGED <<now, due, cheap, sessions, current, next, registers, priced>>

\* Between two runs: nothing looks at the world in the meantime.
World ==
  /\ due
  /\ \/ Publish
     \/ \E s \in Sessions : Announce(s)
     \/ \E k \in Skews : SetClock(k)

Next ==
  \/ \E n \in 1 .. 3, failing \in SUBSET (1 .. 3) : Run(n, failing)
  \/ Missed \/ Tick
  \/ World

Spec == Init /\ [][Next]_vars

----------------------------------------------------------------------------
(* Properties *)

\* Days, clock times and the run's bookkeeping keep their types.
TypeOK ==
  /\ now \in Nat /\ due \in BOOLEAN
  /\ cheap \in [0 .. Days - 1 -> Tariffs]
  /\ sessions \subseteq Sessions
  /\ {current, next} \subseteq 0 .. Days - 1 \cup {NoDay}
  /\ skew \in Skews
  /\ registers \subseteq (0 .. Day) \X (0 .. Day)
  /\ until \in Nat /\ priced \in BOOLEAN

\* The inverter charges at t, by its own clock.
Charges(t) ==
  \E r \in registers : r[1] <= (t + skew) % Day /\ (t + skew) % Day < r[2]

InSession(t) == \E s \in sessions : t \in s[1] .. s[2] - 1
Wanted(t)    == IsCheap(HalfHourOf(t)) \/ InSession(t)

\* Slots mean their next occurrence, as long as none has come round again.
Valid(t) == until # 0 /\ t + Drift < until

\* For a day after a run programmed them, whether or not later runs happen, the
\* slots charge only at instants that are cheap or free on that very day, up to
\* the tolerated drift. Sessions more than a day ahead are set apart: see
\* SessionsKeepTheirDay. That day is one by the inverter's clock, so with a slow
\* clock it also sets apart sessions that start in 24 hours less the drift, or
\* later.
ChargesOnlyWanted ==
  \A t \in now .. now + Interval - 1 :
    Valid(t) /\ Charges(t) => Wanted(t + Drift) \/ InSession(t + Drift + Day)

\* get_free_electricity_sessions returns "Power-ups in the next 24h" and
\* get_planning_slots knows that a slot means its next occurrence: nothing
\* fires on a day it was not meant for. A session that starts 24 to 36 hours
\* ahead, which _future_sessions lets through, fires a day early.
SessionsKeepTheirDay ==
  \A t \in now .. now + Interval - 1 : Valid(t) /\ Charges(t) => Wanted(t + Drift)

\* A day around now is cheap or free throughout. A window can then be longer than
\* a day, and Split, which cuts it once, leaves a slot that is on for a part of
\* the time or, from midnight to midnight, not at all.
WholeDay ==
  \E d \in now - Day + 1 .. now : \A t \in d .. d + Day - 1 :
    IsCheap(HalfHourOf(t)) \/ t \in FreeTicks

\* A run in a cheap half-hour whose price it has leaves the battery charging:
\* nothing planned for later displaces it, except free sessions that take every
\* slot.
CheapIsUsed ==
  /\ priced /\ ~WholeDay
  /\ IsCheap(HalfHourOf(now)) /\ HalfHourOf(now) % PerDay \in ChargeWindow
  => \/ \E r \in registers : r[1] <= (now + Offset) % Day /\ (now + Offset) % Day < r[2]
     \/ Cardinality(registers) = MaxSlots /\ FreeTicks # {}

\* "How this firmware treats start > end (wrap, reject, never fire) has never been
\* established, so never write one."
NeverWraps == \A r \in registers : ~(r[1] > r[2])
=============================================================================
