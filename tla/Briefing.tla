------------------------------- MODULE Briefing ------------------------------
(***************************************************************************)
(* The electricity briefing skill (electricity/lambda_function.py,         *)
(* tariffs.py, presentation.py). One request fetches today's and           *)
(* tomorrow's rates from Home Assistant concurrently, within a deadline,   *)
(* merges them, and says what this hour and the next cost, and which half  *)
(* hours ahead are cheapest and dearest. The entities roll over, tomorrow  *)
(* is published, and time passes while it does.                            *)
(*                                                                         *)
(* Time is counted in quarter hours, half-hours are numbered. A feed is    *)
(* the set of half-hours it has a rate for; a feed parse_state_rates or    *)
(* merge_rates refuses is "malformed" in the one case and "conflict" in    *)
(* the other. An average is told twice over. The verification of the       *)
(* request, the token and the wording are left out.                        *)
(***************************************************************************)
EXTENDS Integers, FiniteSets, FiniteSetsExt

CONSTANTS
  PerDay,     \* half-hours in a day
  Days,       \* days with rates
  Tariffs,    \* prices the half-hours of all days may have
  Horizon,    \* CHART_HORIZON, in half-hours
  Changeover, \* the half-hour summer time ends
  Nothing     \* an entity without rates

BriefingSizes ==
  /\ {PerDay, Days, Horizon} \subseteq Nat \ {0} /\ PerDay % 2 = 0
  /\ Tariffs \subseteq [0 .. Days * PerDay - 1 -> Int]
  /\ Changeover \in Nat /\ Nothing \notin Nat

\* Six hours of chart on a day of 24.
HorizonWithinDay == Horizon + 2 < PerDay /\ 4 < PerDay

VARIABLES
  clock,      \* quarter hours
  pence,      \* the price of each half-hour
  holes,      \* half-hours Octopus never published
  today,      \* the day of CURRENT_DAY_ENTITY
  tomorrow,   \* the day of NEXT_DAY_ENTITY, or Nothing
  got,        \* what the fetches returned
  answer      \* what was said, with the instant it was built for

briefingVars == <<clock, pence, holes, today, tomorrow, got, answer>>

Feeds    == {"current", "future"}
HalfHours == 0 .. Days * PerDay - 1
Of(d)    == IF d = Nothing THEN {} ELSE (d * PerDay .. (d + 1) * PerDay - 1) \ holes
Pending  == [kind |-> "pending", rates |-> {}]
Failures == {"auth", "missing", "error", "malformed", "conflict"}
Unsaid   == [kind |-> "none"]
DayOf(t) == t \div (2 * PerDay)

BriefingInit ==
  /\ clock = 0
  /\ pence \in Tariffs
  /\ holes \in {{}} \cup {{h} : h \in HalfHours}
  /\ today = 0 /\ tomorrow = Nothing
  /\ got = [f \in Feeds |-> Pending]
  /\ answer = Unsaid

----------------------------------------------------------------------------
(* The world. Bounded by the last day with rates. *)

TimePasses ==
  /\ clock + 1 < 2 * Cardinality(HalfHours) /\ clock' = clock + 1
  /\ UNCHANGED <<pence, holes, today, tomorrow, got, answer>>

RollOver ==
  /\ DayOf(clock) > today
  /\ today' = today + 1 /\ tomorrow' = Nothing
  /\ UNCHANGED <<clock, pence, holes, got, answer>>

PublishTomorrow ==
  /\ tomorrow = Nothing /\ today + 1 < Days
  /\ tomorrow' = today + 1
  /\ UNCHANGED <<clock, pence, holes, today, got, answer>>

----------------------------------------------------------------------------
(* Faulty variants, for mutation tests of the properties. *)

\* The zone is told only when this hour and the next need it.
ZonesOfHours(b) == b.hours

\* Everything ahead is one chart, gaps and all.
ChartWithGaps(rates, t) == {r \in rates : 2 * r + 2 > t /\ 2 * r < t + 2 * Horizon}

----------------------------------------------------------------------------
(* tariffs.py *)

Unpriced == Nothing

\* window_average over a full hour, twice over.
SumOver(rates, h) == IF {h, h + 1} \subseteq rates THEN pence[h] + pence[h + 1] ELSE Unpriced

Covering(t) == t \div 2
FloorHour(t) == 2 * (t \div 4)

\* merge_rates: two rates that start together must agree ("conflict" otherwise).
MergedRates == UNION {got[f].rates : f \in Feeds}

\* chart_slots: contiguous, from the half-hour of t up to the horizon.
Chart(rates, t) ==
  LET inside == {r \in rates : 2 * r + 2 > t /\ 2 * r < t + 2 * Horizon}
  IN {r \in inside : \A q \in Min(inside) .. r : q \in inside}

Cheapest(chart) == Min({r \in chart : \A q \in chart : pence[r] <= pence[q]})
Dearest(chart)  == Min({r \in chart : \A q \in chart : pence[r] >= pence[q]})

\* build_briefing
Built(rates, t) ==
  LET hour  == FloorHour(t)
      chart == Chart(rates, t)
  IN [kind     |-> "briefing", at |-> t,
      hours    |-> {hour, hour + 2, hour + 4},
      now2     |-> SumOver(rates, hour), next2 |-> SumOver(rates, hour + 2),
      chart    |-> chart,
      cheapest |-> Cheapest(chart), dearest |-> Dearest(chart),
      truncated |-> 2 * (Max(chart) + 1) < t + 2 * Horizon]

----------------------------------------------------------------------------
(* _fetch_both and _briefing_response *)

\* _fetch_feed and parse_state_rates: what its entity holds then, a state
\* without rates, or a failure.
Fetch(f) ==
  /\ got[f] = Pending
  /\ \/ \E kind \in Failures : got' = [got EXCEPT ![f] = [kind |-> kind, rates |-> {}]]
     \/ \E day \in {IF f = "current" THEN today ELSE tomorrow, Nothing} :
          got' = [got EXCEPT ![f] = [kind |-> "ok", rates |-> Of(day)]]
  /\ UNCHANGED <<clock, pence, holes, today, tomorrow, answer>>

Deadline ==
  /\ \E f \in Feeds : got[f] = Pending
  /\ got' = [f \in Feeds |-> IF got[f] = Pending THEN [got[f] EXCEPT !.kind = "timeout"] ELSE got[f]]
  /\ UNCHANGED <<clock, pence, holes, today, tomorrow, answer>>

Says(kind) == [kind |-> kind]

Reply ==
  LET current == got["current"].kind
      kinds == {current, got["future"].kind}
      rates == MergedRates
  IN IF "auth" \in kinds THEN Says("link")
     ELSE IF "timeout" \in kinds THEN Says("deadline")
     ELSE IF current \in {"error", "missing"} THEN Says("unavailable")
     ELSE IF {"malformed", "conflict"} \cap kinds # {} THEN Says("malformed")
     ELSE IF Covering(clock) \notin rates THEN Says("no_coverage")
     ELSE Built(rates, clock)

Respond ==
  /\ \A f \in Feeds : got[f] # Pending
  /\ answer = Unsaid
  /\ answer' = Reply
  /\ UNCHANGED <<clock, pence, holes, today, tomorrow, got>>

\* The next request: lambda_handler keeps nothing.
Again ==
  /\ answer # Unsaid /\ answer' = Unsaid
  /\ got' = [f \in Feeds |-> Pending]
  /\ UNCHANGED <<clock, pence, holes, today, tomorrow>>

BriefingNext ==
  \/ TimePasses \/ RollOver \/ PublishTomorrow
  \/ \E f \in Feeds : Fetch(f)
  \/ Deadline \/ Respond \/ Again

BriefingSpec == BriefingInit /\ [][BriefingNext]_briefingVars

----------------------------------------------------------------------------
(* Labels: Europe/London clock times of half-hour boundaries. *)

Zone(m)  == IF m < Changeover THEN "BST" ELSE "GMT"
Local(m) == IF Zone(m) = "BST" THEN m + 2 ELSE m

\* _needs_zone_labels looks at every boundary of the hours and the chart.
ZonesOf(b) == b.hours \cup b.chart \cup {r + 1 : r \in b.chart}

\* briefing_speech: "tomorrow" when the date is a later one.
Label(b, m) ==
  <<Local(m) % PerDay, Local(m) \div PerDay > Local(Covering(b.at)) \div PerDay,
    IF Cardinality({Zone(x) : x \in ZonesOf(b)}) > 1 THEN Zone(m) ELSE "">>

----------------------------------------------------------------------------
(* Properties *)

\* Feeds and days keep their types.
BriefingTypeOK ==
  /\ clock \in 0 .. 2 * Cardinality(HalfHours) - 1
  /\ {today, tomorrow} \subseteq 0 .. Days - 1 \cup {Nothing}
  /\ \A f \in Feeds : got[f].kind \in Failures \cup {"pending", "ok", "timeout"} /\ got[f].rates \subseteq HalfHours
  /\ answer = Unsaid \/ answer.kind \in {"link", "deadline", "unavailable", "malformed", "no_coverage", "briefing"}

Spoken == answer # Unsaid /\ answer.kind = "briefing"

\* "missing coverage is never treated as zero" and "Among the rates I have up to
\* ...": whichever mix of days the two fetches saw and whatever is missing, the
\* two averages are those of the hour the briefing was built in and of the next,
\* or are not told; and from the current half-hour to the end that is told, no
\* half-hour is cheaper than the cheapest or dearer than the dearest, known or
\* not, and a chart that stops short of the horizon says so.
BriefingIsRight ==
  Spoken =>
    LET hour == FloorHour(answer.at)
        told == Covering(answer.at) .. Max(answer.chart)
    IN /\ answer.now2 # Unpriced => answer.now2 = pence[hour] + pence[hour + 1]
       /\ answer.next2 # Unpriced => answer.next2 = pence[hour + 2] + pence[hour + 3]
       /\ \A h \in told : pence[answer.cheapest] <= pence[h] /\ pence[h] <= pence[answer.dearest]
       /\ ~answer.truncated => 2 * (Max(answer.chart) + 1) >= answer.at + 2 * Horizon

\* On the night the clocks go back, an hour's clock times come twice: two
\* instants a briefing tells never have the same label.
LabelsDiffer ==
  Spoken =>
    \A m, n \in answer.hours \cup answer.chart \cup {r + 1 : r \in answer.chart} :
      Label(answer, m) = Label(answer, n) => m = n
=============================================================================
