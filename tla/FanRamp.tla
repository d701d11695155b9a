------------------------------- MODULE FanRamp -------------------------------
(***************************************************************************)
(* The fan ramp detector of fanwatch (app.py). One thread per server polls *)
(* its fans; a reading far above the recent median opens an episode, two   *)
(* readings near that median close it. Episodes of all servers share one   *)
(* list, which is trimmed from its head and rewritten to a file after each *)
(* change, if that can be written. The episode a server is in and its last *)
(* readings are in memory only.                                            *)
(*                                                                         *)
(* A reading is the fastest fan in percent, 0 when the document shows      *)
(* none. Time is abstract: any number of old readings may have left the    *)
(* window when a poll succeeds. A failed poll only marks the server        *)
(* offline. What an episode records of temperatures, its peak and its      *)
(* duration are left out.                                                  *)
(***************************************************************************)
EXTENDS Integers, Sequences, FiniteSets, SequencesExt, SeqSelect

CONSTANTS
  Servers,      \* TARGETS
  Levels,       \* readings
  MinSamples,   \* BASELINE_MIN_SAMPLES
  Window,       \* bound: readings BASELINE_WINDOW_S has room for
  MaxListed,    \* MAX_EVENTS
  MaxEpisodes,  \* bound: episodes
  MaxReboots    \* bound: restarts of fanwatch

RampBounds ==
  /\ Levels \subseteq 0 .. 100
  /\ {MinSamples, Window, MaxListed} \subseteq Nat \ {0}
  /\ {MaxEpisodes, MaxReboots} \subseteq Nat

Floor        == 40   \* RAMP_FLOOR
AbsDelta     == 12   \* RAMP_ABS_DELTA
ClearDelta   == 8    \* RAMP_CLEAR_DELTA
ClearSamples == 2    \* RAMP_CLEAR_SAMPLES

VARIABLES
  fan,      \* the world: the fastest fan of each server
  past,     \* readings in the window, oldest first
  active,   \* active_event of each server
  below,    \* below_count
  listed,   \* _events
  saved,    \* events.jsonl
  lastId,   \* _event_seq
  reboots

rampVars == <<fan, past, active, below, listed, saved, lastId, reboots>>

Episode == [id : 1 .. MaxEpisodes, server : Servers, baseline : 0 .. 100, open : BOOLEAN]
Quiet   == <<>>

RampInit ==
  /\ fan \in [Servers -> Levels]
  /\ past = [s \in Servers |-> <<>>]
  /\ active = [s \in Servers |-> Quiet] /\ below = [s \in Servers |-> 0]
  /\ listed = <<>> /\ saved = <<>> /\ lastId = 0
  /\ reboots = 0

FanChanges(s) ==
  /\ \E f \in Levels \ {fan[s]} : fan' = [fan EXCEPT ![s] = f]
  /\ UNCHANGED <<past, active, below, listed, saved, lastId, reboots>>

----------------------------------------------------------------------------
(* Faulty variants, for mutation tests of the properties. *)

\* Every episode still in the file is taken for live.
LeftOpen(events) == events

\* Only readings below the baseline itself count.
LowsBelow(s) == IF fan[s] < active[s].baseline THEN below[s] + 1 ELSE 0

----------------------------------------------------------------------------
(* _detect_ramp *)

\* The k-th of the readings when they are sorted.
Ranked(readings, k) ==
  Min({f \in Range(readings) : Cardinality({i \in DOMAIN readings : readings[i] <= f}) >= k})

\* Twice the median, which may lie between two readings.
Median2(readings) ==
  LET n == Len(readings)
  IN Ranked(readings, (n + 1) \div 2) + Ranked(readings, n \div 2 + 1)

Baseline2(recent, f) == IF Len(recent) >= MinSamples THEN Median2(recent) ELSE 2 * f

\* round(): the nearest, and of two the even.
Rounded(n, d) ==
  LET q == n \div d
      r == 2 * (n % d)
  IN IF r > d \/ (r = d /\ q % 2 = 1) THEN q + 1 ELSE q

\* At the floor, and above both margins.
Abnormal(recent, f) ==
  LET b2 == Baseline2(recent, f)
  IN f >= Floor /\ 2 * f >= b2 + 2 * AbsDelta /\ f >= Rounded(b2 * 135, 200)

Trim(events) ==
  IF Len(events) > MaxListed THEN SubSeq(events, Len(events) - MaxListed + 1, Len(events))
  ELSE events

\* _events_save: a failure is silent.
Save == saved' \in {listed', saved}

\* No ids left in the model: nothing starts.
Starts(s, recent) == Abnormal(recent, fan[s]) /\ lastId < MaxEpisodes

Opens(s, recent) ==
  /\ active[s] = Quiet /\ Starts(s, recent)
  /\ lastId' = lastId + 1
  /\ active' = [active EXCEPT ![s] =
       [id |-> lastId', server |-> s, open |-> TRUE,
        baseline |-> Rounded(Baseline2(recent, fan[s]), 2)]]
  /\ below' = [below EXCEPT ![s] = 0]
  /\ listed' = Trim(Append(listed, active'[s]))
  /\ Save

StaysQuiet(s, recent) ==
  /\ active[s] = Quiet /\ ~Starts(s, recent)
  /\ UNCHANGED <<active, below, listed, saved, lastId>>

IsClear(e, f) == f < e.baseline + ClearDelta

\* Readings near the baseline in a row, this one included.
Lows(s) == IF IsClear(active[s], fan[s]) THEN below[s] + 1 ELSE 0

Continues(s) ==
  /\ active[s] # Quiet
  /\ Lows(s) < ClearSamples
  /\ below' = [below EXCEPT ![s] = Lows(s)]
  /\ UNCHANGED <<active, listed, lastId>>
  /\ Save

\* The listed entry is the active one, unless it was trimmed away.
Closed(events, id) ==
  [i \in DOMAIN events |-> IF events[i].id = id THEN [events[i] EXCEPT !.open = FALSE] ELSE events[i]]

Closes(s) ==
  /\ active[s] # Quiet
  /\ Lows(s) >= ClearSamples
  /\ listed' = Closed(listed, active[s].id)
  /\ active' = [active EXCEPT ![s] = Quiet]
  /\ below' = [below EXCEPT ![s] = 0]
  /\ UNCHANGED lastId
  /\ Save

\* What may still be in the window of these readings.
Windows(readings) ==
  {r \in Suffixes(readings) : Len(r) < Window}

\* _thermal_poller: the reading joins the window after the comparison.
\* A poll that fails changes none of this.
ThermalPoll(s) ==
  /\ \E recent \in Windows(past[s]) :
       /\ past' = [past EXCEPT ![s] = Append(recent, fan[s])]
       /\ Opens(s, recent) \/ StaysQuiet(s, recent) \/ Continues(s) \/ Closes(s)
  /\ UNCHANGED <<fan, reboots>>

----------------------------------------------------------------------------
(* _events_init *)

\* "close any dangling active events from a previous run"
AllClosed(events) == [i \in DOMAIN events |-> [events[i] EXCEPT !.open = FALSE]]

Greatest(events) ==
  CHOOSE n \in 0 .. MaxEpisodes :
    /\ \A i \in DOMAIN events : events[i].id <= n
    /\ n = 0 \/ \E i \in DOMAIN events : events[i].id = n

\* fanwatch ends, whatever it was doing, and starts again. Lines it cannot read
\* are skipped, up to the whole file, and with them their ids.
Reboot ==
  /\ reboots < MaxReboots /\ reboots' = reboots + 1
  /\ past' = [s \in Servers |-> <<>>]
  /\ active' = [s \in Servers |-> Quiet] /\ below' = [s \in Servers |-> 0]
  /\ \E readable \in SUBSET Range(saved) : listed' = Trim(AllClosed(Select(saved, readable)))
  /\ lastId' = Greatest(listed')
  /\ UNCHANGED <<fan, saved>>

RampNext ==
  \/ \E s \in Servers : FanChanges(s) \/ ThermalPoll(s)
  \/ Reboot

RampSpec == RampInit /\ [][RampNext]_rampVars

\* The pollers go on, and the servers answer again and again.
RampFairSpec == RampSpec /\ \A s \in Servers : WF_rampVars(ThermalPoll(s))

----------------------------------------------------------------------------
(* Properties *)

\* Episodes, readings and counts keep their types and bounds.
RampTypeOK ==
  /\ fan \in [Servers -> Levels]
  /\ past \in [Servers -> Seq(Levels)]
  /\ \A s \in Servers : Len(past[s]) <= Window
  /\ active \in [Servers -> Episode \cup {Quiet}]
  /\ below \in [Servers -> 0 .. ClearSamples - 1]
  /\ listed \in Seq(Episode) /\ Len(listed) <= MaxListed
  /\ saved \in Seq(Episode)
  /\ lastId \in 0 .. MaxEpisodes

\* The shared list agrees with the servers' own memory through trims, failed
\* saves, restarts and files that cannot be read: an entry is open exactly while
\* its server is in that very episode, ids are never listed twice and grow
\* towards the end, and a running episode is missing only when newer ones pushed
\* it out of the list.
OpenIsActive ==
  /\ \A i, j \in DOMAIN listed : i < j => listed[i].id < listed[j].id
  /\ \A i \in DOMAIN listed :
       listed[i].open = (active[listed[i].server] # Quiet /\ active[listed[i].server].id = listed[i].id)
  /\ \A s \in Servers :
       active[s] # Quiet =>
         \/ \E i \in DOMAIN listed : listed[i] = active[s]
         \/ Len(listed) = MaxListed /\ \A i \in DOMAIN listed : listed[i].id > active[s].id

\* Once a server's fans stay below RAMP_CLEAR_DELTA over the baseline while an
\* episode runs, it ends for good: no restart, trim or failed save keeps it open.
EpisodesEnd ==
  \A s \in Servers :
    <>[](active[s] # Quiet => IsClear(active[s], fan[s])) => <>[](active[s] = Quiet)
=============================================================================
