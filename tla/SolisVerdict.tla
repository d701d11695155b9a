---------------------------- MODULE SolisVerdict ----------------------------
(***************************************************************************)
(* The charge-outcome check of solis_agile_charge.py. A slot the cloud has *)
(* stored may still not run: inside a charge window each run of the job    *)
(* looks at what Home Assistant last heard of the battery and rewrites     *)
(* every slot when it is not charging, at most every half hour. Slots are  *)
(* also dead letters in the wrong storage mode, which every run looks at   *)
(* first and sets back.                                                    *)
(*                                                                         *)
(* One window, ticks of five minutes, a run every third one. The feed from *)
(* SolisCloud to Home Assistant stalls, each battery sensor keeps an old   *)
(* value or goes unavailable, the inverter stops running a slot, never     *)
(* starts or changes its mode, Home Assistant forgets the cooldown marker, *)
(* and runs are missed, killed or fail.                                    *)
(***************************************************************************)
EXTENDS Integers

CONSTANTS
  Opens,       \* first tick of the window
  Closes       \* first tick after it

WindowIsOne == Opens \in Nat /\ Closes \in Nat /\ Opens < Closes

Interval == 3   \* the CronJob's 15 minutes
Settle   == 2   \* CHARGE_VERIFY_SETTLE_SECONDS
MaxAge   == 4   \* CHARGE_VERIFY_MAX_AGE_SECONDS
Cooldown == 6   \* CHARGE_VERIFY_RECOMMIT_COOLDOWN_SECONDS
Never    == -Closes - Cooldown   \* long before the window

VARIABLES
  now,
  due,        \* the run of this tick has not happened yet
  armed,      \* the slot is in the registers
  running,    \* the inverter acts on it
  timed,      \* its storage mode is an accepted one
  select,     \* STORAGE_MODE_ENTITY: Home Assistant shows an accepted one
  full,       \* the battery is at CHARGE_VERIFY_FULL_SOC
  received,   \* when the newest genuine reading reached Home Assistant
  battery,    \* what BATTERY_POWER_ENTITY and BATTERY_SOC_ENTITY show
  marker,     \* RECOMMIT_MARKER_ENTITY
  wrote,      \* ghost: when a run last wrote to the inverter
  recommits,  \* ghost: when the check last rewrote the slots and said so
  deadFor     \* ghost: ticks without charge that a working job was shown

verdictVars == <<now, due, armed, running, timed, select, full, received, battery, marker, wrote, recommits, deadFor>>

\* watts: the power is at least CHARGE_VERIFY_MIN_WATTS; soc: the charge is at
\* least CHARGE_VERIFY_FULL_SOC; at: min(watts_at, soc_at). Unreadable: one of
\* the two has no number.
Unreadable == [watts |-> FALSE, soc |-> FALSE, at |-> Never]

InWindow(t) == Opens <= t /\ t < Closes
Charging == armed /\ running /\ timed /\ InWindow(now) /\ ~full

VerdictInit ==
  /\ now = 0 /\ due = FALSE
  /\ armed \in BOOLEAN /\ running \in BOOLEAN /\ full = FALSE
  /\ timed \in BOOLEAN /\ select = timed
  /\ received = Never /\ battery = Unreadable
  /\ marker = Never /\ wrote = Never /\ recommits = Never /\ deadFor = 0

----------------------------------------------------------------------------
(* What a run reads of Home Assistant. *)

\* _last_genuine_inverter_reading: the newest value in the recorder that differs
\* from the one before it, which a restart of Home Assistant never makes.
LastGenuine == received

\* Both battery sensors are readable and no older than telemetry_floor.
BatteryIsRecent == battery # Unreadable /\ battery.at >= LastGenuine - MaxAge

----------------------------------------------------------------------------
(* The world: five minutes pass. *)

\* Each sensor is updated or keeps what it had (also because its value is still
\* the same: last_updated then stands still), which tells how the older of the
\* two updates moves; or one of them becomes unavailable, and is updated when it
\* is back.
Hears(charging, filled) ==
  LET before == IF battery = Unreadable THEN now + 1 ELSE battery.at
      kept   == [watts : {battery.watts, charging}, soc : {battery.soc, filled}, at : before .. now]
  IN  kept \cup {[watts |-> charging, soc |-> filled, at |-> now + 1], Unreadable}

\* A reading arrives, or the feed is stalled, and each battery sensor hears what
\* it hears; the inverter may stop acting on the slot or leave its mode, and a
\* battery that charges may fill. Bounded by the window's end.
Tick(arrives, stops, flips, fills) ==
  /\ ~due
  /\ now < Closes
  /\ UNCHANGED <<armed, marker, wrote, recommits>>
  /\ now' = now + 1
  /\ due' = (now' % Interval = 1)
  /\ stops => running
  /\ flips => timed
  /\ fills => Charging
  /\ running' = (running /\ ~stops)
  /\ timed' = (timed /\ ~flips)
  /\ select' = IF arrives THEN timed' ELSE select
  /\ full' = (full \/ fills)
  /\ received' = IF arrives THEN now' ELSE received
  /\ battery' \in Hears(Charging', full')
  /\ deadFor' = IF /\ arrives /\ BatteryIsRecent' /\ ~battery'.soc /\ ~battery'.watts
                   /\ InWindow(now') /\ armed /\ ~(running /\ timed)' /\ ~full'
                THEN deadFor + 1 ELSE 0

\* Home Assistant restarts: states it was only posted are gone.
HassRestarts ==
  /\ marker # Never
  /\ marker' = Never /\ recommits' = Never
  /\ UNCHANGED <<now, due, armed, running, timed, select, full, received, battery, wrote, deadFor>>

----------------------------------------------------------------------------
(* Faulty variants, for mutation tests of the properties. *)

\* Until the cooldown is over, and a run longer.
CoolingInclusive == now - marker <= Cooldown

----------------------------------------------------------------------------
(* One run, from its write to its verdict. *)

\* ensure_storage_mode: an accepted mode, or one that is set and then confirmed.
ModeSure ==
  IF select THEN UNCHANGED <<timed, select>> ELSE timed' = TRUE /\ select' = TRUE

\* Set, in vain or without Home Assistant showing it within three minutes.
ModeUnsure == ~select /\ timed' \in BOOLEAN /\ UNCHANGED select

\* Writing slots helps nothing in the wrong mode.
StillDead == IF timed' THEN 0 ELSE deadFor

\* Registers change with the plan, or once a day regardless: the check is left
\* to the next run. The inverter may not act on what it took.
Programs ==
  /\ armed' = TRUE /\ running' \in BOOLEAN
  /\ wrote' = now /\ deadFor' = StillDead
  /\ UNCHANGED <<received, battery, marker, recommits>>

\* A failed run clears.
Clears ==
  /\ armed' = FALSE /\ running' = FALSE
  /\ wrote' = now /\ deadFor' = 0
  /\ UNCHANGED <<received, battery, marker, recommits>>

\* An open window that has settled, a reading that is neither too old nor from
\* before it settled, and a battery heard of as lately as the reading.
Judges ==
  /\ Opens + Settle <= now /\ now < Closes
  /\ now - LastGenuine <= MaxAge
  /\ LastGenuine >= Opens + Settle
  /\ BatteryIsRecent

\* last and (now - last) < CHARGE_VERIFY_RECOMMIT_COOLDOWN_SECONDS
Cooling == now - marker < Cooldown

\* apply_schedule(force=True), then the marker. When that cannot be set, main()
\* clears what was just written.
Recommits ==
  \/ /\ running' \in BOOLEAN /\ marker' = now /\ recommits' = now
     /\ wrote' = now /\ deadFor' = StillDead
     /\ UNCHANGED <<armed, received, battery>>
  \/ Clears

\* "The inverter is not running the timed charge."
Condemns == Judges /\ ~battery.soc /\ ~battery.watts

Verdict ==
  IF Condemns /\ ~Cooling THEN Recommits
  ELSE UNCHANGED <<armed, running, received, battery, marker, wrote, recommits, deadFor>>

Run ==
  /\ due /\ due' = FALSE
  /\ \/ ModeSure /\ Programs
     \/ ModeSure /\ armed /\ Verdict
     \/ (ModeSure \/ ModeUnsure) /\ Clears
  /\ UNCHANGED <<now, full>>

\* Missed, or killed: before it wrote anything, in ensure_storage_mode, or after
\* the rewrite and before the marker.
Killed ==
  /\ due /\ due' = FALSE /\ deadFor' = 0
  /\ \/ UNCHANGED <<running, timed, select, wrote>>
     \/ ModeUnsure /\ UNCHANGED <<running, wrote>>
     \/ ModeSure /\ armed /\ Condemns /\ ~Cooling /\ running' \in BOOLEAN /\ wrote' = now
  /\ UNCHANGED <<now, armed, full, received, battery, marker, recommits>>

VerdictNext ==
  \/ \E arrives, stops, flips, fills \in BOOLEAN : Tick(arrives, stops, flips, fills)
  \/ HassRestarts
  \/ Run
  \/ Killed

VerdictSpec == VerdictInit /\ [][VerdictNext]_verdictVars

----------------------------------------------------------------------------
(* Properties *)

\* Instants are instants, the rest are flags.
VerdictTypeOK ==
  /\ now \in 0 .. Closes
  /\ {due, armed, running, timed, select, full} \subseteq BOOLEAN
  /\ {received, marker, wrote, recommits} \subseteq (0 .. Closes) \cup {Never}
  /\ battery \in [watts : BOOLEAN, soc : BOOLEAN, at : 0 .. Closes] \cup {Unreadable}
  /\ deadFor \in 0 .. Closes

\* "giving the inverter until the cooldown expires": a dead slot is rewritten as
\* soon as the settle time and the cooldown allow, in a mode that honours it, as
\* long as runs happen, readings arrive and both battery sensors are readable,
\* current and show neither charge nor a full battery. Meanwhile no gate of the
\* check (settle, age, settle of the reading, age of the sensors, cooldown) holds
\* it back longer, in whatever order they open, and no run of the job leaves the
\* slot in a mode known to ignore it. Nothing is promised while a sensor is
\* unavailable or older than the reading by more than MaxAge.
DeadIsRewritten == deadFor <= Cooldown

\* verify_charging: "Any telemetry we have predates the write we just sent;
\* judging the inverter on it would double-write": a slot is only rewritten when
\* the reading or both battery sensors, which condemned it, are newer than the
\* last write.
NoStaleVerdict ==
  [][recommits' \notin {recommits, Never} =>
       received > wrote \/ battery.at > wrote]_verdictVars
=============================================================================
