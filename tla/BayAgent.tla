------------------------------ MODULE BayAgent ------------------------------
(***************************************************************************)
(* The BayWatch agent, agent/main.go: a loop that compares what each drive *)
(* bay should show with what it believes it has lit, and drives the bay's  *)
(* green, amber and blue LEDs one sg_ses call at a time; and the handlers  *)
(* that start and clear time-boxed locates while it runs.                  *)
(*                                                                         *)
(* LEDs are hardware: they survive the agent, and may be lit by somebody   *)
(* else when it starts. What sysfs, ZFS and SMART say of a bay is one      *)
(* verdict, read at the start of a pass. A bay may be missing from a pass. *)
(* Time is abstract: a locate may expire at any moment.                    *)
(***************************************************************************)
EXTENDS Naturals, Sequences, SeqSelect

CONSTANTS
  Bays,
  Views,          \* sets of LEDs a behaviour looks at: see `driven`
  ReassertEvery,  \* passes between two re-asserts (20)
  Faults,         \* how a call of sg_ses may go wrong
  MaxRestarts     \* bound on restarts of the agent

ASSUME ReassertIsEven == ReassertEvery \in Nat \ {0} /\ ReassertEvery % 2 = 0
ASSUME RestartsAreNat == MaxRestarts \in Nat
\* It fails without effect, it fails after the LED changed, or there is no
\* scsi_generic device to call it on and setLED returns nil.
ASSUME FaultKinds == Faults \subseteq {"rejected", "unsure", "nodevice"}

Leds == {"ok", "fault", "ident"}

ASSUME ViewsAreLeds == Views \subseteq (SUBSET Leds) \ {{}}

VARIABLES
  driven,    \* LEDs looked at: no LED of a bay influences another one
  bay,       \* the world: the verdict on each bay
  lit,       \* the world: LEDs lit on each bay
  applied,   \* a.applied
  want,      \* what each bay was last meant to show
  cycle,     \* a.cycle, folded once it can only matter modulo ReassertEvery
  locate,    \* a.locateUntil against the clock
  late,      \* bays whose locate expired after this pass took its `now`
  asking,    \* bays whose locate handler has yet to kick the loop
  kicked,    \* a.kick holds a token
  seen,      \* what the last pass read of each bay
  bare,      \* bays in which the last pass that read them found no sg device
  left,      \* bays this pass has yet to visit
  at,        \* the bay being driven and the LEDs left to drive there
  known,     \* bays of the published snapshot
  restarts

locates == <<locate, asking>>
pass    == <<seen, bare, left, at>>
vars    == <<driven, bay, lit, applied, want, cycle, locates, late, kicked, pass, known, restarts>>

Order    == Select(<<"ok", "fault", "ident">>, driven)
Nowhere  == [bay |-> {}, leds |-> <<>>]
Idle     == left = {} /\ at = Nowhere
Nothing  == [b \in Bays |-> {}]
Verdicts == {"empty", "healthy", "faulty"}

Unread   == [b \in Bays |-> "missing"]
AllOff   == [b \in Bays |-> "off"]

Init ==
  /\ bay \in [Bays -> Verdicts]
  /\ driven \in Views
  /\ lit \in [Bays -> SUBSET driven]
  /\ applied = Nothing /\ want = Nothing /\ cycle = 0
  /\ locate = AllOff /\ late = {} /\ asking = {} /\ kicked = FALSE
  /\ seen = Unread /\ bare = {} /\ left = {} /\ at = Nowhere /\ known = {}
  /\ restarts = 0

----------------------------------------------------------------------------
(* The world *)

\* A drive is inserted, pulled, fails or recovers; only green and amber care.
Change(b) ==
  /\ driven \cap {"ok", "fault"} # {}
  /\ \E v \in Verdicts \ {bay[b]} : bay' = [bay EXCEPT ![b] = v]
  /\ UNCHANGED <<driven, lit, applied, want, cycle, locates, late, kicked, pass, known, restarts>>

\* The backplane drops an LED by itself.
Drift(b) ==
  /\ \E led \in lit[b] : lit' = [lit EXCEPT ![b] = @ \ {led}]
  /\ UNCHANGED <<driven, bay, applied, want, cycle, locates, late, kicked, pass, known, restarts>>

Expire(b) ==
  /\ locate[b] = "active"
  /\ locate' = [locate EXCEPT ![b] = "expired"]
  /\ late' = IF Idle THEN late ELSE late \cup {b}
  /\ UNCHANGED <<driven, bay, lit, applied, want, cycle, asking, kicked, pass, known, restarts>>

----------------------------------------------------------------------------
(* handleLocate: the deadline under the lock, then the kick. At most one    *)
(* request per bay is in flight. Where nobody looks at the blue LED, no     *)
(* locate is asked for: it would change nothing that is looked at.          *)

SetLocate(b) ==
  /\ "ident" \in driven
  /\ b \in known
  /\ b \notin asking
  /\ \E l \in {"active", "off"} : locate' = [locate EXCEPT ![b] = l]
  /\ late' = late \ {b}
  /\ asking' = asking \cup {b}
  /\ UNCHANGED <<driven, bay, lit, applied, want, cycle, kicked, pass, known, restarts>>

\* Faulty variant of Token: a channel without a buffer takes a token only
\* while the loop is waiting for one.
TokenUnbuffered == kicked \/ Idle

\* A token goes into the channel, or there is one already.
Token == TRUE

Kick(b) ==
  /\ b \in asking
  /\ asking' = asking \ {b}
  /\ kicked' = Token
  /\ UNCHANGED <<driven, bay, lit, applied, want, cycle, locate, late, pass, known, restarts>>

----------------------------------------------------------------------------
(* reconcile *)

NextCycle == IF cycle = 2 * ReassertEvery THEN ReassertEvery + 1 ELSE cycle + 1

\* The loop was woken by the ticker or by the channel. (The one token that
\* SMART priming sends only makes a pass start that may start anyway.)
Woken == kicked' \in {kicked, FALSE}

\* readEnclosures fails: the pass is over before it counts.
ReadFails ==
  /\ Idle
  /\ Woken
  /\ seen' = Unread
  /\ UNCHANGED <<driven, bay, lit, applied, want, cycle, locates, late, bare, left, at, known, restarts>>

\* resolveSgDev of each bay's enclosure.
Resolved(visible) ==
  \E without \in SUBSET visible :
    /\ without # {} => "nodevice" \in Faults
    /\ bare' = (bare \ visible) \cup without

Begin(visible) ==
  /\ Idle
  /\ Woken
  /\ Resolved(visible)
  /\ cycle' = NextCycle
  /\ seen' = [b \in Bays |-> IF b \in visible THEN bay[b] ELSE "missing"]
  /\ left' = visible
  /\ late' = {}
  /\ IF visible = {} THEN known' = {} ELSE UNCHANGED known
  /\ UNCHANGED <<driven, bay, lit, applied, want, locates, at, restarts>>

\* cycle was counted up before these are used, and after fullSync and reassert
\* were taken from it.
FullSync == cycle = 1
Reassert == (cycle - 1) % ReassertEvery = 0

\* Faulty variant of BlinkOn: amber is held instead of blinked.
BlinkHeld == TRUE

BlinkOn == cycle % 2 = 1

Desired(b) ==
  {led \in driven :
    \/ led = "ok" /\ seen[b] = "healthy"
    \/ led = "fault" /\ seen[b] = "faulty" /\ BlinkOn
    \/ led = "ident" /\ (locate[b] = "active" \/ b \in late)}

Visit(b) ==
  /\ at = Nowhere
  /\ b \in left
  /\ left' = left \ {b}
  /\ want' = [want EXCEPT ![b] = Desired(b)]
  /\ at' = [bay |-> {b}, leds |-> Order]
  /\ UNCHANGED <<driven, bay, lit, applied, cycle, locates, late, kicked, seen, bare, known, restarts>>

\* Faulty variant of Needed: nothing heals a bit that drifted.
NeededOnce(b, led) == (led \in want[b]) # (led \in applied[b]) \/ FullSync

\* w == was && !fullSync && !(reassert && w)
Needed(b, led) ==
  \/ (led \in want[b]) # (led \in applied[b])
  \/ FullSync
  \/ Reassert /\ led \in want[b]

Shown(was, b, led) == IF led \in want[b] THEN was \cup {led} ELSE was \ {led}

\* The snapshot is published when the last LED of the last bay is done.
Advance ==
  IF Len(at.leds) > 1
  THEN at' = [at EXCEPT !.leds = Tail(at.leds)] /\ UNCHANGED known
  ELSE /\ at' = Nowhere
       /\ known' = IF left = {} THEN {b \in Bays : seen[b] # "missing"} ELSE known

Here(b, led) == at.bay = {b} /\ Head(at.leds) = led

Skip(b, led) ==
  /\ Here(b, led)
  /\ ~Needed(b, led)
  /\ Advance
  /\ UNCHANGED <<driven, bay, lit, applied, want, cycle, locates, late, kicked, seen, bare, left, restarts>>

Write(b, led) ==
  /\ Here(b, led) /\ b \notin bare
  /\ Needed(b, led)
  /\ lit' = [lit EXCEPT ![b] = Shown(lit[b], b, led)]
  /\ applied' = [applied EXCEPT ![b] = Shown(applied[b], b, led)]
  /\ Advance
  /\ UNCHANGED <<driven, bay, want, cycle, locates, late, kicked, seen, bare, left, restarts>>

\* Faulty variant of Remembered: an error is logged and then forgotten.
RememberedAnyway(b, led) == [applied EXCEPT ![b] = Shown(applied[b], b, led)]

\* "return was": after an error nothing is recorded as applied.
Remembered(b, led) == applied

WriteFails(b, led) ==
  /\ Here(b, led) /\ b \notin bare
  /\ Needed(b, led)
  /\ \/ "rejected" \in Faults /\ UNCHANGED lit
     \/ "unsure" \in Faults /\ lit' = [lit EXCEPT ![b] = Shown(lit[b], b, led)]
  /\ applied' = Remembered(b, led)
  /\ Advance
  /\ UNCHANGED <<driven, bay, want, cycle, locates, late, kicked, seen, bare, left, restarts>>

\* setLED without a device: "applied" without effect.
WriteNowhere(b, led) ==
  /\ Here(b, led) /\ b \in bare
  /\ Needed(b, led)
  /\ applied' = [applied EXCEPT ![b] = Shown(applied[b], b, led)]
  /\ Advance
  /\ UNCHANGED <<driven, bay, lit, want, cycle, locates, late, kicked, seen, bare, left, restarts>>

\* The agent dies anywhere and is started again; the LEDs stay as they are.
Restart ==
  /\ restarts < MaxRestarts
  /\ restarts' = restarts + 1
  /\ applied' = Nothing /\ want' = Nothing /\ cycle' = 0
  /\ locate' = AllOff /\ late' = {} /\ asking' = {} /\ kicked' = FALSE
  /\ seen' = Unread /\ bare' = {} /\ left' = {} /\ at' = Nowhere /\ known' = {}
  /\ UNCHANGED <<driven, bay, lit>>

----------------------------------------------------------------------------
Drive(b) == \E led \in driven : Skip(b, led) \/ Write(b, led) \/ WriteFails(b, led) \/ WriteNowhere(b, led)

Reconcile ==
  \/ ReadFails
  \/ \E visible \in SUBSET Bays : Begin(visible)
  \/ \E b \in Bays : Visit(b) \/ Drive(b)

Next ==
  \/ \E b \in Bays : Change(b) \/ Drift(b) \/ Expire(b) \/ SetLocate(b) \/ Kick(b)
  \/ Reconcile
  \/ Restart

Spec == Init /\ [][Next]_vars

\* The ticker keeps the loop going, handlers finish and time passes. A bay does
\* not stay missing for ever, and a call that keeps being made on a device
\* succeeds.
Sees(b) == \E visible \in SUBSET Bays : b \in visible /\ Begin(visible)

FairSpec ==
  /\ Spec
  /\ WF_vars(Reconcile)
  /\ \A b \in Bays :
       /\ WF_vars(Kick(b)) /\ WF_vars(Expire(b)) /\ SF_vars(Sees(b))
       /\ \A led \in Leds : /\ SF_vars(Write(b, led) /\ led \in want[b])
                            /\ SF_vars(Write(b, led) /\ led \notin want[b])

----------------------------------------------------------------------------
(* Properties *)

\* The hardware, the agent's memory and a pass in progress keep their types.
TypeOK ==
  /\ driven \in Views
  /\ bay \in [Bays -> Verdicts]
  /\ lit \in [Bays -> SUBSET driven]
  /\ applied \in [Bays -> SUBSET driven] /\ want \in [Bays -> SUBSET driven]
  /\ cycle \in 0 .. 2 * ReassertEvery
  /\ locate \in [Bays -> {"off", "active", "expired"}]
  /\ late \subseteq Bays /\ asking \subseteq Bays /\ known \subseteq Bays
  /\ kicked \in BOOLEAN
  /\ seen \in [Bays -> Verdicts \cup {"missing"}]
  /\ bare \subseteq Bays /\ left \subseteq Bays
  /\ at \in {Nowhere} \cup [bay : {{b} : b \in Bays}, leds : Seq(driven) \ {<<>>}]
  /\ restarts \in 0 .. MaxRestarts

\* A locate that was started or cleared after a pass looked at its bay is not
\* left for the ticker: the loop has a token, or will get one.
NoLocateForgotten ==
  "ident" \in driven => \A b \in Bays :
    \/ /\ locate[b] = "active" => "ident" \in want[b]
       /\ locate[b] = "off" => "ident" \notin want[b]
    \/ kicked \/ b \in asking
    \/ b \in left \/ seen[b] = "missing"

\* The bay settles in a verdict, and is in every pass and has a device from then
\* on.
Settles(b, verdict) == <>[](bay[b] = verdict /\ seen[b] # "missing" /\ b \notin bare)

\* "heal drift": whatever the backplane drops, sg_ses refuses or was written
\* while there was no device, a bay that stays healthy is green again and again.
HealthyIsGreen ==
  \A b \in Bays : []("ok" \in driven) /\ Settles(b, "healthy") => []<>("ok" \in lit[b])

\* "Blink the amber LED on fault": a bay that stays faulty keeps going on and off.
FaultyBlinks ==
  \A b \in Bays : []("fault" \in driven) /\ Settles(b, "faulty") =>
    []<>("fault" \in lit[b]) /\ []<>("fault" \notin lit[b])

\* Locates are time-boxed: a blue LED the agent knows it has lit goes off by
\* itself after the locate, unless the agent is restarted or a pass finds no
\* scsi_generic device meanwhile. Then setLED returns nil (ses.go:108-110), the
\* clear counts as applied, and as only LEDs that should be on are re-asserted,
\* the LED stays lit until the next locate or restart.
LocateEnds ==
  \A b \in Bays, n \in 0 .. MaxRestarts :
    (restarts = n /\ "ident" \in lit[b] \cap applied[b]) ~>
      ("ident" \notin lit[b] \/ locate[b] = "active" \/ restarts # n \/ b \in bare)

\* applyLEDs: "On a write error it keeps the old applied value so the next cycle
\* retries": between two passes, an LED that is not as the last pass wanted it
\* is not believed to be.
ErrorsAreRetried ==
  Idle => \A b \in Bays, led \in driven :
    seen[b] # "missing" /\ (led \in lit[b]) # (led \in want[b]) =>
      (led \in applied[b]) # (led \in want[b])
=============================================================================
