# homeops: formal models

`homeops` is a GitOps home lab: most of the repository is declarative YAML for
Flux and Talos, read by controllers that live elsewhere. Between the manifests
it keeps a dozen real programs of its own. The modules in this directory model
the ones whose correctness depends on failures, ordering and concurrency; TLC
checks them on small instances, and every safety property a passing run checks is
also proved by TLAPS, for every value of the constants.

Paths below are relative to the repository. `PROJECT.json` links every
definition to the lines it translates, lists the hazards of the code at the
line where each one bites, and names for every checked property a plausible
bug (a *mutant*: a named faulty variant kept in the module) that breaks it.

- [Inventory](#inventory)
- [Modules](#modules)
- [Runs, bounds and what they show](#runs-bounds-and-what-they-show)
- [Where the code and its comments disagree](#where-the-code-and-its-comments-disagree)
- [Fairness](#fairness)
- [Proofs](#proofs)
- [What is not modelled](#what-is-not-modelled)
- [Plan](#plan)

## Inventory

| component | state it keeps | operations | what is hard |
|---|---|---|---|
| **Alert bridge**, `exporters/homeassistant/app/bridge.py` (`AlertBridge`, `Alertmanager`, `HomeAssistant.notify_alert`) | observed incidents, pending events, history, all three in one JSON file; a retained availability topic in Home Assistant | `cycle`: fetch, `observe`, `save`, `deliver`, publish; `__init__` loads the file | a crash at any line; a write that fails before or after its rename; a notification that times out after the phone has it; a dead Prometheus that looks like mass recovery; a full queue behind silences |
| **Metrics bridge**, same file (`Bridge`) | which sensors were discovered, which are available, a retained state per sensor with `expire_after` | `startup`, `cycle`, `shutdown` | two deadlines, partial publishes, availability flags that trail the retained topics |
| **Slot programming**, `solis-charge/.../solis_agile_charge.py` (`apply_schedule`, `_apply`, `SolisCloud`) | the inverter's switch register, windows and currents; Home Assistant's cache of them | one CronJob run every 15 minutes: read, write, read back, check, clear on failure | lost answers, acknowledged writes that do nothing, a register shared by all switches, a deadline that kills the job between two writes |
| **Charge planning**, same file | none of its own: half-hour rates, free-electricity sessions, the storage mode, battery readings and a cooldown marker are read from Home Assistant | `get_planning_slots`, `find_cheap_windows`, `split_at_inverter_midnight`, `ensure_storage_mode`, `verify_charging` | slots recur daily on a clock of their own; windows that cross midnight; a horizon longer than a day; a feed that stalls |
| **Camera sessions**, `alexa_rtc_bridge/session.py`, `__init__.py` | a table of sessions, their timers, futures and camera tasks | `initiate`, `_answer`, `connected`, `disconnected`, `close`, `stop`, a camera-state listener | directives interleaving at every `await`; retries under the same identifier; a close in the middle of a negotiation |
| **BayWatch agent**, `src/apps/baywatch/agent` | last snapshot, LED state believed applied, locate deadlines, subscribers | `reconcile`, `applyLEDs`, `handleLocate`, `handleStream`, hub `pub` | failing LED writes, deadlines, a fan-out that drops for slow clients |
| **BayWatch UI**, `src/apps/baywatch/ui` | per-host state, subscribers | `connectLoop`, `applySnapshot`, `applySlot`, `markOffline`, fan-out to browsers | reconnects, snapshots racing events, stale views |
| **Petkit snapshotter**, `petkit-snapshotter/.../snapshotter.py` | images and a manifest per feed, last seen identifier | poll, download, prune, manifest write, HTTP reads | crashes between file and manifest, failed writes |
| **fanwatch**, `src/apps/fanwatch/app.py` | a ring of samples, a bounded persisted list of ramp episodes | poll, `_detect_ramp`, trim, reload | an open episode that is trimmed or survives a restart |
| **cliproxy exporter**, `exporters/cliproxy` | counters in SQLite, the pairs it has series for, a rendering | destructive pop, transactional `apply`, `_finish` | a crash between pop and commit; a poll that fails halfway; a cap on series |
| **Electricity briefing Lambda**, `alexa/electricity` | none | two concurrent fetches under a deadline, `merge_rates`, `build_briefing`, `briefing_speech` | entities that roll over between the fetches, gaps, the hour the clocks go back |
| **Alexa smart-home Lambda** | none | one request forwarded, one answer | error mapping |
| **Other exporters, scripts** | none that outlives a request | scrape and print | - |
| **Cluster manifests** | declarative | - | belongs to Flux, Talos, Helm |

How they meet: every program talks to Home Assistant or Prometheus and none to
another one directly, except the BayWatch agent and UI (HTTP and server-sent
events). Alertmanager feeds the alert bridge; the bridge and `solis-charge`
write to Home Assistant, whose cache `solis-charge` reads back; Home Assistant
hosts `alexa_rtc_bridge`. So each component is a module of its own and its
neighbours are part of its environment; only BayWatch's agent and UI meet in one
module, `BayStream`.

What makes each one correct:

- *Alert bridge.* At-least-once delivery that survives any crash; nothing
  delivered that is not on disk; no recovery that did not happen or that
  precedes its firing; a full queue drains; the bridge never writes a file it
  refuses to load; "online" vouches for what is on disk.
- *Slot programming.* A run that reports success leaves exactly its plan in the
  inverter; a slot is armed only with the window and current planned for it; one
  slot's switch never flips another's.
- *Camera sessions.* Never more than `MAX_SESSIONS`; no camera stream outlives
  its session; every retained session has a timer that ends it; an answer is
  only given for a live session of the same user, camera and offer; nothing
  opens after shutdown.
- *Charge planning.* Until a slot recurs it charges only when that half-hour, on
  that day, is cheap or free; a cheap half-hour at hand is used; a slot the
  inverter ignores is rewritten as soon as the gates of the check allow, given data.
- *BayWatch.* LEDs converge to the health of the bay, a locate ends, no locate is
  forgotten by a pass, a view of a host converges to its last snapshot.
- *Metrics bridge.* No sensor comes online with an old value; a cycle repairs what
  failures left of each sensor it gets to; a sensor without a sample ends up hidden
  whatever fails; when faults stop, exactly the working sensors are shown.
- *Petkit store.* What is listed exists on disk; no event is listed twice; an
  event that stays is listed in the end.
- *fanwatch.* The shared list and the servers' own memory agree; an episode ends.
- *cliproxy exporter.* A usage record is counted at most once and a crash costs at
  most a batch; what is shown is what is stored, within the cap.
- *Briefing.* Averages and extremes are those of the hours that are told; two
  instants never have one label.

## Modules

| module | role |
|---|---|
| `AlertDelivery` | abstract: what the alert half promises the person with the phone |
| `AlertBridge` | `AlertBridge.cycle` step by step, its state file, its phone, its faults; implements `AlertDelivery` |
| `AlertBridge_proofs` | its theorems |
| `MCAlertTags` | TLC instance with the notices on the phone as a history variable |
| `SolisSlots` | `_apply` register by register, with the clears of `main()` and the job's deadline |
| `SolisVerdict` | the storage mode and the charge-outcome check, run after run |
| `Solis_proofs` | the theorems of both |
| `MCSolisSlots`, `MCSolisStale` | TLC instances of `SolisSlots`; the second remembers what a run started from |
| `SolisPlan` | what `run_optimizer` plans from prices and sessions, and when the slots then fire |
| `SolisPlan_proofs`, `MCSolisPlan` | its theorems; its TLC instance |
| `RtcSessions` | `SessionManager` between awaits, with timers, camera and shutdown |
| `RtcSessions_proofs` | its theorems |
| `BayAgent` | the BayWatch agent's loop, one LED write at a time, with locates, kicks and drifting or failing hardware |
| `BayStream` | what the agent publishes, through its hub and one connection, to the fleet model of `bw-ui` |
| `BayWatch_proofs`, `MCBayAgent` | the theorems of both; TLC instance of `BayAgent` without drift |
| `PetkitStore` | the snapshotter's files, manifest and memory, call by call |
| `MetricsBridge` | `Bridge` and `main()` of the metrics half, message by message, against retained topics and `expire_after` |
| `FanRamp` | fanwatch's ramp episodes and their shared, trimmed, persisted list |
| `Services_proofs`, `MCServices` | the theorems of the three; their TLC instance, with liveness |
| `UsageQueue` | the cliproxy exporter between a destructive queue and its database |
| `Briefing` | one briefing request at a time against rate entities that change under it |
| `Readers_proofs`, `MCReaders` | the theorems of both; TLC instance of the two with `SolisVerdict` and `BayStream`, for safety |
| `SeqSelect` | the elements of a sequence that pass a test, by a recursive function instead of the standard recursive operator, so that it can be proved about |
| `Basics_proofs` | facts the proofs share: selection from sequences, least and greatest elements, remainders |

`MCServices` and `MCReaders` put components side by side that share nothing. They
extend the components, so that the properties of a run are those of the modules,
under their own names; every component has names of its own for its variables and its
specification (`storeVars`, `StoreSpec`, ...). A behaviour picks one as its `subject`
("store", "bridge" or "fans"; "usage", "briefing", "verdict" or "stream"), and only
that one takes steps, so the states of the parts add up and do not multiply. These
modules state their assumptions as named predicates (`StoreBounds`, `WindowIsOne`,
...), which
`Sizes` in the instance assumes together.

### AlertBridge

One thread, so one program counter: `idle`, `save`, `notify`, `ack`,
`publish`, `withdraw`. Every call that can fail or be the last thing the
process does is an action: `Observe`/`Refuse` (the two outcomes of
`observe()`), `Save`, `Notify`, `Ack` (the second save, inside `deliver()`),
`Publish`, and their failing twins. `SaveFails` may leave the old file or the
new one, because `save()` can fail before or after `os.replace`;
`NotifyFails` may or may not have shown the batch, because a timeout says
nothing. `Restart` may follow any step and reloads `disk`.

The world is three variables: what each incident has done (`episode`), what is
silenced (`muted`), whether Alertmanager holds a live Watchdog (`heartbeat`).
Without a heartbeat an alert can expire from the collection while it is still
firing; that is what `_watchdog_present` guards against.

Abstracted: an incident's key is a hash of its labels and start time, so a key
fires once and a (key, status) event exists once, which is why the pending
*list* is a set. Titles, severities and times order a digest and decide nothing
else. The byte limits of the file behave as its count limits do. Home
Assistant accepts or rejects a publish; a rejected one leaves the retained
value.

### SolisSlots

A run of the CronJob is alone (`concurrencyPolicy: Forbid`), so again one
program counter: `read`, `write`, `readback`, `refetch`, `check`. `Writes`
computes `_apply`'s list in the code's order, switches off, then values, then
switches on; `Needed` is the comparison that skips a register, with live reads
for what is armed and an arbitrary Home Assistant cache for what is not.
Each POST is `Acknowledged` (applied or ignored), `Lost` (applied or not, then
read back and retried with a fresh raw value) or it fails. A failure anywhere
clears once; a failing clear gives up; a `Kill` stops everything.

A switch write replaces the whole shared register by `raw` with one bit
changed, which is the hazard the raw value's handling (`RawEchoed`, `Refetch`,
`Retry`) is there for.

Abstracted: charge and discharge slots are handled alike, so they are numbered
together; windows are opaque; a current is rated or zero. Planning is a free
choice of plan, so what is shown holds for every plan. A POST whose answer is
lost has landed, or never will, when it is read back 15 seconds later.

### SolisPlan

A tick is five minutes; the clock goes from one run to the next, and properties
quantify over the ticks in between, in which only the inverter acts. `Rates`,
`Cutoff`, `PlanningSlots`, `CheapWindows`, `SafeWindows`, `Upcoming`, `Merged`,
`Split`, `Fitting` and `RoundTrip` are the functions of the code in the order
`run_optimizer` calls them, on sets of ticks instead of lists of dictionaries;
`Plan` composes them. A run (`Run`) programs its plan, fails and clears, or fails to
clear and leaves its slots beside the old ones, or only those both have; `Missed` is a run that did not happen. The rate
entities roll over late and between two reads of one run (`RollsAfter`), may be
unreadable, and tomorrow's appear at any time. The inverter's clock is off by a zone
and a drift and may be set between runs.

Abstracted: a price is cheap or not; for TLC MAX_SLOTS is 2 and a day four
half-hours, which keeps every midnight and horizon of the code within reach, and the
proofs cover the rest. One session is announced at a time, and a session lasts less
than half a day (`SessionsAreShort`). A slot is judged
until it comes round again (`until`), because what it does after a day without any
run is a property of the inverter.

### SolisVerdict

One charge window, a run every third tick. `ModeSure`/`ModeUnsure` are
`ensure_storage_mode`, which looks at Home Assistant's idea of the mode; `Programs`
is a run that wrote and leaves the check to the next one; `Verdict` is the check;
`Clears` any failure. `LastGenuine` is what `_last_genuine_inverter_reading` finds:
a restart of Home Assistant restores old values and never makes one. `battery` is
what the power and charge sensors show, with the older of their two `last_updated`,
or `Unreadable`. Each is updated, keeps an old value, or is unavailable (`Hears`); one
whose value stays the same keeps its `last_updated`, too. `Judges` and `Condemns` are
the exits of `verify_charging` in the code's order, `BatteryIsRecent` the two that are
about the sensors. `Killed` may fall between the rewrite and the marker.

What `DeadIsRewritten` promises depends on those two: it counts ticks at which a
reading arrives and both sensors are readable, no more than 20 minutes older than the
reading, and show neither charge nor a full battery. While a sensor is unavailable, or
older than that, the check is silent for as long as it lasts.

### RtcSessions

An action is what runs between two awaits of `initiate`/`_answer`, of a camera
callback, a timer or a listener. `auth` is the await in
`_authorize`; `offer`, `answer` and `gather` are the three waits inside
`asyncio.timeout(ANSWER_TIMEOUT)`. `Close` is `close()` for a set of sessions
and is part of every action that calls it. A request names the `Session` object
it created, so "the session in the table is another one" is `table[k] # r`.

Abstracted: SDP text (an answer is usable or not), candidates, and time: a
deadline may pass whenever the code waits under it. The camera keeps a stream
per session identifier, which is how Home Assistant's camera entity is called;
`close_webrtc_session` is taken to release it.

### BayAgent

`reconcile` reads every bay at its start (`Begin`), looks at each bay's locate
when it gets there (`Visit`), then makes up to three `sg_ses` calls (`Skip`,
`Write`, `WriteFails`, `WriteNowhere`), so that handlers, deadlines and crashes
fall between any two. `handleLocate` is two steps, the deadline under the lock
and the kick after it. `a.cycle` matters as "first", "odd" and "every 20th", so
it is folded after two periods. The hardware (`lit`) is separate from what the
agent believes of it (`applied`), starts in any state and survives a restart.

Abstracted: what ZFS and SMART say is one verdict; the published fields of a
slot are left to `BayStream`; `slotExists` and the write of the deadline are
one step. No LED of a bay influences another one, so a behaviour may look at a
subset of them (`driven`): `bay_agent` looks at one LED at a time and covers each,
which keeps liveness checkable.

Without a `scsi_generic` device, which a pass looks up for each bay (`Resolved`),
`setLED` returns nil and every write counts as applied (`WriteNowhere`). Green and
amber get over that: they are written again by re-assert and by blinking.
A locate's clear does not: it is recorded as done, only LEDs that are wanted on are
re-asserted, and the blue LED stays lit until the next locate or restart.
`LocateEnds` therefore excludes a bay from the moment a pass finds no device for it
(`bare`), and `bay_agent` has the fault enabled.

### BayStream

The stretch from `a.cur` to `f.hosts`: `Publish` is the end of `reconcile`, which
shows the new snapshot before it publishes the events one by one (`Pub`);
`Connect`, `ReadCur`, `WriteSnapshot` and `Forward` are `handleStream`; `Receive`
and `MarkOffline` are the goroutine of `connectLoop`. A broken connection loses
any suffix of what was written. The values are what `changed()` compares.

### MetricsBridge

One thread: `startup`, `offline` (mark_all_offline), `query`, `publish`, `wait`,
`stop`. `Send` publishes one message of one sensor: accepted, or `Failed`, which
may have been acted upon (a timeout), after which a cycle breaks off and a startup
starts over. Home Assistant is the retained `online` and the `age` of the value.
`Calm` says that no fault happens any more, which is how `Settles` is stated.
Abstracted: why a query gives no single finite sample, and the content of
discovery. A publish that times out is acted upon before the next one or never; one
that Home Assistant acts on after a later one is left out. It would undo that one
until the next cycle or, for a value, refresh `expire_after` once.

### PetkitStore

`Poll` fetches the states; `StorePicture` writes the image; `Insert` is the part of
`add()` under the lock, with the pruning that unlinks images; `WriteManifest` or
`WriteFails` ends it. A crash may fall between any two and `Restart` rebuilds
`lastSeen` from the manifest, or from nothing if it cannot be read. `pruned`
remembers what retention removed, because a crash after the unlink brings back its
entry without its image.

### FanRamp

`ThermalPoll(s)` is one round of a server's thread: baseline over the window, `Opens`,
`Continues` or `Closes`, the list trimmed and saved if it can be. A window may lose
any number of old readings between polls. `Reboot` is `_events_init`: what it
loads is closed. Any lines may be unreadable, up to the whole file, and `lastId` is
taken from those that are not, so identifiers may start over. The constants are the code's; a reading is one of a few levels.

### UsageQueue

CLIProxy's queue loses what a pop returns, and what it keeps too long. `Commit` and
`Rollback` are the two outcomes of `Store.apply`; `Tally` folds a batch record by
record, because a pair may be new within it. `PopFails` may have emptied the queue
first. `gone` counts what was lost by reason.

### Briefing

`Fetch` of each feed, `Deadline`, `Respond`. The entities roll over and tomorrow is
published between any two of them; an entity may also be there without rates. `Chart`, `SumOver`, `Cheapest` and `Dearest` are
tariffs.py on sets of half-hours; `Label` is the clock time, "tomorrow" and the zone a
boundary is told with. A day is six half-hours and the clocks go back in the
second one.

## Runs, bounds and what they show

| run | instance | shows |
|---|---|---|
| `alert` | 2 incidents, snapshots of 1, queue of 2, history of 1, 1 restart | durability, loading, no false recovery, order, draining, "online", refinement of `AlertDelivery`, and that every incident and recovery reaches the phone |
| `alert_retry_tag` | 2 incidents, snapshots of 2 | *violation*: a retry need not replace the notice it repeats |
| `solis_apply` | 2 slots, 2 windows, 2 attempts, with the deadline | a successful run leaves its plan; isolation; what may be armed |
| `solis_stale` | 2 slots, 3 windows, 1 attempt, no deadline | *violation*: a failed run can leave a stale slot beside a new one |
| `solis_plan` | 2 days of 4 half-hours, 2 slots, 4 tariffs, 2 sessions, 3 clocks | slots charge only when wanted, use what is cheap, never wrap |
| `solis_early` | the same, with one session 29 ticks ahead, where a day has 24, and the clock right | *violation*: the session charges a day early |
| `solis_verdict` | a window of 21 ticks | *violation*: a run judges a write on a reading from before it |
| `rtc` | 2 requests, 2 identifiers, 2 users, 2 offers, table of 1 | capacity, streams, timers, answers, shutdown; every directive ends, every session is released |
| `bay_agent` | 1 bay, one LED at a time, re-assert every 4 passes, 1 restart; writes that are refused, ambiguous, or go nowhere | kicks, healing, blinking, the end of a locate |
| `bay_led_retry` | 1 bay, three LEDs, rejected writes only | *violation*: a failed clear of the first pass is never retried |
| `services` | store: 2 entities, 3 events, 2 snapshots, 1 restart; bridge: 2 sensors, expiry after 3 intervals; fans: 2 servers, 2 levels, a list of 1, 2 episodes, 2 restarts | the snapshot store, the metrics bridge and fanwatch, with liveness |
| `readers` | usage: 2 pairs, cap of 1, batches of 2, 3 records, 2 starts; briefing: 2 days of 6 half-hours; check: a window of 13 ticks; stream: 2 bays, 2 values, channel of 2 | the usage exporter, the briefing, the charge-outcome check and the BayWatch view |

No run checks a type invariant: each module states one, and each is proved.

Why the bounds are enough. *Alert*: with `MaxAlerts = 1` and `MaxPending = 2`
(the code's ratio of 2000 to 4000) two incidents are the smallest number that
fill the queue, make a snapshot too large, and have one event delivered while
another is held back; a history of 1 overflows on the first batch of two. A restart
may follow any step; the safety proofs cover any number. *Solis*: two slots are the
smallest number that share a register; with two windows a slot can hold the
right one, the wrong one or none; two attempts give one retry. The loops of
`_apply` treat the slots uniformly, so a third adds interleavings of the same
steps. *Plan*: the sessions are one over the first midnight and one a day and a half
ahead; the clocks are 20 minutes slow, an hour ahead and 20 minutes fast, and half
an hour off (unusable). Two days are what the entities hold. *Verdict*: the window
is long enough for a rewrite, its cooldown and the run after it. *RTC*: two requests
on the same identifier give a retry, on two they compete for a table of 1; the
proofs cover every other size. *BayWatch*: a period of 4 has the four kinds of pass
there are (first, odd with and without re-assert, even); bays share only the kick,
for which the proof covers any number. Two bays on a channel of 2 overflow it
after one pass that nobody reads. *Store*: three events on two entities exceed a
store of two. *Bridge*: two sensors are one that a broken cycle reached and one it
did not. *fanwatch*: two servers on a list of one push each other out. *Usage*: a
cap of one with two pairs overflows within a batch of two.

`MaxCrashes`, `MaxReboots`, `MaxStarts`, `MaxEvents`, `MaxEpisodes` and
`MaxRecords` bound only what TLC explores; the proofs leave the first arbitrary.

## Where the code and its comments disagree

- `alert_retry_tag`. `bridge.py:425` says a stable tag replaces a delivery
  retried after an ambiguous timeout. The tag hashes the batch, and a batch is
  recomputed from the queue each cycle: if an incident joins or is silenced in
  between, the retry has a new tag and the phone keeps both notices.
- `solis_stale`. The docstring of `apply_schedule` says its three phases are
  there "so a failure part-way can never leave a stale slot live next to a new
  one". The phases disarm only slots the plan drops. A slot that stays armed and
  changes window is rewritten in place, so a failure after the first slot's
  window leaves that one new beside a second one still on its old window, if the
  clear that follows fails as well.
- `bay_led_retry`. `agent/main.go:314` says that on a write error `applyLEDs`
  "keeps the old applied value so the next cycle retries". In the first pass the
  old value is zero, "everything off": an LED that was lit before the agent
  started and whose clear fails is recorded as off, and no later pass writes it,
  because re-asserts only concern LEDs that are wanted on.
- `solis_early`. `get_free_electricity_sessions` says it returns power-ups "in the
  next 24h" and `get_planning_slots` explains why a slot must end within 24 hours;
  `_future_sessions` keeps what starts within 36. A session further ahead than a day
  is armed as a bare HH:MM and charges a day early. In the trace it starts at tick 36
  and is announced at tick 7; it is armed as the clock times of ticks 12 to 18, and
  the slot is on at tick 12, a day before. `ChargesOnlyWanted` sets that case apart, so
  that it says something of everything else: a day by the inverter's clock, which is
  a little less than a day when that clock is slow.
- `solis_verdict`. `verify_charging` leaves the verdict to the next run because
  telemetry "predates the write we just sent". The next run, 15 minutes later,
  accepts readings up to 20 minutes old and counts the settle time from the start
  of the window, not from the write; the battery sensors may be 20 minutes older
  than that reading. A slot written into an open window can be judged, and
  rewritten, on a reading and a battery state from before it.

Met on the way and visible without a run: `verify_charging` asks that the charge sensor
be no more than 20 minutes older than the reading
(`solis_agile_charge.py:1325`), and Home Assistant leaves `last_updated` alone while a
value stays the same, so a dead slot under which the battery stands still, like the
19% of the incident in its docstring, may silence the check that is there for it;
`split_at_inverter_midnight` cuts a window
at the first midnight after its start and does not look at the second half again
(`solis_agile_charge.py:1016`). A merged window can be longer than a day, when every
half-hour up to the cutoff is cheap and a free session follows: its second half then
ends on the next midnight, which is written 00:00-00:00, "disabled", or beyond it, and
the slot is off for the part of the day in between. The attempt to prove
`CheapIsUsed` found it, and its hypothesis `~WholeDay` sets it apart; `agent/main.go:333` clears green before
amber "(and vice-versa)", but the order of writes is fixed, so a recovering bay
shows both for a moment (and for longer when the second write fails); `locateExpiry`
says that a snapshot's locate and its deadline agree, but the two are read under two
locks with LED writes between them (`agent/main.go:269`); `snapshot()` in
`fleet.go:202` shares its slices with `applySlot`; fanwatch's constants speak of a
reading above the baseline by an amount "or" a factor (`app.py:76`) where the code
asks for the larger of the two; a client that connects before the agent's first pass
gets no snapshot and ignores the events that follow (`fleet.go:157`); and a
dropped event is not "re-synced on the next snapshot" (`agent/hub.go:8`) while
the connection lasts, because only a new connection brings a snapshot. The last
two are why `ViewConverges` speaks of bays the view knows and of subscriptions
without a drop.

## Fairness

*AlertBridge*: weak fairness of the thread, which `run()` loops for ever, and
strong fairness of the successful poll, save, notification and
acknowledgement, and of the heartbeat's return: a fault may recur for ever, but
not every time. Without that no program could promise delivery. The world owes
nothing else: incidents need not end and silences need not lift. The properties
exclude what the code excludes: an incident silenced, one that is over before it
is told, and a snapshot over `MAX_ALERTS`, which `parse_alerts` rejects whole.

*RtcSessions*: weak fairness, per request, of the loop's own steps and of its
timers (`asyncio.timeout`, `call_later`). Nothing is assumed of the camera or of
Alexa: neither has to answer or to disconnect.

*BayAgent*: weak fairness of the loop (the ticker never stops), of handlers and
of deadlines; strong fairness of a pass that sees the bay, and of setting and of
clearing each LED, because `sg_ses` calls that are repeated do not all fail.

*MetricsBridge*: weak fairness of the bridge's own steps; strong fairness of time,
which passes however often the bridge is killed and started; and a bridge that is
down once faults are over is started again, which is what a Deployment does. A
fault may recur for ever except where a property says it stops.

*PetkitStore*: weak fairness of the poller's loop, strong fairness, per entity, of
storing a picture: a fetch may fail any number of times but not for ever.
*FanRamp*: weak fairness of each server's polling thread.

*SolisSlots*, *SolisPlan*, *SolisVerdict*, *BayStream*, *UsageQueue* and *Briefing*
have safety only: a run, a stream or a poll that never succeeds is legal.

## Proofs

For every safety property of a passing run there is a theorem that it holds of the
component's specification for every value of the constants. Each rests on an
inductive invariant: it holds initially, every action keeps it, and it implies the
property. Two safety properties are proved and in no run, `RetainedIsBounded`, the
safety half of `SessionsEnd`, and `ComesOnlineFresh`.

Assumptions are the named `ASSUME`s and predicates of the modules, which TLC
evaluates in the run of the component: finite sets and natural sizes
(`KeysFinite`, `SetsAreFinite`, `SlotsAreNat`, `TriesAreNat`, `StoreBounds`,
`SensorsAreNat`, `RampBounds`, `UsageSizes`, `BriefingSizes`, `BayNamesFinite`,
`CapacitiesAreNat`, `WindowIsOne`, ...), values that differ from each other (`NoRequestIsNone`,
`OffIsNoPlan`, `UsageSeries`), and five that say something of the code or its world:

- `QueueCapacity`: `2 * MAX_ALERTS <= MAX_PENDING_ALERTS`; the code has 2000 and 4000.
- `HorizonWithinDay`: the briefing's horizon, with the hour the clocks go back, is
  less than a day; only for `LabelsDiffer`.
- `PlanSizes`: a day has two half-hours or more and there is a slot. With one
  half-hour a day the current one would never end before the cutoff.
- `PlanInputs`: tariffs, sessions and skews are made of half-hours, instants and ticks.
- `SessionsAreShort`: a free session lasts less than half a day. Power-ups last hours;
  with the 36 hours of `_future_sessions`, a longer one would wrap around twice.

*AlertBridge.* `IInv` has three parts beyond types. `Durable`: wherever a
delivery or "online" may follow, and between cycles unless an error is on
record, the file equals memory. `Lineage`, of memory and of the file: an
observed incident has a firing queued or told and no recovery; an incident with
a recovery is over and its firing is queued or told. `Ahead`: what memory has
dropped from the file's queue was told, and what it has added was not. The
order of delivery alone is not inductive: to know that a recovery follows its
firing one must know that no crash reloads a file in which the incident is
observed but its firing is neither queued nor told, which is `Lineage(disk)`;
and to keep that through a second save one needs `Ahead`. From `IInv` follow
`DurableFirst`, `RecoveriesAreReal`, `FiringComesFirst` and, step by step,
`Refinement` of `AlertDelivery`. `Limits` (a separate counting invariant) gives
`FileAlwaysLoads`, and with `QueueCapacity` `FullQueueDrains`: a snapshot
accounts for at most `2 * MaxAlerts` events that a silence may hold back, so a
refusal proves that another one waits. `OnlineMeansDurable` adds `Clean`.

*SolisSlots.* That a run which reports success left its plan follows from the last
check alone. The other three need to know what is still to write. `RawIsFresh`: the
raw value equals the switch register wherever a switch may be written next. `OnsLast`:
armings come after everything else in `writes`. `Pending`: what does not hold yet is
still to be written; `Delivered`: so is what a forced apply has not had acknowledged.
An acknowledged write that the inverter ignores breaks the last three until the next
`_apply`, and `ignored` records it. From these follow `SuccessIsProgrammed`,
`ForcedReachesEveryRegister`, `SwitchesStayIsolated` and `ArmedAsPlanned`, the last
two of which are action properties.

*SolisVerdict.* `DeadSlotsAreRewritten` bounds how long a slot that the inverter
ignores stays dead. What is counted is bounded by the cooldown when a run is due and by
the time since the last run otherwise (`DeadBounded`); while anything is counted, the
latest reading is recent, both sensors are and show it (`DeadSeen`), so that the run
that is due has no reason to wait but the settle time and the cooldown. Ticks with an
unreadable, old or reassuring sensor start the count again: nothing is claimed of them.

*SolisPlan.* A slot is two times of the day. `SlotMeansItsWindow`: if it is on at x, by
the inverter's clock, then its window is a whole number of days from x. That needs
every window to be `Proper`: it ends before the midnight after its start, or on it and
then a minute early, or starts on a midnight. `PlanTicks` follows a tick through the
passes of `run_optimizer`: it is cheap and less than `Cutoff` ahead, or of a session
that begins within the horizon (`Meant`). `PlanIInv` remembers that the registers are
the clock times of windows planned at some earlier p with the clock as it is
(`Planned`). `ChargesAreWanted` is then arithmetic: between p and the time the first
slot comes round, no other day than the one meant is a multiple of a day away; for
sessions, at most one. `SlotsNeverWrap` carries `NeverWraps` through the mixtures a
failed run leaves (`RegistersFit`). `CheapHalfHoursAreUsed` follows the current
half-hour forwards: into a window (`CurrentWindow`), the merged window around it
(`CurrentMerged`), a piece that is on now (`SplitAround`, `CurrentPiece`) and the
pieces that fit (`CurrentPlanned`): no piece that is paid for starts earlier, so only
free ones can displace it; these are at most the two of one session, and if they leave
no place they have taken every slot, with different clock times. Its invariant `Used`
adds that the price is forgotten before the next run and that the world changes only
while it is.

*RtcSessions.* `IInv` says that the table holds exactly the open sessions,
that a camera task still running and a stream still open belong to one, that an
open session negotiates without a timer or is answered with one, and that
nothing is open after a stop. `CloseKeeps` shows that `Close` of any set keeps
it, and every closing action is an instance. `CapacityHolds` counts the table,
which only `Reserve` grows and only after looking.

*BayStream.* `ViewEndsCurrent` proves `ViewConverges`. What a message says of a bay
may be old, but the last one on its way that says anything of it is right. The way is
looked at from its end (`Reaches`): what the pass has still to publish, the channel,
and, by how far the handler is, the snapshot still to be read, the one to be written,
or the response and the view.

*BayAgent.* `AgentTypeCorrect` needs what a selection from a sequence returns, for the
LEDs left to drive. `KicksAreKept` proves `NoLocateForgotten`. It needs one fact more:
a bay in `late` has an expired locate, so that a locate cleared during a pass is
not mistaken for one that is still running.

*PetkitStore.* `CapturedOnce` is not inductive. It holds because the lists are newest
first (`NewestFirst`), so that the first entry of an entity, which `_load` takes for
`last_seen`, is its latest, and because what a poll sets out to add is later than all
that is listed (`Later`). `ListedIsStored` needs to know where an entry is between the
picture's write, the insertion and the manifest (`Stored`).

*MetricsBridge.* `CyclesRepair` states `CycleIsShown`. It needs that a loop over the
sensors begins with the first one's first message, and that when "online" is about to
be sent, the value was of this cycle; the same fact gives the action property
`ComesOnlineFresh`. Nothing is assumed of what earlier cycles left, which is the point.

*FanRamp.* The types need the median to be a percentage (`RankedIsReading`).
`OpenIsActive` lacks three things to be inductive: that the ids grow along
the file as well, so that whatever part of it is read grows too (`SelectGrows`); that
no listed id is above `lastId`; and that the episode a
server is in is its own and open.

*UsageQueue.* `Conserved`: a record is in the queue, in the poller's hand, in a series
or lost. That each step moves as many records as it takes is arithmetic about two
folds, the sum over the series and the tally of a batch; the lemmas about them come
first. `KilledOnce` says what a kill may lose is paid for by a start, `UpToDate` that
what is shown is stale only while a poll has committed, `Capped` that the pairs stay
within the cap.

*Briefing.* `Answered`: nothing is said that was not built, at some instant, from
rates of the tariffs that cover it. That the entities roll over while they are read
needs no more, because a set of half-hours is charted and not a day.
`InstantsAreToldApart` needs `HorizonWithinDay`.

*Induction.* The library's induction theorems take an operator as a parameter, which
the installed provers cannot instantiate. Where a recursive function has to be
reasoned about (selection from a sequence, sums, tallies), `SetInduction` of
`Basics_proofs` does it for the set of the numbers for which the fact holds, from the
well-foundedness of < on the natural numbers.

*Only model-checked*: liveness under fairness (`IncidentTold`, `RecoveryTold`,
`DirectivesEnd`, `SessionsEnd`, `HealthyIsGreen`, `FaultyBlinks`, `LocateEnds`,
`FailsClosed`, `Settles`, `EventIsListed`, `EpisodesEnd`), which is outside the
prover's reach; and the five violations, which are false.

## What is not modelled

Rendering, parsing and transport: the pages of fanwatch, its record of
temperatures and its iLO log, the dashboards, Redfish and SDP text, MQTT discovery
payloads, the briefing's wording and screen, HTTP servers, request signatures.
One-shot start-up code. A publish of the metrics bridge that times out and is acted
upon only after a later one. The camera integration after `close_webrtc_session`
raised (`session.py:118`): what it then does is not in this repository, and a close
is taken to release the stream. Discharge windows, which share the code of charge
windows and have no price. The fan-out from `bw-ui` to browsers, a copy of the
agent's hub. The smart-home Lambda, the other exporters, the homepage scripts and
the operator scripts keep no state between requests. The cluster manifests are data
for controllers that live elsewhere.

## Plan

The components are modelled, and what the runs check for safety is proved, with the
types. What is left are action properties that nothing states yet: what a pass of
`BayAgent` may do to an LED whose wish did not change; that an entry of `PetkitStore`
which retention removed does not come back with a picture; that a message of
`BayStream` never takes a view back to an older snapshot of the same agent.
