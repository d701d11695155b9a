---------------------------- MODULE AlertBridge ----------------------------
(***************************************************************************)
(* class AlertBridge of exporters/homeassistant/app/bridge.py: one thread  *)
(* that every INTERVAL polls Alertmanager, commits what changed to a JSON  *)
(* file, pages a phone through Home Assistant, and publishes a retained    *)
(* availability. Every step that does I/O is an action of its own, so that *)
(* it can fail, be ambiguous, or be the last thing the process does.       *)
(*                                                                         *)
(* A key is sha256(labels, startsAt): an incident that fires again has a   *)
(* new startsAt and so a new key, hence each (key, status) event happens   *)
(* once and the list of pending events is modelled as a set. Titles,       *)
(* severities and time stamps only order a digest and are left out. The    *)
(* byte limits of the state file are left out too: its count limits stand  *)
(* for both.                                                               *)
(***************************************************************************)
EXTENDS Naturals, Sequences, FiniteSets, Functions

CONSTANTS
  Keys,          \* incidents that may ever fire
  MaxAlerts,     \* MAX_ALERTS: largest snapshot parse_alerts accepts
  MaxPending,    \* MAX_PENDING_ALERTS
  MaxHistory,    \* MAX_ALERT_HISTORY
  MaxCrashes     \* bound on restarts of the process

ASSUME KeysFinite  == IsFiniteSet(Keys)
ASSUME BoundsAreNat ==
  /\ MaxAlerts \in Nat /\ MaxPending \in Nat
  /\ MaxHistory \in Nat /\ MaxCrashes \in Nat

\* MAX_PENDING_ALERTS = 4000 and MAX_ALERTS = 2000: a queue that only silences
\* hold back leaves room for any one observation.
ASSUME QueueCapacity == 2 * MaxAlerts <= MaxPending

Statuses == {"firing", "resolved"}
Events   == Keys \X Statuses

VARIABLES
  episode,       \* the world: each incident is "new", "firing" or "over"
  muted,         \* the world: incidents under a silence or an inhibition
  heartbeat,     \* the world: Alertmanager holds an unexpired Watchdog alert
  pc,            \* where in cycle() the thread stands
  snapshot,      \* the parsed alerts of this cycle: keys present, suppressed
  refused,       \* this cycle took the AlertQueueFull path
  observed, pending, history,   \* self.observed, self.pending, self.history
  state_error,   \* self.state_error
  disk,          \* the state file's contents
  file,          \* the state file exists
  told,          \* the phone: events it has been shown at least once
  avail,         \* retained availability topic in Home Assistant
  crashes        \* restarts so far

world  == <<episode, muted, heartbeat>>
memory == <<observed, pending, history>>
local  == <<pc, snapshot, refused>>
vars   == <<world, local, memory, state_error, disk, file, told, avail, crashes>>

Firing  == {k \in Keys : episode[k] = "firing"}
Memory  == [observed |-> observed, pending |-> pending, history |-> history]
Nothing == [observed |-> {}, pending |-> {}, history |-> <<>>]
NoSnapshot == [present |-> {}, suppressed |-> {}]

Init ==
  /\ episode = [k \in Keys |-> "new"]
  /\ muted = {}
  /\ heartbeat = TRUE
  /\ pc = "idle" /\ snapshot = NoSnapshot /\ refused = FALSE
  /\ observed = {} /\ pending = {} /\ history = <<>>
  /\ state_error = FALSE
  /\ disk = Nothing /\ file = FALSE
  /\ told = {}
  /\ avail = "offline"
  /\ crashes = 0

----------------------------------------------------------------------------
(* The world Alertmanager reports on. *)

Fire(k) ==
  /\ episode[k] = "new"
  /\ episode' = [episode EXCEPT ![k] = "firing"]
  /\ UNCHANGED <<muted, heartbeat, local, memory, state_error, disk, file, told, avail, crashes>>

End(k) ==
  /\ episode[k] = "firing"
  /\ episode' = [episode EXCEPT ![k] = "over"]
  /\ UNCHANGED <<muted, heartbeat, local, memory, state_error, disk, file, told, avail, crashes>>

Mute(k) ==
  /\ episode[k] = "firing"
  /\ muted' = IF k \in muted THEN muted \ {k} ELSE muted \cup {k}
  /\ UNCHANGED <<episode, heartbeat, local, memory, state_error, disk, file, told, avail, crashes>>

\* Prometheus stops or resumes renewing its alerts, the Watchdog among them.
Beat ==
  /\ heartbeat' = ~heartbeat
  /\ UNCHANGED <<episode, muted, local, memory, state_error, disk, file, told, avail, crashes>>

\* What /api/v2/alerts can hold: without a live producer, alerts expire there.
Collections == IF heartbeat THEN {Firing} ELSE SUBSET Firing

----------------------------------------------------------------------------
(* Faulty variants: plausible mistakes in the operators and actions below,  *)
(* for mutation tests of the properties. Nothing else refers to them.       *)

FetchedUnguarded(present) == Cardinality(present) <= MaxAlerts

OverflowsBefore(changes) == Cardinality(pending) >= MaxPending

MustSaveIfChanged(changes) == changes # {} \/ ~file

DeliverableRecoveriesFirst ==
  LET open == {e \in pending : e[1] \notin snapshot.suppressed}
      recoveries == {e \in open : e[2] = "resolved"}
  IN IF recoveries # {} THEN recoveries ELSE open

DeliverableIfPresent ==
  {e \in pending : e[1] \in snapshot.present \ snapshot.suppressed}

AlwaysPublish == "publish"

----------------------------------------------------------------------------
(* cycle(): fetch, observe, save, deliver, save, publish. *)

\* Alertmanager.fetch: a collection counts only beside a live heartbeat, and
\* parse_alerts rejects an oversized one; suppressed alerts stay in it.
Fetched(present) == heartbeat /\ Cardinality(present) <= MaxAlerts

\* The orders in which one observation's events can be listed.
Listings(S) == {l \in [1..Cardinality(S) -> S] : IsInjective(l)}

\* The newest MAX_ALERT_HISTORY events, newest batch first.
Newest(batch) ==
  LET all == batch \o history
  IN SubSeq(all, 1, IF Len(all) < MaxHistory THEN Len(all) ELSE MaxHistory)

Fired(present, suppressed) == (present \ suppressed) \ observed
Gone(present)              == observed \ present
Changes(present, suppressed) ==
  (Fired(present, suppressed) \X {"firing"}) \cup (Gone(present) \X {"resolved"})

\* len(self.pending) + len(changes) > MAX_PENDING_ALERTS
Overflows(changes) == Cardinality(pending) + Cardinality(changes) > MaxPending

\* An unreachable source, a missing heartbeat or a bad snapshot: say offline.
FetchFails ==
  /\ pc = "idle"
  /\ pc' = "withdraw"
  /\ UNCHANGED <<world, snapshot, refused, memory, state_error, disk, file, told, avail, crashes>>

\* Faulty variant of Refuse: nothing queued is delivered, so nothing drains.
RefuseAndGiveUp(present) ==
  /\ pc = "idle"
  /\ Fetched(present)
  /\ Overflows(Changes(present, present \cap muted))
  /\ refused' = TRUE
  /\ state_error' = TRUE
  /\ pc' = "withdraw"
  /\ UNCHANGED <<world, snapshot, memory, disk, file, told, avail, crashes>>

\* observe() raises AlertQueueFull before it changes anything; cycle() then
\* saves and delivers what is already queued.
Refuse(present) ==
  /\ pc = "idle"
  /\ Fetched(present)
  /\ Overflows(Changes(present, present \cap muted))
  /\ snapshot' = [present |-> present, suppressed |-> present \cap muted]
  /\ refused' = TRUE
  /\ state_error' = TRUE
  /\ pc' = "save"
  /\ UNCHANGED <<world, memory, disk, file, told, avail, crashes>>

\* observe() up to its save: memory changes first, and the file is rewritten
\* when it must be.
MustSave(changes) == changes # {} \/ state_error \/ ~file

Observe(present) ==
  LET suppressed == present \cap muted
      changes    == Changes(present, suppressed)
  IN /\ pc = "idle"
     /\ Fetched(present)
     /\ ~Overflows(changes)
     /\ snapshot' = [present |-> present, suppressed |-> suppressed]
     /\ refused' = FALSE
     /\ observed' = (observed \cup Fired(present, suppressed)) \ Gone(present)
     /\ pending' = pending \cup changes
     /\ IF changes = {} THEN UNCHANGED history
        ELSE \E batch \in Listings(changes) : history' = Newest(batch)
     /\ pc' = IF MustSave(changes) THEN "save" ELSE "notify"
     /\ UNCHANGED <<world, state_error, disk, file, told, avail, crashes>>

\* save(): temporary file, fsync, rename, fsync of the directory.
Persist ==
  /\ disk' = Memory
  /\ file' = TRUE

\* An OSError before the rename leaves the old file, one after it the new one.
PersistFails ==
  /\ \/ UNCHANGED <<disk, file>>
     \/ Persist
  /\ state_error' = TRUE
  /\ pc' = "withdraw"

Save ==
  /\ pc = "save"
  /\ Persist
  /\ state_error' = refused
  /\ pc' = "notify"
  /\ UNCHANGED <<world, snapshot, refused, memory, told, avail, crashes>>

SaveFails ==
  /\ pc = "save"
  /\ PersistFails
  /\ UNCHANGED <<world, snapshot, refused, memory, told, avail, crashes>>

\* deliver(): everything pending except the events of suppressed alerts.
Deliverable == {e \in pending : e[1] \notin snapshot.suppressed}

\* A refused cycle ends offline, a complete one goes on to publish.
AfterDelivery == IF refused THEN "withdraw" ELSE "publish"

NothingToDeliver ==
  /\ pc = "notify"
  /\ Deliverable = {}
  /\ pc' = AfterDelivery
  /\ UNCHANGED <<world, snapshot, refused, memory, state_error, disk, file, told, avail, crashes>>

\* notify_alert returned True: the batch leaves memory, then the file.
Notify ==
  /\ pc = "notify"
  /\ Deliverable # {}
  /\ told' = told \cup Deliverable
  /\ pending' = pending \ Deliverable
  /\ pc' = "ack"
  /\ UNCHANGED <<world, snapshot, refused, observed, history, state_error, disk, file, avail, crashes>>

\* Faulty variant of NotifyFails: a batch is dropped once it was tried.
NotifyFailsDropping ==
  /\ pc = "notify"
  /\ Deliverable # {}
  /\ told' \in {told, told \cup Deliverable}
  /\ pending' = pending \ Deliverable
  /\ pc' = "ack"
  /\ UNCHANGED <<world, snapshot, refused, observed, history, state_error, disk, file, avail, crashes>>

\* notify_alert returned False: rejected, or a timeout after the phone got it.
NotifyFails ==
  /\ pc = "notify"
  /\ Deliverable # {}
  /\ told' \in {told, told \cup Deliverable}
  /\ pc' = AfterDelivery
  /\ UNCHANGED <<world, snapshot, refused, memory, state_error, disk, file, avail, crashes>>

Ack ==
  /\ pc = "ack"
  /\ Persist
  /\ pc' = AfterDelivery
  /\ UNCHANGED <<world, snapshot, refused, memory, state_error, told, avail, crashes>>

AckFails ==
  /\ pc = "ack"
  /\ PersistFails
  /\ UNCHANGED <<world, snapshot, refused, memory, told, avail, crashes>>

\* Discovery, attributes, state and availability go out in this order; a
\* rejected one ends the cycle with the retained availability as it was.
Publish ==
  /\ pc = "publish"
  /\ avail' \in {"online", avail}
  /\ pc' = "idle" /\ snapshot' = NoSnapshot /\ refused' = FALSE
  /\ UNCHANGED <<world, memory, state_error, disk, file, told, crashes>>

\* Every failure path publishes "offline", which can be rejected too.
Withdraw ==
  /\ pc = "withdraw"
  /\ avail' \in {"offline", avail}
  /\ pc' = "idle" /\ snapshot' = NoSnapshot /\ refused' = FALSE
  /\ UNCHANGED <<world, memory, state_error, disk, file, told, crashes>>

\* __init__ refuses a file whose collections are over their limits; the alert
\* thread of that process is then never started.
Loads(state) ==
  /\ Cardinality(state.observed) <= MaxAlerts
  /\ Cardinality(state.pending) <= MaxPending
  /\ Len(state.history) <= MaxHistory

\* Faulty variant of Restart: the queue is reloaded, what was observed is not.
RestartForgetting ==
  /\ crashes < MaxCrashes
  /\ crashes' = crashes + 1
  /\ observed' = {} /\ pending' = disk.pending /\ history' = disk.history
  /\ state_error' = FALSE
  /\ pc' = "idle" /\ snapshot' = NoSnapshot /\ refused' = FALSE
  /\ UNCHANGED <<world, disk, file, told, avail>>

\* SIGTERM, SIGKILL or a node failure anywhere, then a new process. run()
\* publishes "offline" when it is stopped between two cycles.
Restart ==
  /\ crashes < MaxCrashes
  /\ crashes' = crashes + 1
  /\ Loads(disk)
  /\ observed' = disk.observed /\ pending' = disk.pending /\ history' = disk.history
  /\ state_error' = FALSE
  /\ avail' \in IF pc = "idle" THEN {"offline", avail} ELSE {avail}
  /\ pc' = "idle" /\ snapshot' = NoSnapshot /\ refused' = FALSE
  /\ UNCHANGED <<world, disk, file, told>>

----------------------------------------------------------------------------
World  == (\E k \in Keys : Fire(k) \/ End(k) \/ Mute(k)) \/ Beat
Poll   == \E present \in Collections : Refuse(present) \/ Observe(present)
Thread ==
  \/ FetchFails \/ Poll
  \/ Save \/ SaveFails
  \/ NothingToDeliver \/ Notify \/ NotifyFails
  \/ Ack \/ AckFails
  \/ Publish \/ Withdraw

Next == World \/ Thread \/ Restart

Spec == Init /\ [][Next]_vars

\* The thread never stops, and no fault is permanent: polls keep finding a
\* live heartbeat, and writes and notifications that keep being tried succeed.
Resume == pc = "idle" /\ ~heartbeat /\ Beat

Fairness ==
  /\ WF_vars(Thread)
  /\ SF_vars(Resume)
  /\ SF_vars(Poll)
  /\ SF_vars(Save)
  /\ SF_vars(Notify)
  /\ SF_vars(Ack)

FairSpec == Spec /\ Fairness

----------------------------------------------------------------------------
(* Correctness. *)

\* Every variable has its type; events and snapshots are about known keys.
TypeOK ==
  /\ episode \in [Keys -> {"new", "firing", "over"}]
  /\ muted \subseteq Keys
  /\ heartbeat \in BOOLEAN
  /\ pc \in {"idle", "save", "notify", "ack", "publish", "withdraw"}
  /\ snapshot \in [present : SUBSET Keys, suppressed : SUBSET Keys]
  /\ refused \in BOOLEAN
  /\ observed \subseteq Keys
  /\ pending \subseteq Events
  /\ history \in Seq(Events)
  /\ state_error \in BOOLEAN
  /\ disk \in [observed : SUBSET Keys, pending : SUBSET Events, history : Seq(Events)]
  /\ file \in BOOLEAN
  /\ told \subseteq Events
  /\ avail \in {"online", "offline"}
  /\ crashes \in Nat

\* "Persist observation before delivery" (observe): whenever a delivery or an
\* online report may follow, and between cycles unless an error is on record,
\* the file holds exactly what memory holds.
Durable ==
  (pc \in {"notify", "publish"} \/ (pc \in {"idle", "withdraw"} /\ ~state_error))
    => disk = Memory

\* What save() can leave behind, a new process can load: a bridge never locks
\* itself out of its own state file, whatever it went through before.
StateFileLoads == Loads(disk)

\* A recovery is queued or shown only for an incident that really ended: not
\* because Prometheus died, an alert was silenced or a fetch failed.
NoFalseRecovery ==
  \A k \in Keys :
    <<k, "resolved">> \in pending \cup disk.pending \cup told => episode[k] = "over"

\* Across crashes and failed writes, the phone never learns that an incident
\* resolved before it learned that it fired.
FiringToldFirst ==
  \A k \in Keys : <<k, "resolved">> \in told => <<k, "firing">> \in told

\* AlertQueueFull promises that "existing persisted deliveries can still
\* drain": with MAX_PENDING_ALERTS = 2 * MAX_ALERTS, a refused observation
\* always finds something that no silence holds back.
RefusedCanDrain == refused /\ pc = "save" => Deliverable # {}

\* Home Assistant is told "online" only on a cycle whose observation is
\* complete and safe on disk.
OnlineIsDurable ==
  [][avail = "offline" /\ avail' = "online" =>
       disk' = Memory' /\ ~state_error' /\ ~refused]_vars

\* An event leaves the state file only after the phone has shown it, and the
\* phone only ever shows what the state file holds.
Delivery == INSTANCE AlertDelivery WITH queued <- disk.pending, told <- told

DeliversAtLeastOnce == Delivery!Spec

\* The inductive invariant behind them. Both in memory and on disk, an
\* observed incident has fired and not resolved as far as the queue and the
\* phone know, and what is not observed any more is over.
Lineage(obs, queue) ==
  \A k \in Keys :
    /\ k \in obs => /\ <<k, "firing">> \in queue \cup told
                    /\ <<k, "resolved">> \notin queue \cup told
                    /\ episode[k] # "new"
    /\ <<k, "firing">> \in queue \cup told => k \in obs \/ episode[k] = "over"
    /\ <<k, "resolved">> \in queue \cup told =>
         episode[k] = "over" /\ <<k, "firing">> \in queue \cup told

\* Memory runs ahead of the disk only by events told and not yet acknowledged
\* on one side, by events nobody has seen on the other.
Ahead ==
  /\ disk.pending \ pending \subseteq told
  /\ (pending \ disk.pending) \cap told = {}

\* A cycle gets as far as publishing only with a complete observation on disk.
Clean ==
  /\ pc \in {"notify", "ack", "publish"} /\ ~refused => ~state_error
  /\ pc = "publish" => ~refused

IInv ==
  /\ TypeOK
  /\ Durable
  /\ Lineage(observed, pending)
  /\ Lineage(disk.observed, disk.pending)
  /\ Ahead
  /\ FiringToldFirst

\* More alerts than parse_alerts accepts: every fetch is then rejected whole.
Overloaded == Cardinality(Firing) > MaxAlerts

\* An incident that keeps firing under no silence is eventually on the phone,
\* also when the queue was full when it started.
IncidentTold ==
  \A k \in Keys :
    episode[k] = "firing" ~>
      (<<k, "firing">> \in told \/ k \in muted \/ episode[k] = "over" \/ Overloaded)

\* Every incident the phone has seen fire is eventually seen to resolve.
RecoveryTold ==
  \A k \in Keys :
    (<<k, "firing">> \in told /\ episode[k] = "over") ~>
      (<<k, "resolved">> \in told \/ Overloaded)
============================================================================
