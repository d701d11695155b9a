------------------------- MODULE AlertBridge_proofs -------------------------
(***************************************************************************)
(* Proofs about AlertBridge, for every set of incidents, every capacity    *)
(* and any number of restarts.                                             *)
(***************************************************************************)
EXTENDS AlertBridge, FiniteSetTheorems, SequenceTheorems, TLAPS

\* Every set of events the bridge builds is finite, because Keys is.
LEMMA FiniteData ==
  /\ \A S \in SUBSET Keys : IsFiniteSet(S)
  /\ \A S \in SUBSET Events : IsFiniteSet(S)
<1>1. \A S \in SUBSET Keys : IsFiniteSet(S)
  BY KeysFinite, FS_Subset
<1>2. IsFiniteSet(Statuses)
  <2>1. IsFiniteSet({"firing"}) /\ IsFiniteSet({"resolved"})
    BY FS_Singleton
  <2>2. Statuses = {"firing"} \cup {"resolved"}
    BY DEF Statuses
  <2> QED BY <2>1, <2>2, FS_Union
<1>3. IsFiniteSet(Events)
  BY <1>2, KeysFinite, FS_Product DEF Events
<1>4. \A S \in SUBSET Events : IsFiniteSet(S)
  BY <1>3, FS_Subset
<1> QED BY <1>1, <1>4

\* The changes an observation makes are events about known incidents.
LEMMA ChangesAreEvents ==
  ASSUME TypeOK, NEW present \in SUBSET Keys, NEW suppressed \in SUBSET Keys
  PROVE  Changes(present, suppressed) \in SUBSET Events
BY DEF TypeOK, Changes, Fired, Gone, Events, Statuses

\* The history stays a sequence of events within MAX_ALERT_HISTORY.
LEMMA NewestIsBounded ==
  ASSUME TypeOK, NEW S \in SUBSET Events, NEW batch \in Listings(S)
  PROVE  Newest(batch) \in Seq(Events) /\ Len(Newest(batch)) <= MaxHistory
<1>1. batch \in Seq(Events)
  <2>1. Cardinality(S) \in Nat
    BY FiniteData, FS_CardinalityType
  <2>2. batch \in [1..Cardinality(S) -> Events]
    BY DEF Listings
  <2> QED BY <2>1, <2>2, SeqDef
<1> DEFINE all == batch \o history
           n   == IF Len(all) < MaxHistory THEN Len(all) ELSE MaxHistory
<1>2. all \in Seq(Events)
  BY <1>1, ConcatProperties DEF TypeOK
<1>3. n \in Nat /\ n <= Len(all) /\ n <= MaxHistory
  BY <1>2, LenProperties, BoundsAreNat
<1>4. \A i \in 1..n : all[i] \in Events
  BY <1>2, <1>3, ElementOfSeq, LenProperties
<1>5. SubSeq(all, 1, n) \in Seq(Events) /\ Len(SubSeq(all, 1, n)) <= MaxHistory
  <2> HIDE DEF all, n
  <2>1. /\ SubSeq(all, 1, n) \in Seq(Events)
        /\ Len(SubSeq(all, 1, n)) = IF 1 <= n THEN n - 1 + 1 ELSE 0
    BY <1>3, <1>4, SubSeqProperties
  <2> QED BY <2>1, <1>3, BoundsAreNat
<1> QED BY <1>5 DEF Newest

\* Fetched collections hold known incidents.
LEMMA CollectionsAreKeys == \A present \in Collections : present \in SUBSET Keys
BY DEF Collections, Firing

----------------------------------------------------------------------------
(* Type correctness. *)

\* The type invariant holds in the initial states, and every step keeps it.
LEMMA InitType == Init => TypeOK
<1> SUFFICES ASSUME Init PROVE TypeOK
  OBVIOUS
<1>1. <<>> \in Seq(Events)
  BY EmptySeq
<1>2. disk \in [observed : SUBSET Keys, pending : SUBSET Events, history : Seq(Events)]
  BY <1>1 DEF Init, Nothing
<1>3. history \in Seq(Events)
  BY <1>1 DEF Init
<1>4. snapshot \in [present : SUBSET Keys, suppressed : SUBSET Keys]
  BY DEF Init, NoSnapshot
<1> QED BY <1>2, <1>3, <1>4 DEF Init, TypeOK

\* What Alertmanager reports on changes within its type.
LEMMA WorldType == TypeOK /\ World => TypeOK'
<1> SUFFICES ASSUME TypeOK, World PROVE TypeOK'
  OBVIOUS
<1>1. ASSUME NEW k \in Keys, Fire(k) \/ End(k) PROVE TypeOK'
  BY <1>1 DEF TypeOK, Fire, End, memory, local
<1>2. ASSUME NEW k \in Keys, Mute(k) PROVE TypeOK'
  BY <1>2 DEF TypeOK, Mute, memory, local
<1>3. ASSUME Beat PROVE TypeOK'
  BY <1>3 DEF TypeOK, Beat, memory, local
<1> QED BY <1>1, <1>2, <1>3 DEF World

\* observe(), whether it commits a snapshot or refuses one, keeps the types.
LEMMA PollType == TypeOK /\ Poll => TypeOK'
<1> SUFFICES ASSUME TypeOK, NEW present \in SUBSET Keys,
                    Refuse(present) \/ Observe(present)
             PROVE  TypeOK'
  BY CollectionsAreKeys DEF Poll
<1> DEFINE suppressed == present \cap muted
           changes == Changes(present, suppressed)
<1>1. suppressed \in SUBSET Keys /\ changes \in SUBSET Events
  BY ChangesAreEvents
<1>2. CASE Refuse(present)
  BY <1>2 DEF Refuse, TypeOK, world, memory
<1>3. CASE Observe(present)
  <2>0. history' = history \/ \E batch \in Listings(changes) : history' = Newest(batch)
    BY <1>3 DEF Observe
  <2>1. history' \in Seq(Events)
    <3>1. history \in Seq(Events)
      BY DEF TypeOK
    <3>2. \A batch \in Listings(changes) : Newest(batch) \in Seq(Events)
      BY <1>1, NewestIsBounded
    <3> QED BY <2>0, <3>1, <3>2
  <2>2. observed' \subseteq Keys /\ pending' \subseteq Events
    BY <1>1, <1>3 DEF Observe, TypeOK, Fired
  <2>3. snapshot' \in [present : SUBSET Keys, suppressed : SUBSET Keys]
    BY <1>1, <1>3 DEF Observe
  <2>4. pc' \in {"save", "notify"} /\ refused' \in BOOLEAN
    BY <1>3 DEF Observe
  <2>5. UNCHANGED <<episode, muted, heartbeat, state_error, disk, file, told, avail, crashes>>
    BY <1>3 DEF Observe, world
  <2> QED
    BY <2>1, <2>2, <2>3, <2>4, <2>5 DEF TypeOK
<1> QED BY <1>2, <1>3

\* What save() writes is a well-typed file.
LEMMA PersistType ==
  ASSUME TypeOK, Persist PROVE disk' \in [observed : SUBSET Keys, pending : SUBSET Events, history : Seq(Events)] /\ file' \in BOOLEAN
BY DEF TypeOK, Persist, Memory

\* Every step of cycle() keeps the types.
LEMMA ThreadType == TypeOK /\ Thread => TypeOK'
<1> SUFFICES ASSUME TypeOK, Thread PROVE TypeOK'
  OBVIOUS
<1>1. CASE FetchFails
  BY <1>1 DEF FetchFails, TypeOK, world, memory
<1>2. CASE Poll
  BY <1>2, PollType
<1>3. CASE Save
  BY <1>3, PersistType DEF Save, TypeOK, world, memory
<1>4. CASE SaveFails
  BY <1>4, PersistType DEF SaveFails, PersistFails, TypeOK, world, memory
<1>5. CASE NothingToDeliver
  BY <1>5 DEF NothingToDeliver, AfterDelivery, TypeOK, world, memory
<1>6. CASE Notify
  BY <1>6 DEF Notify, Deliverable, TypeOK, world
<1>7. CASE NotifyFails
  BY <1>7 DEF NotifyFails, Deliverable, AfterDelivery, TypeOK, world, memory
<1>8. CASE Ack
  BY <1>8, PersistType DEF Ack, AfterDelivery, TypeOK, world, memory
<1>9. CASE AckFails
  BY <1>9, PersistType DEF AckFails, PersistFails, TypeOK, world, memory
<1>10. CASE Publish
  BY <1>10 DEF Publish, NoSnapshot, TypeOK, world, memory
<1>11. CASE Withdraw
  BY <1>11 DEF Withdraw, NoSnapshot, TypeOK, world, memory
<1> QED
  BY <1>1, <1>2, <1>3, <1>4, <1>5, <1>6, <1>7, <1>8, <1>9, <1>10, <1>11 DEF Thread

\* A new process starts from well-typed memory.
LEMMA RestartType == TypeOK /\ Restart => TypeOK'
<1> SUFFICES ASSUME TypeOK, Restart PROVE TypeOK'
  OBVIOUS
<1>1. snapshot' \in [present : SUBSET Keys, suppressed : SUBSET Keys]
  BY DEF Restart, NoSnapshot
<1>2. observed' \subseteq Keys /\ pending' \subseteq Events /\ history' \in Seq(Events)
  BY DEF Restart, TypeOK
<1>3. avail' \in {"online", "offline"}
  BY DEF Restart, TypeOK
<1>4. crashes' \in Nat
  BY DEF Restart, TypeOK
<1>5. pc' = "idle" /\ refused' = FALSE /\ state_error' = FALSE
  BY DEF Restart
<1>6. UNCHANGED <<episode, muted, heartbeat, disk, file, told>>
  BY DEF Restart, world
<1> QED BY <1>1, <1>2, <1>3, <1>4, <1>5, <1>6 DEF TypeOK

\* Every variable of the bridge, its state file and its surroundings keeps its
\* type, whatever AlertBridge.cycle, a fault or a restart does.
THEOREM TypeCorrect == Spec => []TypeOK
<1>1. TypeOK /\ UNCHANGED vars => TypeOK'
  BY DEF TypeOK, vars, world, local, memory
<1>2. TypeOK /\ [Next]_vars => TypeOK'
  BY <1>1, WorldType, ThreadType, RestartType DEF Next
<1> QED BY InitType, <1>2, PTL DEF Spec

----------------------------------------------------------------------------
(* The inductive invariant. *)

\* What IInv says beyond types and Durable depends only on these variables.
Facts ==
  /\ Lineage(observed, pending)
  /\ Lineage(disk.observed, disk.pending)
  /\ Ahead
  /\ FiringToldFirst

\* Facts speaks of nothing but the queue, the file, the phone and the incidents.
LEMMA FactsFrame ==
  ASSUME Facts, UNCHANGED <<episode, observed, pending, disk, told>>
  PROVE  Facts'
BY DEF Facts, Lineage, Ahead, FiringToldFirst

\* Between the two collections a state file holds and what memory holds,
\* nothing but these fields matters.
LEMMA MemoryFields ==
  disk = Memory => disk.observed = observed /\ disk.pending = pending
BY DEF Memory

\* The inductive invariant holds before anything fired.
LEMMA InitInv == Init => IInv
<1> SUFFICES ASSUME Init PROVE IInv
  OBVIOUS
<1>1. TypeOK
  BY InitType
<1>2. Durable
  BY DEF Init, Durable, Memory, Nothing
<1>3. Lineage(observed, pending) /\ Lineage(disk.observed, disk.pending)
  BY DEF Init, Lineage, Nothing
<1>4. Ahead /\ FiringToldFirst
  BY DEF Init, Ahead, FiringToldFirst, Nothing
<1> QED BY <1>1, <1>2, <1>3, <1>4 DEF IInv

\* Incidents only go from new to firing to over.
LEMMA WorldInv == IInv /\ World => Durable' /\ Facts'
<1> SUFFICES ASSUME IInv, World PROVE Durable' /\ Facts'
  OBVIOUS
<1>1. UNCHANGED <<pc, state_error, memory, disk, told>>
  BY DEF World, Fire, End, Mute, Beat, local
<1>2. \A k \in Keys : /\ episode[k] = "over" => episode'[k] = "over"
                      /\ episode[k] # "new" => episode'[k] # "new"
  BY DEF World, Fire, End, Mute, Beat, IInv, TypeOK
<1>3. Durable'
  BY <1>1 DEF IInv, Durable, Memory, memory
<1>4. Lineage(observed, pending)' /\ Lineage(disk.observed, disk.pending)'
  BY <1>1, <1>2 DEF IInv, Lineage, memory
<1>5. Ahead' /\ FiringToldFirst'
  BY <1>1 DEF IInv, Ahead, FiringToldFirst, memory
<1> QED BY <1>3, <1>4, <1>5 DEF Facts

\* An accepted observation: a key that appears was never queued nor told, one
\* that disappears has fired, has not resolved, and is over.
LEMMA ObserveInv ==
  ASSUME IInv, NEW present \in Collections, Observe(present)
  PROVE  Durable' /\ Facts'
<1> DEFINE suppressed == present \cap muted
           changes == Changes(present, suppressed)
<1>1. present = Firing
  BY DEF Observe, Fetched, Collections
<1>2. /\ observed' = (observed \cup Fired(present, suppressed)) \ Gone(present)
      /\ pending' = pending \cup changes
      /\ UNCHANGED <<episode, state_error, disk, file, told>>
      /\ pc = "idle"
      /\ pc' = IF MustSave(changes) THEN "save" ELSE "notify"
      /\ changes = {} => UNCHANGED history
  BY DEF Observe, world
<1>3. \A k \in Keys :
        /\ k \in observed' <=> k \in present /\ (k \in observed \/ k \notin suppressed)
        /\ <<k, "firing">> \in changes <=> k \in present /\ k \notin suppressed /\ k \notin observed
        /\ <<k, "resolved">> \in changes <=> k \in observed /\ k \notin present
  BY <1>2 DEF Changes, Fired, Gone
<1>4. changes \subseteq Events /\ pending \subseteq Events
  BY DEF IInv, TypeOK, Changes, Fired, Gone, Events, Statuses, Collections, Firing
<1>5. \A k \in Keys : k \in present <=> episode[k] = "firing"
  BY <1>1 DEF Firing
<1>6. Lineage(observed, pending)'
  <2> SUFFICES ASSUME NEW k \in Keys
               PROVE  /\ k \in observed' => /\ <<k, "firing">> \in pending' \cup told
                                            /\ <<k, "resolved">> \notin pending' \cup told
                                            /\ episode[k] # "new"
                      /\ <<k, "firing">> \in pending' \cup told => k \in observed' \/ episode[k] = "over"
                      /\ <<k, "resolved">> \in pending' \cup told =>
                           episode[k] = "over" /\ <<k, "firing">> \in pending' \cup told
    BY <1>2 DEF Lineage
  <2>1. /\ k \in observed => /\ <<k, "firing">> \in pending \cup told
                             /\ <<k, "resolved">> \notin pending \cup told
                             /\ episode[k] # "new"
        /\ <<k, "firing">> \in pending \cup told => k \in observed \/ episode[k] = "over"
        /\ <<k, "resolved">> \in pending \cup told =>
             episode[k] = "over" /\ <<k, "firing">> \in pending \cup told
    BY DEF IInv, Lineage
  <2>2. episode[k] \in {"new", "firing", "over"}
    BY DEF IInv, TypeOK
  <2> QED BY <2>1, <2>2, <1>2, <1>3, <1>5
<1>7. changes \cap told = {}
  <2> SUFFICES ASSUME NEW e \in changes, e \in told
               PROVE  FALSE
    OBVIOUS
  <2> PICK k \in Keys, st \in Statuses : e = <<k, st>>
    BY <1>4 DEF Events
  <2>1. CASE st = "firing"
    BY <2>1, <1>3, <1>5 DEF IInv, Lineage
  <2>2. CASE st = "resolved"
    BY <2>2, <1>3 DEF IInv, Lineage
  <2> QED BY <2>1, <2>2 DEF Statuses
<1>8. Ahead'
  BY <1>2, <1>7 DEF IInv, Ahead
<1>9. Lineage(disk.observed, disk.pending)' /\ FiringToldFirst'
  BY <1>2 DEF IInv, Lineage, FiringToldFirst
<1>10. Durable'
  <2>1. CASE MustSave(changes)
    BY <2>1, <1>2 DEF Durable
  <2>2. CASE ~MustSave(changes)
    <3>1. changes = {} /\ ~state_error
      BY <2>2 DEF MustSave, IInv, TypeOK
    <3>2. observed' = observed
      <4>1. observed \subseteq Keys /\ observed' \subseteq Keys
        BY <1>2, CollectionsAreKeys DEF Fired, IInv, TypeOK
      <4>2. \A k \in Keys : k \in observed' <=> k \in observed
        BY <3>1, <1>3
      <4> QED BY <4>1, <4>2
    <3>3. UNCHANGED <<observed, pending, history, disk>>
      BY <3>1, <3>2, <1>2
    <3>4. disk = Memory
      BY <3>1, <1>2 DEF IInv, Durable
    <3> QED BY <3>3, <3>4 DEF Durable, Memory
  <2> QED BY <2>1, <2>2
<1> QED BY <1>6, <1>8, <1>9, <1>10 DEF Facts

\* Either outcome of observe() keeps the invariant.
LEMMA PollInv == IInv /\ Poll => Durable' /\ Facts'
<1> SUFFICES ASSUME IInv, NEW present \in Collections,
                    Refuse(present) \/ Observe(present)
             PROVE  Durable' /\ Facts'
  BY DEF Poll
<1>1. CASE Observe(present)
  BY <1>1, ObserveInv
<1>2. CASE Refuse(present)
  <2>1. UNCHANGED <<episode, observed, pending, disk, told>> /\ pc' = "save"
    BY <1>2 DEF Refuse, world, memory
  <2>2. Facts'
    BY <2>1, FactsFrame DEF IInv, Facts
  <2> QED BY <2>1, <2>2 DEF Durable
<1> QED BY <1>1, <1>2

\* A completed save leaves disk and memory equal; one that failed leaves the
\* old file or the new one.
LEMMA PersistInv ==
  ASSUME IInv, Persist \/ UNCHANGED disk, UNCHANGED <<episode, memory, told>>
  PROVE  Facts'
<1>1. CASE UNCHANGED disk
  BY <1>1, FactsFrame DEF IInv, Facts, memory
<1>2. CASE Persist
  <2>1. disk'.observed = observed /\ disk'.pending = pending
    BY <1>2 DEF Persist, Memory
  <2>2. UNCHANGED <<observed, pending, episode, told>>
    BY DEF memory
  <2> QED BY <2>1, <2>2 DEF Facts, IInv, Lineage, Ahead, FiringToldFirst
<1> QED BY <1>1, <1>2

\* The phone is shown events that disk and memory both hold.
LEMMA DeliverInv ==
  ASSUME IInv, pc = "notify",
         told' \in {told, told \cup Deliverable},
         \/ UNCHANGED pending
         \/ pending' = pending \ Deliverable /\ told' = told \cup Deliverable,
         UNCHANGED <<episode, observed, history, disk>>
  PROVE  Facts'
<1>1. disk.observed = observed /\ disk.pending = pending
  BY MemoryFields DEF IInv, Durable
<1>2. \A k \in Keys : <<k, "firing">> \in Deliverable \/ <<k, "resolved">> \in Deliverable
        => k \notin snapshot.suppressed
  BY DEF Deliverable
<1>3. \A e \in Deliverable : e \in pending
  BY DEF Deliverable
<1>4. \A k \in Keys : \A st \in Statuses :
        <<k, st>> \in pending /\ k \notin snapshot.suppressed => <<k, st>> \in Deliverable
  BY DEF Deliverable
<1>5. disk.pending' = pending /\ disk.observed' = observed
  BY <1>1
<1>6. \A k \in Keys : \A st \in Statuses :
        /\ <<k, st>> \in pending' \cup told' <=> <<k, st>> \in pending \cup told
        /\ <<k, st>> \in pending \cup told' <=> <<k, st>> \in pending \cup told
  BY <1>3
<1>7. Lineage(observed, pending)' /\ Lineage(disk.observed, disk.pending)'
  BY <1>1, <1>6 DEF Statuses, IInv, Lineage
<1>8. Ahead'
  BY <1>1 DEF Ahead
<1>9. FiringToldFirst'
  <2> SUFFICES ASSUME NEW k \in Keys, <<k, "resolved">> \in told'
               PROVE  <<k, "firing">> \in told'
    BY DEF FiringToldFirst
  <2>1. CASE <<k, "resolved">> \in told
    BY <2>1 DEF IInv, FiringToldFirst
  <2>2. CASE <<k, "resolved">> \in Deliverable /\ told' = told \cup Deliverable
    BY <2>2, <1>2, <1>3, <1>4 DEF Statuses, IInv, Lineage
  <2> QED BY <2>1, <2>2
<1> QED BY <1>7, <1>8, <1>9 DEF Facts

\* Every step of cycle() keeps the invariant.
LEMMA ThreadInv == IInv /\ Thread => Durable' /\ Facts'
<1> SUFFICES ASSUME IInv, Thread PROVE Durable' /\ Facts'
  OBVIOUS
<1>0. Durable
  BY DEF IInv
<1>1. CASE FetchFails
  <2>1. UNCHANGED <<episode, memory, disk, told, state_error>> /\ pc = "idle" /\ pc' = "withdraw"
    BY <1>1 DEF FetchFails, world
  <2>2. Durable'
    BY <1>0, <2>1 DEF Durable, Memory, memory
  <2> QED BY <2>1, <2>2, PersistInv
<1>2. CASE Poll
  BY <1>2, PollInv
<1>3. CASE Save
  <2>1. Persist /\ UNCHANGED <<episode, memory, told>>
    BY <1>3 DEF Save, world
  <2>2. Durable'
    BY <2>1 DEF Persist, Durable, Memory, memory
  <2> QED BY <2>1, <2>2, PersistInv
<1>4. CASE SaveFails \/ AckFails
  <2>1. /\ Persist \/ UNCHANGED disk
        /\ UNCHANGED <<episode, memory, told>>
        /\ state_error' = TRUE /\ pc' = "withdraw"
    BY <1>4 DEF SaveFails, AckFails, PersistFails, world
  <2>2. Durable'
    BY <2>1 DEF Durable
  <2> QED BY <2>1, <2>2, PersistInv
<1>5. CASE NothingToDeliver
  <2>1. UNCHANGED <<episode, memory, disk, told>> /\ pc = "notify"
    BY <1>5 DEF NothingToDeliver, world
  <2>2. Durable'
    BY <1>0, <2>1 DEF Durable, Memory, memory
  <2> QED BY <2>1, <2>2, PersistInv
<1>6. CASE Notify
  <2>1. Facts'
    BY <1>6, DeliverInv DEF Notify, world
  <2>2. pc' = "ack"
    BY <1>6 DEF Notify
  <2> QED BY <2>1, <2>2 DEF Durable
<1>7. CASE NotifyFails
  <2>1. Facts'
    BY <1>7, DeliverInv DEF NotifyFails, world, memory
  <2>2. UNCHANGED <<memory, disk>> /\ pc = "notify"
    BY <1>7 DEF NotifyFails
  <2> QED BY <1>0, <2>1, <2>2 DEF Durable, Memory, memory
<1>8. CASE Ack
  <2>1. Persist /\ UNCHANGED <<episode, memory, told>>
    BY <1>8 DEF Ack, world
  <2>2. Durable'
    BY <2>1 DEF Persist, Durable, Memory, memory
  <2> QED BY <2>1, <2>2, PersistInv
<1>9. CASE Publish \/ Withdraw
  <2>1. UNCHANGED <<episode, memory, disk, told, state_error>> /\ pc \in {"publish", "withdraw"}
    BY <1>9 DEF Publish, Withdraw, world
  <2>2. pc' = "idle"
    BY <1>9 DEF Publish, Withdraw
  <2>3. Durable'
    BY <1>0, <2>1, <2>2 DEF Durable, Memory, memory
  <2> QED BY <2>1, <2>3, PersistInv
<1> QED
  BY <1>1, <1>2, <1>3, <1>4, <1>5, <1>6, <1>7, <1>8, <1>9 DEF Thread

\* A new process starts from exactly what the file holds.
LEMMA RestartInv == IInv /\ Restart => Durable' /\ Facts'
<1> SUFFICES ASSUME IInv, Restart PROVE Durable' /\ Facts'
  OBVIOUS
<1>1. /\ observed' = disk.observed /\ pending' = disk.pending /\ history' = disk.history
      /\ UNCHANGED <<episode, disk, told>>
  BY DEF Restart, world
<1>2. disk = [observed |-> disk.observed, pending |-> disk.pending, history |-> disk.history]
  BY DEF IInv, TypeOK
<1>3. Durable'
  BY <1>1, <1>2 DEF Durable, Memory
<1> QED BY <1>1, <1>3 DEF Facts, IInv, Lineage, Ahead, FiringToldFirst

\* Every step, of the world, the thread or a restart, keeps the invariant.
LEMMA StepInv == IInv /\ [Next]_vars => IInv'
<1> SUFFICES ASSUME IInv, [Next]_vars PROVE IInv'
  OBVIOUS
<1>1. TypeOK'
  BY WorldType, ThreadType, RestartType DEF IInv, Next, TypeOK, vars, world, local, memory
<1>2. CASE UNCHANGED vars
  <2>1. UNCHANGED <<episode, memory, disk, told, pc, state_error>>
    BY <1>2 DEF vars, world, local
  <2>2. Facts'
    BY <2>1, PersistInv
  <2> QED BY <1>1, <2>1, <2>2 DEF IInv, Facts, Durable, Memory, memory
<1>3. CASE Next
  <2>1. Durable' /\ Facts'
    BY <1>3, WorldInv, ThreadInv, RestartInv DEF Next
  <2> QED BY <1>1, <2>1 DEF IInv, Facts
<1> QED BY <1>2, <1>3

\* The inductive invariant behind the theorems below: how the queue and the
\* observed set of AlertBridge, in memory and in the state file, relate to what
\* the phone was shown and to what really happened to each incident.
THEOREM Invariance == Spec => []IInv
BY InitInv, StepInv, PTL DEF Spec

\* AlertBridge.observe persists before AlertBridge.deliver runs: whenever an
\* event may be sent or "online" published, the file holds what memory holds.
THEOREM DurableFirst == Spec => []Durable
<1>1. IInv => Durable
  BY DEF IInv
<1> QED BY <1>1, Invariance, PTL

\* fetch and parse_alerts never let a dead Prometheus, a silence or a failed
\* fetch pass for a recovery.
THEOREM RecoveriesAreReal == Spec => []NoFalseRecovery
<1>1. IInv => NoFalseRecovery
  BY DEF IInv, NoFalseRecovery, Lineage
<1> QED BY <1>1, Invariance, PTL

\* Across restarts and failed writes, deliver never shows the phone a recovery
\* whose firing it has not been shown.
THEOREM FiringComesFirst == Spec => []FiringToldFirst
<1>1. IInv => FiringToldFirst
  BY DEF IInv
<1> QED BY <1>1, Invariance, PTL

----------------------------------------------------------------------------
(* AlertBridge implements AlertDelivery. *)

\* A write of the file commits what memory has gained and drops what was told.
LEMMA PersistCommits ==
  ASSUME IInv, Persist, UNCHANGED told
  PROVE  Delivery!Next
<1> DEFINE new  == pending \ disk.pending
           done == disk.pending \ pending
<1>1. pending \subseteq Events /\ disk.pending \subseteq Events
  BY DEF IInv, TypeOK
<1>2. new \in SUBSET Delivery!Events /\ done \in SUBSET Delivery!Events
  BY <1>1 DEF Events, Statuses, Delivery!Events
<1>3. disk'.pending = pending
  BY DEF Persist, Memory
<1>4. Delivery!Commit(new, done)
  <2>1. new \cap (disk.pending \cup told) = {} /\ done \subseteq disk.pending \cap told
    BY DEF IInv, Ahead
  <2>2. \A k \in Keys : <<k, "resolved">> \in new =>
          <<k, "firing">> \in new \cup disk.pending \cup told
    BY DEF IInv, Lineage
  <2>3. disk'.pending = (disk.pending \ done) \cup new
    BY <1>3
  <2> QED BY <2>1, <2>2, <2>3 DEF Delivery!Commit
<1> QED BY <1>2, <1>4 DEF Delivery!Next

\* What the phone is shown is in the file at that moment.
LEMMA DeliverTells ==
  ASSUME IInv, pc = "notify", told' = told \cup Deliverable, UNCHANGED disk
  PROVE  Delivery!Next
<1>1. disk.pending = pending
  BY MemoryFields DEF IInv, Durable
<1>2. Deliverable \subseteq disk.pending
  BY <1>1 DEF Deliverable
<1>3. Deliverable \in SUBSET Delivery!Events
  BY <1>2 DEF IInv, TypeOK, Events, Statuses, Delivery!Events
<1> QED BY <1>2, <1>3 DEF Delivery!Next, Delivery!Tell

\* Every step of the bridge is a commit, a telling or a stutter of AlertDelivery.
LEMMA StepSimulates == IInv /\ [Next]_vars => [Delivery!Next]_(Delivery!vars)
<1> SUFFICES ASSUME IInv, [Next]_vars PROVE [Delivery!Next]_(Delivery!vars)
  OBVIOUS
<1>1. ASSUME UNCHANGED <<disk, told>> PROVE UNCHANGED Delivery!vars
  BY <1>1 DEF Delivery!vars
<1>2. CASE UNCHANGED vars \/ World \/ Restart \/ FetchFails \/ Poll
           \/ NothingToDeliver \/ Publish \/ Withdraw
  <2>1. UNCHANGED <<disk, told>>
    BY <1>2 DEF vars, World, Fire, End, Mute, Beat, Restart, FetchFails, Poll,
                Refuse, Observe, NothingToDeliver, Publish, Withdraw
  <2> QED BY <1>1, <2>1
<1>3. CASE Save \/ SaveFails \/ Ack \/ AckFails
  <2>1. UNCHANGED told /\ (Persist \/ UNCHANGED disk)
    BY <1>3 DEF Save, SaveFails, Ack, AckFails, PersistFails
  <2> QED BY <1>1, <2>1, PersistCommits
<1>4. CASE Notify \/ NotifyFails
  <2>1. pc = "notify" /\ UNCHANGED disk /\ told' \in {told, told \cup Deliverable}
    BY <1>4 DEF Notify, NotifyFails
  <2> QED BY <1>1, <2>1, DeliverTells
<1> QED BY <1>2, <1>3, <1>4 DEF Next, Thread

\* The bridge's file and its deliveries implement AlertDelivery: no event is
\* told before it is committed, lost before it is told, or committed twice,
\* whatever AlertBridge.save and notify_alert fail at and whenever it restarts.
THEOREM Refinement == Spec => DeliversAtLeastOnce
<1>1. Init => Delivery!Init
  BY DEF Init, Nothing, Delivery!Init
<1> QED BY <1>1, StepSimulates, Invariance, PTL DEF Spec, DeliversAtLeastOnce, Delivery!Spec

----------------------------------------------------------------------------
(* Limits: the file always loads, and a full queue always drains. *)

Bounded == Loads(Memory) /\ Loads(disk)

\* observe() keeps what it holds within the three limits of the state file.
LEMMA ObserveBounded ==
  ASSUME TypeOK, Bounded, NEW present \in Collections, Observe(present)
  PROVE  Loads(Memory)'
<1> DEFINE suppressed == present \cap muted
           changes == Changes(present, suppressed)
<1>1. changes \in SUBSET Events /\ present \in SUBSET Keys
  BY ChangesAreEvents, CollectionsAreKeys
<1>2. Cardinality(observed') <= MaxAlerts
  <2>1. observed' \subseteq present
    BY DEF Observe, Fired, Gone
  <2>2. Cardinality(present) <= MaxAlerts
    BY DEF Observe, Fetched
  <2>3. IsFiniteSet(present)
    BY <1>1, FiniteData
  <2>4. Cardinality(observed') <= Cardinality(present)
    BY <2>1, <2>3, FS_Subset
  <2>5. Cardinality(observed') \in Nat /\ Cardinality(present) \in Nat
    BY <2>1, <2>3, FS_Subset, FS_CardinalityType
  <2> QED BY <2>2, <2>4, <2>5, BoundsAreNat
<1>3. Cardinality(pending') <= MaxPending
  <2>1. pending' = pending \cup changes /\ ~Overflows(changes)
    BY DEF Observe
  <2>2. IsFiniteSet(pending) /\ IsFiniteSet(changes)
    BY <1>1, FiniteData DEF TypeOK
  <2>3. Cardinality(pending') = Cardinality(pending) + Cardinality(changes)
                                - Cardinality(pending \cap changes)
    BY <2>1, <2>2, FS_Union
  <2>4. /\ Cardinality(pending) \in Nat /\ Cardinality(changes) \in Nat
        /\ Cardinality(pending \cap changes) \in Nat
    BY <2>2, FS_CardinalityType, FS_Intersection
  <2>5. Cardinality(pending) + Cardinality(changes) <= MaxPending
    BY <2>1, <2>4, BoundsAreNat DEF Overflows
  <2> QED BY <2>3, <2>4, <2>5, BoundsAreNat
<1>4. Len(history') <= MaxHistory
  <2>1. history' = history \/ \E batch \in Listings(changes) : history' = Newest(batch)
    BY DEF Observe
  <2>2. \A batch \in Listings(changes) : Len(Newest(batch)) <= MaxHistory
    BY <1>1, NewestIsBounded
  <2> QED BY <2>1, <2>2 DEF Bounded, Loads, Memory
<1> QED BY <1>2, <1>3, <1>4 DEF Loads, Memory

\* No step takes memory or the state file over its limits.
LEMMA BoundedStep == TypeOK /\ Bounded /\ [Next]_vars => Bounded'
<1> SUFFICES ASSUME TypeOK, Bounded, [Next]_vars PROVE Bounded'
  OBVIOUS
<1>1. CASE UNCHANGED vars \/ World \/ FetchFails \/ NothingToDeliver \/ NotifyFails
           \/ Publish \/ Withdraw \/ (\E present \in Collections : Refuse(present))
  <2>1. UNCHANGED <<memory, disk>>
    BY <1>1 DEF vars, World, Fire, End, Mute, Beat, FetchFails, NothingToDeliver,
                NotifyFails, Publish, Withdraw, Refuse
  <2> QED BY <2>1 DEF Bounded, Loads, Memory, memory
<1>2. CASE Save \/ SaveFails \/ Ack \/ AckFails
  <2>1. UNCHANGED memory /\ (Persist \/ UNCHANGED disk)
    BY <1>2 DEF Save, SaveFails, Ack, AckFails, PersistFails
  <2> QED BY <2>1 DEF Bounded, Loads, Persist, Memory, memory
<1>3. CASE Restart
  BY <1>3 DEF Restart, Bounded, Loads, Memory
<1>4. CASE Notify
  <2>1. UNCHANGED <<observed, history, disk>> /\ pending' \subseteq pending
    BY <1>4 DEF Notify
  <2>2. IsFiniteSet(pending)
    BY FiniteData DEF TypeOK
  <2>3. Cardinality(pending') <= Cardinality(pending)
    BY <2>1, <2>2, FS_Subset
  <2>4. Cardinality(pending') \in Nat /\ Cardinality(pending) \in Nat
    BY <2>1, <2>2, FS_Subset, FS_CardinalityType
  <2>5. Cardinality(pending') <= MaxPending
    BY <2>3, <2>4, BoundsAreNat DEF Bounded, Loads, Memory
  <2> QED BY <2>1, <2>5 DEF Bounded, Loads, Memory
<1>5. CASE \E present \in Collections : Observe(present)
  <2>1. UNCHANGED disk
    BY <1>5 DEF Observe
  <2> QED BY <1>5, <2>1, ObserveBounded DEF Bounded, Loads
<1> QED BY <1>1, <1>2, <1>3, <1>4, <1>5 DEF Next, Thread, Poll

\* An empty bridge is within its limits.
LEMMA InitBounded == Init => Bounded
<1> SUFFICES ASSUME Init PROVE Bounded
  OBVIOUS
<1>1. Cardinality({}) = 0
  BY FS_EmptySet
<1>2. Len(<<>>) = 0
  OBVIOUS
<1> QED BY <1>1, <1>2, BoundsAreNat DEF Init, Bounded, Loads, Memory, Nothing

\* What observe() holds in memory and what save() leaves on disk stay within
\* MAX_ALERTS, MAX_PENDING_ALERTS and MAX_ALERT_HISTORY.
THEOREM Limits == Spec => []Bounded
BY InitBounded, BoundedStep, TypeCorrect, PTL DEF Spec

\* The constructor's limits hold of every file AlertBridge.save can leave, so
\* no history of faults makes a new process refuse its own state.
THEOREM FileAlwaysLoads == Spec => []StateFileLoads
<1>1. Bounded => StateFileLoads
  BY DEF Bounded, StateFileLoads
<1> QED BY <1>1, Limits, PTL

\* Silenced incidents hold at most one pending event each, their firing; with
\* room for two snapshots, a refused observation proves another one is pending.
LEMMA RefuseFindsWork ==
  ASSUME IInv, Bounded, NEW present \in Collections, Refuse(present)
  PROVE  Deliverable' # {}
<1> DEFINE S       == present \cap muted
           fired   == Fired(present, S)
           gone    == Gone(present)
           changes == Changes(present, S)
<1>1. SUFFICES ASSUME Deliverable' = {} PROVE FALSE
  OBVIOUS
<1>2. present = Firing /\ Cardinality(present) <= MaxAlerts
  BY DEF Refuse, Fetched, Collections
<1>3. snapshot'.suppressed = S /\ pending' = pending
  BY DEF Refuse, memory
<1>4. /\ present \in SUBSET Keys /\ S \in SUBSET Keys /\ fired \in SUBSET Keys
      /\ gone \in SUBSET Keys /\ present \ S \in SUBSET Keys
      /\ pending \in SUBSET Events
  BY <1>2 DEF Firing, Fired, Gone, IInv, TypeOK
<1>5. pending \subseteq S \X {"firing"}
  <2> SUFFICES ASSUME NEW e \in pending PROVE e \in S \X {"firing"}
    OBVIOUS
  <2>1. PICK k \in Keys, st \in Statuses : e = <<k, st>>
    BY <1>4 DEF Events
  <2>2. k \in S
    BY <1>1, <1>3, <2>1 DEF Deliverable
  <2>3. episode[k] = "firing"
    BY <1>2, <2>2 DEF Firing
  <2>4. st # "resolved"
    BY <2>1, <2>3 DEF IInv, Lineage
  <2> QED BY <2>1, <2>2, <2>4 DEF Statuses
<1>6. ASSUME NEW A \in SUBSET Keys, NEW x
      PROVE  IsFiniteSet(A \X {x}) /\ Cardinality(A \X {x}) = Cardinality(A)
  <2>1. IsFiniteSet(A) /\ Cardinality(A) \in Nat
    BY FiniteData, FS_CardinalityType
  <2>2. IsFiniteSet({x}) /\ Cardinality({x}) = 1
    BY FS_Singleton
  <2>3. IsFiniteSet(A \X {x}) /\ Cardinality(A \X {x}) = Cardinality(A) * Cardinality({x})
    BY <2>1, <2>2, FS_Product
  <2> QED BY <2>1, <2>2, <2>3
<1>7. /\ Cardinality(S) \in Nat /\ Cardinality(fired) \in Nat /\ Cardinality(gone) \in Nat
      /\ Cardinality(present) \in Nat /\ Cardinality(present \ S) \in Nat
      /\ Cardinality(pending) \in Nat
  BY <1>4, FiniteData, FS_CardinalityType
<1>8. Cardinality(pending) <= Cardinality(S)
  <2>1. IsFiniteSet(S \X {"firing"}) /\ Cardinality(S \X {"firing"}) = Cardinality(S)
    BY <1>4, <1>6
  <2>2. Cardinality(pending) <= Cardinality(S \X {"firing"})
    BY <1>5, <2>1, FS_Subset
  <2> QED BY <2>1, <2>2
<1>9. Cardinality(fired) + Cardinality(S) <= Cardinality(present)
  <2>1. fired \subseteq present \ S
    BY DEF Fired
  <2>2. IsFiniteSet(present) /\ IsFiniteSet(present \ S) /\ IsFiniteSet(S)
    BY <1>4, FiniteData
  <2>3. Cardinality(fired) <= Cardinality(present \ S)
    BY <2>1, <2>2, FS_Subset
  <2>4. Cardinality(present \ S) = Cardinality(present) - Cardinality(present \cap S)
    BY <2>2, FS_Difference
  <2>5. present \cap S = S
    OBVIOUS
  <2> HIDE DEF S, fired
  <2> QED BY <1>7, <2>3, <2>4, <2>5
<1>10. Cardinality(gone) <= MaxAlerts
  <2>1. gone \subseteq observed /\ observed \in SUBSET Keys
    BY DEF Gone, IInv, TypeOK
  <2>2. IsFiniteSet(observed)
    BY <2>1, FiniteData
  <2>3. Cardinality(gone) <= Cardinality(observed) /\ Cardinality(observed) \in Nat
    BY <2>1, <2>2, FS_Subset, FS_CardinalityType
  <2>4. Cardinality(observed) <= MaxAlerts
    BY DEF Bounded, Loads, Memory
  <2> HIDE DEF gone
  <2> QED BY <1>7, <2>3, <2>4, BoundsAreNat
<1>11. Cardinality(changes) <= Cardinality(fired) + Cardinality(gone) /\ Cardinality(changes) \in Nat
  <2> DEFINE F == fired \X {"firing"}
             G == gone \X {"resolved"}
  <2>1. /\ IsFiniteSet(F) /\ Cardinality(F) = Cardinality(fired)
        /\ IsFiniteSet(G) /\ Cardinality(G) = Cardinality(gone)
    BY <1>4, <1>6
  <2>2. changes = F \cup G
    BY DEF Changes
  <2> HIDE DEF F, G, changes, fired, gone
  <2>3. /\ Cardinality(changes) = Cardinality(F) + Cardinality(G) - Cardinality(F \cap G)
        /\ IsFiniteSet(changes)
    BY <2>1, <2>2, FS_Union
  <2>4. Cardinality(F \cap G) \in Nat
    BY <2>1, FS_Intersection, FS_CardinalityType
  <2>5. Cardinality(changes) \in Nat
    BY <2>3, FS_CardinalityType
  <2> QED BY <1>7, <2>1, <2>3, <2>4, <2>5
<1>12. Cardinality(pending) + Cardinality(changes) > MaxPending
  BY DEF Refuse, Overflows
<1> HIDE DEF S, fired, gone, changes
<1> QED BY <1>2, <1>7, <1>8, <1>9, <1>10, <1>11, <1>12, QueueCapacity, BoundsAreNat

\* Between the refusal and the save that follows it, the queue keeps its work.
LEMMA DrainStep == IInv /\ Bounded /\ RefusedCanDrain /\ [Next]_vars => RefusedCanDrain'
<1> SUFFICES ASSUME IInv, Bounded, RefusedCanDrain, [Next]_vars,
                    refused', pc' = "save"
             PROVE  Deliverable' # {}
  BY DEF RefusedCanDrain
<1>1. CASE UNCHANGED vars \/ World
  <2>1. UNCHANGED <<pc, refused, snapshot, pending>>
    BY <1>1 DEF vars, World, Fire, End, Mute, Beat, local, memory
  <2> QED BY <2>1 DEF RefusedCanDrain, Deliverable
<1>2. CASE \E present \in Collections : Refuse(present)
  BY <1>2, RefuseFindsWork
<1>3. CASE (\E present \in Collections : Observe(present)) \/ Restart
  BY <1>3 DEF Observe, Restart
<1>4. CASE FetchFails \/ Save \/ SaveFails \/ NothingToDeliver \/ Notify \/ NotifyFails
           \/ Ack \/ AckFails \/ Publish \/ Withdraw
  BY <1>4 DEF FetchFails, Save, SaveFails, NothingToDeliver, Notify, NotifyFails, Ack,
              AckFails, Publish, Withdraw, PersistFails, AfterDelivery
<1> QED BY <1>1, <1>2, <1>3, <1>4 DEF Next, Thread, Poll

\* AlertQueueFull's promise: whenever an observation is refused, some pending
\* event is under no silence, so a successful delivery frees room.
THEOREM FullQueueDrains == Spec => []RefusedCanDrain
<1>1. Init => RefusedCanDrain
  BY DEF Init, RefusedCanDrain
<1> QED BY <1>1, DrainStep, Invariance, Limits, PTL DEF Spec

----------------------------------------------------------------------------
(* What "online" means. *)

\* Only a complete, saved observation gets as far as publishing.
LEMMA CleanStep == TypeOK /\ Clean /\ [Next]_vars => Clean'
<1> SUFFICES ASSUME TypeOK, Clean, [Next]_vars PROVE Clean'
  OBVIOUS
<1>1. CASE UNCHANGED vars \/ World
  <2>1. UNCHANGED <<pc, refused, state_error>>
    BY <1>1 DEF vars, World, Fire, End, Mute, Beat, local
  <2> QED BY <2>1 DEF Clean
<1>2. CASE \E present \in Collections : Refuse(present)
  BY <1>2 DEF Refuse, Clean
<1>3. CASE \E present \in Collections : Observe(present)
  BY <1>3 DEF Observe, MustSave, Clean, TypeOK
<1>4. CASE FetchFails \/ SaveFails \/ AckFails \/ Publish \/ Withdraw \/ Restart
  BY <1>4 DEF FetchFails, SaveFails, AckFails, PersistFails, Publish, Withdraw, Restart, Clean
<1>5. CASE Save \/ Notify \/ NotifyFails \/ NothingToDeliver \/ Ack
  BY <1>5 DEF Save, Notify, NotifyFails, NothingToDeliver, Ack, AfterDelivery, Clean, TypeOK
<1> QED BY <1>1, <1>2, <1>3, <1>4, <1>5 DEF Next, Thread, Poll

\* AlertBridge.cycle publishes "online" only when its observation was complete
\* and everything it holds, the rest of the queue included, is on disk.
THEOREM OnlineMeansDurable == Spec => OnlineIsDurable
<1>1. Init => Clean
  BY DEF Init, Clean
<1>2. Spec => []Clean
  BY <1>1, CleanStep, TypeCorrect, PTL DEF Spec
<1>3. IInv /\ Clean /\ [Next]_vars =>
        [avail = "offline" /\ avail' = "online" =>
           disk' = Memory' /\ ~state_error' /\ ~refused]_vars
  <2> SUFFICES ASSUME IInv, Clean, [Next]_vars, avail = "offline", avail' = "online"
               PROVE  disk' = Memory' /\ ~state_error' /\ ~refused
    OBVIOUS
  <2>1. Publish
    BY DEF Next, vars, World, Fire, End, Mute, Beat, Thread, FetchFails, Poll, Refuse,
           Observe, Save, SaveFails, NothingToDeliver, Notify, NotifyFails, Ack,
           AckFails, Withdraw, Restart
  <2>2. ~refused /\ ~state_error
    BY <2>1 DEF Publish, Clean
  <2>3. disk = Memory
    BY <2>1 DEF Publish, IInv, Durable
  <2>4. UNCHANGED <<memory, disk, state_error>>
    BY <2>1 DEF Publish
  <2> QED BY <2>2, <2>3, <2>4 DEF Memory, memory
<1> QED BY <1>2, <1>3, Invariance, PTL DEF Spec, OnlineIsDurable
=============================================================================
