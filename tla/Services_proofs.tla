--------------------------- MODULE Services_proofs ---------------------------
(***************************************************************************)
(* The snapshot store, the fan ramps and the metrics bridge.               *)
(*                                                                         *)
(* PetkitStore. For any entities and number of events, any size of the     *)
(* manifest and any restarts: what it lists has its picture unless         *)
(* retention removed the entry, and no event is listed twice, in memory or *)
(* on disk. The first needs to know where an entry comes from and where it *)
(* goes (Stored). The second is not inductive: it holds because the lists  *)
(* are newest first (NewestFirst), so that the first entry of an entity,   *)
(* which _load takes for last_seen, is its latest, and because what a poll *)
(* sets out to add is later than everything listed (Later).                *)
(*                                                                         *)
(* FanRamp. The shared list of episodes agrees with the servers' own       *)
(* memory, for any servers and readings, any size of the list, any number  *)
(* of episodes and restarts, and whichever saves fail. OpenIsActive is     *)
(* nearly inductive: what it lacks is that the file holds a list with      *)
(* growing ids too, of which any part may be read, that no listed id is    *)
(* above lastId, and that the episode a server is in is its own and open.  *)
(* The baseline an episode records plays no part, so nothing is assumed of *)
(* it: B stands for whatever baselines there are.                          *)
(*                                                                         *)
(* MetricsBridge. For any sensors, queries that fail, publishes that fail  *)
(* or are only taken for failed, stops and kills: a cycle leaves behind it *)
(* what it found, and no sensor comes online with an old value. Both need  *)
(* that "online" is only sent after the value of the same cycle.           *)
(***************************************************************************)
EXTENDS PetkitStore, FanRamp, MetricsBridge, Basics_proofs, FiniteSetTheorems

----------------------------------------------------------------------------
(* PetkitStore: the invariant. *)

\* The entries of an entity, newest first.
Decreasing(s) ==
  \A i, j \in 1 .. Len(s) : i < j /\ s[i].entity = s[j].entity => s[i].event > s[j].event

NewestFirst == Decreasing(list) /\ Decreasing(disk)

\* last_seen is no earlier than what is listed; what this poll has still to
\* insert is later, and nothing is later than what Home Assistant had.
Later ==
  /\ \A i \in Range(list) : i.event <= lastSeen[i.entity]
  /\ \A i \in Range(disk) : i.event <= event[i.entity]
  /\ \A e \in Entities : lastSeen[e] <= event[e] /\ todo[e] <= event[e]
  /\ \A e \in Entities :
       todo[e] # 0 /\ ~(step = "write" /\ adding.entity = e) => lastSeen[e] < todo[e]
  /\ step # "poll" => adding.event = todo[adding.entity]

\* Listed entries, in memory and on disk, and the one to be inserted.
Stored ==
  /\ Range(list) \cup Range(disk) \subseteq files \cup pruned
  /\ step = "insert" => adding \in files

StoreIInv == StoreTypeOK /\ NewestFirst /\ Later /\ Stored

----------------------------------------------------------------------------
(* What _load and _prune_locked make of a list. *)

\* A selection keeps the order.
LEMMA SelectDecreasing ==
  ASSUME NEW s \in Seq(Item), NEW T, Decreasing(s)
  PROVE  Select(s, T) \in Seq(Item) /\ Decreasing(Select(s, T))
<1> DEFINE r == Select(s, T)
<1>1. r \in Seq(Item)
  BY SelectProperties
<1>2. PICK pos : Picks(pos, r, s, T, Len(s))
  BY SelectProperties
<1> HIDE DEF r
<1>3. Decreasing(r)
  <2> SUFFICES ASSUME NEW i \in 1 .. Len(r), NEW j \in 1 .. Len(r), i < j, r[i].entity = r[j].entity
               PROVE  r[i].event > r[j].event
    BY DEF Decreasing
  <2>1. /\ pos[i] \in 1 .. Len(s) /\ pos[j] \in 1 .. Len(s) /\ pos[i] < pos[j]
        /\ r[i] = s[pos[i]] /\ r[j] = s[pos[j]]
    BY <1>2 DEF Picks
  <2> QED BY <2>1 DEF Decreasing
<1> QED BY <1>1, <1>3 DEF r

\* Retention keeps entries of the list, in their order.
LEMMA KeptProperties ==
  ASSUME StoreBounds, NEW s \in Seq(Item)
  PROVE  /\ Kept(s) \in Seq(Item) /\ Range(Kept(s)) \subseteq Range(s)
         /\ Decreasing(s) => Decreasing(Kept(s))
<1> DEFINE young == Select(s, Item \ aged)
<1>1. young \in Seq(Item) /\ Range(young) \subseteq Range(s) /\ (Decreasing(s) => Decreasing(young))
  BY SelectProperties, SelectRange, SelectDecreasing
<1> HIDE DEF young
<1>2. CASE Len(young) <= MaxSnapshots
  BY <1>1, <1>2 DEF Kept, young
<1>3. CASE ~(Len(young) <= MaxSnapshots)
  <2> DEFINE short == SubSeq(young, 1, MaxSnapshots)
  <2>1. Kept(s) = short
    BY <1>3 DEF Kept, young
  <2>2. /\ short \in Seq(Item) /\ Len(short) = MaxSnapshots
        /\ \A i \in 1 .. MaxSnapshots : short[i] = young[i]
    <3>1. Len(young) \in Nat /\ MaxSnapshots \in 1 .. Len(young)
      BY <1>1, <1>3 DEF StoreBounds
    <3>2. MaxSnapshots - 1 + 1 = MaxSnapshots /\ \A i \in 1 .. MaxSnapshots : 1 + i - 1 = i
      BY <3>1
    <3> QED BY <1>1, <3>1, <3>2, SubSeqProperties
  <2> HIDE DEF short
  <2>3. 1 .. MaxSnapshots \subseteq 1 .. Len(young)
    BY <1>1, <1>3 DEF StoreBounds
  <2>4. Range(short) \subseteq Range(young)
    BY <1>1, <2>2, <2>3, RangeEquality
  <2>5. Decreasing(young) => Decreasing(short)
    BY <2>2, <2>3 DEF Decreasing
  <2> QED BY <1>1, <2>1, <2>2, <2>4, <2>5
<1> QED BY <1>2, <1>3

\* The entry at the head is later than all of its entity.
LEMMA HeadDecreasing ==
  ASSUME NEW s \in Seq(Item), NEW a \in Item, Decreasing(s),
         \A i \in Range(s) : i.entity = a.entity => i.event < a.event
  PROVE  /\ <<a>> \o s \in Seq(Item) /\ Decreasing(<<a>> \o s)
         /\ Range(<<a>> \o s) = {a} \cup Range(s)
<1> DEFINE t == <<a>> \o s
<1>1. <<a>> \in Seq(Item) /\ Len(<<a>>) = 1 /\ Range(<<a>>) = {a}
  BY DEF Range
<1>2. t \in Seq(Item) /\ Len(t) = Len(s) + 1 /\ Range(t) = {a} \cup Range(s)
  <2> DEFINE one == <<a>>
  <2>1. one \in Seq(Item) /\ Len(one) = 1 /\ Range(one) = {a}
    BY <1>1
  <2> HIDE DEF one
  <2>2. one \o s \in Seq(Item) /\ Len(one \o s) = 1 + Len(s)
    BY <2>1, ConcatProperties
  <2>3. Range(one \o s) = Range(one) \cup Range(s)
    BY <2>1, RangeConcatenation
  <2> QED BY <2>1, <2>2, <2>3 DEF one
<1>3. t[1] = a /\ \A i \in 2 .. Len(s) + 1 : t[i] = s[i - 1] /\ i - 1 \in 1 .. Len(s)
  BY <1>1
<1> HIDE DEF t
<1>4. Range(s) = {s[i] : i \in 1 .. Len(s)}
  BY RangeEquality
<1>5. Decreasing(t)
  <2> SUFFICES ASSUME NEW i \in 1 .. Len(t), NEW j \in 1 .. Len(t), i < j, t[i].entity = t[j].entity
               PROVE  t[i].event > t[j].event
    BY DEF Decreasing
  <2>1. j \in 2 .. Len(s) + 1
    BY <1>2
  <2>2. CASE i = 1
    BY <2>1, <2>2, <1>3, <1>4 DEF Item
  <2>3. CASE i # 1
    <3>1. i \in 2 .. Len(s) + 1 /\ i - 1 < j - 1
      BY <1>2, <2>3
    <3> QED BY <2>1, <3>1, <1>3 DEF Decreasing
  <2> QED BY <2>2, <2>3
<1> QED BY <1>2, <1>5 DEF t

\* The first entry of an entity is its latest.
LEMMA FirstEventsProperties ==
  ASSUME NEW s \in Seq(Item), Decreasing(s)
  PROVE  /\ FirstEvents(s) \in [Entities -> Nat]
         /\ \A i \in Range(s) : i.event <= FirstEvents(s)[i.entity]
         /\ \A e \in Entities : FirstEvents(s)[e] = 0 \/
              \E i \in Range(s) : i.entity = e /\ FirstEvents(s)[e] = i.event
<1>1. ASSUME NEW e \in Entities
      PROVE  /\ FirstEvents(s)[e] \in Nat
             /\ \A i \in Range(s) : i.entity = e => i.event <= FirstEvents(s)[e]
             /\ FirstEvents(s)[e] = 0 \/ \E i \in Range(s) : i.entity = e /\ FirstEvents(s)[e] = i.event
  <2> DEFINE ofE == Select(s, {i \in Item : i.entity = e})
  <2>1. /\ ofE \in Seq(Item) /\ Decreasing(ofE)
        /\ Range(ofE) = Range(s) \cap {i \in Item : i.entity = e}
    BY SelectDecreasing, SelectRange
  <2>2. FirstEvents(s)[e] = IF ofE = <<>> THEN 0 ELSE Head(ofE).event
    BY DEF FirstEvents
  <2>3. Range(s) \subseteq Item
    BY RangeEquality
  <2> HIDE DEF ofE
  <2>4. CASE ofE = <<>>
    <3>1. Range(ofE) = {}
      BY <2>4 DEF Range
    <3> QED BY <2>1, <2>2, <2>3, <2>4, <3>1
  <2>5. CASE ofE # <<>>
    <3>1. Head(ofE) = ofE[1] /\ 1 \in 1 .. Len(ofE) /\ Len(ofE) \in Nat
      BY <2>1, <2>5
    <3>2. Range(ofE) = {ofE[k] : k \in 1 .. Len(ofE)}
      BY <2>1, RangeEquality
    <3>3. Head(ofE) \in Range(ofE)
      BY <3>1, <3>2
    <3>4. ASSUME NEW k \in 1 .. Len(ofE)
          PROVE  ofE[k].event <= ofE[1].event /\ ofE[1].event \in Nat
      <4>1. ofE[k] \in Item /\ ofE[1] \in Item /\ ofE[k].entity = e /\ ofE[1].entity = e
        BY <2>1, <3>1, <3>2
      <4>2. k = 1 \/ ofE[1].event > ofE[k].event
        BY <2>1, <3>1, <4>1 DEF Decreasing
      <4> QED BY <4>1, <4>2 DEF Item
    <3> QED BY <2>1, <2>2, <2>3, <2>5, <3>1, <3>2, <3>3, <3>4
  <2> QED BY <2>4, <2>5
<1>2. FirstEvents(s) \in [Entities -> Nat]
  BY <1>1 DEF FirstEvents
<1>3. \A i \in Range(s) : i.entity \in Entities
  <2>1. Range(s) \subseteq Item
    BY RangeEquality
  <2>2. \A i \in Item : i.entity \in Entities
    BY DEF Item
  <2> QED BY <2>1, <2>2
<1> QED BY <1>1, <1>2, <1>3

----------------------------------------------------------------------------
(* The invariant, step by step. *)

\* An entry is not the empty tuple adding is while nothing is added.
LEMMA ItemIsNotEmpty == \A i \in Item : i # <<>>
<1> SUFFICES ASSUME NEW i \in Item PROVE i # <<>>
  OBVIOUS
<1>1. "entity" \in DOMAIN i
  BY DEF Item
<1>2. "entity" \notin DOMAIN <<>>
  OBVIOUS
<1> QED BY <1>1, <1>2

\* Nothing is listed at first.
LEMMA InitStoreIInv == ASSUME StoreBounds, StoreInit PROVE StoreIInv
<1>1. <<>> \in Seq(Item) /\ Len(<<>>) = 0 /\ Range(<<>>) = {}
  BY DEF Range
<1>2. None \in [Entities -> Nat] /\ \A e \in Entities : None[e] = 0
  BY DEF None
<1>3. 0 \in 0 .. MaxCrashes
  BY DEF StoreBounds
<1>4. StoreTypeOK
  BY <1>1, <1>2, <1>3 DEF StoreInit, StoreTypeOK
<1>5. NewestFirst
  BY <1>1 DEF StoreInit, NewestFirst, Decreasing
<1>6. Later /\ Stored
  BY <1>1, <1>2 DEF StoreInit, Later, Stored
<1> QED BY <1>4, <1>5, <1>6 DEF StoreIInv

\* What is listed, and where it is from, is left alone by the world, by a poll
\* that only looks and by one that fails.
LEMMA SameLists ==
  ASSUME StoreIInv, UNCHANGED <<files, disk, list, pruned, step, adding>>
  PROVE  NewestFirst' /\ Stored'
BY DEF StoreIInv, NewestFirst, Stored, Decreasing

\* A later event only leaves more room above what is known.
LEMMA HappensKeeps ==
  ASSUME StoreBounds, StoreIInv, NEW e \in Entities, Happens(e) PROVE StoreIInv'
<1>1. UNCHANGED <<aged, files, disk, list, lastSeen, todo, step, adding, crashes, pruned>>
  BY DEF Happens, memory
<1>2. event \in [Entities -> Nat] /\ event' = [event EXCEPT ![e] = @ + 1]
  BY DEF StoreIInv, StoreTypeOK, Happens
<1>3. event' \in [Entities -> Nat] /\ \A f \in Entities : event[f] <= event'[f]
  BY <1>2
<1>4. StoreTypeOK'
  BY <1>1, <1>3 DEF StoreIInv, StoreTypeOK
<1>5. NewestFirst' /\ Stored'
  BY <1>1, SameLists
<1>6. ASSUME NEW f \in Entities, NEW n \in Nat, n <= event[f] PROVE n <= event'[f]
  BY <1>2, <1>3, <1>6
<1>7. \A i \in Range(disk) : i.event <= event'[i.entity]
  <2>1. Range(disk) \subseteq Item
    BY RangeEquality DEF StoreIInv, StoreTypeOK
  <2>2. \A i \in Item : i.entity \in Entities /\ i.event \in Nat
    BY DEF Item
  <2> QED BY <1>6, <2>1, <2>2 DEF StoreIInv, Later
<1>8. \A f \in Entities : lastSeen[f] <= event'[f] /\ todo[f] <= event'[f]
  BY <1>6 DEF StoreIInv, StoreTypeOK, Later
<1>9. Later'
  BY <1>1, <1>7, <1>8 DEF StoreIInv, Later
<1> QED BY <1>4, <1>5, <1>9 DEF StoreIInv

\* Entries that age are still entries.
LEMMA AgeKeeps == ASSUME StoreBounds, StoreIInv, Age PROVE StoreIInv'
<1>1. UNCHANGED <<event, files, disk, list, lastSeen, todo, step, adding, crashes, pruned>>
  BY DEF Age, memory
<1>2. aged' \subseteq Item
  <2>1. PICK i \in 1 .. Len(list) : aged' = aged \cup {list[i]}
    BY DEF Age
  <2> QED BY <2>1 DEF StoreIInv, StoreTypeOK
<1>3. StoreTypeOK'
  BY <1>1, <1>2 DEF StoreIInv, StoreTypeOK
<1>4. NewestFirst' /\ Stored' /\ Later'
  BY <1>1, SameLists DEF StoreIInv, Later
<1> QED BY <1>3, <1>4 DEF StoreIInv

\* A poll sets out to add what is later than all it has seen.
LEMMA PollKeeps == ASSUME StoreBounds, StoreIInv, Poll PROVE StoreIInv'
<1>1. UNCHANGED <<event, aged, files, disk, list, lastSeen, step, adding, crashes, pruned>> /\ step = "poll"
  BY DEF Poll
<1>2. /\ {event, lastSeen} \subseteq [Entities -> Nat]
      /\ todo' = [e \in Entities |-> IF event[e] = lastSeen[e] THEN 0 ELSE event[e]]
  BY DEF StoreIInv, StoreTypeOK, Poll
<1>3. todo' \in [Entities -> Nat]
  BY <1>2
<1>4. \A e \in Entities : todo'[e] <= event[e] /\ (todo'[e] # 0 => lastSeen[e] < todo'[e])
  BY <1>2 DEF StoreIInv, Later
<1>5. StoreTypeOK'
  BY <1>1, <1>3 DEF StoreIInv, StoreTypeOK
<1>6. NewestFirst' /\ Stored'
  BY <1>1, SameLists
<1>7. Later'
  BY <1>1, <1>4 DEF StoreIInv, Later
<1> QED BY <1>5, <1>6, <1>7 DEF StoreIInv

\* What could not be had is left for another poll.
LEMMA FetchFailsKeeps ==
  ASSUME StoreBounds, StoreIInv, NEW e \in Entities, FetchFails(e) PROVE StoreIInv'
<1>1. UNCHANGED <<event, aged, files, disk, list, lastSeen, step, adding, crashes, pruned>> /\ step = "poll"
  BY DEF FetchFails, SeenAfterFailure
<1>2. todo \in [Entities -> Nat] /\ todo' = [todo EXCEPT ![e] = 0] /\ event \in [Entities -> Nat]
  BY DEF StoreIInv, StoreTypeOK, FetchFails
<1>3. StoreTypeOK'
  BY <1>1, <1>2 DEF StoreIInv, StoreTypeOK
<1>4. NewestFirst' /\ Stored'
  BY <1>1, SameLists
<1>5. Later'
  BY <1>1, <1>2 DEF StoreIInv, Later
<1> QED BY <1>3, <1>4, <1>5 DEF StoreIInv

\* The picture of what is to be inserted is on disk.
LEMMA StorePictureKeeps ==
  ASSUME StoreBounds, StoreIInv, NEW e \in Entities, StorePicture(e) PROVE StoreIInv'
<1>1. /\ UNCHANGED <<event, aged, disk, list, lastSeen, todo, crashes, pruned>>
      /\ step = "poll" /\ step' = "insert" /\ todo[e] # 0
      /\ adding' = [entity |-> e, event |-> todo[e], picture |-> event[e]]
      /\ files' = files \cup {adding'}
  BY DEF StorePicture, Written
<1>2. todo[e] \in Nat \ {0} /\ event[e] \in Nat \ {0}
  BY <1>1 DEF StoreIInv, StoreTypeOK, Later
<1>3. adding' \in Item /\ adding'.entity = e /\ adding'.event = todo[e]
  BY <1>1, <1>2 DEF Item
<1>4. adding' # <<>>
  BY <1>3, ItemIsNotEmpty
<1>5. StoreTypeOK'
  BY <1>1, <1>3, <1>4 DEF StoreIInv, StoreTypeOK
<1>6. NewestFirst' /\ Stored'
  BY <1>1 DEF StoreIInv, NewestFirst, Stored
<1>7. Later'
  BY <1>1, <1>3 DEF StoreIInv, Later
<1> QED BY <1>5, <1>6, <1>7 DEF StoreIInv

\* The entry is later than all of its entity; what leaves the list is pruned.
LEMMA InsertKeeps == ASSUME StoreBounds, StoreIInv, Insert PROVE StoreIInv'
<1> DEFINE long == <<adding>> \o list
           e == adding.entity
<1>1. StoreTypeOK /\ step = "insert" /\ step' = "write" /\ UNCHANGED <<event, disk, todo, adding, crashes>>
  BY DEF StoreIInv, Insert
<1>2. adding \in Item /\ e \in Entities /\ adding.event \in Nat \ {0} /\ adding.event = todo[e]
  <2>1. adding \in Item
    BY <1>1 DEF StoreTypeOK
  <2> QED BY <1>1, <2>1 DEF StoreIInv, Later, Item
<1>3. lastSeen[e] < todo[e] /\ todo[e] <= event[e]
  BY <1>1, <1>2 DEF StoreIInv, Later
<1>4. list \in Seq(Item) /\ Decreasing(list)
  BY <1>1 DEF StoreIInv, NewestFirst, StoreTypeOK
<1>5. \A i \in Range(list) : i.entity = e => i.event < adding.event
  <2>1. Range(list) \subseteq Item
    BY <1>4, RangeEquality
  <2>2. \A i \in Item : i.event \in Nat
    BY DEF Item
  <2>3. lastSeen[e] \in Nat
    BY <1>1, <1>2 DEF StoreTypeOK
  <2> QED BY <1>2, <1>3, <2>1, <2>2, <2>3 DEF StoreIInv, Later
<1>6. long \in Seq(Item) /\ Decreasing(long) /\ Range(long) = {adding} \cup Range(list)
  BY <1>2, <1>4, <1>5, HeadDecreasing
<1>7. /\ lastSeen' = [lastSeen EXCEPT ![e] = adding.event] /\ aged' = aged \ {adding}
      /\ list' = Kept(long)
      /\ pruned' = (pruned \ {adding}) \cup (Range(long) \ Range(list'))
      /\ files \ (Range(long) \ Range(list')) \subseteq files' /\ files' \subseteq files
  BY DEF Insert
<1> HIDE DEF long, e
<1>8. list' \in Seq(Item) /\ Decreasing(list') /\ Range(list') \subseteq Range(long)
  BY <1>6, <1>7, KeptProperties
<1>9. StoreTypeOK'
  <2>1. lastSeen' \in [Entities -> Nat]
    BY <1>1, <1>2, <1>7 DEF StoreTypeOK
  <2>2. Range(long) \subseteq Item
    BY <1>6, RangeEquality
  <2>3. aged' \subseteq Item /\ files' \subseteq Item /\ pruned' \subseteq Item
    BY <1>1, <1>7, <2>2 DEF StoreTypeOK
  <2>4. {event', lastSeen', todo'} \subseteq [Entities -> Nat] /\ disk' \in Seq(Item)
    BY <1>1, <2>1 DEF StoreTypeOK
  <2>5. adding' \in Item /\ adding' # <<>>
    BY <1>1, <1>2, ItemIsNotEmpty
  <2>6. crashes' \in 0 .. MaxCrashes
    BY <1>1 DEF StoreTypeOK
  <2> QED BY <1>1, <1>8, <2>3, <2>4, <2>5, <2>6 DEF StoreTypeOK
<1>10. NewestFirst'
  BY <1>1, <1>8 DEF StoreIInv, NewestFirst
<1>11. Stored'
  <2>1. adding \in files
    BY <1>1 DEF StoreIInv, Stored
  <2>2. Range(list) \cup Range(disk) \subseteq files \cup pruned
    BY DEF StoreIInv, Stored
  <2>3. Range(list') \subseteq files' \cup pruned'
    BY <1>6, <1>7, <1>8, <2>1, <2>2
  <2>4. Range(disk) \subseteq files' \cup pruned'
    BY <1>6, <1>7, <2>1, <2>2
  <2> QED BY <1>1, <2>3, <2>4 DEF Stored
<1>12. Later'
  <2>1. lastSeen \in [Entities -> Nat] /\ event \in [Entities -> Nat] /\ todo \in [Entities -> Nat]
    BY <1>1 DEF StoreTypeOK
  <2>2. ASSUME NEW f \in Entities
        PROVE  /\ lastSeen'[f] = IF f = e THEN todo[e] ELSE lastSeen[f]
               /\ lastSeen[f] <= lastSeen'[f] /\ lastSeen'[f] <= event[f]
    BY <1>2, <1>3, <1>7, <2>1 DEF StoreIInv, Later
  <2>3. \A i \in Range(list') : i.event <= lastSeen'[i.entity]
    <3> SUFFICES ASSUME NEW i \in Range(list') PROVE i.event <= lastSeen'[i.entity]
      OBVIOUS
    <3>1. i \in Item /\ (i = adding \/ i \in Range(list))
      BY <1>6, <1>8, RangeEquality
    <3>2. i.event \in Nat /\ i.entity \in Entities
      BY <3>1 DEF Item
    <3>3. CASE i = adding
      BY <1>2, <2>1, <2>2, <3>2, <3>3 DEF e
    <3>4. CASE i \in Range(list)
      <4>1. i.event <= lastSeen[i.entity]
        BY <3>4 DEF StoreIInv, Later
      <4> QED BY <2>1, <2>2, <3>2, <4>1, <1>2
    <3> QED BY <3>1, <3>3, <3>4
  <2>4. \A f \in Entities : todo[f] # 0 /\ f # e => lastSeen'[f] < todo[f]
    BY <1>1, <2>2 DEF StoreIInv, Later, e
  <2> QED BY <1>1, <1>2, <2>2, <2>3, <2>4 DEF StoreIInv, Later, e
<1> QED BY <1>9, <1>10, <1>11, <1>12 DEF StoreIInv

\* add() is over: what it inserted has been seen.
LEMMA DoneKeeps ==
  ASSUME StoreBounds, StoreIInv, step = "write", Done(adding.entity),
         UNCHANGED <<event, aged, files, list, lastSeen, crashes, pruned>>, disk' \in {disk, list}
  PROVE  StoreIInv'
<1> DEFINE e == adding.entity
<1>1. StoreTypeOK /\ step' = "poll" /\ adding' = <<>> /\ todo' = [todo EXCEPT ![e] = 0]
  BY DEF StoreIInv, Done
<1>2. e \in Entities
  <2>1. adding \in Item
    BY <1>1 DEF StoreTypeOK
  <2> QED BY <2>1 DEF Item
<1> HIDE DEF e
<1>3. StoreTypeOK'
  <2>1. todo' \in [Entities -> Nat] /\ disk' \in Seq(Item)
    BY <1>1, <1>2 DEF StoreTypeOK
  <2> QED BY <1>1, <2>1 DEF StoreTypeOK
<1>4. NewestFirst' /\ Stored'
  BY <1>1 DEF StoreIInv, NewestFirst, Stored
<1>5. Later'
  <2>1. \A i \in Range(disk') : i.event <= event[i.entity]
    <3>1. CASE disk' = disk
      BY <3>1 DEF StoreIInv, Later
    <3>2. CASE disk' = list
      <4> SUFFICES ASSUME NEW i \in Range(list) PROVE i.event <= event[i.entity]
        BY <3>2
      <4>1. i \in Item
        BY <1>1, RangeEquality DEF StoreTypeOK
      <4>2. i.event \in Nat /\ i.entity \in Entities
        BY <4>1 DEF Item
      <4>3. i.event <= lastSeen[i.entity] /\ lastSeen[i.entity] <= event[i.entity]
        BY <4>2 DEF StoreIInv, Later
      <4> QED BY <1>1, <4>2, <4>3 DEF StoreTypeOK
    <3> QED BY <3>1, <3>2
  <2>2. \A f \in Entities : /\ todo'[f] <= event[f]
                            /\ todo'[f] # 0 => lastSeen[f] < todo'[f]
    <3> SUFFICES ASSUME NEW f \in Entities
                 PROVE  todo'[f] <= event[f] /\ (todo'[f] # 0 => lastSeen[f] < todo'[f])
      OBVIOUS
    <3>1. todo'[f] = (IF f = e THEN 0 ELSE todo[f]) /\ event[f] \in Nat
      BY <1>1, <1>2 DEF StoreTypeOK
    <3> QED BY <3>1 DEF StoreIInv, Later, e
  <2> QED BY <1>1, <2>1, <2>2 DEF StoreIInv, Later
<1> QED BY <1>3, <1>4, <1>5 DEF StoreIInv

\* last_seen is rebuilt from the manifest, or starts from nothing with it.
LEMMA RestartKeeps ==
  ASSUME StoreBounds, StoreIInv, NEW readable \in BOOLEAN, Restart(readable) PROVE StoreIInv'
<1>1. /\ StoreTypeOK /\ UNCHANGED <<event, aged, files, disk, pruned>>
      /\ step' = "poll" /\ adding' = <<>> /\ todo' = None
      /\ crashes < MaxCrashes /\ crashes' = crashes + 1
      /\ lastSeen' = FirstEvents(list') /\ list' = IF readable THEN disk ELSE <<>>
  BY DEF StoreIInv, Restart
<1>2. list' \in Seq(Item) /\ Decreasing(list') /\ Range(list') \subseteq Range(disk)
  <2>1. <<>> \in Seq(Item) /\ Decreasing(<<>>) /\ Range(<<>>) = {}
    BY DEF Decreasing, Range
  <2>2. disk \in Seq(Item) /\ Decreasing(disk)
    BY <1>1 DEF StoreIInv, NewestFirst, StoreTypeOK
  <2> QED BY <1>1, <2>1, <2>2
<1>3. /\ lastSeen' \in [Entities -> Nat]
      /\ \A i \in Range(list') : i.event <= lastSeen'[i.entity]
      /\ \A e \in Entities : lastSeen'[e] = 0 \/
           \E i \in Range(list') : i.entity = e /\ lastSeen'[e] = i.event
  BY <1>1, <1>2, FirstEventsProperties
<1>4. None \in [Entities -> Nat] /\ \A e \in Entities : None[e] = 0
  BY DEF None
<1>5. ASSUME NEW e \in Entities PROVE lastSeen'[e] <= event[e] /\ event[e] \in Nat
  <2>1. event[e] \in Nat
    BY <1>1 DEF StoreTypeOK
  <2>2. CASE lastSeen'[e] = 0
    BY <2>1, <2>2
  <2>3. CASE lastSeen'[e] # 0
    <3>1. PICK i \in Range(disk) : i.entity = e /\ lastSeen'[e] = i.event
      BY <1>2, <1>3, <2>3
    <3> QED BY <2>1, <3>1 DEF StoreIInv, Later
  <2> QED BY <2>2, <2>3
<1>6. StoreTypeOK'
  <2>1. crashes' \in 0 .. MaxCrashes
    BY <1>1 DEF StoreTypeOK, StoreBounds
  <2> QED BY <1>1, <1>2, <1>3, <1>4, <2>1 DEF StoreTypeOK
<1>7. NewestFirst' /\ Stored'
  BY <1>1, <1>2 DEF StoreIInv, NewestFirst, Stored
<1>8. Later'
  BY <1>1, <1>3, <1>4, <1>5 DEF StoreIInv, Later
<1> QED BY <1>6, <1>7, <1>8 DEF StoreIInv

\* Every step keeps the invariant.
LEMMA StoreNextKeeps == ASSUME StoreBounds, StoreIInv, [StoreNext]_storeVars PROVE StoreIInv'
<1>1. ASSUME NEW e \in Entities, Happens(e) \/ FetchFails(e) \/ StorePicture(e) PROVE StoreIInv'
  BY <1>1, HappensKeeps, FetchFailsKeeps, StorePictureKeeps
<1>2. CASE Age \/ Poll \/ Insert
  BY <1>2, AgeKeeps, PollKeeps, InsertKeeps
<1>3. CASE WriteManifest \/ WriteFails
  BY <1>3, DoneKeeps DEF WriteManifest, WriteFails
<1>4. ASSUME NEW readable \in BOOLEAN, Restart(readable) PROVE StoreIInv'
  BY <1>4, RestartKeeps
<1>5. CASE UNCHANGED storeVars
  <2>1. UNCHANGED <<event, aged, files, disk, list, lastSeen, todo, step, adding, crashes, pruned>>
    BY <1>5 DEF storeVars
  <2> QED BY <2>1 DEF StoreIInv, StoreTypeOK, NewestFirst, Later, Stored
<1> QED BY <1>1, <1>2, <1>3, <1>4, <1>5 DEF StoreNext

----------------------------------------------------------------------------
(* The theorems. *)

\* The invariant holds in every state of the store.
THEOREM StoreInvariant == ASSUME StoreBounds PROVE StoreSpec => []StoreIInv
<1>1. StoreInit => StoreIInv
  BY InitStoreIInv
<1>2. StoreIInv /\ [StoreNext]_storeVars => StoreIInv'
  BY StoreNextKeeps
<1> QED BY <1>1, <1>2, PTL DEF StoreSpec

\* Entries are entries and events are numbers, through failures and restarts.
THEOREM StoreTypeCorrect == ASSUME StoreBounds PROVE StoreSpec => []StoreTypeOK
<1>1. StoreIInv => StoreTypeOK
  BY DEF StoreIInv
<1> QED BY <1>1, StoreInvariant, PTL

\* The manifest lists a picture that is not there only when retention removed
\* its entry: whichever of the unlinks and writes fail or never happen.
THEOREM PicturesAreStored == ASSUME StoreBounds PROVE StoreSpec => []ListedIsStored
<1>1. StoreIInv => ListedIsStored
  BY DEF StoreIInv, Stored, ListedIsStored
<1> QED BY <1>1, StoreInvariant, PTL

\* No event is listed twice, through restarts that rebuild last_seen and writes
\* that fail.
THEOREM EventsAreListedOnce == ASSUME StoreBounds PROVE StoreSpec => []CapturedOnce
<1>1. ASSUME NEW s \in Seq(Item), Decreasing(s), NEW i \in 1 .. Len(s), NEW j \in 1 .. Len(s),
             s[i].entity = s[j].entity, s[i].event = s[j].event
      PROVE  i = j
  <2>1. s[i] \in Item /\ s[j] \in Item
    OBVIOUS
  <2>2. s[i].event \in Nat /\ ~(s[i].event > s[j].event) /\ ~(s[j].event > s[i].event)
    BY <1>1, <2>1 DEF Item
  <2> QED BY <1>1, <2>2 DEF Decreasing
<1>2. StoreIInv => CapturedOnce
  BY <1>1 DEF StoreIInv, StoreTypeOK, NewestFirst, CapturedOnce
<1> QED BY <1>2, StoreInvariant, PTL

----------------------------------------------------------------------------
(* FanRamp: the invariant. *)

Entry(B) == [id : Nat \ {0}, server : Servers, baseline : B, open : BOOLEAN]

Kinds(B) ==
  /\ listed \in Seq(Entry(B)) /\ saved \in Seq(Entry(B))
  /\ active \in [Servers -> Entry(B) \cup {Quiet}]

\* Ids grow along the list, up to n.
GrowingTo(events, n) ==
  /\ \A i, j \in DOMAIN events : i < j => events[i].id < events[j].id
  /\ \A i \in DOMAIN events : events[i].id <= n

\* The episode a server is in is its own, runs, and is not newer than the last.
OwnEpisode ==
  \A s \in Servers :
    active[s] # Quiet => active[s].server = s /\ active[s].open /\ active[s].id <= lastId

RampIInv ==
  /\ \E B : Kinds(B)
  /\ lastId \in 0 .. MaxEpisodes
  /\ GrowingTo(listed, lastId) /\ GrowingTo(saved, MaxEpisodes)
  /\ OwnEpisode
  /\ OpenIsActive

----------------------------------------------------------------------------
(* The list. *)

\* t is s without its first d elements.
Drops(d, s, t) == Len(t) = Len(s) - d /\ \A i \in 1 .. Len(s) - d : t[i] = s[i + d]

\* Trimming drops d episodes from the head, and none from a list that fits.
LEMMA TrimProperties ==
  ASSUME RampBounds, NEW S, NEW s \in Seq(S)
  PROVE  /\ Trim(s) \in Seq(S)
         /\ \E d \in 0 .. Len(s) : Drops(d, s, Trim(s)) /\ (d # 0 => Len(s) - d = MaxListed)
         /\ Len(Trim(s)) <= MaxListed
<1>0. Len(s) \in Nat /\ MaxListed \in Nat \ {0}
  BY DEF RampBounds
<1>1. CASE Len(s) > MaxListed
  <2> DEFINE d == Len(s) - MaxListed
             t == SubSeq(s, d + 1, Len(s))
  <2>1. d \in 1 .. Len(s) /\ Len(s) - d = MaxListed
    BY <1>0, <1>1
  <2>2. Trim(s) = t
    BY <1>1 DEF Trim
  <2> HIDE DEF d
  <2>3. /\ t \in Seq(S) /\ Len(t) = Len(s) - (d + 1) + 1
        /\ \A i \in 1 .. Len(s) - (d + 1) + 1 : t[i] = s[(d + 1) + i - 1]
    <3>1. d + 1 \in 1 .. Len(s) + 1 /\ Len(s) \in 0 .. Len(s) /\ (d + 1 <= Len(s) + 1)
      BY <1>0, <2>1
    <3>2. (IF d + 1 <= Len(s) THEN Len(s) - (d + 1) + 1 ELSE 0) = Len(s) - (d + 1) + 1
      BY <1>0, <2>1
    <3> QED BY <3>1, <3>2, SubSeqProperties
  <2>4. Len(s) - (d + 1) + 1 = Len(s) - d /\ \A i \in Nat : (d + 1) + i - 1 = i + d
    BY <1>0, <2>1
  <2> HIDE DEF t
  <2>5. Drops(d, s, t)
    BY <1>0, <2>1, <2>3, <2>4 DEF Drops
  <2> QED BY <1>0, <2>1, <2>2, <2>3, <2>5 DEF Drops
<1>2. CASE ~(Len(s) > MaxListed)
  <2>1. Trim(s) = s
    BY <1>2 DEF Trim
  <2>2. Drops(0, s, s) /\ 0 \in 0 .. Len(s)
    BY <1>0 DEF Drops
  <2> QED BY <1>0, <1>2, <2>1, <2>2
<1> QED BY <1>1, <1>2

\* What is trimmed still grows.
LEMMA TrimGrows ==
  ASSUME RampBounds, NEW B, NEW s \in Seq(Entry(B)), NEW n \in Nat, GrowingTo(s, n)
  PROVE  GrowingTo(Trim(s), n)
<1>1. PICK d \in 0 .. Len(s) :
        /\ Len(Trim(s)) = Len(s) - d
        /\ \A i \in 1 .. Len(s) - d : Trim(s)[i] = s[i + d]
  BY TrimProperties DEF Drops
<1>2. Trim(s) \in Seq(Entry(B)) /\ DOMAIN Trim(s) = 1 .. Len(s) - d /\ DOMAIN s = 1 .. Len(s)
  BY <1>1, TrimProperties
<1>3. \A i \in 1 .. Len(s) - d : i + d \in 1 .. Len(s)
  OBVIOUS
<1>4. \A i, j \in 1 .. Len(s) - d : i < j => i + d < j + d
  OBVIOUS
<1> QED BY <1>1, <1>2, <1>3, <1>4 DEF GrowingTo

\* After a restart every episode is closed, and nothing else about it changes.
LEMMA AllClosedProperties ==
  ASSUME NEW B, NEW s \in Seq(Entry(B)), NEW n \in Nat, GrowingTo(s, n)
  PROVE  /\ AllClosed(s) \in Seq(Entry(B)) /\ GrowingTo(AllClosed(s), n)
         /\ \A i \in DOMAIN AllClosed(s) : ~AllClosed(s)[i].open
<1> DEFINE c == AllClosed(s)
<1>1. /\ Len(s) \in Nat /\ DOMAIN s = 1 .. Len(s) /\ c = [i \in 1 .. Len(s) |-> [s[i] EXCEPT !.open = FALSE]]
  BY DEF AllClosed
<1>2. ASSUME NEW i \in 1 .. Len(s)
      PROVE  c[i] \in Entry(B) /\ c[i].id = s[i].id /\ ~c[i].open
  <2>1. s[i] \in Entry(B) /\ c[i] = [s[i] EXCEPT !.open = FALSE]
    BY <1>1
  <2> HIDE DEF c
  <2> QED BY <2>1 DEF Entry
<1> HIDE DEF c
<1>3. c \in Seq(Entry(B)) /\ DOMAIN c = 1 .. Len(s)
  BY <1>1, <1>2
<1> QED BY <1>1, <1>2, <1>3 DEF c, GrowingTo

\* The greatest id of a growing list is its last one.
LEMMA GreatestProperties ==
  ASSUME RampBounds, NEW B, NEW s \in Seq(Entry(B)), NEW n \in 0 .. MaxEpisodes, GrowingTo(s, n)
  PROVE  Greatest(s) \in 0 .. MaxEpisodes /\ GrowingTo(s, Greatest(s))
<1> DEFINE Top(k) == /\ \A i \in DOMAIN s : s[i].id <= k
                     /\ k = 0 \/ \E i \in DOMAIN s : s[i].id = k
<1>1. Len(s) \in Nat /\ DOMAIN s = 1 .. Len(s) /\ MaxEpisodes \in Nat
  BY DEF RampBounds
<1>2. \A i \in 1 .. Len(s) : s[i].id \in Nat \ {0}
  <2> TAKE i \in 1 .. Len(s)
  <2>1. s[i] \in Entry(B)
    OBVIOUS
  <2> QED BY <2>1 DEF Entry
<1>3. \E k \in 0 .. MaxEpisodes : Top(k)
  <2>1. CASE Len(s) = 0
    BY <1>1, <2>1
  <2>2. CASE Len(s) # 0
    <3> DEFINE k == s[Len(s)].id
    <3>1. Len(s) \in 1 .. Len(s) /\ k \in 0 .. MaxEpisodes
      BY <1>1, <1>2, <2>2 DEF GrowingTo
    <3>2. \A i \in 1 .. Len(s) : s[i].id <= k
      BY <1>1, <1>2, <2>2 DEF GrowingTo
    <3> QED BY <1>1, <3>1, <3>2
  <2> QED BY <2>1, <2>2
<1>4. Greatest(s) = CHOOSE k \in 0 .. MaxEpisodes : Top(k)
  BY DEF Greatest
<1>5. Greatest(s) \in 0 .. MaxEpisodes /\ Top(Greatest(s))
  <2> HIDE DEF Top
  <2> QED BY <1>3, <1>4
<1> QED BY <1>5 DEF GrowingTo

----------------------------------------------------------------------------
(* The invariant, step by step. *)

\* More baselines do no harm.
LEMMA MoreBaselines ==
  ASSUME NEW B, NEW x
  PROVE  /\ Entry(B) \subseteq Entry(B \cup {x})
         /\ Seq(Entry(B)) \subseteq Seq(Entry(B \cup {x}))
<1>1. Entry(B) \subseteq Entry(B \cup {x})
  BY DEF Entry
<1> QED BY <1>1, SeqMonotonic

\* Entries are no empty tuple.
LEMMA EntryIsNotQuiet == ASSUME NEW B, NEW e \in Entry(B) PROVE e # Quiet
<1>1. "id" \in DOMAIN e
  BY DEF Entry
<1>2. "id" \notin DOMAIN <<>>
  OBVIOUS
<1> QED BY <1>1, <1>2 DEF Quiet

\* A list that grows up to n also grows up to what is no less.
LEMMA GrowsFurther ==
  ASSUME NEW B, NEW s \in Seq(Entry(B)), NEW m \in Nat, NEW n \in Nat, m <= n, GrowingTo(s, m)
  PROVE  GrowingTo(s, n)
<1>1. ASSUME NEW i \in DOMAIN s PROVE s[i].id <= n
  <2>1. s[i] \in Entry(B)
    OBVIOUS
  <2> QED BY <2>1 DEF GrowingTo, Entry
<1> QED BY <1>1 DEF GrowingTo

\* So does what is selected of it.
LEMMA SelectGrows ==
  ASSUME NEW B, NEW s \in Seq(Entry(B)), NEW n \in Nat, GrowingTo(s, n), NEW T
  PROVE  Select(s, T) \in Seq(Entry(B)) /\ GrowingTo(Select(s, T), n)
<1> DEFINE r == Select(s, T)
<1>1. r \in Seq(Entry(B))
  BY SelectProperties
<1>2. PICK pos : Picks(pos, r, s, T, Len(s))
  BY SelectProperties
<1> HIDE DEF r
<1>3. DOMAIN r = 1 .. Len(r) /\ DOMAIN s = 1 .. Len(s)
  BY <1>1
<1>4. ASSUME NEW k \in 1 .. Len(r) PROVE pos[k] \in DOMAIN s /\ r[k] = s[pos[k]]
  BY <1>2, <1>3 DEF Picks
<1>5. \A j, k \in 1 .. Len(r) : j < k => pos[j] < pos[k]
  BY <1>2 DEF Picks
<1>6. GrowingTo(r, n)
  BY <1>3, <1>4, <1>5 DEF GrowingTo
<1> QED BY <1>1, <1>6 DEF r

\* What the file holds after a save that may fail.
LEMMA SaveKeeps ==
  ASSUME RampBounds, NEW B, saved \in Seq(Entry(B)), listed' \in Seq(Entry(B)), Save,
         lastId' \in 0 .. MaxEpisodes, GrowingTo(saved, MaxEpisodes), GrowingTo(listed', lastId')
  PROVE  saved' \in Seq(Entry(B)) /\ GrowingTo(saved', MaxEpisodes)
<1>1. lastId' \in Nat /\ MaxEpisodes \in Nat /\ lastId' <= MaxEpisodes
  BY DEF RampBounds
<1>2. GrowingTo(listed', MaxEpisodes)
  BY <1>1, GrowsFurther
<1> QED BY <1>2 DEF Save

\* There is no episode at first.
LEMMA InitRampIInv == ASSUME RampBounds, RampInit PROVE RampIInv
<1>1. <<>> \in Seq(Entry({})) /\ DOMAIN <<>> = {}
  OBVIOUS
<1>2. Kinds({})
  BY <1>1 DEF RampInit, Kinds
<1>3. lastId \in 0 .. MaxEpisodes
  BY DEF RampInit, RampBounds
<1>4. GrowingTo(listed, lastId) /\ GrowingTo(saved, MaxEpisodes) /\ OwnEpisode /\ OpenIsActive
  BY <1>1 DEF RampInit, GrowingTo, OwnEpisode, OpenIsActive
<1> QED BY <1>2, <1>3, <1>4 DEF RampIInv

\* The episode a server is in is listed, or newer ones pushed it out.
Listed(e, events) ==
  \/ \E i \in DOMAIN events : events[i] = e
  \/ Len(events) = MaxListed /\ \A i \in DOMAIN events : events[i].id > e.id

\* A new episode goes to the end of the list, and the list is trimmed.
LEMMA OpensKeeps ==
  ASSUME RampBounds, RampIInv, NEW s \in Servers, NEW recent, Opens(s, recent) PROVE RampIInv'
<1> DEFINE new == [id |-> lastId', server |-> s, open |-> TRUE,
                   baseline |-> Rounded(Baseline2(recent, fan[s]), 2)]
           long == Append(listed, new)
<1>1. PICK B0 : Kinds(B0)
  BY DEF RampIInv
<1>0. PICK B : B = B0 \cup {new.baseline}
  OBVIOUS
<1>2. Kinds(B)
  BY <1>0, <1>1, MoreBaselines DEF Kinds
<1>3. /\ lastId \in Nat /\ MaxEpisodes \in Nat /\ lastId < MaxEpisodes /\ lastId' = lastId + 1
      /\ lastId' \in 0 .. MaxEpisodes /\ active[s] = Quiet
  BY DEF RampIInv, Opens, Starts, RampBounds
<1>4. new \in Entry(B) /\ new.id = lastId + 1 /\ new.server = s /\ new.open
  BY <1>0, <1>3 DEF Entry
<1>5. active' = [active EXCEPT ![s] = new] /\ listed' = Trim(Append(listed, active'[s])) /\ Save
  BY DEF Opens
<1> HIDE DEF new
<1>6. /\ active' \in [Servers -> Entry(B) \cup {Quiet}] /\ active'[s] = new
      /\ \A t \in Servers : t # s => active'[t] = active[t]
  BY <1>2, <1>4, <1>5 DEF Kinds
<1>7. listed \in Seq(Entry(B)) /\ saved \in Seq(Entry(B)) /\ listed' = Trim(long)
  BY <1>2, <1>5, <1>6 DEF Kinds
<1>8. /\ long \in Seq(Entry(B)) /\ Len(listed) \in Nat /\ Len(long) = Len(listed) + 1
      /\ DOMAIN listed = 1 .. Len(listed) /\ DOMAIN long = 1 .. Len(listed) + 1
      /\ \A i \in 1 .. Len(listed) : long[i] = listed[i]
      /\ long[Len(listed) + 1] = new
  BY <1>4, <1>7
<1> HIDE DEF long
<1>9. ASSUME NEW i \in 1 .. Len(listed)
      PROVE  listed[i] \in Entry(B) /\ listed[i].id \in Nat /\ listed[i].id <= lastId
             /\ listed[i].server \in Servers /\ listed[i].open \in BOOLEAN
  <2>1. listed[i] \in Entry(B)
    BY <1>7
  <2> QED BY <2>1, <1>8 DEF Entry, RampIInv, GrowingTo
<1>10. GrowingTo(long, lastId')
  <2>1. ASSUME NEW i \in 1 .. Len(long), NEW j \in 1 .. Len(long), i < j
        PROVE  long[i].id < long[j].id
    <3>1. i \in 1 .. Len(listed) /\ (j = Len(listed) + 1 \/ j \in 1 .. Len(listed))
      BY <1>8, <2>1
    <3>2. CASE j = Len(listed) + 1
      BY <1>3, <1>4, <1>8, <1>9, <3>1, <3>2
    <3>3. CASE j \in 1 .. Len(listed)
      BY <1>8, <2>1, <3>1, <3>3 DEF RampIInv, GrowingTo
    <3> QED BY <3>1, <3>2, <3>3
  <2>2. ASSUME NEW i \in 1 .. Len(long) PROVE long[i].id <= lastId'
    <3>1. i = Len(listed) + 1 \/ i \in 1 .. Len(listed)
      BY <1>8
    <3> QED BY <1>3, <1>4, <1>8, <1>9, <3>1
  <2> QED BY <1>8, <2>1, <2>2 DEF GrowingTo
<1>11. listed' \in Seq(Entry(B)) /\ GrowingTo(listed', lastId')
  BY <1>3, <1>7, <1>8, <1>10, TrimProperties, TrimGrows
<1>12. saved' \in Seq(Entry(B)) /\ GrowingTo(saved', MaxEpisodes)
  BY <1>3, <1>5, <1>7, <1>11, SaveKeeps DEF RampIInv
<1>13. PICK d \in 0 .. Len(long) :
         Drops(d, long, listed') /\ (d # 0 => Len(long) - d = MaxListed) /\ Len(listed') <= MaxListed
  BY <1>7, <1>8, TrimProperties
<1>14. /\ Len(listed') = Len(long) - d /\ DOMAIN listed' = 1 .. Len(long) - d
       /\ \A i \in 1 .. Len(long) - d : listed'[i] = long[i + d] /\ i + d \in 1 .. Len(long)
       /\ MaxListed \in Nat \ {0}
  BY <1>8, <1>11, <1>13 DEF Drops, RampBounds
<1>15. ASSUME NEW i \in DOMAIN listed'
       PROVE  listed'[i].open = (active'[listed'[i].server] # Quiet /\ active'[listed'[i].server].id = listed'[i].id)
  <2>1. i + d \in 1 .. Len(listed) \/ i + d = Len(listed) + 1
    BY <1>8, <1>14
  <2>2. CASE i + d = Len(listed) + 1
    <3>1. listed'[i] = new
      BY <1>8, <1>14, <2>2
    <3>2. new # Quiet
      BY <1>4, EntryIsNotQuiet
    <3> QED BY <1>4, <1>6, <3>1, <3>2
  <2>3. CASE i + d \in 1 .. Len(listed)
    <3> DEFINE e == listed[i + d]
    <3>1. listed'[i] = e
      BY <1>8, <1>14, <2>3
    <3>2. e.open = (active[e.server] # Quiet /\ active[e.server].id = e.id)
      BY <1>8, <2>3 DEF RampIInv, OpenIsActive
    <3>3. e.id \in Nat /\ e.id <= lastId /\ e.server \in Servers
      BY <1>9, <2>3
    <3> HIDE DEF e
    <3>4. CASE e.server = s
      <4>1. ~e.open
        BY <1>3, <3>2, <3>4, Zenon
      <4>2. active'[e.server].id # e.id
        BY <1>3, <1>4, <1>6, <3>3, <3>4
      <4>3. (active'[e.server] # Quiet /\ active'[e.server].id = e.id) = FALSE
        BY <4>2
      <4>4. e.open = FALSE
        BY <4>1, <2>3, <1>9 DEF e
      <4> QED BY <3>1, <4>3, <4>4, Zenon
    <3>5. CASE e.server # s
      BY <1>6, <3>1, <3>2, <3>3, <3>5
    <3> QED BY <3>4, <3>5
  <2> QED BY <2>1, <2>2, <2>3
<1>16. ASSUME NEW t \in Servers, active'[t] # Quiet
       PROVE  Listed(active'[t], listed')
  <2>1. CASE t = s
    <3>1. Len(long) - d \in 1 .. Len(long) - d
      BY <1>8, <1>13, <1>14
    <3>2. listed'[Len(long) - d] = long[(Len(long) - d) + d] /\ (Len(long) - d) + d = Len(listed) + 1
      BY <1>8, <1>14, <3>1
    <3> QED BY <1>6, <1>8, <1>14, <2>1, <3>1, <3>2 DEF Listed
  <2>2. CASE t # s
    <3>1. active'[t] = active[t] /\ active[t] # Quiet
      BY <1>6, <1>16, <2>2
    <3> DEFINE e == active[t]
    <3>2. e \in Entry(B) /\ e.id \in Nat /\ e.id <= lastId
      <4>1. e \in Entry(B)
        BY <1>2, <3>1 DEF Kinds
      <4> QED BY <4>1, <3>1 DEF RampIInv, OwnEpisode, Entry
    <3>3. CASE \E k \in DOMAIN listed : listed[k] = e
      <4>1. PICK k \in 1 .. Len(listed) : listed[k] = e
        BY <1>8, <3>3
      <4>2. CASE k > d
        <5>1. k - d \in 1 .. Len(long) - d /\ (k - d) + d = k
          BY <1>8, <4>2
        <5>2. listed'[k - d] = e
          BY <1>8, <1>14, <4>1, <5>1
        <5> QED BY <1>14, <3>1, <5>1, <5>2 DEF Listed
      <4>3. CASE ~(k > d)
        <5>1. Len(listed') = MaxListed
          BY <1>13, <1>14, <4>3
        <5>2. \A i \in 1 .. Len(long) - d : i + d \in 1 .. Len(long) /\ k < i + d
          BY <1>8, <4>3
        <5>3. k \in 1 .. Len(long) /\ long[k] = e
          BY <1>8, <4>1
        <5>4. \A i \in 1 .. Len(long) - d : listed'[i].id > e.id
          BY <1>8, <1>10, <1>14, <5>2, <5>3 DEF GrowingTo
        <5> QED BY <1>14, <3>1, <5>1, <5>4 DEF Listed
      <4> QED BY <4>2, <4>3
    <3>4. CASE Len(listed) = MaxListed /\ \A k \in DOMAIN listed : listed[k].id > e.id
      <4>1. Len(listed') = MaxListed
        BY <1>8, <1>13, <1>14, <3>4
      <4>2. \A k \in 1 .. Len(long) : long[k].id > e.id
        <5> TAKE k \in 1 .. Len(long)
        <5>1. k = Len(listed) + 1 \/ k \in 1 .. Len(listed)
          BY <1>8
        <5> QED BY <1>3, <1>4, <1>8, <3>2, <3>4, <5>1
      <4>3. \A i \in 1 .. Len(long) - d : listed'[i].id > e.id
        BY <1>14, <4>2
      <4> QED BY <1>14, <3>1, <4>1, <4>3 DEF Listed
    <3>5. Listed(e, listed)
      BY <3>1 DEF RampIInv, OpenIsActive, Listed
    <3> QED BY <3>3, <3>4, <3>5 DEF Listed
  <2> QED BY <2>1, <2>2
<1>17. OpenIsActive'
  BY <1>11, <1>15, <1>16 DEF OpenIsActive, GrowingTo, Listed
<1>18. OwnEpisode'
  <2> SUFFICES ASSUME NEW t \in Servers, active'[t] # Quiet
               PROVE  active'[t].server = t /\ active'[t].open /\ active'[t].id <= lastId'
    BY DEF OwnEpisode
  <2>1. CASE t = s
    BY <1>3, <1>4, <1>6, <2>1
  <2>2. CASE t # s
    <3>1. active'[t] = active[t] /\ active[t] \in Entry(B)
      BY <1>2, <1>6, <2>2 DEF Kinds
    <3>2. active[t].server = t /\ active[t].open /\ active[t].id <= lastId /\ active[t].id \in Nat
      BY <3>1 DEF RampIInv, OwnEpisode, Entry
    <3> QED BY <1>3, <3>1, <3>2
  <2> QED BY <2>1, <2>2
<1>19. Kinds(B)'
  BY <1>6, <1>11, <1>12 DEF Kinds
<1> QED BY <1>3, <1>11, <1>12, <1>17, <1>18, <1>19 DEF RampIInv

\* The list, the episodes and the file as they were, or the file as the list is.
LEMMA SameEpisodes ==
  ASSUME RampBounds, RampIInv, UNCHANGED <<active, listed, lastId>>, Save \/ UNCHANGED saved
  PROVE  RampIInv'
<1>1. PICK B : Kinds(B)
  BY DEF RampIInv
<1>2. saved' \in Seq(Entry(B)) /\ GrowingTo(saved', MaxEpisodes)
  <2>1. CASE Save
    <3>1. /\ listed' \in Seq(Entry(B)) /\ saved \in Seq(Entry(B)) /\ GrowingTo(listed', lastId')
          /\ lastId' \in 0 .. MaxEpisodes /\ GrowingTo(saved, MaxEpisodes)
      BY <1>1 DEF Kinds, RampIInv
    <3> QED BY <2>1, <3>1, SaveKeeps
  <2>2. CASE UNCHANGED saved
    BY <1>1, <2>2 DEF Kinds, RampIInv
  <2> QED BY <2>1, <2>2
<1>3. Kinds(B)'
  BY <1>1, <1>2 DEF Kinds
<1>4. lastId' \in 0 .. MaxEpisodes /\ GrowingTo(listed', lastId') /\ OwnEpisode' /\ OpenIsActive'
  BY DEF RampIInv, OwnEpisode, OpenIsActive
<1> QED BY <1>2, <1>3, <1>4 DEF RampIInv

\* The entry that is closed is the server's own: another server's episode has
\* another id, unless the entry was trimmed away and none is closed.
LEMMA ClosesKeeps ==
  ASSUME RampBounds, RampIInv, NEW s \in Servers, Closes(s) PROVE RampIInv'
<1> DEFINE own == active[s]
<1>1. PICK B : Kinds(B)
  BY DEF RampIInv
<1>2. /\ own # Quiet /\ active' = [active EXCEPT ![s] = Quiet] /\ lastId' = lastId
      /\ listed' = Closed(listed, own.id) /\ Save /\ lastId \in Nat /\ lastId \in 0 .. MaxEpisodes
  BY DEF Closes, RampIInv, RampBounds
<1>3. /\ active' \in [Servers -> Entry(B) \cup {Quiet}] /\ active'[s] = Quiet
      /\ \A t \in Servers : t # s => active'[t] = active[t]
  BY <1>1, <1>2 DEF Kinds
<1>4. own \in Entry(B) /\ own.server = s
  BY <1>1, <1>2 DEF Kinds, RampIInv, OwnEpisode
<1> HIDE DEF own
<1>5. Len(listed) \in Nat /\ DOMAIN listed = 1 .. Len(listed) /\ listed \in Seq(Entry(B))
  BY <1>1 DEF Kinds
<1>6. ASSUME NEW i \in 1 .. Len(listed)
      PROVE  /\ listed[i] \in Entry(B) /\ listed[i].server \in Servers
             /\ listed'[i] = IF listed[i].id = own.id THEN [listed[i] EXCEPT !.open = FALSE] ELSE listed[i]
             /\ listed'[i] \in Entry(B) /\ listed'[i].id = listed[i].id
             /\ listed'[i].server = listed[i].server
             /\ listed'[i].open = (listed[i].open /\ listed[i].id # own.id)
             /\ listed[i].id # own.id => listed'[i] = listed[i]
  <2> DEFINE e == listed[i]
  <2>1. e \in Entry(B)
    BY <1>5
  <2>2. listed'[i] = IF e.id = own.id THEN [e EXCEPT !.open = FALSE] ELSE e
    BY <1>2, <1>5 DEF Closed
  <2> HIDE DEF e
  <2>3. e.server \in Servers /\ e.open \in BOOLEAN
    BY <2>1 DEF Entry
  <2>4. CASE e.id = own.id
    <3>1. listed'[i] = [e EXCEPT !.open = FALSE]
      BY <2>2, <2>4
    <3>2. listed'[i] \in Entry(B) /\ listed'[i].id = e.id /\ listed'[i].server = e.server /\ listed'[i].open = FALSE
      BY <2>1, <3>1 DEF Entry
    <3> QED BY <2>1, <2>2, <2>3, <2>4, <3>2 DEF e
  <2>5. CASE e.id # own.id
    BY <2>1, <2>2, <2>3, <2>5 DEF e
  <2> QED BY <2>4, <2>5
<1>7. DOMAIN listed' = 1 .. Len(listed) /\ listed' \in Seq(Entry(B)) /\ Len(listed') = Len(listed)
  <2>1. listed' = [i \in 1 .. Len(listed) |->
                     IF listed[i].id = own.id THEN [listed[i] EXCEPT !.open = FALSE] ELSE listed[i]]
    BY <1>2, <1>5 DEF Closed
  <2>2. \A i \in 1 .. Len(listed) : listed'[i] \in Entry(B)
    BY <1>6
  <2>3. listed' \in [1 .. Len(listed) -> Entry(B)]
    <3>1. DOMAIN listed' = 1 .. Len(listed)
      BY <2>1
    <3>2. listed' = [i \in 1 .. Len(listed) |-> listed'[i]]
      BY <2>1
    <3> QED BY <2>2, <3>1, <3>2
  <2> QED BY <1>5, <2>3
<1>8. GrowingTo(listed', lastId')
  <2>1. GrowingTo(listed, lastId) /\ \A i \in 1 .. Len(listed) : listed'[i].id = listed[i].id
    BY <1>6 DEF RampIInv
  <2> QED BY <1>2, <1>5, <1>7, <2>1 DEF GrowingTo
<1>9. saved' \in Seq(Entry(B)) /\ GrowingTo(saved', MaxEpisodes)
  BY <1>1, <1>2, <1>7, <1>8, SaveKeeps DEF Kinds, RampIInv
<1>10. ASSUME NEW i \in 1 .. Len(listed), listed[i].id = own.id
       PROVE  listed[i] = own
  <2>1. Listed(own, listed)
    BY <1>2 DEF RampIInv, OpenIsActive, Listed, own
  <2>2. ~(listed[i].id > own.id)
    BY <1>4, <1>10 DEF Entry
  <2>3. PICK j \in 1 .. Len(listed) : listed[j] = own
    BY <1>5, <2>1, <2>2 DEF Listed
  <2>4. listed[i].id \in Nat /\ ~(i < j) /\ ~(j < i)
    BY <1>4, <1>5, <1>10, <2>3 DEF RampIInv, GrowingTo, Entry
  <2>5. i = j
    BY <1>5, <2>4
  <2> QED BY <2>3, <2>5
<1>11. ASSUME NEW i \in DOMAIN listed'
       PROVE  listed'[i].open = (active'[listed'[i].server] # Quiet /\ active'[listed'[i].server].id = listed'[i].id)
  <2> DEFINE e == listed[i]
             open == e.open
  <2>1. i \in 1 .. Len(listed)
    BY <1>7, <1>11
  <2>2. e.open = (active[e.server] # Quiet /\ active[e.server].id = e.id)
    BY <1>5, <2>1 DEF RampIInv, OpenIsActive
  <2>3. /\ e \in Entry(B) /\ e.server \in Servers /\ listed'[i].id = e.id /\ listed'[i].server = e.server
        /\ listed'[i].open = (e.open /\ e.id # own.id)
    BY <1>6, <2>1
  <2>4. e.id = own.id => e = own
    BY <1>10, <2>1
  <2> HIDE DEF e
  <2>5. CASE e.server = s
    <3>1. e.open => e.id = own.id
      BY <2>2, <2>5, Zenon DEF own
    <3>2. listed'[i].open = FALSE
      BY <2>3, <3>1, Zenon
    <3> QED BY <1>3, <2>3, <2>5, <3>2, Zenon
  <2>6. CASE e.server # s
    <3>1. e.id # own.id
      BY <1>4, <2>4, <2>6
    <3>2. listed'[i].open = e.open
      BY <2>2, <2>3, <3>1, Zenon
    <3> QED BY <1>3, <2>2, <2>3, <2>6, <3>2, Zenon
  <2> QED BY <2>5, <2>6
<1>12. ASSUME NEW t \in Servers, active'[t] # Quiet
       PROVE  Listed(active'[t], listed')
  <2> DEFINE e == active[t]
  <2>1. t # s /\ active'[t] = e /\ e # Quiet
    BY <1>3, <1>12
  <2>2. Listed(e, listed) /\ e.server = t
    BY <2>1 DEF RampIInv, OwnEpisode, OpenIsActive, Listed
  <2> HIDE DEF e
  <2>3. CASE \E i \in DOMAIN listed : listed[i] = e
    <3>1. PICK i \in 1 .. Len(listed) : listed[i] = e
      BY <1>5, <2>3
    <3>2. listed[i].id # own.id
      BY <1>4, <1>10, <2>1, <2>2, <3>1
    <3> QED BY <1>6, <1>7, <2>1, <3>1, <3>2 DEF Listed
  <2>4. CASE Len(listed) = MaxListed /\ \A i \in DOMAIN listed : listed[i].id > e.id
    BY <1>5, <1>6, <1>7, <2>1, <2>4 DEF Listed
  <2> QED BY <2>2, <2>3, <2>4 DEF Listed
<1>13. OpenIsActive'
  BY <1>8, <1>11, <1>12 DEF OpenIsActive, GrowingTo, Listed
<1>14. OwnEpisode'
  BY <1>2, <1>3 DEF RampIInv, OwnEpisode
<1>15. Kinds(B)'
  BY <1>3, <1>7, <1>9 DEF Kinds
<1> QED BY <1>2, <1>8, <1>9, <1>13, <1>14, <1>15 DEF RampIInv

\* After a restart no server is in an episode and none is open.
LEMMA RebootKeeps == ASSUME RampBounds, RampIInv, Reboot PROVE RampIInv'
<1>1. PICK B : Kinds(B)
  BY DEF RampIInv
<1>2. PICK readable : listed' = Trim(AllClosed(Select(saved, readable)))
  BY DEF Reboot
<1> DEFINE read == Select(saved, readable)
           c == AllClosed(read)
<1>3. /\ active' = [s \in Servers |-> Quiet] /\ saved' = saved
      /\ lastId' = Greatest(listed') /\ MaxEpisodes \in Nat /\ MaxEpisodes \in 0 .. MaxEpisodes
  BY DEF Reboot, RampBounds
<1>4. saved \in Seq(Entry(B)) /\ GrowingTo(saved, MaxEpisodes)
  BY <1>1 DEF Kinds, RampIInv
<1>5. read \in Seq(Entry(B)) /\ GrowingTo(read, MaxEpisodes)
  BY <1>3, <1>4, SelectGrows
<1> HIDE DEF read
<1>6. c \in Seq(Entry(B)) /\ GrowingTo(c, MaxEpisodes) /\ \A i \in DOMAIN c : ~c[i].open
  BY <1>3, <1>5, AllClosedProperties
<1>7. listed' = Trim(c)
  BY <1>2 DEF read
<1> HIDE DEF c
<1>8. listed' \in Seq(Entry(B)) /\ GrowingTo(listed', MaxEpisodes)
  BY <1>3, <1>6, <1>7, TrimProperties, TrimGrows
<1>9. lastId' \in 0 .. MaxEpisodes /\ GrowingTo(listed', lastId')
  BY <1>3, <1>8, GreatestProperties
<1>10. \A i \in DOMAIN listed' : ~listed'[i].open /\ listed'[i].open \in BOOLEAN /\ listed'[i].server \in Servers
  <2>1. PICK d \in 0 .. Len(c) : Drops(d, c, listed')
    BY <1>6, <1>7, TrimProperties
  <2>2. /\ DOMAIN listed' = 1 .. Len(c) - d /\ DOMAIN c = 1 .. Len(c)
        /\ \A i \in 1 .. Len(c) - d : listed'[i] = c[i + d] /\ i + d \in 1 .. Len(c)
    BY <1>6, <1>8, <2>1 DEF Drops
  <2> TAKE i \in DOMAIN listed'
  <2>3. listed'[i] \in Entry(B)
    BY <1>8
  <2> QED BY <1>6, <2>2, <2>3 DEF Entry
<1>11. \A s \in Servers : active'[s] = Quiet
  BY <1>3
<1>12. OpenIsActive'
  <2>1. \A i \in DOMAIN listed' :
          listed'[i].open = (active'[listed'[i].server] # Quiet /\ active'[listed'[i].server].id = listed'[i].id)
    BY <1>10, <1>11, Zenon
  <2> QED BY <1>9, <1>11, <2>1 DEF OpenIsActive, GrowingTo
<1>13. Kinds(B)'
  BY <1>3, <1>4, <1>8 DEF Kinds
<1>14. GrowingTo(saved', MaxEpisodes)
  BY <1>3, <1>4
<1> QED BY <1>9, <1>11, <1>12, <1>13, <1>14 DEF RampIInv, OwnEpisode

\* Every step keeps the invariant.
LEMMA RampNextKeeps == ASSUME RampBounds, RampIInv, [RampNext]_rampVars PROVE RampIInv'
<1>1. ASSUME NEW s \in Servers, FanChanges(s) PROVE RampIInv'
  BY <1>1, SameEpisodes DEF FanChanges
<1>2. ASSUME NEW s \in Servers, ThermalPoll(s) PROVE RampIInv'
  <2>1. PICK recent : Opens(s, recent) \/ StaysQuiet(s, recent) \/ Continues(s) \/ Closes(s)
    BY <1>2 DEF ThermalPoll
  <2>2. CASE StaysQuiet(s, recent) \/ Continues(s)
    BY <2>2, SameEpisodes DEF StaysQuiet, Continues
  <2> QED BY <2>1, <2>2, OpensKeeps, ClosesKeeps
<1>3. CASE Reboot
  BY <1>3, RebootKeeps
<1>4. CASE UNCHANGED rampVars
  BY <1>4, SameEpisodes DEF rampVars
<1> QED BY <1>1, <1>2, <1>3, <1>4 DEF RampNext

----------------------------------------------------------------------------
(* The theorems. *)

\* The invariant holds in every state of the detector.
THEOREM RampInvariant == ASSUME RampBounds PROVE RampSpec => []RampIInv
<1>1. RampInit => RampIInv
  BY InitRampIInv
<1>2. RampIInv /\ [RampNext]_rampVars => RampIInv'
  BY RampNextKeeps
<1> QED BY <1>1, <1>2, PTL DEF RampSpec

\* _detect_ramp, _events_init and the trims and saves of the shared list keep it
\* in step with what the pollers remember.
THEOREM EpisodesAgree == ASSUME RampBounds PROVE RampSpec => []OpenIsActive
<1>1. RampIInv => OpenIsActive
  BY DEF RampIInv
<1> QED BY <1>1, RampInvariant, PTL

----------------------------------------------------------------------------
(* FanRamp: the types. They rest on the median, which is one of the        *)
(* readings or lies between two of them.                                   *)

\* The k-th of some readings is one of them.
LEMMA RankedIsReading ==
  ASSUME RampBounds, NEW readings \in Seq(Levels), NEW k \in 1 .. Len(readings)
  PROVE  Ranked(readings, k) \in Levels
<1> DEFINE n == Len(readings)
           upTo(f) == {i \in DOMAIN readings : readings[i] <= f}
           S == {f \in Range(readings) : Cardinality(upTo(f)) >= k}
<1>1. n \in Nat /\ k \in Nat /\ k <= n /\ DOMAIN readings = 1 .. n
  OBVIOUS
<1> HIDE DEF n
<1>2. /\ \A i \in 1 .. n : readings[i] \in Levels /\ readings[i] \in Range(readings)
      /\ Range(readings) \subseteq Levels /\ Levels \subseteq Int /\ \A f \in Levels : 0 <= f /\ f <= 100
  <2>1. \A i \in 1 .. n : readings[i] \in Levels
    BY <1>1
  <2>2. Range(readings) = {readings[i] : i \in 1 .. n}
    BY <1>1 DEF Range
  <2>3. Levels \subseteq 0 .. 100
    BY DEF RampBounds
  <2> QED BY <2>1, <2>2, <2>3
<1>11. Range(readings) \subseteq Int /\ \A f \in Range(readings) : 0 <= f /\ f <= 100
  BY <1>2, Zenon
<1>3. Range(readings) # {}
  <2>1. readings[k] \in Range(readings)
    BY <1>1, <1>2
  <2> QED BY <2>1
<1>4. PICK top : top \in Range(readings) /\ \A f \in Range(readings) : f <= top
  <2> DEFINE R == Range(readings)
  <2>1. R \subseteq Int /\ R # {} /\ 100 \in Int /\ \A f \in R : f <= 100
    <3>1. 100 \in Int
      OBVIOUS
    <3> QED BY <1>3, <1>11, <3>1, Zenon
  <2> HIDE DEF R
  <2>2. Max(R) \in R /\ \A f \in R : f <= Max(R)
    BY <2>1, GreatestElement
  <2> QED BY <2>2 DEF R
<1>5. upTo(top) = 1 .. n
  BY <1>1, <1>2, <1>4
<1>6. Cardinality(1 .. n) = n
  BY <1>1, FS_Interval
<1> HIDE DEF upTo
<1>7. top \in S
  BY <1>1, <1>4, <1>5, <1>6
<1>8. S \subseteq Int /\ S # {} /\ 0 \in Int /\ \A f \in S : 0 <= f
  <2>1. S \subseteq Range(readings)
    OBVIOUS
  <2> HIDE DEF S
  <2>2. 0 \in Int
    OBVIOUS
  <2> QED BY <1>7, <1>11, <2>1, <2>2, Zenon
<1> HIDE DEF S
<1>9. Min(S) \in S
  BY <1>8, LeastElement
<1>10. S \subseteq Levels
  BY <1>2 DEF S
<1> QED BY <1>9, <1>10 DEF Ranked, S, upTo

\* Rounded to a whole percent, the baseline is one.
LEMMA BaselineIsPercent ==
  ASSUME RampBounds, NEW recent \in Seq(Levels), NEW f \in Levels
  PROVE  Rounded(Baseline2(recent, f), 2) \in 0 .. 100
<1>1. Levels \subseteq 0 .. 100 /\ MinSamples \in Nat \ {0}
  BY DEF RampBounds
<1>2. Baseline2(recent, f) \in 0 .. 200
  <2>1. CASE Len(recent) >= MinSamples
    <3> DEFINE n == Len(recent)
    <3>1. n \in Nat \ {0}
      BY <1>1, <2>1
    <3> HIDE DEF n
    <3>2. (n + 1) \div 2 \in 1 .. n /\ n \div 2 + 1 \in 1 .. n
      BY <3>1
    <3>3. Ranked(recent, (n + 1) \div 2) \in 0 .. 100 /\ Ranked(recent, n \div 2 + 1) \in 0 .. 100
      BY <1>1, <3>2, RankedIsReading DEF n
    <3>4. Baseline2(recent, f) = Ranked(recent, (n + 1) \div 2) + Ranked(recent, n \div 2 + 1)
      BY <2>1 DEF Baseline2, Median2, n
    <3>5. \A a, b \in 0 .. 100 : a + b \in 0 .. 200
      OBVIOUS
    <3> QED BY <3>3, <3>4, <3>5, Zenon
  <2>2. CASE ~(Len(recent) >= MinSamples)
    <3>1. Baseline2(recent, f) = 2 * f
      BY <2>2 DEF Baseline2
    <3> QED BY <1>1, <3>1
  <2> QED BY <2>1, <2>2
<1> DEFINE b2 == Baseline2(recent, f)
<1> HIDE DEF b2
<1>3. b2 \in 0 .. 200
  BY <1>2 DEF b2
<1>4. Rounded(b2, 2) \in 0 .. 100
  <2>1. PICK q \in 0 .. 100, r \in {0, 1} : b2 = 2 * q + r
    BY <1>3
  <2>2. b2 \div 2 = q /\ b2 % 2 = r
    BY <2>1
  <2>3. q = 100 => r = 0
    BY <1>3, <2>1
  <2> QED BY <2>1, <2>2, <2>3 DEF Rounded
<1> QED BY <1>4 DEF b2

\* What is left of the readings in the window, and the one that joins them.
LEMMA WindowProperties ==
  ASSUME RampBounds, NEW readings \in Seq(Levels), NEW recent \in Windows(readings), NEW f \in Levels
  PROVE  recent \in Seq(Levels) /\ Append(recent, f) \in Seq(Levels) /\ Len(Append(recent, f)) <= Window
<1>1. recent \in Suffixes(readings) /\ Len(recent) < Window /\ Window \in Nat
  BY DEF Windows, RampBounds
<1>2. recent \in Seq(Levels)
  <2>1. CASE recent = <<>>
    BY <2>1
  <2>2. ASSUME NEW l \in 1 .. Len(readings), recent = SubSeq(readings, l, Len(readings))
        PROVE  recent \in Seq(Levels)
    <3>1. \A i \in l .. Len(readings) : readings[i] \in Levels
      OBVIOUS
    <3> QED BY <2>2, <3>1, SubSeqProperties
  <2> QED BY <1>1, <2>1, <2>2 DEF Suffixes
<1>3. Len(recent) \in Nat /\ Append(recent, f) \in Seq(Levels) /\ Len(Append(recent, f)) = Len(recent) + 1
  BY <1>2
<1> QED BY <1>1, <1>2, <1>3

\* Closing an episode, or all of them, changes no other field.
LEMMA ClosingKeepsEpisodes ==
  ASSUME NEW events \in Seq(Episode), NEW id
  PROVE  Closed(events, id) \in Seq(Episode) /\ AllClosed(events) \in Seq(Episode)
<1>1. \A e \in Episode : [e EXCEPT !.open = FALSE] \in Episode
  BY DEF Episode
<1>2. \A i \in DOMAIN events : events[i] \in Episode
  OBVIOUS
<1>3. Closed(events, id) \in [1 .. Len(events) -> Episode] /\ AllClosed(events) \in [1 .. Len(events) -> Episode]
  BY <1>1, <1>2 DEF Closed, AllClosed
<1>4. Len(events) \in Nat
  OBVIOUS
<1> QED BY <1>3, <1>4, SeqDef

\* A poll keeps the types.
LEMMA PollKeepsTypes ==
  ASSUME RampBounds, RampIInv', RampTypeOK, NEW s \in Servers, ThermalPoll(s)
  PROVE  RampTypeOK'
<1>1. PICK recent \in Windows(past[s]) :
        /\ past' = [past EXCEPT ![s] = Append(recent, fan[s])]
        /\ Opens(s, recent) \/ StaysQuiet(s, recent) \/ Continues(s) \/ Closes(s)
  BY DEF ThermalPoll
<1>2. fan[s] \in Levels /\ past[s] \in Seq(Levels) /\ fan' = fan
  BY DEF RampTypeOK, ThermalPoll
<1>3. recent \in Seq(Levels) /\ Append(recent, fan[s]) \in Seq(Levels) /\ Len(Append(recent, fan[s])) <= Window
  BY <1>1, <1>2, WindowProperties
<1>4. past' \in [Servers -> Seq(Levels)] /\ \A t \in Servers : Len(past'[t]) <= Window
  BY <1>1, <1>3 DEF RampTypeOK
<1>5. lastId' \in 0 .. MaxEpisodes
  BY DEF RampIInv
<1>6. /\ active' \in [Servers -> Episode \cup {Quiet}] /\ below' \in [Servers -> 0 .. ClearSamples - 1]
      /\ listed' \in Seq(Episode) /\ Len(listed') <= MaxListed
      /\ Save \/ saved' = saved
  <2>1. CASE Opens(s, recent)
    <3>1. lastId' \in 1 .. MaxEpisodes
      BY <1>5, <2>1 DEF Opens, RampTypeOK
    <3>2. Rounded(Baseline2(recent, fan[s]), 2) \in 0 .. 100
      BY <1>2, <1>3, BaselineIsPercent
    <3> DEFINE e == [id |-> lastId', server |-> s, open |-> TRUE,
                     baseline |-> Rounded(Baseline2(recent, fan[s]), 2)]
    <3>3. e \in Episode
      BY <3>1, <3>2 DEF Episode
    <3>4. active' = [active EXCEPT ![s] = e] /\ listed' = Trim(Append(listed, active'[s]))
          /\ below' = [below EXCEPT ![s] = 0] /\ Save
      BY <2>1 DEF Opens
    <3> HIDE DEF e
    <3>5. active' \in [Servers -> Episode \cup {Quiet}] /\ active'[s] = e
      BY <3>3, <3>4 DEF RampTypeOK
    <3>6. Append(listed, e) \in Seq(Episode)
      BY <3>3 DEF RampTypeOK
    <3>7. listed' \in Seq(Episode) /\ Len(listed') <= MaxListed
      BY <3>4, <3>5, <3>6, TrimProperties
    <3>8. below' \in [Servers -> 0 .. ClearSamples - 1]
      BY <3>4 DEF RampTypeOK, ClearSamples
    <3> QED BY <3>4, <3>5, <3>7, <3>8
  <2>2. CASE StaysQuiet(s, recent)
    BY <2>2 DEF StaysQuiet, RampTypeOK
  <2>3. CASE Continues(s)
    <3>1. Lows(s) \in 0 .. ClearSamples - 1
      <4>1. below[s] \in 0 .. 1 /\ ClearSamples = 2
        BY DEF RampTypeOK, ClearSamples
      <4>2. Lows(s) = below[s] + 1 \/ Lows(s) = 0
        BY DEF Lows
      <4>3. Lows(s) < ClearSamples
        BY <2>3 DEF Continues
      <4> QED BY <4>1, <4>2, <4>3
    <3>2. below' \in [Servers -> 0 .. ClearSamples - 1]
      BY <2>3, <3>1 DEF Continues, RampTypeOK
    <3> QED BY <2>3, <3>2 DEF Continues, RampTypeOK
  <2>4. CASE Closes(s)
    <3>1. listed \in Seq(Episode) /\ Len(listed) <= MaxListed /\ Len(listed) \in Nat
      BY DEF RampTypeOK
    <3>2. listed' = Closed(listed, active[s].id)
      BY <2>4 DEF Closes
    <3>3. listed' \in Seq(Episode) /\ Len(listed') = Len(listed)
      <4>1. DOMAIN listed' = 1 .. Len(listed)
        BY <3>1, <3>2 DEF Closed
      <4>2. listed' \in Seq(Episode)
        BY <3>1, <3>2, ClosingKeepsEpisodes
      <4> QED BY <3>1, <4>1, <4>2, LenProperties
    <3>4. active' \in [Servers -> Episode \cup {Quiet}] /\ below' \in [Servers -> 0 .. ClearSamples - 1] /\ Save
      BY <2>4 DEF Closes, RampTypeOK, ClearSamples
    <3> QED BY <3>1, <3>3, <3>4
  <2> QED BY <1>1, <2>1, <2>2, <2>3, <2>4
<1>7. saved' \in Seq(Episode)
  BY <1>6 DEF Save, RampTypeOK
<1> QED BY <1>2, <1>4, <1>5, <1>6, <1>7 DEF RampTypeOK

\* And so do a change of the fans and a restart.
LEMMA NextKeepsRampTypes ==
  ASSUME RampBounds, RampIInv', RampTypeOK, [RampNext]_rampVars
  PROVE  RampTypeOK'
<1>1. ASSUME NEW s \in Servers, FanChanges(s) PROVE RampTypeOK'
  BY <1>1 DEF FanChanges, RampTypeOK
<1>2. CASE Reboot
  <2>1. PICK readable : listed' = Trim(AllClosed(Select(saved, readable)))
    BY <1>2 DEF Reboot
  <2>2. listed' \in Seq(Episode) /\ Len(listed') <= MaxListed
    <3>1. Select(saved, readable) \in Seq(Episode)
      BY SelectProperties DEF RampTypeOK
    <3>2. AllClosed(Select(saved, readable)) \in Seq(Episode)
      BY <3>1, ClosingKeepsEpisodes
    <3> QED BY <2>1, <3>2, TrimProperties
  <2>3. lastId' \in 0 .. MaxEpisodes
    BY DEF RampIInv
  <2>4. past' \in [Servers -> Seq(Levels)] /\ \A s \in Servers : Len(past'[s]) <= Window
    BY <1>2 DEF Reboot, RampBounds
  <2>5. active' \in [Servers -> Episode \cup {Quiet}] /\ below' \in [Servers -> 0 .. ClearSamples - 1]
    BY <1>2 DEF Reboot, ClearSamples
  <2>6. fan' = fan /\ saved' = saved
    BY <1>2 DEF Reboot
  <2> QED BY <2>2, <2>3, <2>4, <2>5, <2>6 DEF RampTypeOK
<1>3. CASE UNCHANGED rampVars
  BY <1>3 DEF rampVars, RampTypeOK
<1> QED BY <1>1, <1>2, <1>3, PollKeepsTypes DEF RampNext

\* Episodes and readings, in memory and in the file, keep their types and bounds.
THEOREM RampTypeCorrect == ASSUME RampBounds PROVE RampSpec => []RampTypeOK
<1>1. RampInit => RampTypeOK
  <2> SUFFICES ASSUME RampInit PROVE RampTypeOK
    OBVIOUS
  <2>1. past \in [Servers -> Seq(Levels)] /\ \A s \in Servers : Len(past[s]) <= Window
    <3>1. past = [s \in Servers |-> <<>>] /\ Window \in Nat /\ Len(<<>>) = 0
      BY DEF RampInit, RampBounds
    <3> QED BY <3>1
  <2>2. active \in [Servers -> Episode \cup {Quiet}] /\ below \in [Servers -> 0 .. ClearSamples - 1]
    BY DEF RampInit, ClearSamples
  <2>3. listed = <<>> /\ saved = <<>> /\ lastId \in 0 .. MaxEpisodes /\ MaxListed \in Nat
    BY DEF RampInit, RampBounds
  <2>4. fan \in [Servers -> Levels]
    BY DEF RampInit
  <2>5. <<>> \in Seq(Episode) /\ Len(<<>>) = 0
    OBVIOUS
  <2> QED BY <2>1, <2>2, <2>3, <2>4, <2>5 DEF RampTypeOK
<1>2. RampIInv' /\ RampTypeOK /\ [RampNext]_rampVars => RampTypeOK'
  BY NextKeepsRampTypes
<1> QED BY RampInvariant, <1>1, <1>2, PTL DEF RampSpec

----------------------------------------------------------------------------
(* MetricsBridge *)

\* A loop over the sensors starts at the first message of the first and has a
\* sensor at hand until it ends; and a sensor is told "online" only after the value
\* of this cycle.
BridgeIInv ==
  /\ BridgeTypeOK /\ CycleIsShown
  /\ phase \in {"startup", "backoff"} => at = 1
  /\ phase \in {"offline", "publish", "stop"} => at \in Sensors
  /\ phase \notin {"publish", "down"} => part = 1
  /\ phase = "publish" /\ part = 2 => at \in results /\ age[at] = 0

\* It holds when the first process has not started.
LEMMA InitBridgeIInv == ASSUME SensorsAreNat PROVE BridgeInit => BridgeIInv
<1> SUFFICES ASSUME BridgeInit PROVE BridgeIInv
  OBVIOUS
<1>1. 1 \in Sensors /\ 1 \in 1 .. NumSensors + 1 /\ Expire \in 0 .. Expire
  BY DEF SensorsAreNat, Sensors
<1>2. age \in [Sensors -> 0 .. Expire]
  BY <1>1 DEF BridgeInit
<1>3. phase = "down" /\ at = 1 /\ part = 1 /\ 1 \in 1 .. 2
  BY DEF BridgeInit
<1>4. BridgeTypeOK
  BY <1>1, <1>2, <1>3 DEF BridgeInit, BridgeTypeOK, Phases
<1> QED BY <1>3, <1>4 DEF BridgeIInv, CycleIsShown

\* What is published next.
LEMMA NextMessage ==
  ASSUME BridgeIInv, phase \in {"offline", "publish", "stop"}
  PROVE  \/ /\ Messages[part] = "offline" /\ Len(Messages) = 1 /\ part = 1
            /\ phase = "publish" => at \notin results
         \/ /\ Messages[part] = "value" /\ Len(Messages) = 2 /\ part = 1
            /\ phase = "publish" /\ at \in results
         \/ /\ Messages[part] = "online" /\ Len(Messages) = 2 /\ part = 2
            /\ phase = "publish" /\ at \in results /\ age[at] = 0
<1>1. part = 1 \/ part = 2
  BY DEF BridgeIInv, BridgeTypeOK
<1>2. CASE phase = "publish" /\ at \in results
  BY <1>1, <1>2 DEF Messages, ValueFirst, BridgeIInv
<1>3. CASE ~(phase = "publish" /\ at \in results)
  <2>1. part = 1
    BY <1>1, <1>3 DEF BridgeIInv
  <2> QED BY <1>3, <2>1 DEF Messages
<1> QED BY <1>2, <1>3

\* The values of Home Assistant keep their types, and only the sensor at hand is
\* told something.
LEMMA ActsOnOne ==
  ASSUME SensorsAreNat, BridgeIInv, phase \in {"offline", "publish", "stop"},
         NEW m \in {"online", "offline", "value"}, Acts(m)
  PROVE  /\ online' \subseteq Sensors /\ age' \in [Sensors -> 0 .. Expire]
         /\ \A s \in Sensors : s # at => age'[s] = age[s] /\ (s \in online' <=> s \in online)
         /\ age'[at] = IF m = "value" THEN 0 ELSE age[at]
         /\ at \in online' <=> (m = "online" \/ (m = "value" /\ at \in online))
<1>1. at \in Sensors /\ online \subseteq Sensors /\ age \in [Sensors -> 0 .. Expire] /\ 0 \in 0 .. Expire
  BY DEF BridgeIInv, BridgeTypeOK, SensorsAreNat
<1>2. CASE m = "value"
  BY <1>1, <1>2 DEF Acts
<1>3. CASE m = "online"
  BY <1>1, <1>3 DEF Acts
<1>4. CASE m = "offline"
  BY <1>1, <1>4 DEF Acts
<1> QED BY <1>2, <1>3, <1>4

\* A message that is accepted.
LEMMA AcceptedKeeps ==
  ASSUME SensorsAreNat, BridgeIInv, phase \in {"offline", "publish", "stop"}, Accepted,
         UNCHANGED <<works, calm, results>>
  PROVE  BridgeIInv'
<1> DEFINE m == Messages[part]
<1>1. m \in {"online", "offline", "value"} /\ Acts(m)
  BY NextMessage DEF Accepted
<1>2. /\ online' \subseteq Sensors /\ age' \in [Sensors -> 0 .. Expire]
      /\ \A s \in Sensors : s # at => age'[s] = age[s] /\ (s \in online' <=> s \in online)
      /\ age'[at] = IF m = "value" THEN 0 ELSE age[at]
      /\ at \in online' <=> (m = "online" \/ (m = "value" /\ at \in online))
  BY <1>1, ActsOnOne
<1>3. /\ at \in Sensors /\ NumSensors \in Nat \ {0} /\ Expire \in Nat \ {0}
      /\ works \in SUBSET Sensors /\ results \in SUBSET Sensors /\ available \in SUBSET Sensors
      /\ calm \in BOOLEAN /\ phase \in Phases /\ part \in 1 .. 2
  BY DEF BridgeIInv, BridgeTypeOK, SensorsAreNat
<1>4. at \in Nat /\ 1 <= at /\ at <= NumSensors /\ part \in Nat
  BY <1>3 DEF Sensors
<1>5. CASE part < Len(Messages)
  <2>01. part' = part + 1 /\ phase' = phase /\ at' = at /\ available' = available /\ results' = results
    BY <1>5 DEF Accepted
  <2>02. m = "value" /\ part = 1 /\ phase = "publish" /\ at \in results
    <3> HIDE DEF m
    <3>1. \/ Len(Messages) = 1 /\ part = 1
          \/ m = "value" /\ part = 1 /\ phase = "publish" /\ at \in results
          \/ Len(Messages) = 2 /\ part = 2
      BY NextMessage DEF m
    <3>2. ~(1 < 1) /\ ~(2 < 2)
      OBVIOUS
    <3> QED BY <1>5, <3>1, <3>2, Zenon
  <2>1. m = "value" /\ part' = 2 /\ phase' = "publish" /\ at' = at /\ available' = available
        /\ phase = "publish" /\ at \in results /\ results' = results
    BY <2>01, <2>02
  <2>2. CycleIsShown'
    <3> SUFFICES ASSUME NEW s \in 1 .. at - 1
                 PROVE  /\ Shown(s)' = (s \in results) /\ (s \in available) = (s \in results)
                        /\ s \in results => age'[s] = 0
      BY <2>1 DEF CycleIsShown
    <3>1. s \in Sensors /\ s # at
      BY <1>3, <1>4 DEF Sensors
    <3>2. age'[s] = age[s] /\ (s \in online' <=> s \in online)
      BY <1>2, <3>1
    <3> QED BY <2>1, <3>2 DEF BridgeIInv, CycleIsShown, Shown
  <2> QED BY <1>2, <1>3, <2>1, <2>2 DEF BridgeIInv, BridgeTypeOK
<1>6. CASE ~(part < Len(Messages))
  <2>1. /\ m # "value" /\ part' = 1
        /\ available' = IF m = "offline" THEN available \ {at} ELSE available \cup {at}
        /\ at' = at + 1 /\ phase' = IF at < NumSensors THEN phase ELSE Finished
        /\ results' = results
    BY <1>6, NextMessage DEF Accepted
  <2>2. phase' \in Phases /\ at' \in 1 .. NumSensors + 1 /\ (at < NumSensors => at' \in Sensors)
    BY <1>3, <1>4, <2>1 DEF Finished, Phases, Sensors
  <2>3. available' \in SUBSET Sensors
    BY <1>3, <2>1
  <2>4. \/ at < NumSensors /\ phase' = phase
        \/ phase = "publish" /\ phase' = "wait"
        \/ phase # "publish" /\ phase' \in {"query", "down"}
    BY <2>1 DEF Finished
  <2>5. CycleIsShown'
    <3> SUFFICES ASSUME phase' \in {"publish", "wait"}, NEW s \in 1 .. at' - 1
                 PROVE  /\ Shown(s)' = (s \in results) /\ (s \in available') = (s \in results)
                        /\ s \in results => age'[s] = 0
      BY <2>1 DEF CycleIsShown
    <3>1. phase = "publish" /\ at' = at + 1
      BY <2>1, <2>4
    <3>2. CASE s = at
      <4>1. CASE m = "offline"
        BY <1>2, <2>1, <3>1, <3>2, <4>1, NextMessage DEF Shown
      <4>2. CASE m = "online"
        <5>1. at \in results /\ age[at] = 0
          BY <4>2, NextMessage
        <5>2. age'[at] = 0 /\ at \in online' /\ at \in available'
          BY <1>2, <2>1, <4>2, <5>1
        <5> QED BY <1>3, <3>2, <5>1, <5>2 DEF Shown
      <4> QED BY <1>1, <2>1, <4>1, <4>2
    <3>3. CASE s # at
      <4>1. s \in 1 .. at - 1 /\ s \in Sensors
        BY <1>3, <1>4, <3>1, <3>3 DEF Sensors
      <4>2. age'[s] = age[s] /\ (s \in online' <=> s \in online) /\ (s \in available' <=> s \in available)
        BY <1>2, <2>1, <3>3, <4>1
      <4> QED BY <3>1, <4>1, <4>2 DEF BridgeIInv, CycleIsShown, Shown
    <3> QED BY <3>2, <3>3
  <2>6. /\ phase' \notin {"startup", "backoff"}
        /\ phase' \in {"offline", "publish", "stop"} => at' \in Sensors
    BY <2>2, <2>4
  <2> QED BY <1>2, <1>3, <2>1, <2>2, <2>3, <2>5, <2>6 DEF BridgeIInv, BridgeTypeOK
<1> QED BY <1>5, <1>6

\* One that is not.
LEMMA FailedKeeps ==
  ASSUME SensorsAreNat, BridgeIInv, phase \in {"offline", "publish", "stop"}, Failed,
         UNCHANGED <<works, calm, results>>
  PROVE  BridgeIInv'
<1>1. online' \subseteq Sensors /\ age' \in [Sensors -> 0 .. Expire]
  <2>1. CASE Acts(Messages[part])
    <3>1. Messages[part] \in {"online", "offline", "value"}
      BY NextMessage
    <3> QED BY <2>1, <3>1, ActsOnOne
  <2>2. CASE UNCHANGED <<online, age>>
    BY <2>2 DEF BridgeIInv, BridgeTypeOK
  <2> QED BY <2>1, <2>2 DEF Failed
<1>2. phase' \in {"backoff", "wait", "down"} /\ at' = 1 /\ part' = 1 /\ available' = available
  BY DEF Failed, Ends, GivenUp
<1>3. 1 \in Sensors /\ 1 \in 1 .. NumSensors + 1
  BY DEF SensorsAreNat, Sensors
<1> QED BY <1>1, <1>2, <1>3 DEF BridgeIInv, BridgeTypeOK, CycleIsShown, Phases

\* Every step keeps the invariant.
LEMMA NextKeepsBridgeIInv ==
  ASSUME SensorsAreNat
  PROVE  BridgeIInv /\ [BridgeNext]_bridgeVars => BridgeIInv'
<1> SUFFICES ASSUME BridgeIInv, [BridgeNext]_bridgeVars PROVE BridgeIInv'
  OBVIOUS
<1>1. 1 \in Sensors /\ 1 \in 1 .. NumSensors + 1 /\ Expire \in Nat
  BY DEF SensorsAreNat, Sensors
<1>2. ASSUME NEW s \in Sensors, TargetChanges(s) PROVE BridgeIInv'
  <2>1. works' \in SUBSET Sensors
    BY <1>2 DEF TargetChanges, BridgeIInv, BridgeTypeOK
  <2> QED BY <1>2, <2>1 DEF TargetChanges, BridgeIInv, BridgeTypeOK, CycleIsShown, Shown
<1>3. CASE Calm
  BY <1>3 DEF Calm, BridgeIInv, BridgeTypeOK, CycleIsShown, Shown
<1>4. CASE Pass
  <2>1. age' \in [Sensors -> 0 .. Expire]
    BY <1>1, <1>4 DEF Pass, BridgeIInv, BridgeTypeOK
  <2>2. phase' \in {"query", "startup", "down"} /\ (phase' = "down" => phase = "down")
    BY <1>4 DEF Pass
  <2>3. at' = at /\ part' = part /\ (phase # "down" => part = 1) /\ (phase = "backoff" => at = 1)
    BY <1>4 DEF Pass, BridgeIInv
  <2> QED BY <1>4, <2>1, <2>2, <2>3 DEF Pass, BridgeIInv, BridgeTypeOK, CycleIsShown, Phases
<1>5. ASSUME NEW accepted \in BOOLEAN, Discover(accepted) PROVE BridgeIInv'
  BY <1>1, <1>5 DEF Discover, BridgeIInv, BridgeTypeOK, CycleIsShown, Phases
<1>6. ASSUME NEW failing \in SUBSET Sensors, Query(failing) PROVE BridgeIInv'
  <2>1. results' \in SUBSET Sensors
    BY <1>6 DEF Query, Samples, BridgeIInv, BridgeTypeOK
  <2>2. phase' = "publish" /\ at' = 1 /\ part' = 1
    BY <1>6 DEF Query, BridgeIInv
  <2>3. 1 .. 1 - 1 = {}
    OBVIOUS
  <2> QED BY <1>1, <1>6, <2>1, <2>2, <2>3 DEF Query, BridgeIInv, BridgeTypeOK, CycleIsShown, Phases
<1>7. CASE Send
  BY <1>7, AcceptedKeeps, FailedKeeps DEF Send
<1>8. CASE Start
  BY <1>1, <1>8 DEF Start, BridgeIInv, BridgeTypeOK, CycleIsShown, Phases
<1>9. CASE Stop
  BY <1>1, <1>9 DEF Stop, BridgeIInv, BridgeTypeOK, CycleIsShown, Phases
<1>10. CASE Kill
  BY <1>10 DEF Kill, BridgeIInv, BridgeTypeOK, CycleIsShown, Phases
<1>11. CASE UNCHANGED bridgeVars
  BY <1>11 DEF bridgeVars, BridgeIInv, BridgeTypeOK, CycleIsShown, Shown
<1> QED BY <1>2, <1>3, <1>4, <1>5, <1>6, <1>7, <1>8, <1>9, <1>10, <1>11 DEF BridgeNext, Bridge

\* The invariant holds in every state.
THEOREM BridgeInvariant == ASSUME SensorsAreNat PROVE BridgeSpec => []BridgeIInv
<1>1. BridgeInit => BridgeIInv
  BY InitBridgeIInv
<1>2. BridgeIInv /\ [BridgeNext]_bridgeVars => BridgeIInv'
  BY NextKeepsBridgeIInv
<1> QED BY <1>1, <1>2, PTL DEF BridgeSpec

\* Sensors, phases and ages keep their types.
THEOREM BridgeTypeCorrect == ASSUME SensorsAreNat PROVE BridgeSpec => []BridgeTypeOK
<1>1. BridgeIInv => BridgeTypeOK
  BY DEF BridgeIInv
<1> QED BY <1>1, BridgeInvariant, PTL

\* Bridge.cycle: after any faults, kills and stops, a cycle shows a sensor it has got
\* to exactly when it has a value for it, and its own view agrees.
THEOREM CyclesRepair == ASSUME SensorsAreNat PROVE BridgeSpec => []CycleIsShown
<1>1. BridgeIInv => CycleIsShown
  BY DEF BridgeIInv
<1> QED BY <1>1, BridgeInvariant, PTL

\* Bridge.cycle: no sensor comes online but with the value of this cycle.
THEOREM OnlineIsFresh == ASSUME SensorsAreNat PROVE BridgeSpec => ComesOnlineFresh
<1>1. ASSUME BridgeIInv, [BridgeNext]_bridgeVars
      PROVE  [\A s \in Sensors : s \notin online /\ s \in online' => age[s] = 0]_bridgeVars
  <2> SUFFICES ASSUME NEW s \in Sensors, s \notin online, s \in online' PROVE age[s] = 0
    OBVIOUS
  <2>1. Send
    BY <1>1 DEF BridgeNext, Bridge, TargetChanges, Calm, Pass, Discover, Query, Start, Stop, Kill, bridgeVars
  <2>2. phase \in {"offline", "publish", "stop"} /\ Acts(Messages[part])
    BY <2>1 DEF Send, Accepted, Failed
  <2>3. CASE Messages[part] = "online"
    <3>1. s = at
      BY <2>2, <2>3 DEF Acts
    <3> QED BY <1>1, <2>2, <2>3, <3>1, NextMessage
  <2>4. CASE Messages[part] = "offline"
    BY <2>2, <2>4 DEF Acts
  <2>5. CASE Messages[part] = "value"
    BY <2>2, <2>5 DEF Acts
  <2> QED BY <1>1, <2>2, <2>3, <2>4, <2>5, NextMessage
<1> QED BY <1>1, BridgeInvariant, PTL DEF BridgeSpec, ComesOnlineFresh
=============================================================================
