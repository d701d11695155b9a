---------------------------- MODULE PetkitStore -----------------------------
(***************************************************************************)
(* The petkit snapshotter (snapshotter.py): it polls Home Assistant for    *)
(* feeder events, stores the picture of each new one, and lists them       *)
(* newest first in a manifest. Pictures and manifest are files on NFS; the *)
(* last event seen per entity is kept in memory and rebuilt from the       *)
(* manifest. Old or surplus entries are pruned, pictures included, before  *)
(* the manifest that forgets them is written.                              *)
(*                                                                         *)
(* Any call may fail and the process may die between any two. One thread   *)
(* polls; HTTP handlers only read, under the store's lock.                 *)
(*                                                                         *)
(* Events of an entity are numbered in the order they happen. A picture is *)
(* named after its event and its digest, and is the one Home Assistant     *)
(* holds when it is fetched.                                               *)
(***************************************************************************)
EXTENDS Naturals, Sequences, FiniteSets, FiniteSetsExt, SeqSelect

CONSTANTS
  Entities,      \* EVENTS
  MaxEvents,     \* bound: events of all entities together
  MaxSnapshots,  \* MAX_SNAPSHOTS
  MaxCrashes     \* bound: restarts

StoreBounds ==
  MaxEvents \in Nat /\ MaxSnapshots \in Nat \ {0} /\ MaxCrashes \in Nat

VARIABLES
  event,     \* Home Assistant: the last event of each entity, 0 for none
  aged,      \* entries captured more than RETENTION_DAYS ago
  files,     \* pictures on disk
  disk,      \* manifest.json
  list,      \* manifest["snapshots"]
  lastSeen,  \* last_seen
  todo,      \* what is left of the states this poll fetched
  step,      \* "poll", "insert", "write": how far add() is
  adding,    \* the entry add() is about
  crashes,
  pruned     \* ghost: entries retention removed

storeVars == <<event, aged, files, disk, list, lastSeen, todo, step, adding, crashes, pruned>>
memory == <<list, lastSeen, todo, step, adding>>

None == [e \in Entities |-> 0]
Item == [entity : Entities, event : Nat \ {0}, picture : Nat \ {0}]

StoreInit ==
  /\ event = None /\ aged = {}
  /\ files = {} /\ disk = <<>>
  /\ list = <<>> /\ lastSeen = None
  /\ todo = None /\ step = "poll" /\ adding = <<>>
  /\ crashes = 0 /\ pruned = {}

----------------------------------------------------------------------------
(* The world. *)

Happens(e) ==
  /\ MapThenSumSet(LAMBDA f : event[f], Entities) < MaxEvents
  /\ event' = [event EXCEPT ![e] = @ + 1]
  /\ UNCHANGED <<aged, files, disk, memory, crashes, pruned>>

\* Entries age in the order they were captured.
Age ==
  /\ \E i \in 1 .. Len(list) :
       /\ list[i] \notin aged
       /\ \A j \in i + 1 .. Len(list) : list[j] \in aged
       /\ aged' = aged \cup {list[i]}
  /\ UNCHANGED <<event, files, disk, memory, crashes, pruned>>

----------------------------------------------------------------------------
(* Faulty variants, for mutation tests of the properties. *)

\* The oldest entry of an entity is taken for its last event.
LastEvents(snapshots) ==
  [e \in Entities |->
     LET ofE == Select(snapshots, {i \in Item : i.entity = e})
     IN IF ofE = <<>> THEN 0 ELSE ofE[Len(ofE)].event]

\* A picture that cannot be written is logged, and listed all the same.
WrittenIfItCan(i) == files' \in {files, files \cup {i}}

\* The event is seen as soon as its picture is asked for.
SeenAtOnce(e) == [lastSeen EXCEPT ![e] = todo[e]]

----------------------------------------------------------------------------
(* poll_once *)

\* Of the states fetched at once, those that are new.
Poll ==
  /\ step = "poll" /\ todo = None
  /\ todo' = [e \in Entities |-> IF event[e] = lastSeen[e] THEN 0 ELSE event[e]]
  /\ UNCHANGED <<event, aged, files, disk, list, lastSeen, step, adding, crashes, pruned>>

\* What is left in last_seen when a picture cannot be had.
SeenAfterFailure(e) == lastSeen

\* The picture cannot be fetched or stored: the next poll tries again.
FetchFails(e) ==
  /\ step = "poll" /\ todo[e] # 0
  /\ todo' = [todo EXCEPT ![e] = 0]
  /\ lastSeen' = SeenAfterFailure(e)
  /\ UNCHANGED <<event, aged, files, disk, list, step, adding, crashes, pruned>>

\* atomic_write(destination)
Written(i) == files' = files \cup {i}

\* fetch_image and atomic_write(destination): the picture may be a later event's.
StorePicture(e) ==
  /\ step = "poll" /\ todo[e] # 0
  /\ adding' = [entity |-> e, event |-> todo[e], picture |-> event[e]]
  /\ Written(adding')
  /\ step' = "insert"
  /\ UNCHANGED <<event, aged, disk, list, lastSeen, todo, crashes, pruned>>

\* _prune_locked: by age, then by number.
Kept(snapshots) ==
  LET young == Select(snapshots, Item \ aged)
  IN IF Len(young) <= MaxSnapshots THEN young ELSE SubSeq(young, 1, MaxSnapshots)

\* The entry goes to the head; pruned pictures are unlinked one by one, and one
\* that cannot be, or that the process does not get to, stays.
Insert ==
  /\ step = "insert" /\ step' = "write"
  /\ lastSeen' = [lastSeen EXCEPT ![adding.entity] = adding.event]
  /\ aged' = aged \ {adding}
  /\ list' = Kept(<<adding>> \o list)
  /\ LET removed == Range(<<adding>> \o list) \ Range(list')
     IN /\ pruned' = (pruned \ {adding}) \cup removed
        /\ \E left \in SUBSET removed : files' = files \ (removed \ left)
  /\ UNCHANGED <<event, disk, todo, adding, crashes>>

Done(e) == todo' = [todo EXCEPT ![e] = 0] /\ step' = "poll" /\ adding' = <<>>

WriteManifest ==
  /\ step = "write"
  /\ disk' = list
  /\ Done(adding.entity)
  /\ UNCHANGED <<event, aged, files, list, lastSeen, crashes, pruned>>

\* The entry stays in memory only; the next one writes it along.
WriteFails ==
  /\ step = "write"
  /\ Done(adding.entity)
  /\ UNCHANGED <<event, aged, files, disk, list, lastSeen, crashes, pruned>>

----------------------------------------------------------------------------
(* _load *)

\* The manifest is newest first: the first entry of each entity.
FirstEvents(snapshots) ==
  [e \in Entities |->
     LET ofE == Select(snapshots, {i \in Item : i.entity = e})
     IN IF ofE = <<>> THEN 0 ELSE Head(ofE).event]

\* The process dies and a new one starts; a manifest it cannot read is ignored,
\* and overwritten by the next capture.
Restart(readable) ==
  /\ crashes < MaxCrashes /\ crashes' = crashes + 1
  /\ list' = IF readable THEN disk ELSE <<>>
  /\ lastSeen' = FirstEvents(list')
  /\ todo' = None /\ step' = "poll" /\ adding' = <<>>
  /\ UNCHANGED <<event, aged, files, disk, pruned>>

StoreNext ==
  \/ \E e \in Entities : Happens(e)
  \/ Age
  \/ Poll
  \/ \E e \in Entities : FetchFails(e) \/ StorePicture(e)
  \/ Insert
  \/ WriteManifest \/ WriteFails
  \/ \E readable \in BOOLEAN : Restart(readable)

StoreSpec == StoreInit /\ [][StoreNext]_storeVars

\* The poll loop goes on, and a picture asked for again and again is had in the
\* end.
StoreFairSpec ==
  /\ StoreSpec
  /\ WF_storeVars(Poll) /\ WF_storeVars(Insert) /\ WF_storeVars(WriteManifest \/ WriteFails)
  /\ \A e \in Entities : SF_storeVars(StorePicture(e))

----------------------------------------------------------------------------
(* Properties *)

\* Entries are entries, and what add() is about is one while it runs.
StoreTypeOK ==
  /\ {event, lastSeen, todo} \subseteq [Entities -> Nat]
  /\ aged \subseteq Item /\ files \subseteq Item /\ pruned \subseteq Item
  /\ list \in Seq(Item) /\ disk \in Seq(Item)
  /\ step \in {"poll", "insert", "write"}
  /\ adding \in Item \cup {<<>>} /\ (step = "poll") = (adding = <<>>)
  /\ crashes \in 0 .. MaxCrashes

\* The timeline shows a picture it does not have only when retention had already
\* removed that entry: a crash or a failed write between the unlink and the
\* manifest brings back what was pruned, and nothing else is ever lost.
ListedIsStored == \A i \in Range(list) : i \in files \cup pruned

\* No event is listed twice, in memory or on disk: not after a restart, which
\* rebuilds last_seen from the manifest ("Otherwise an older retained event would
\* be re-captured on restart"), and not after a failed manifest write.
CapturedOnce ==
  \A s \in {list, disk} : \A i, j \in 1 .. Len(s) :
    s[i].entity = s[j].entity /\ s[i].event = s[j].event => i = j

\* Once events stop, as the bound makes them, the last one of each entity is
\* listed in the end and whenever it was not, through failed fetches, failed
\* writes and restarts, until retention removes it.
EventIsListed ==
  \A e \in Entities :
    []<>(event[e] = 0 \/
         \E i \in Range(list) \cup pruned : i.entity = e /\ i.event = event[e])
=============================================================================
