--------------------------- MODULE AlertDelivery ---------------------------
(***************************************************************************)
(* What the alert half of the Home Assistant bridge promises the person    *)
(* with the phone, whatever the disk, the network and the process do:      *)
(*                                                                         *)
(*   - an event is told only after it was committed to durable storage,    *)
(*   - a committed event leaves durable storage only after it was told,    *)
(*   - an event is committed at most once,                                 *)
(*   - the recovery of an incident is never committed before its firing.   *)
(*                                                                         *)
(* AlertBridge implements it with a JSON file and an ambiguous POST.       *)
(***************************************************************************)
CONSTANT Keys            \* incidents: one key per (labels, startsAt) pair

Events == Keys \X {"firing", "resolved"}

VARIABLES
  queued,                \* committed events that may still have to be told
  told                   \* events the phone has been shown at least once

vars == <<queued, told>>

TypeOK ==
  /\ queued \subseteq Events
  /\ told \subseteq Events

Init ==
  /\ queued = {}
  /\ told = {}

\* One atomic write: new events come in, events already told may go out.
Commit(new, done) ==
  /\ new \cap (queued \cup told) = {}
  /\ done \subseteq queued \cap told
  /\ \A k \in Keys : <<k, "resolved">> \in new =>
       <<k, "firing">> \in new \cup queued \cup told
  /\ queued' = (queued \ done) \cup new
  /\ UNCHANGED told

\* The phone shows a batch. Nothing says the sender learns of it.
Tell(batch) ==
  /\ batch \subseteq queued
  /\ told' = told \cup batch
  /\ UNCHANGED queued

Next ==
  \/ \E new, done \in SUBSET Events : Commit(new, done)
  \/ \E batch \in SUBSET Events : Tell(batch)

Spec == Init /\ [][Next]_vars
=============================================================================
