----------------------------- MODULE BayStream ------------------------------
(***************************************************************************)
(* How what a BayWatch agent publishes reaches bw-ui: reconcile's snapshot *)
(* and slot events (agent/main.go), the agent's hub that drops for a slow  *)
(* client (agent/hub.go), the /v1/stream connection, and the model bw-ui   *)
(* keeps of the host (ui/fleet.go).                                        *)
(*                                                                         *)
(* A slot's value is what changed() compares of it: the model, serial,     *)
(* size, pool and locate deadline it does not compare never cause an event *)
(* and are left out. A bay may be missing from a snapshot. A message can   *)
(* wait in the hub's channel and in the response's buffers.                *)
(* The backoff between connections and the fan-out from bw-ui to browsers, *)
(* which uses a copy of the same hub, are left out.                        *)
(***************************************************************************)
EXTENDS Naturals, Sequences, FiniteSets, SequencesExt

CONSTANTS
  BayNames, Values,
  Missing,       \* the value of a bay that a pass did not read
  Buffer,        \* capacity of a subscriber's channel (64)
  Wire           \* messages the response buffers before a write blocks

BayNamesFinite   == IsFiniteSet(BayNames)
CapacitiesAreNat == Buffer \in Nat /\ Wire \in Nat \ {0}
MissingIsNone    == Missing \notin Values

VARIABLES
  cur,       \* a.cur: <<>> before the first pass, else <<snapshot>>
  topub,     \* slot events this pass has still to publish
  handler,   \* handleStream: "none", "subscribed", "read", "streaming"
  read,      \* the snapshot it read and has not written yet
  channel,   \* its channel in the hub
  dropped,   \* ghost: the hub dropped a message of this subscription
  wire,      \* the response, as far as bw-ui has not read it
  conn,      \* bw-ui: "down", "up", or "closing" once the stream broke
  view,      \* f.hosts: <<>> before any snapshot, else <<what it holds>>
  online     \* hs.Online

agent      == <<cur, topub>>
stream     == <<handler, read, channel, dropped>>
ui         == <<view, online>>
streamVars == <<agent, stream, wire, conn, ui>>

Snapshots  == [BayNames -> Values \cup {Missing}]
OneAtMost  == {<<>>} \cup {<<snap>> : snap \in Snapshots}
Slot(b, v) == [bay |-> b, value |-> v]
Slots      == [bay : BayNames, value : Values]
SnapshotEvent(snap) == [snapshot |-> snap]

StreamInit ==
  /\ cur = <<>> /\ topub = <<>>
  /\ handler = "none" /\ read = <<>> /\ channel = <<>> /\ dropped = FALSE
  /\ wire = <<>> /\ conn = "down"
  /\ view = <<>> /\ online = FALSE

----------------------------------------------------------------------------
(* The agent *)

\* changed(prev[key], slot): a bay that was missing has no previous slot.
Changed(snap) ==
  {b \in BayNames : snap[b] # Missing /\ (cur = <<>> \/ cur[1][b] # snap[b])}

\* reconcile: the new snapshot is visible before its events are published.
Publish(snap) ==
  /\ topub = <<>>
  /\ cur' = <<snap>>
  /\ \E order \in SetToSeqs(Changed(snap)) :
       topub' = [i \in 1 .. Len(order) |-> Slot(order[i], snap[order[i]])]
  /\ UNCHANGED <<stream, wire, conn, ui>>

\* Faulty variants: the channel joins the hub once the snapshot is written;
\* the channel takes one message more than it holds.
SubscribedLate == handler = "streaming"
Subscribed == handler # "none"
Room       == Len(channel) < Buffer

\* hub.pub: "drop for slow consumers".
Pub ==
  /\ topub # <<>>
  /\ topub' = Tail(topub)
  /\ channel' = IF Subscribed /\ Room THEN Append(channel, Head(topub)) ELSE channel
  /\ dropped' = (dropped \/ (Subscribed /\ ~Room))
  /\ UNCHANGED <<cur, handler, read, wire, conn, ui>>

\* handleStream: the channel joins the hub, then the snapshot is read, then it
\* is written, then messages are.
Connect ==
  /\ conn = "down"
  /\ conn' = "up"
  /\ handler' = "subscribed" /\ channel' = <<>> /\ dropped' = FALSE
  /\ UNCHANGED <<agent, read, wire, ui>>

ReadCur ==
  /\ handler = "subscribed"
  /\ read' = cur
  /\ handler' = IF cur = <<>> THEN "streaming" ELSE "read"
  /\ UNCHANGED <<agent, channel, dropped, wire, conn, ui>>

WriteSnapshot ==
  /\ handler = "read"
  /\ Len(wire) < Wire
  /\ wire' = Append(wire, SnapshotEvent(read[1]))
  /\ read' = <<>> /\ handler' = "streaming"
  /\ UNCHANGED <<agent, channel, dropped, conn, ui>>

Forward ==
  /\ handler = "streaming"
  /\ channel # <<>>
  /\ Len(wire) < Wire
  /\ wire' = Append(wire, Head(channel))
  /\ channel' = Tail(channel)
  /\ UNCHANGED <<agent, handler, read, dropped, conn, ui>>

----------------------------------------------------------------------------
(* bw-ui: one goroutine per agent reads, dispatches and reconnects. *)

\* applySlot: a host or a bay no snapshot has shown is ignored.
Apply(slot) ==
  IF view = <<>> THEN UNCHANGED ui
  ELSE /\ online' = TRUE
       /\ view' = IF view[1][slot.bay] = Missing THEN view
                  ELSE <<[view[1] EXCEPT ![slot.bay] = slot.value]>>

Receive ==
  /\ wire # <<>>
  /\ wire' = Tail(wire)
  /\ IF "snapshot" \in DOMAIN Head(wire)
     THEN view' = <<Head(wire).snapshot>> /\ online' = TRUE
     ELSE Apply(Head(wire))
  /\ UNCHANGED <<agent, stream, conn>>

\* The stream ended and everything received of it was dispatched.
MarkOffline ==
  /\ conn = "closing"
  /\ wire = <<>>
  /\ conn' = "down" /\ online' = FALSE
  /\ UNCHANGED <<agent, stream, wire, view>>

----------------------------------------------------------------------------
(* Failures. The handler returns, leaves the hub, and some of what it wrote  *)
(* arrives.                                                                  *)

HandlerEnds ==
  /\ handler' = "none" /\ read' = <<>> /\ channel' = <<>> /\ dropped' = FALSE
  /\ conn' = IF conn = "up" THEN "closing" ELSE conn
  /\ \E n \in 0 .. Len(wire) : wire' = SubSeq(wire, 1, n)

Break ==
  /\ conn = "up"
  /\ HandlerEnds
  /\ UNCHANGED <<agent, ui>>

AgentRestarts ==
  /\ cur # <<>>
  /\ cur' = <<>> /\ topub' = <<>>
  /\ HandlerEnds
  /\ UNCHANGED ui

UiRestarts ==
  /\ view # <<>>
  /\ view' = <<>> /\ online' = FALSE
  /\ conn' = "down" /\ wire' = <<>>
  /\ handler' = "none" /\ read' = <<>> /\ channel' = <<>> /\ dropped' = FALSE
  /\ UNCHANGED agent

Fleet == Connect \/ Receive \/ MarkOffline

StreamNext ==
  \/ \E snap \in Snapshots : Publish(snap)
  \/ Pub \/ ReadCur \/ WriteSnapshot \/ Forward
  \/ Fleet
  \/ Break \/ AgentRestarts \/ UiRestarts

StreamSpec == StreamInit /\ [][StreamNext]_streamVars

----------------------------------------------------------------------------
(* Properties *)

\* Snapshots, events and connection states have their types, and a subscriber's
\* channel stays within its capacity.
StreamTypeOK ==
  /\ cur \in OneAtMost
  /\ topub \in Seq(Slots)
  /\ handler \in {"none", "subscribed", "read", "streaming"}
  /\ read \in OneAtMost
  /\ channel \in Seq(Slots) /\ Len(channel) <= Buffer
  /\ dropped \in BOOLEAN
  /\ wire \in Seq(Slots \cup [snapshot : Snapshots]) /\ Len(wire) <= Wire
  /\ conn \in {"down", "up", "closing"}
  /\ view \in OneAtMost
  /\ online \in BOOLEAN

\* Nothing is on its way to bw-ui.
Settled == handler = "streaming" /\ topub = <<>> /\ channel = <<>> /\ wire = <<>>

\* "state is idempotent": a snapshot may already hold events that arrive after
\* it, and older ones overwrite it on the way. Unless the hub dropped something,
\* a view that everything has reached still ends as what the agent published
\* last, for every bay both of them know.
ViewConverges ==
  Settled /\ ~dropped /\ view # <<>> =>
    \A b \in BayNames :
      view[1][b] # Missing /\ cur # <<>> /\ cur[1][b] # Missing => view[1][b] = cur[1][b]

=============================================================================
