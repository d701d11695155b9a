-------------------------- MODULE BayWatch_proofs -------------------------
(***************************************************************************)
(* bw-ui ends with what the agent published last, for any bays, values and *)
(* capacities, through lost connections and restarts of either side.       *)
(*                                                                         *)
(* What a message says of a bay may be old, but the last one on its way    *)
(* that says anything of it is right. The way is looked at from its end:   *)
(* what the pass has still to publish, then the channel, then - as far as  *)
(* the handler is - the snapshot to be read, the one to be written, or the *)
(* response and the view it changes (Reaches). A subscriber that missed    *)
(* part of a pass is right too, because the snapshot it is sent is read    *)
(* after it subscribed, and one that gets no snapshot shows no bays.       *)
(*                                                                         *)
(* The last section is about the agent that publishes (BayAgent): its      *)
(* types, and that no kick of its loop is lost that matters.               *)
(***************************************************************************)
EXTENDS BayStream, BayAgent, Basics_proofs, FiniteSetTheorems, FunctionTheorems

Messages == Slots \cup [snapshot : Snapshots]

\* m says something of bay b, and it says v: a snapshot without the bay does
\* as well, since what is not shown is not updated.
About(m, b) == "snapshot" \in DOMAIN m \/ m.bay = b
Tells(m, b, v) ==
  IF "snapshot" \in DOMAIN m THEN m.snapshot[b] \in {v, Missing} ELSE m.bay = b /\ m.value = v

\* Nothing of s is about b; the last of s that is tells v.
Silent(s, b) == \A i \in 1 .. Len(s) : ~About(s[i], b)
Ends(s, b, v) ==
  \E i \in 1 .. Len(s) : Tells(s[i], b, v) /\ \A j \in i + 1 .. Len(s) : ~About(s[j], b)

\* What bw-ui has, or is to get as a whole, of bay b agrees with v.
Rests(b, v) ==
  \/ handler = "subscribed"
  \/ handler = "read" /\ read[1][b] \in {v, Missing}
  \/ /\ handler = "streaming"
     /\ \/ Ends(wire, b, v)
        \/ Silent(wire, b) /\ (view # <<>> => view[1][b] \in {v, Missing})

Reaches(b, v) ==
  \/ Ends(topub, b, v)
  \/ Silent(topub, b) /\ Ends(channel, b, v)
  \/ Silent(topub, b) /\ Silent(channel, b) /\ Rests(b, v)

\* The events of a pass are of its snapshot, one per bay.
PassIsCurrent ==
  /\ cur = <<>> => topub = <<>>
  /\ \A i \in 1 .. Len(topub) : topub[i].value = cur[1][topub[i].bay]
  /\ \A i, j \in 1 .. Len(topub) : topub[i].bay = topub[j].bay => i = j

LastIsCurrent ==
  cur # <<>> /\ ~dropped /\ handler # "none" =>
    \A b \in BayNames : cur[1][b] # Missing => Reaches(b, cur[1][b])

IInv ==
  /\ StreamTypeOK
  /\ handler = "read" => read # <<>>
  /\ PassIsCurrent
  /\ LastIsCurrent

----------------------------------------------------------------------------
(* Messages and sequences of them. *)

\* A slot event is no snapshot.
LEMMA MessageKinds ==
  /\ \A m \in Slots : "snapshot" \notin DOMAIN m /\ m.bay \in BayNames /\ m.value \in Values
  /\ \A m \in [snapshot : Snapshots] : "snapshot" \in DOMAIN m /\ m.snapshot \in Snapshots
BY DEF Slots

\* What tells of a bay is about it.
LEMMA TellsIsAbout ==
  ASSUME NEW m, NEW b, NEW v, Tells(m, b, v) PROVE About(m, b)
BY DEF Tells, About

\* A snapshot or a view that is there is one.
LEMMA OneIsSnapshot == ASSUME NEW x \in OneAtMost, x # <<>> PROVE x[1] \in Snapshots /\ x = <<x[1]>>
BY DEF OneAtMost

\* A message put at the end is the last word, if it is about the bay.
LEMMA AppendTells ==
  ASSUME NEW S, NEW s \in Seq(S), NEW m \in S, NEW b, NEW v
  PROVE  /\ Ends(Append(s, m), b, v) <=> Tells(m, b, v) \/ (~About(m, b) /\ Ends(s, b, v))
         /\ Silent(Append(s, m), b) <=> Silent(s, b) /\ ~About(m, b)
<1> DEFINE t == Append(s, m)
           n == Len(s)
<1>1. /\ n \in Nat /\ Len(t) = n + 1 /\ t[n + 1] = m
      /\ \A i \in 1 .. n : t[i] = s[i]
  OBVIOUS
<1> HIDE DEF t
<1>2. n + 1 \in 1 .. n + 1 /\ (n + 1) + 1 .. n + 1 = {} /\ \A i \in 1 .. n : i \in 1 .. n + 1 /\ n + 1 \in i + 1 .. n + 1
  BY <1>1
<1>3. Silent(t, b) <=> Silent(s, b) /\ ~About(m, b)
  <2>1. \A i \in 1 .. n + 1 : i \in 1 .. n \/ i = n + 1
    BY <1>1
  <2> QED BY <1>1, <1>2, <2>1 DEF Silent
<1>4. ASSUME Tells(m, b, v) PROVE Ends(t, b, v)
  BY <1>1, <1>2, <1>4 DEF Ends
<1>5. ASSUME ~About(m, b), Ends(s, b, v) PROVE Ends(t, b, v)
  <2>1. PICK i \in 1 .. n : Tells(s[i], b, v) /\ \A j \in i + 1 .. n : ~About(s[j], b)
    BY <1>5 DEF Ends
  <2>2. \A j \in i + 1 .. n + 1 : j = n + 1 \/ j \in i + 1 .. n
    BY <1>1
  <2>3. \A j \in i + 1 .. n : j \in 1 .. n
    BY <1>1
  <2>4. \A j \in i + 1 .. n + 1 : ~About(t[j], b)
    BY <1>1, <1>5, <2>1, <2>2, <2>3
  <2> QED BY <1>1, <1>2, <2>1, <2>4 DEF Ends
<1>6. ASSUME Ends(t, b, v) PROVE Tells(m, b, v) \/ (~About(m, b) /\ Ends(s, b, v))
  <2>1. PICK i \in 1 .. n + 1 : Tells(t[i], b, v) /\ \A j \in i + 1 .. n + 1 : ~About(t[j], b)
    BY <1>1, <1>6 DEF Ends
  <2>2. CASE i = n + 1
    BY <1>1, <2>1, <2>2
  <2>3. CASE i \in 1 .. n
    <3>1. ~About(m, b)
      BY <1>1, <1>2, <2>1, <2>3
    <3>2. \A j \in i + 1 .. n : j \in i + 1 .. n + 1 /\ j \in 1 .. n
      BY <1>1, <2>3
    <3>3. Ends(s, b, v)
      BY <1>1, <2>1, <2>3, <3>2 DEF Ends
    <3> QED BY <3>1, <3>3
  <2> QED BY <2>2, <2>3, <1>1
<1> QED BY <1>3, <1>4, <1>5, <1>6 DEF t

\* The first message is the last word only if nothing else is about the bay.
LEMMA HeadTells ==
  ASSUME NEW S, NEW s \in Seq(S), s # <<>>, NEW b, NEW v
  PROVE  /\ Ends(s, b, v) <=> Ends(Tail(s), b, v) \/ (Silent(Tail(s), b) /\ Tells(Head(s), b, v))
         /\ Silent(s, b) <=> ~About(Head(s), b) /\ Silent(Tail(s), b)
<1> DEFINE t == Tail(s)
           n == Len(s)
<1>1. /\ n \in Nat \ {0} /\ Len(t) = n - 1 /\ Head(s) = s[1]
      /\ \A i \in 1 .. n - 1 : t[i] = s[i + 1]
  OBVIOUS
<1> HIDE DEF t, n
<1>2. /\ \A i \in 1 .. n - 1 : i + 1 \in 2 .. n
      /\ \A i \in 2 .. n : i - 1 \in 1 .. n - 1 /\ (i - 1) + 1 = i /\ i \in 1 .. n
      /\ 1 \in 1 .. n /\ \A i \in 1 .. n : i = 1 \/ i \in 2 .. n
  BY <1>1
<1>3. \A i \in 2 .. n : s[i] = t[i - 1]
  BY <1>1, <1>2
<1>4. Silent(s, b) <=> ~About(s[1], b) /\ Silent(t, b)
  BY <1>1, <1>2, <1>3 DEF Silent, n
<1>5. ASSUME Ends(t, b, v) PROVE Ends(s, b, v)
  <2>1. PICK i \in 1 .. n - 1 : Tells(t[i], b, v) /\ \A j \in i + 1 .. n - 1 : ~About(t[j], b)
    BY <1>1, <1>5 DEF Ends
  <2>2. \A j \in (i + 1) + 1 .. n : j - 1 \in i + 1 .. n - 1 /\ j \in 2 .. n
    BY <1>1
  <2>3. i + 1 \in 1 .. n
    BY <1>1
  <2> QED BY <1>1, <1>3, <2>1, <2>2, <2>3 DEF Ends, n
<1>6. ASSUME Silent(t, b), Tells(s[1], b, v) PROVE Ends(s, b, v)
  <2>1. \A j \in 1 + 1 .. n : ~About(s[j], b)
    BY <1>1, <1>2, <1>3, <1>6 DEF Silent
  <2> QED BY <1>2, <1>6, <2>1 DEF Ends, n
<1>7. ASSUME Ends(s, b, v) PROVE Ends(t, b, v) \/ (Silent(t, b) /\ Tells(s[1], b, v))
  <2>1. PICK i \in 1 .. n : Tells(s[i], b, v) /\ \A j \in i + 1 .. n : ~About(s[j], b)
    BY <1>7 DEF Ends, n
  <2>2. CASE i = 1
    <3>1. \A j \in 1 .. n - 1 : j + 1 \in i + 1 .. n
      BY <1>1, <2>2
    <3> QED BY <1>1, <2>1, <2>2, <3>1 DEF Silent
  <2>3. CASE i \in 2 .. n
    <3>1. \A j \in (i - 1) + 1 .. n - 1 : j + 1 \in i + 1 .. n /\ j \in 1 .. n - 1
      BY <1>1, <2>3
    <3> QED BY <1>1, <1>2, <1>3, <2>1, <2>3, <3>1 DEF Ends
  <2> QED BY <1>2, <2>2, <2>3
<1> QED BY <1>1, <1>4, <1>5, <1>6, <1>7 DEF t

\* An empty sequence says nothing.
LEMMA EmptySays == \A b, v : Silent(<<>>, b) /\ ~Ends(<<>>, b, v)
BY DEF Silent, Ends

\* The events of a pass: one of each bay that changed.
LEMMA PassProperties ==
  ASSUME BayNamesFinite, NEW snap \in Snapshots, NEW order \in SetToSeqs(Changed(snap)),
         NEW events, events = [i \in 1 .. Len(order) |-> Slot(order[i], snap[order[i]])]
  PROVE  /\ events \in Seq(Slots)
         /\ \A i \in 1 .. Len(events) : events[i].value = snap[events[i].bay]
         /\ \A i, j \in 1 .. Len(events) : events[i].bay = events[j].bay => i = j
         /\ \A b \in Changed(snap) : Ends(events, b, snap[b])
         /\ \A b \in BayNames \ Changed(snap) : Silent(events, b)
<1> DEFINE n == Cardinality(Changed(snap))
<1>1. IsFiniteSet(Changed(snap)) /\ n \in Nat
  <2>1. Changed(snap) \in SUBSET BayNames
    BY DEF Changed
  <2> QED BY <2>1, FS_Subset, FS_CardinalityType DEF BayNamesFinite
<1> HIDE DEF n
<1>2. order \in [1 .. n -> Changed(snap)] /\ \A i, j \in 1 .. n : i # j => order[i] # order[j]
  BY DEF SetToSeqs, n
<1>3. order \in Surjection(1 .. n, Changed(snap))
  <2>1. order \in Injection(1 .. n, Changed(snap))
    BY <1>2, Fun_IsInj
  <2>2. Cardinality(1 .. n) = n
    BY <1>1, FS_Interval
  <2> QED BY <1>1, <2>1, <2>2, FS_Injection DEF n
<1>4. \A b \in Changed(snap) : \E i \in 1 .. n : order[i] = b
  BY <1>3 DEF Surjection
<1>5. Len(order) = n
  BY <1>1, <1>2
<1>6. ASSUME NEW i \in 1 .. n
      PROVE  /\ events[i] \in Slots /\ events[i].value = snap[events[i].bay]
             /\ events[i].bay = order[i] /\ events[i].value = snap[order[i]]
             /\ order[i] \in Changed(snap) /\ "snapshot" \notin DOMAIN events[i]
  <2>1. order[i] \in BayNames /\ snap[order[i]] \in Values /\ order[i] \in Changed(snap)
    BY <1>2 DEF Changed, Snapshots
  <2>2. events[i] = Slot(order[i], snap[order[i]])
    BY <1>5
  <2>3. events[i] \in Slots /\ events[i].bay = order[i] /\ events[i].value = snap[order[i]]
    BY <2>1, <2>2 DEF Slot, Slots
  <2>4. events[i].value = snap[events[i].bay]
    BY <2>3
  <2> QED BY <2>1, <2>3, <2>4, MessageKinds
<1>7. events \in Seq(Slots) /\ Len(events) = n
  <2>1. DOMAIN events = 1 .. n /\ \A i \in 1 .. n : events[i] \in Slots
    BY <1>5, <1>6
  <2>2. events = [i \in 1 .. n |-> events[i]]
    BY <1>5
  <2>3. events \in [1 .. n -> Slots]
    BY <2>1, <2>2, Zenon
  <2> QED BY <1>1, <2>3
<1>8. ASSUME NEW i \in 1 .. n, NEW j \in 1 .. n, events[i].bay = events[j].bay PROVE i = j
  <2>1. order[i] = order[j]
    BY <1>6, <1>8
  <2> QED BY <1>2, <2>1
<1>9. ASSUME NEW b \in Changed(snap) PROVE Ends(events, b, snap[b])
  <2>1. PICK i \in 1 .. n : order[i] = b
    BY <1>4
  <2>2. Tells(events[i], b, snap[b])
    BY <1>6, <2>1 DEF Tells
  <2>3. \A j \in i + 1 .. n : j \in 1 .. n /\ j # i
    BY <1>1
  <2>4. \A j \in i + 1 .. n : ~About(events[j], b)
    BY <1>2, <1>6, <2>1, <2>3 DEF About
  <2> QED BY <1>7, <2>2, <2>4 DEF Ends
<1>10. ASSUME NEW b \in BayNames \ Changed(snap) PROVE Silent(events, b)
  BY <1>6, <1>7 DEF Silent, About
<1>11. \A i \in 1 .. Len(events) : events[i].value = snap[events[i].bay]
  BY <1>6, <1>7
<1>12. \A i, j \in 1 .. Len(events) : events[i].bay = events[j].bay => i = j
  BY <1>7, <1>8
<1> QED BY <1>7, <1>9, <1>10, <1>11, <1>12

----------------------------------------------------------------------------
(* The invariant, step by step. *)

Capacities == BayNamesFinite /\ CapacitiesAreNat

\* An empty channel or response has room.
LEMMA NothingFits == ASSUME Capacities PROVE Len(<<>>) <= Buffer /\ Len(<<>>) <= Wire
<1>1. Len(<<>>) = 0
  OBVIOUS
<1> QED BY <1>1 DEF Capacities, CapacitiesAreNat

\* Nothing is connected at first.
LEMMA InitIInv == ASSUME Capacities, StreamInit PROVE IInv
<1>1. <<>> \in OneAtMost /\ <<>> \in Seq(Slots) /\ <<>> \in Seq(Slots \cup [snapshot : Snapshots])
  BY DEF OneAtMost
<1>3. Len(<<>>) <= Buffer /\ Len(<<>>) <= Wire
  BY NothingFits
<1>2. StreamTypeOK
  BY <1>1, <1>3 DEF StreamInit, StreamTypeOK
<1> QED BY <1>1, <1>2 DEF StreamInit, IInv, PassIsCurrent, LastIsCurrent

\* The pass whose events are to be published, and what bw-ui is to get.
LEMMA PublishKeeps ==
  ASSUME Capacities, IInv, NEW snap \in Snapshots, Publish(snap) PROVE IInv'
<1>1. /\ topub = <<>> /\ cur' = <<snap>>
      /\ UNCHANGED <<handler, read, channel, dropped, wire, conn, view, online>>
  BY DEF Publish, stream, ui
<1>2. PICK order \in SetToSeqs(Changed(snap)) :
        topub' = [i \in 1 .. Len(order) |-> Slot(order[i], snap[order[i]])]
  BY DEF Publish
<1>3. /\ topub' \in Seq(Slots)
      /\ \A i \in 1 .. Len(topub') : topub'[i].value = snap[topub'[i].bay]
      /\ \A i, j \in 1 .. Len(topub') : topub'[i].bay = topub'[j].bay => i = j
      /\ \A b \in Changed(snap) : Ends(topub', b, snap[b])
      /\ \A b \in BayNames \ Changed(snap) : Silent(topub', b)
  <2>1. BayNamesFinite
    BY DEF Capacities
  <2> QED BY <1>2, <2>1, PassProperties
<1>4. cur' \in OneAtMost /\ cur' # <<>> /\ cur'[1] = snap
  BY <1>1 DEF OneAtMost
<1>5. StreamTypeOK'
  BY <1>1, <1>3, <1>4 DEF IInv, StreamTypeOK
<1>6. PassIsCurrent'
  BY <1>3, <1>4 DEF PassIsCurrent
<1>7. LastIsCurrent'
  <2> SUFFICES ASSUME ~dropped, handler # "none", NEW b \in BayNames, snap[b] # Missing
               PROVE  Reaches(b, snap[b])'
    BY <1>1, <1>4 DEF LastIsCurrent
  <2>1. CASE b \in Changed(snap)
    BY <1>3, <2>1 DEF Reaches
  <2>2. CASE b \notin Changed(snap)
    <3>1. cur # <<>> /\ cur[1][b] = snap[b]
      BY <2>2 DEF Changed
    <3>2. Reaches(b, snap[b])
      BY <3>1 DEF IInv, LastIsCurrent
    <3>3. Silent(topub', b)
      BY <1>3, <2>2
    <3> QED BY <1>1, <3>2, <3>3, EmptySays DEF Reaches, Rests
  <2> QED BY <2>1, <2>2
<1> QED BY <1>1, <1>5, <1>6, <1>7 DEF IInv

\* An event goes into the channel, or is dropped, or nobody is there.
LEMMA PubKeeps == ASSUME Capacities, IInv, Pub PROVE IInv'
<1> DEFINE m == Head(topub)
<1>1. /\ topub # <<>> /\ topub' = Tail(topub)
      /\ channel' = IF Subscribed /\ Room THEN Append(channel, m) ELSE channel
      /\ dropped' = (dropped \/ (Subscribed /\ ~Room))
      /\ UNCHANGED <<cur, handler, read, wire, conn, view, online>>
  BY DEF Pub, ui
<1>2. topub \in Seq(Slots) /\ channel \in Seq(Slots) /\ m \in Slots
  BY <1>1 DEF IInv, StreamTypeOK
<1>3. /\ topub' \in Seq(Slots) /\ Len(topub) \in Nat \ {0} /\ Len(topub') = Len(topub) - 1
      /\ \A i \in 1 .. Len(topub) - 1 : topub'[i] = topub[i + 1]
  BY <1>1, <1>2
<1> HIDE DEF m
<1>4. channel' \in Seq(Slots) /\ Len(channel') <= Buffer
  BY <1>1, <1>2 DEF IInv, StreamTypeOK, Room, Capacities, CapacitiesAreNat
<1>5. StreamTypeOK'
  BY <1>1, <1>3, <1>4 DEF IInv, StreamTypeOK
<1>6. PassIsCurrent'
  <2>1. \A i \in 1 .. Len(topub) - 1 : i + 1 \in 1 .. Len(topub)
    BY <1>3
  <2>2. \A i, j \in 1 .. Len(topub) - 1 : i + 1 = j + 1 => i = j
    BY <1>3
  <2>3. cur' # <<>>
    BY <1>1 DEF IInv, PassIsCurrent
  <2>4. \A i \in 1 .. Len(topub') : topub'[i].value = cur[1][topub'[i].bay]
    BY <1>3, <2>1 DEF IInv, PassIsCurrent
  <2>5. \A i, j \in 1 .. Len(topub') : topub'[i].bay = topub'[j].bay => i = j
    BY <1>3, <2>1, <2>2 DEF IInv, PassIsCurrent
  <2> QED BY <1>1, <2>3, <2>4, <2>5 DEF PassIsCurrent
<1>7. LastIsCurrent'
  <2> SUFFICES ASSUME cur # <<>>, ~dropped', handler # "none", NEW b \in BayNames, cur[1][b] # Missing
               PROVE  Reaches(b, cur[1][b])'
    BY <1>1 DEF LastIsCurrent
  <2> DEFINE v == cur[1][b]
  <2>1. ~dropped /\ channel' = Append(channel, m)
    BY <1>1 DEF Subscribed
  <2>2. Reaches(b, v)
    BY <2>1 DEF IInv, LastIsCurrent
  <2> HIDE DEF v
  <2>3. /\ Ends(topub, b, v) <=> Ends(topub', b, v) \/ (Silent(topub', b) /\ Tells(m, b, v))
        /\ Silent(topub, b) <=> ~About(m, b) /\ Silent(topub', b)
    BY <1>1, <1>2, HeadTells DEF m
  <2>4. /\ Ends(channel', b, v) <=> Tells(m, b, v) \/ (~About(m, b) /\ Ends(channel, b, v))
        /\ Silent(channel', b) <=> Silent(channel, b) /\ ~About(m, b)
    BY <1>2, <2>1, AppendTells
  <2>5. Rests(b, v) <=> Rests(b, v)'
    BY <1>1 DEF Rests, v
  <2>6. v' = v
    BY <1>1 DEF v
  <2> QED BY <1>1, <2>2, <2>3, <2>4, <2>5, <2>6 DEF Reaches, v
<1> QED BY <1>1, <1>5, <1>6, <1>7 DEF IInv

\* What is left of a pass tells what is current, and the snapshot to be read is.
LEMMA ConnectKeeps == ASSUME Capacities, IInv, Connect PROVE IInv'
<1>1. /\ conn' = "up" /\ handler' = "subscribed" /\ channel' = <<>> /\ dropped' = FALSE
      /\ UNCHANGED <<cur, topub, read, wire, view, online>>
  BY DEF Connect, agent, ui
<1>2. <<>> \in Seq(Slots) /\ Len(<<>>) <= Buffer
  BY NothingFits
<1>3. StreamTypeOK'
  BY <1>1, <1>2 DEF IInv, StreamTypeOK
<1>4. PassIsCurrent'
  BY <1>1 DEF IInv, PassIsCurrent
<1>5. LastIsCurrent'
  <2> SUFFICES ASSUME cur # <<>>, NEW b \in BayNames PROVE Reaches(b, cur[1][b])'
    BY <1>1 DEF LastIsCurrent
  <2>1. topub \in Seq(Slots) /\ Len(topub) \in Nat
    BY DEF IInv, StreamTypeOK
  <2>2. ASSUME NEW i \in 1 .. Len(topub)
        PROVE  "snapshot" \notin DOMAIN topub[i] /\ topub[i].value = cur[1][topub[i].bay]
    <3>1. topub[i] \in Slots
      BY <2>1
    <3> QED BY <3>1, MessageKinds DEF IInv, PassIsCurrent
  <2>3. CASE \E i \in 1 .. Len(topub) : topub[i].bay = b
    <3>1. PICK i \in 1 .. Len(topub) : topub[i].bay = b
      BY <2>3
    <3>2. Tells(topub[i], b, cur[1][b])
      BY <2>2, <3>1 DEF Tells
    <3>3. \A j \in i + 1 .. Len(topub) : j \in 1 .. Len(topub) /\ j # i
      BY <2>1
    <3>4. \A j \in i + 1 .. Len(topub) : ~About(topub[j], b)
      BY <2>2, <3>1, <3>3 DEF IInv, PassIsCurrent, About
    <3>5. Ends(topub, b, cur[1][b])
      BY <3>2, <3>4 DEF Ends
    <3> QED BY <1>1, <3>5 DEF Reaches
  <2>4. CASE ~\E i \in 1 .. Len(topub) : topub[i].bay = b
    <3>1. Silent(topub, b)
      BY <2>2, <2>4 DEF Silent, About
    <3> QED BY <1>1, <3>1, EmptySays DEF Reaches, Rests
  <2> QED BY <2>3, <2>4
<1> QED BY <1>1, <1>3, <1>4, <1>5 DEF IInv

\* The snapshot that is read is the current one, or there is none.
LEMMA ReadCurKeeps == ASSUME Capacities, IInv, ReadCur PROVE IInv'
<1>1. /\ handler = "subscribed" /\ read' = cur /\ handler' = IF cur = <<>> THEN "streaming" ELSE "read"
      /\ UNCHANGED <<cur, topub, channel, dropped, wire, conn, view, online>>
  BY DEF ReadCur, agent, ui
<1>2. StreamTypeOK' /\ PassIsCurrent'
  BY <1>1 DEF IInv, StreamTypeOK, PassIsCurrent
<1>3. LastIsCurrent'
  <2> SUFFICES ASSUME cur # <<>>, ~dropped, NEW b \in BayNames, cur[1][b] # Missing
               PROVE  Reaches(b, cur[1][b])'
    BY <1>1 DEF LastIsCurrent
  <2>1. Reaches(b, cur[1][b])
    BY <1>1 DEF IInv, LastIsCurrent
  <2>2. Rests(b, cur[1][b])'
    BY <1>1 DEF Rests
  <2> QED BY <1>1, <2>1, <2>2 DEF Reaches
<1> QED BY <1>1, <1>2, <1>3 DEF IInv

\* The snapshot is the last of the response.
LEMMA WriteSnapshotKeeps == ASSUME Capacities, IInv, WriteSnapshot PROVE IInv'
<1> DEFINE m == SnapshotEvent(read[1])
<1>1. /\ handler = "read" /\ Len(wire) < Wire /\ wire' = Append(wire, m) /\ read' = <<>> /\ handler' = "streaming"
      /\ UNCHANGED <<cur, topub, channel, dropped, conn, view, online>>
  BY DEF WriteSnapshot, agent, ui
<1>2. /\ m \in [snapshot : Snapshots] /\ m.snapshot = read[1] /\ "snapshot" \in DOMAIN m
      /\ m \in Messages /\ wire \in Seq(Messages)
  <2>1. read[1] \in Snapshots
    BY <1>1, OneIsSnapshot DEF IInv, StreamTypeOK
  <2> QED BY <2>1 DEF SnapshotEvent, Messages, IInv, StreamTypeOK
<1> HIDE DEF m
<1>3. wire' \in Seq(Messages) /\ Len(wire') <= Wire
  BY <1>1, <1>2 DEF Capacities, CapacitiesAreNat
<1>4. StreamTypeOK'
  BY <1>1, <1>3 DEF IInv, StreamTypeOK, OneAtMost, Messages
<1>5. PassIsCurrent'
  BY <1>1 DEF IInv, PassIsCurrent
<1>6. LastIsCurrent'
  <2> SUFFICES ASSUME cur # <<>>, ~dropped, NEW b \in BayNames, cur[1][b] # Missing
               PROVE  Reaches(b, cur[1][b])'
    BY <1>1 DEF LastIsCurrent
  <2> DEFINE v == cur[1][b]
  <2>1. Reaches(b, v)
    BY <1>1 DEF IInv, LastIsCurrent
  <2>2. Ends(wire', b, v) <=> Tells(m, b, v) \/ (~About(m, b) /\ Ends(wire, b, v))
    <3> HIDE DEF v
    <3> QED BY <1>1, <1>2, AppendTells
  <2>3. Rests(b, v) => Tells(m, b, v)
    BY <1>1, <1>2 DEF Rests, Tells
  <2>4. Rests(b, v) => Rests(b, v)'
    BY <1>1, <2>2, <2>3 DEF Rests
  <2> QED BY <1>1, <2>1, <2>4 DEF Reaches
<1> QED BY <1>1, <1>4, <1>5, <1>6 DEF IInv

\* The first of the channel becomes the last of the response.
LEMMA ForwardKeeps == ASSUME Capacities, IInv, Forward PROVE IInv'
<1> DEFINE m == Head(channel)
<1>1. /\ handler = "streaming" /\ channel # <<>> /\ Len(wire) < Wire
      /\ wire' = Append(wire, m) /\ channel' = Tail(channel)
      /\ UNCHANGED <<cur, topub, handler, read, dropped, conn, view, online>>
  BY DEF Forward, agent, ui
<1>2. /\ channel \in Seq(Slots) /\ m \in Slots /\ m \in Messages /\ wire \in Seq(Messages)
      /\ channel' \in Seq(Slots) /\ Len(channel') <= Buffer
  <2>1. channel \in Seq(Slots) /\ Len(channel) <= Buffer /\ wire \in Seq(Messages)
    BY DEF IInv, StreamTypeOK, Messages
  <2>2. m \in Slots /\ Tail(channel) \in Seq(Slots) /\ Len(Tail(channel)) = Len(channel) - 1 /\ Len(channel) \in Nat
    BY <1>1, <2>1
  <2> QED BY <1>1, <2>1, <2>2 DEF Messages, Capacities, CapacitiesAreNat
<1> HIDE DEF m
<1>3. wire' \in Seq(Messages) /\ Len(wire') <= Wire
  BY <1>1, <1>2 DEF Capacities, CapacitiesAreNat
<1>4. StreamTypeOK'
  BY <1>1, <1>2, <1>3 DEF IInv, StreamTypeOK, Messages
<1>5. PassIsCurrent'
  BY <1>1 DEF IInv, PassIsCurrent
<1>6. LastIsCurrent'
  <2> SUFFICES ASSUME cur # <<>>, ~dropped, NEW b \in BayNames, cur[1][b] # Missing
               PROVE  Reaches(b, cur[1][b])'
    BY <1>1 DEF LastIsCurrent
  <2> DEFINE v == cur[1][b]
  <2>1. Reaches(b, v) /\ v' = v
    BY <1>1 DEF IInv, LastIsCurrent
  <2> HIDE DEF v
  <2>2. /\ Ends(wire', b, v) <=> Tells(m, b, v) \/ (~About(m, b) /\ Ends(wire, b, v))
        /\ Silent(wire', b) <=> Silent(wire, b) /\ ~About(m, b)
    BY <1>1, <1>2, AppendTells
  <2>3. /\ Ends(channel, b, v) <=> Ends(channel', b, v) \/ (Silent(channel', b) /\ Tells(m, b, v))
        /\ Silent(channel, b) <=> ~About(m, b) /\ Silent(channel', b)
    BY <1>1, <1>2, HeadTells DEF m
  <2> QED BY <1>1, <2>1, <2>2, <2>3 DEF Reaches, Rests, v
<1> QED BY <1>1, <1>4, <1>5, <1>6 DEF IInv

\* bw-ui applies the first message of the response.
LEMMA ReceiveKeeps == ASSUME Capacities, IInv, Receive PROVE IInv'
<1> DEFINE m == Head(wire)
<1>1. /\ wire # <<>> /\ wire' = Tail(wire) /\ UNCHANGED <<cur, topub, handler, read, channel, dropped, conn>>
  BY DEF Receive, agent, stream
<1>2. /\ wire \in Seq(Messages) /\ m \in Messages /\ wire' \in Seq(Messages) /\ Len(wire') <= Wire
      /\ view \in OneAtMost
  <2>1. wire \in Seq(Messages) /\ Len(wire) <= Wire /\ view \in OneAtMost
    BY DEF IInv, StreamTypeOK, Messages
  <2>2. Tail(wire) \in Seq(Messages) /\ Len(Tail(wire)) = Len(wire) - 1 /\ Len(wire) \in Nat /\ m \in Messages
    BY <1>1, <2>1
  <2> QED BY <1>1, <2>1, <2>2 DEF Capacities, CapacitiesAreNat
<1>3. /\ view' \in OneAtMost /\ online' \in BOOLEAN
      /\ \A b \in BayNames : \A v :
           /\ Tells(m, b, v) /\ view' # <<>> => view'[1][b] \in {v, Missing}
           /\ ~About(m, b) /\ view' # <<>> => view # <<>> /\ view'[1][b] = view[1][b]
  <2>1. CASE "snapshot" \in DOMAIN m
    <3>1. m \in [snapshot : Snapshots]
      BY <1>2, <2>1, MessageKinds DEF Messages
    <3>2. view' = <<m.snapshot>> /\ online' = TRUE /\ m.snapshot \in Snapshots
      BY <2>1, <3>1, MessageKinds DEF Receive
    <3>3. view' \in OneAtMost /\ view'[1] = m.snapshot
      BY <3>2 DEF OneAtMost
    <3> QED BY <2>1, <3>2, <3>3 DEF Tells, About
  <2>2. CASE "snapshot" \notin DOMAIN m
    <3>1. m \in Slots /\ m.bay \in BayNames /\ m.value \in Values
      BY <1>2, <2>2, MessageKinds DEF Messages
    <3>2. Apply(m)
      BY <2>2 DEF Receive
    <3> HIDE DEF m
    <3>3. CASE view = <<>>
      <4>1. view' = <<>> /\ online' = online
        BY <3>2, <3>3 DEF Apply, ui
      <4> QED BY <1>2, <3>3, <4>1 DEF IInv, StreamTypeOK
    <3>4. CASE view # <<>>
      <4> DEFINE old == view[1]
                 new == [old EXCEPT ![m.bay] = m.value]
      <4>1. old \in Snapshots /\ view = <<old>>
        BY <1>2, <3>4, OneIsSnapshot
      <4>2. online' = TRUE /\ view' = IF old[m.bay] = Missing THEN view ELSE <<new>>
        BY <3>2, <3>4 DEF Apply
      <4>3. new \in Snapshots /\ \A b \in BayNames : new[b] = IF b = m.bay THEN m.value ELSE old[b]
        BY <3>1, <4>1 DEF Snapshots
      <4> HIDE DEF old, new
      <4>4. CASE old[m.bay] = Missing
        <5>1. view' = view
          BY <4>2, <4>4
        <5> QED BY <1>2, <2>2, <4>2, <4>4, <5>1 DEF Tells, About, old
      <4>5. CASE old[m.bay] # Missing
        <5>1. view' = <<new>> /\ view'[1] = new /\ view' \in OneAtMost
          BY <4>2, <4>3, <4>5 DEF OneAtMost
        <5> QED BY <2>2, <3>4, <4>2, <4>3, <5>1 DEF Tells, About, old
      <4> QED BY <4>4, <4>5
    <3> QED BY <3>3, <3>4
  <2> QED BY <2>1, <2>2
<1> HIDE DEF m
<1>4. StreamTypeOK'
  BY <1>1, <1>2, <1>3 DEF IInv, StreamTypeOK, Messages
<1>5. PassIsCurrent'
  BY <1>1 DEF IInv, PassIsCurrent
<1>6. LastIsCurrent'
  <2> SUFFICES ASSUME cur # <<>>, ~dropped, handler # "none", NEW b \in BayNames, cur[1][b] # Missing
               PROVE  Reaches(b, cur[1][b])'
    BY <1>1 DEF LastIsCurrent
  <2> DEFINE v == cur[1][b]
  <2>1. Reaches(b, v) /\ v' = v
    BY <1>1 DEF IInv, LastIsCurrent
  <2> HIDE DEF v
  <2>2. /\ Ends(wire, b, v) <=> Ends(wire', b, v) \/ (Silent(wire', b) /\ Tells(m, b, v))
        /\ Silent(wire, b) <=> ~About(m, b) /\ Silent(wire', b)
    BY <1>1, <1>2, HeadTells DEF m
  <2>3. /\ Tells(m, b, v) /\ view' # <<>> => view'[1][b] \in {v, Missing}
        /\ ~About(m, b) /\ view' # <<>> => view # <<>> /\ view'[1][b] = view[1][b]
    BY <1>3
  <2>4. Rests(b, v) => Rests(b, v)'
    BY <1>1, <2>1, <2>2, <2>3 DEF Rests
  <2> QED BY <1>1, <2>1, <2>4 DEF Reaches, v
<1> QED BY <1>1, <1>4, <1>5, <1>6 DEF IInv

\* What the ending handler leaves of the response.
LEMMA PrefixIsResponse ==
  ASSUME Capacities, StreamTypeOK, NEW n \in 0 .. Len(wire)
  PROVE  SubSeq(wire, 1, n) \in Seq(Messages) /\ Len(SubSeq(wire, 1, n)) <= Wire
<1>1. wire \in Seq(Messages) /\ Len(wire) \in Nat /\ Len(wire) <= Wire
  BY DEF StreamTypeOK, Messages
<1>2. 1 \in 1 .. Len(wire) + 1 /\ n - 1 + 1 = n
  BY <1>1
<1>3. SubSeq(wire, 1, n) \in Seq(Messages) /\ Len(SubSeq(wire, 1, n)) = IF 1 <= n THEN n - 1 + 1 ELSE 0
  BY <1>1, <1>2, SubSeqProperties
<1> QED BY <1>1, <1>2, <1>3 DEF Capacities, CapacitiesAreNat

\* No handler, nothing to keep: the connection broke, or one side restarted.
LEMMA EndsKeeps ==
  ASSUME Capacities, IInv, Break \/ AgentRestarts \/ UiRestarts PROVE IInv'
<1>1. handler' = "none" /\ read' = <<>> /\ channel' = <<>> /\ dropped' = FALSE
  BY DEF Break, AgentRestarts, UiRestarts, HandlerEnds
<1>2. /\ UNCHANGED <<cur, topub>> \/ (cur' = <<>> /\ topub' = <<>>)
      /\ UNCHANGED <<view, online>> \/ (view' = <<>> /\ online' = FALSE)
      /\ conn' \in {"down", "closing", conn}
  BY DEF Break, AgentRestarts, UiRestarts, HandlerEnds, agent, ui
<1>3. wire' \in Seq(Messages) /\ Len(wire') <= Wire
  <2>1. CASE HandlerEnds
    BY <2>1, PrefixIsResponse DEF HandlerEnds, IInv
  <2>2. CASE UiRestarts
    BY <2>2 DEF UiRestarts, Capacities, CapacitiesAreNat
  <2> QED BY <2>1, <2>2 DEF Break, AgentRestarts
<1>4. <<>> \in OneAtMost /\ <<>> \in Seq(Slots) /\ Len(<<>>) <= Buffer
  BY NothingFits DEF OneAtMost
<1>5. StreamTypeOK'
  BY <1>1, <1>2, <1>3, <1>4 DEF IInv, StreamTypeOK, Messages
<1>6. PassIsCurrent'
  BY <1>2, <1>4 DEF IInv, PassIsCurrent
<1> QED BY <1>1, <1>5, <1>6 DEF IInv, LastIsCurrent

\* Every step keeps the invariant.
LEMMA NextKeeps == ASSUME Capacities, IInv, [StreamNext]_streamVars PROVE IInv'
<1>1. ASSUME UNCHANGED <<agent, stream, wire, view>>, conn' \in {"down", conn}, online' \in BOOLEAN PROVE IInv'
  <2>1. UNCHANGED <<cur, topub, handler, read, channel, dropped, wire, view>>
    BY <1>1 DEF agent, stream
  <2>2. StreamTypeOK'
    BY <1>1, <2>1 DEF IInv, StreamTypeOK
  <2>3. PassIsCurrent'
    BY <2>1 DEF IInv, PassIsCurrent
  <2>4. \A b, v : Reaches(b, v) <=> Reaches(b, v)'
    BY <2>1 DEF Reaches, Rests
  <2>5. LastIsCurrent'
    BY <2>1, <2>4 DEF IInv, LastIsCurrent
  <2> QED BY <2>1, <2>2, <2>3, <2>5 DEF IInv
<1>2. CASE MarkOffline
  BY <1>1, <1>2 DEF MarkOffline
<1>3. CASE UNCHANGED streamVars
  BY <1>1, <1>3 DEF streamVars, ui, IInv, StreamTypeOK
<1> QED BY <1>2, <1>3, PublishKeeps, PubKeeps, ConnectKeeps, ReadCurKeeps, WriteSnapshotKeeps,
           ForwardKeeps, ReceiveKeeps, EndsKeeps DEF StreamNext, Fleet

----------------------------------------------------------------------------
(* The theorems. *)

\* The invariant holds in every state of agent, stream and bw-ui.
THEOREM InvariantHolds == ASSUME BayNamesFinite, CapacitiesAreNat PROVE StreamSpec => []IInv
<1>1. Capacities
  BY DEF Capacities
<1>2. StreamInit => IInv
  BY <1>1, InitIInv
<1>3. IInv /\ [StreamNext]_streamVars => IInv'
  BY <1>1, NextKeeps
<1> QED BY <1>2, <1>3, PTL DEF StreamSpec

\* Snapshots, events and connection states keep their types, and the channel
\* and the response their capacities.
THEOREM StreamTypeCorrect == ASSUME BayNamesFinite, CapacitiesAreNat PROVE StreamSpec => []StreamTypeOK
<1>1. IInv => StreamTypeOK
  BY DEF IInv
<1> QED BY <1>1, InvariantHolds, PTL

\* Unless the hub dropped something, a view everything has reached shows what the
\* agent published last.
THEOREM ViewEndsCurrent == ASSUME BayNamesFinite, CapacitiesAreNat PROVE StreamSpec => []ViewConverges
<1>1. ASSUME IInv, Settled, ~dropped, view # <<>>, NEW b \in BayNames,
             view[1][b] # Missing, cur # <<>>, cur[1][b] # Missing
      PROVE  view[1][b] = cur[1][b]
  <2>1. Reaches(b, cur[1][b])
    BY <1>1 DEF IInv, LastIsCurrent, Settled
  <2> QED BY <1>1, <2>1, EmptySays DEF Reaches, Rests, Settled
<1>2. IInv => ViewConverges
  BY <1>1 DEF ViewConverges
<1> QED BY <1>2, InvariantHolds, PTL

----------------------------------------------------------------------------
(* The agent: NoLocateForgotten for any number of bays, any faults, any    *)
(* schedule. No interleaving of locate handlers with a pass loses a kick   *)
(* that matters.                                                           *)

\* What the argument needs of the types.
AgentTypes ==
  /\ bay \in [Bays -> Verdicts]
  /\ locate \in [Bays -> {"off", "active", "expired"}]
  /\ want \in [Bays -> SUBSET driven]
  /\ seen \in [Bays -> Verdicts \cup {"missing"}]
  /\ left \subseteq Bays

\* A bay whose locate ended since the pass took its `now` has an expired one:
\* setLocateState writes a new deadline or deletes the old one.
LateHasExpired == \A b \in late : b \in Bays /\ locate[b] = "expired"

AgentInv == AgentTypes /\ LateHasExpired /\ NoLocateForgotten

\* The invariant holds when the agent starts, whatever is lit.
LEMMA InitAgentInv == Init => AgentInv
BY DEF Init, AgentInv, AgentTypes, LateHasExpired, NoLocateForgotten, Nothing, AllOff, Unread

\* It speaks of nothing but the locates, the token, the pass and its wishes.
LEMMA AgentFrame ==
  ASSUME AgentInv, UNCHANGED <<driven, bay, want, locates, late, kicked, seen, left>>
  PROVE  AgentInv'
BY DEF AgentInv, AgentTypes, LateHasExpired, NoLocateForgotten, locates

\* A passed deadline asks for nothing that a pass would not find by itself.
LEMMA ExpireKeeps == ASSUME AgentInv, NEW b \in Bays, Expire(b) PROVE AgentInv'
BY DEF AgentInv, AgentTypes, LateHasExpired, NoLocateForgotten, Expire, pass

\* Between setLocateState's unlock and its kick, the handler owes a token.
LEMMA SetLocateKeeps == ASSUME AgentInv, NEW b \in Bays, SetLocate(b) PROVE AgentInv'
<1> USE DEF SetLocate, pass
<1>1. AgentTypes'
  BY DEF AgentInv, AgentTypes
<1>2. LateHasExpired'
  BY DEF AgentInv, AgentTypes, LateHasExpired
<1>3. NoLocateForgotten'
  BY DEF AgentInv, AgentTypes, NoLocateForgotten
<1> QED BY <1>1, <1>2, <1>3 DEF AgentInv

\* Once kicked, the loop has a token.
LEMMA KickKeeps == ASSUME AgentInv, NEW b \in Bays, Kick(b) PROVE AgentInv'
BY DEF AgentInv, AgentTypes, LateHasExpired, NoLocateForgotten, Kick, Token, pass

\* A pass that may take the token has every bay it sees ahead of it, and one
\* that fails to read sees none.
LEMMA ReadKeeps ==
  ASSUME AgentInv, ReadFails \/ \E visible \in SUBSET Bays : Begin(visible)
  PROVE  AgentInv'
<1>1. CASE ReadFails
  BY <1>1 DEF AgentInv, AgentTypes, LateHasExpired, NoLocateForgotten, ReadFails, Unread, locates
<1>2. ASSUME NEW visible \in SUBSET Bays, Begin(visible) PROVE AgentInv'
  BY <1>2 DEF AgentInv, AgentTypes, LateHasExpired, NoLocateForgotten, Begin, locates
<1> QED BY <1>1, <1>2

\* A visit makes the bay's blue LED follow its locate.
LEMMA VisitKeeps == ASSUME AgentInv, NEW b \in Bays, Visit(b) PROVE AgentInv'
<1> USE DEF Visit, locates
<1>1. Desired(b) \in SUBSET driven
  BY DEF Desired
<1>2. AgentTypes' /\ LateHasExpired'
  BY <1>1 DEF AgentInv, AgentTypes, LateHasExpired
<1>3. ASSUME "ident" \in driven, locate[b] = "active" PROVE "ident" \in Desired(b)
  BY <1>3 DEF Desired
<1>4. ASSUME locate[b] = "off" PROVE "ident" \notin Desired(b)
  BY <1>4 DEF Desired, AgentInv, LateHasExpired
<1>5. want'[b] = Desired(b)
  BY DEF AgentInv, AgentTypes
<1>6. \A c \in Bays \ {b} : want'[c] = want[c] /\ (c \in left => c \in left')
  BY DEF AgentInv, AgentTypes
<1>7. NoLocateForgotten'
  <2> SUFFICES ASSUME "ident" \in driven, NEW c \in Bays
               PROVE  \/ /\ locate[c] = "active" => "ident" \in want'[c]
                         /\ locate[c] = "off" => "ident" \notin want'[c]
                      \/ kicked \/ c \in asking
                      \/ c \in left' \/ seen[c] = "missing"
    BY DEF NoLocateForgotten
  <2>1. CASE c = b
    BY <2>1, <1>3, <1>4, <1>5
  <2>2. CASE c # b
    BY <2>2, <1>6 DEF AgentInv, NoLocateForgotten
  <2> QED BY <2>1, <2>2
<1> QED BY <1>2, <1>7 DEF AgentInv

\* Driving an LED touches neither locates nor wishes.
LEMMA DriveKeeps == ASSUME AgentInv, NEW b \in Bays, Drive(b) PROVE AgentInv'
<1>1. PICK led \in driven :
        Skip(b, led) \/ Write(b, led) \/ WriteFails(b, led) \/ WriteNowhere(b, led)
  BY DEF Drive
<1>2. UNCHANGED <<driven, bay, want, locates, late, kicked, seen, left>>
  BY <1>1 DEF Skip, Write, WriteFails, WriteNowhere
<1> QED BY <1>2, AgentFrame

\* A new agent has read nothing yet.
LEMMA RestartKeeps == ASSUME AgentInv, Restart PROVE AgentInv'
BY DEF AgentInv, AgentTypes, LateHasExpired, NoLocateForgotten, Restart, Nothing, AllOff, Unread

\* Every step of the agent and of the world keeps the invariant.
LEMMA AgentNextKeeps == AgentInv /\ [Next]_vars => AgentInv'
<1> SUFFICES ASSUME AgentInv, [Next]_vars PROVE AgentInv'
  OBVIOUS
<1>1. CASE UNCHANGED vars
  BY <1>1, AgentFrame DEF vars, locates, pass
<1>2. ASSUME NEW b \in Bays, Change(b) PROVE AgentInv'
  BY <1>2 DEF Change, AgentInv, AgentTypes, LateHasExpired, NoLocateForgotten, locates, pass
<1>3. ASSUME NEW b \in Bays, Drift(b) PROVE AgentInv'
  BY <1>3, AgentFrame DEF Drift, locates, pass
<1>4. ASSUME NEW b \in Bays, Expire(b) \/ SetLocate(b) \/ Kick(b) PROVE AgentInv'
  BY <1>4, ExpireKeeps, SetLocateKeeps, KickKeeps
<1>5. CASE Reconcile
  BY <1>5, ReadKeeps, VisitKeeps, DriveKeeps DEF Reconcile
<1>6. CASE Restart
  BY <1>6, RestartKeeps
<1> QED BY <1>1, <1>2, <1>3, <1>4, <1>5, <1>6 DEF Next

\* A locate that was started or cleared behind the pass's back has a token in
\* the channel or one on its way: setLocateState and the one-token channel
\* a.kick lose none, for any number of bays and any schedule.
THEOREM KicksAreKept == Spec => []NoLocateForgotten
<1>1. AgentInv => NoLocateForgotten
  BY DEF AgentInv
<1> QED BY InitAgentInv, AgentNextKeeps, <1>1, PTL DEF Spec

\* A visit drives each LED that is looked at, and there is one.
LEMMA OrderDrives == ASSUME driven \in Views PROVE Order \in Seq(driven) \ {<<>>}
<1> DEFINE all == <<"ok", "fault", "ident">>
<1>1. all \in Seq(Leds)
  BY DEF Leds
<1>2. Order \in Seq(Leds) /\ Range(Order) = Range(all) \cap driven
  BY <1>1, SelectProperties, SelectRange DEF Order
<1>3. Range(all) = Leds
  <2>1. DOMAIN all = {1, 2, 3} /\ all[1] = "ok" /\ all[2] = "fault" /\ all[3] = "ident"
    OBVIOUS
  <2> QED BY <2>1 DEF Range, Leds
<1>4. driven \subseteq Leds /\ driven # {}
  BY ViewsAreLeds
<1>5. Range(Order) = driven
  BY <1>2, <1>3, <1>4
<1>6. Order # <<>>
  BY <1>4, <1>5 DEF Range
<1>7. \A i \in 1 .. Len(Order) : Order[i] \in driven
  BY <1>2, <1>5 DEF Range
<1> QED BY <1>2, <1>6, <1>7, SeqDef

\* What is left of more than one LED.
LEMMA RestIsLeft == ASSUME NEW S, NEW s \in Seq(S), Len(s) > 1 PROVE Tail(s) \in Seq(S) \ {<<>>}
<1> DEFINE n == Len(s)
<1>1. n \in Nat /\ n > 1 /\ s # <<>>
  BY LenProperties, EmptySeq
<1>2. Tail(s) \in Seq(S) /\ Len(Tail(s)) = n - 1
  BY <1>1, HeadTailProperties, Zenon
<1> HIDE DEF n
<1>3. n - 1 # 0
  BY <1>1
<1>4. Len(Tail(s)) # 0
  BY <1>2, <1>3, Zenon
<1>5. Len(<<>>) = 0
  OBVIOUS
<1> QED BY <1>2, <1>4, <1>5, Zenon

\* Driving an LED changes what is lit and believed within the view, and leaves the
\* rest of the bay's LEDs, or another bay, to be visited.
LEMMA DriveKeepsTypes == ASSUME TypeOK, NEW b \in Bays, Drive(b) PROVE TypeOK'
<1>1. PICK led \in driven :
        Skip(b, led) \/ Write(b, led) \/ WriteFails(b, led) \/ WriteNowhere(b, led)
  BY DEF Drive
<1>2. \A f \in [Bays -> SUBSET driven] : [f EXCEPT ![b] = Shown(f[b], b, led)] \in [Bays -> SUBSET driven]
  BY <1>1 DEF Shown
<1>3. lit' \in [Bays -> SUBSET driven] /\ applied' \in [Bays -> SUBSET driven]
  BY <1>1, <1>2 DEF TypeOK, Skip, Write, WriteFails, WriteNowhere, Remembered
<1>4. Here(b, led) /\ Advance
  BY <1>1 DEF Skip, Write, WriteFails, WriteNowhere
<1>5. at' \in {Nowhere} \cup [bay : {{c} : c \in Bays}, leds : Seq(driven) \ {<<>>}]
  <2>1. at \in [bay : {{c} : c \in Bays}, leds : Seq(driven) \ {<<>>}]
    <3>1. Nowhere.bay = {}
      BY DEF Nowhere
    <3>2. at # Nowhere
      BY <1>4, <3>1 DEF Here
    <3> QED BY <3>2 DEF TypeOK
  <2>2. CASE Len(at.leds) > 1
    <3>1. Tail(at.leds) \in Seq(driven) \ {<<>>}
      BY <2>1, <2>2, RestIsLeft
    <3> QED BY <1>4, <2>1, <2>2, <3>1 DEF Advance
  <2>3. CASE ~(Len(at.leds) > 1)
    BY <1>4, <2>3 DEF Advance
  <2> QED BY <2>2, <2>3
<1>6. known' \subseteq Bays
  BY <1>4 DEF Advance, TypeOK
<1>7. UNCHANGED <<driven, bay, want, cycle, locate, asking, late, kicked, seen, bare, left, restarts>>
  BY <1>1 DEF Skip, Write, WriteFails, WriteNowhere, locates
<1> QED BY <1>3, <1>5, <1>6, <1>7 DEF TypeOK

\* Every step keeps the types.
LEMMA NextKeepsTypes == ASSUME TypeOK, [Next]_vars PROVE TypeOK'
<1> USE DEF locates, pass
<1>1. CASE UNCHANGED vars
  BY <1>1 DEF vars, TypeOK
<1>2. ASSUME NEW b \in Bays, Change(b) PROVE TypeOK'
  BY <1>2 DEF Change, TypeOK
<1>3. ASSUME NEW b \in Bays, Drift(b) PROVE TypeOK'
  <2>1. lit' \in [Bays -> SUBSET driven]
    BY <1>3 DEF Drift, TypeOK
  <2> QED BY <1>3, <2>1 DEF Drift, TypeOK
<1>4. ASSUME NEW b \in Bays, Expire(b) \/ SetLocate(b) \/ Kick(b) PROVE TypeOK'
  BY <1>4 DEF Expire, SetLocate, Kick, Token, TypeOK
<1>5. CASE ReadFails
  BY <1>5 DEF ReadFails, Woken, Unread, TypeOK
<1>6. ASSUME NEW visible \in SUBSET Bays, Begin(visible) PROVE TypeOK'
  <2>1. cycle' \in 0 .. 2 * ReassertEvery
    BY <1>6, ReassertIsEven DEF Begin, NextCycle, TypeOK
  <2>2. seen' \in [Bays -> Verdicts \cup {"missing"}]
    BY <1>6 DEF Begin, TypeOK
  <2>3. bare' \subseteq Bays
    BY <1>6 DEF Begin, Resolved, TypeOK
  <2> QED BY <1>6, <2>1, <2>2, <2>3 DEF Begin, Woken, TypeOK
<1>7. ASSUME NEW b \in Bays, Visit(b) PROVE TypeOK'
  <2>1. Desired(b) \in SUBSET driven
    BY DEF Desired
  <2>2. want' \in [Bays -> SUBSET driven]
    BY <1>7, <2>1 DEF Visit, TypeOK
  <2>3. at' \in [bay : {{c} : c \in Bays}, leds : Seq(driven) \ {<<>>}]
    BY <1>7, OrderDrives DEF Visit, TypeOK
  <2> QED BY <1>7, <2>2, <2>3 DEF Visit, TypeOK
<1>8. CASE Restart
  <2>1. /\ applied' \in [Bays -> SUBSET driven] /\ want' \in [Bays -> SUBSET driven]
        /\ locate' \in [Bays -> {"off", "active", "expired"}]
        /\ seen' \in [Bays -> Verdicts \cup {"missing"}]
    BY <1>8 DEF Restart, Nothing, AllOff, Unread
  <2>2. cycle' \in 0 .. 2 * ReassertEvery
    BY <1>8, ReassertIsEven DEF Restart
  <2>3. restarts' \in 0 .. MaxRestarts
    BY <1>8, RestartsAreNat DEF Restart, TypeOK
  <2>4. /\ late' = {} /\ asking' = {} /\ kicked' = FALSE /\ bare' = {} /\ left' = {} /\ at' = Nowhere /\ known' = {}
        /\ UNCHANGED <<driven, bay, lit>>
    BY <1>8 DEF Restart
  <2> QED BY <2>1, <2>2, <2>3, <2>4 DEF TypeOK
<1> QED BY <1>1, <1>2, <1>3, <1>4, <1>5, <1>6, <1>7, <1>8, DriveKeepsTypes DEF Next, Reconcile

\* The agent's memory, its pass and the hardware keep their types, for any bays.
THEOREM AgentTypeCorrect == Spec => []TypeOK
<1>1. Init => TypeOK
  <2> SUFFICES ASSUME Init PROVE TypeOK
    OBVIOUS
  <2>1. /\ applied \in [Bays -> SUBSET driven] /\ want \in [Bays -> SUBSET driven]
        /\ locate \in [Bays -> {"off", "active", "expired"}]
        /\ seen \in [Bays -> Verdicts \cup {"missing"}]
    BY DEF Init, Nothing, AllOff, Unread
  <2>2. cycle \in 0 .. 2 * ReassertEvery /\ restarts \in 0 .. MaxRestarts
    BY ReassertIsEven, RestartsAreNat DEF Init
  <2>3. /\ driven \in Views /\ bay \in [Bays -> Verdicts] /\ lit \in [Bays -> SUBSET driven]
        /\ late = {} /\ asking = {} /\ kicked = FALSE /\ bare = {} /\ left = {} /\ at = Nowhere /\ known = {}
    BY DEF Init
  <2> QED BY <2>1, <2>2, <2>3 DEF TypeOK
<1>2. TypeOK /\ [Next]_vars => TypeOK'
  BY NextKeepsTypes
<1> QED BY <1>1, <1>2, PTL DEF Spec
=============================================================================
