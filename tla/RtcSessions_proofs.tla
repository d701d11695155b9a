------------------------- MODULE RtcSessions_proofs -------------------------
(***************************************************************************)
(* What holds of SessionManager for any number of directives, identifiers, *)
(* cameras and users, and any capacity. The inductive invariant ties the   *)
(* table, the Session objects, their timers and the camera's streams and   *)
(* tasks together.                                                         *)
(***************************************************************************)
EXTENDS RtcSessions, FiniteSetTheorems, TLAPS

\* The table and the open sessions name each other.
Registered ==
  /\ \A r \in Requests : Open(r) => table[directive[r].key] = r
  /\ \A k \in Keys : table[k] # NoRequest => Open(table[k]) /\ directive[table[k]].key = k

\* A session exists from its reservation on; it is open while its request
\* negotiates, or after it was answered with its timer pending.
Phases ==
  \A r \in Requests :
    /\ Open(r) => (pc[r] \in Negotiating /\ ~armed[r]) \/ (pc[r] = "answered" /\ armed[r])
    /\ ~Open(r) => ~armed[r]

\* Only an open session has a running task, and only it owns a stream.
CameraSide ==
  /\ \A r \in Requests : task[r] = "running" => Open(r)
  /\ \A k \in Keys : stream[k] # NoRequest => Open(stream[k]) /\ directive[stream[k]].key = k

NoneAfterStop == stopping => \A r \in Requests : ~Open(r)

Within == Cardinality({k \in Keys : table[k] # NoRequest}) <= MaxSessions

IInv == TypeOK /\ Registered /\ Phases /\ CameraSide /\ NoneAfterStop

----------------------------------------------------------------------------
\* The inductive invariant holds before the first directive.
LEMMA InitIInv == Init => IInv
<1> SUFFICES ASSUME Init PROVE IInv
  OBVIOUS
<1>1. TypeOK
  BY DEF Init, TypeOK
<1>2. \A r \in Requests : ~Open(r) /\ ~armed[r] /\ task[r] # "running"
  BY DEF Init, Open
<1>3. \A k \in Keys : table[k] = NoRequest /\ stream[k] = NoRequest
  BY DEF Init
<1> QED
  BY <1>1, <1>2, <1>3 DEF IInv, Registered, Phases, CameraSide, NoneAfterStop

\* Closing sessions, and refusing some of the requests that own them, keeps
\* the invariant. Every action that closes is an instance of this.
LEMMA CloseKeeps ==
  ASSUME IInv, NEW S \in SUBSET Requests, Close(S), UNCHANGED <<directive, failed>>,
         pc' \in [Requests -> {"new", "auth"} \cup Negotiating \cup Over],
         \A r \in Requests : pc'[r] = pc[r] \/ (r \in S /\ pc'[r] = "refused"),
         stopping' \in BOOLEAN,
         stopping' => stopping \/ \A r \in Requests : Open(r) => r \in S
  PROVE  IInv'
<1> DEFINE C == {r \in S : Open(r)}
<1>0. directive' = directive
  OBVIOUS
<1>1. \A r \in Requests : session'[r] = "open" <=> Open(r) /\ r \notin S
  BY DEF Close, Open
<1>2. \A r \in Requests : session'[r] = IF r \in C THEN "closed" ELSE session[r]
  BY DEF Close
<1>3. \A k \in Keys : table'[k] = IF table[k] \in C THEN NoRequest ELSE table[k]
  BY DEF Close
<1>4. \A r \in Requests : armed'[r] = (r \notin C /\ armed[r])
  BY DEF Close
<1>5. \A k \in Keys :
        stream'[k] = IF \E r \in C : directive[r].key = k THEN NoRequest ELSE stream[k]
  BY DEF Close
<1>6. \A r \in Requests :
        task'[r] = IF r \in C /\ task[r] = "running" THEN "cancelled" ELSE task[r]
  BY DEF Close, TasksWithout
<1>7. TypeOK'
  <2>1. session' \in [Requests -> {"none", "open", "closed"}]
    BY DEF Close, IInv, TypeOK
  <2>2. table' \in [Keys -> Requests \cup {NoRequest}]
    BY DEF Close, IInv, TypeOK
  <2>3. armed' \in [Requests -> BOOLEAN]
    BY DEF Close, IInv, TypeOK
  <2>4. task' \in [Requests -> {"none", "running", "returned", "raised", "cancelled"}]
    BY DEF Close, TasksWithout, IInv, TypeOK
  <2>5. future' \in [Requests -> {"none", "pending", "set", "cancelled"}]
    BY DEF Close, IInv, TypeOK
  <2>6. stream' \in [Keys -> Requests \cup {NoRequest}]
    BY DEF Close, IInv, TypeOK
  <2>7. \A r \in Requests : pc'[r] \in {"new", "auth"} => session'[r] = "none"
    BY <1>2 DEF IInv, TypeOK, Open
  <2> QED
    BY <2>1, <2>2, <2>3, <2>4, <2>5, <2>6, <2>7 DEF IInv, TypeOK
<1>8. Registered'
  <2>1. ASSUME NEW r \in Requests, session'[r] = "open"
        PROVE  table'[directive[r].key] = r
    <3>1. Open(r) /\ r \notin S
      BY <1>1, <2>1
    <3>2. table[directive[r].key] = r /\ directive[r].key \in Keys
      BY <3>1 DEF IInv, Registered, TypeOK, Directives
    <3> QED BY <1>3, <3>1, <3>2
  <2>2. ASSUME NEW k \in Keys, table'[k] # NoRequest
        PROVE  session'[table'[k]] = "open" /\ directive[table'[k]].key = k
    <3>1. table'[k] = table[k] /\ table[k] \notin C /\ table[k] # NoRequest
      BY <1>3, <2>2
    <3>2. table[k] \in Requests /\ Open(table[k]) /\ directive[table[k]].key = k
      BY <3>1 DEF IInv, Registered, TypeOK
    <3>3. table[k] \notin S
      BY <3>1, <3>2
    <3>4. session'[table[k]] = "open"
      BY <1>1, <3>2, <3>3
    <3> QED BY <3>1, <3>2, <3>4
  <2> QED BY <1>0, <2>1, <2>2 DEF Registered, Open
<1>9. Phases'
  <2>1. ASSUME NEW r \in Requests, session'[r] = "open"
        PROVE  (pc'[r] \in Negotiating /\ ~armed'[r]) \/ (pc'[r] = "answered" /\ armed'[r])
    <3>1. Open(r) /\ r \notin S
      BY <1>1, <2>1
    <3>2. pc'[r] = pc[r] /\ armed'[r] = armed[r]
      BY <1>4, <3>1 DEF IInv, TypeOK
    <3> QED BY <3>1, <3>2 DEF IInv, Phases
  <2>2. ASSUME NEW r \in Requests, session'[r] # "open"
        PROVE  ~armed'[r]
    <3>1. CASE Open(r)
      BY <1>1, <1>4, <2>2, <3>1
    <3>2. CASE ~Open(r)
      BY <1>4, <3>2 DEF IInv, Phases
    <3> QED BY <3>1, <3>2
  <2> QED BY <2>1, <2>2 DEF Phases, Open
<1>10. CameraSide'
  <2>1. ASSUME NEW r \in Requests, task'[r] = "running"
        PROVE  session'[r] = "open"
    <3>1. Open(r)
      BY <1>6, <2>1 DEF IInv, CameraSide
    <3>2. r \notin S
      BY <1>6, <2>1, <3>1
    <3> QED BY <1>1, <3>1, <3>2
  <2>2. ASSUME NEW k \in Keys, stream'[k] # NoRequest
        PROVE  session'[stream'[k]] = "open" /\ directive[stream'[k]].key = k
    <3>1. stream'[k] = stream[k] /\ stream[k] # NoRequest
      BY <1>5, <2>2
    <3>2. stream[k] \in Requests /\ Open(stream[k]) /\ directive[stream[k]].key = k
      BY <3>1 DEF IInv, CameraSide, TypeOK
    <3>3. stream[k] \notin S
      BY <1>5, <2>2, <3>2
    <3>4. session'[stream[k]] = "open"
      BY <1>1, <3>2, <3>3
    <3> QED BY <3>1, <3>2, <3>4
  <2> QED BY <1>0, <2>1, <2>2 DEF CameraSide, Open
<1>11. NoneAfterStop'
  BY <1>1 DEF IInv, NoneAfterStop, Open
<1> QED BY <1>7, <1>8, <1>9, <1>10, <1>11 DEF IInv

\* A request that moves on without touching its session keeps the invariant.
LEMMA MoveKeeps ==
  ASSUME IInv, NEW r \in Requests, NEW v \in {"auth"} \cup Negotiating \cup Over,
         pc' = [pc EXCEPT ![r] = v],
         \/ pc[r] \in Negotiating /\ v \in Negotiating
         \/ pc[r] = "new" /\ v = "auth"
         \/ pc[r] \in {"new", "auth"} /\ v \in {"replayed", "refused"},
         UNCHANGED <<directive, session, table, armed, signals, stream, stopping>>
  PROVE  IInv'
<1>1. \A q \in Requests : pc'[q] = IF q = r THEN v ELSE pc[q]
  BY DEF IInv, TypeOK
<1>2. TypeOK'
  BY <1>1 DEF IInv, TypeOK, signals, Negotiating
<1>3. Phases'
  <2>1. pc[r] \in {"new", "auth"} => session[r] = "none"
    BY DEF IInv, TypeOK
  <2> QED BY <1>1, <2>1 DEF IInv, Phases, Open, Negotiating
<1>4. Registered' /\ CameraSide' /\ NoneAfterStop'
  BY DEF IInv, Registered, CameraSide, NoneAfterStop, Open, signals
<1> QED BY <1>2, <1>3, <1>4 DEF IInv

\* A reservation takes a free entry of a table that has room.
LEMMA ReserveKeeps ==
  ASSUME IInv, NEW r \in Requests, Reserve(r)
  PROVE  IInv'
<1> DEFINE key == directive[r].key
<1>0. directive' = directive /\ key \in Keys /\ table[key] = NoRequest
  BY DEF Reserve, IInv, TypeOK, Directives
<1>1. pc[r] = "auth" /\ session[r] = "none" /\ ~stopping /\ ~armed[r]
  BY DEF Reserve, AtCapacity, IInv, TypeOK, Phases, Open
<1>2. \A q \in Requests :
        /\ session'[q] = IF q = r THEN "open" ELSE session[q]
        /\ pc'[q] = IF q = r THEN "offer" ELSE pc[q]
        /\ task'[q] = IF q = r THEN "running" ELSE task[q]
        /\ armed'[q] = armed[q]
  BY DEF Reserve, IInv, TypeOK
<1>3. \A k \in Keys : table'[k] = IF k = key THEN r ELSE table[k]
  BY <1>0 DEF Reserve, IInv, TypeOK
<1>4. TypeOK'
  BY <1>1, <1>2 DEF Reserve, IInv, TypeOK, Negotiating
<1>5. Registered'
  <2>1. ASSUME NEW q \in Requests, session'[q] = "open"
        PROVE  table'[directive[q].key] = q
    <3>1. CASE q = r
      BY <1>0, <1>3, <3>1
    <3>2. CASE q # r
      <4>1. Open(q)
        BY <1>2, <2>1, <3>2 DEF Open
      <4>2. table[directive[q].key] = q /\ directive[q].key \in Keys
        BY <4>1 DEF IInv, Registered, TypeOK, Directives
      <4>3. directive[q].key # key
        BY <1>0, <4>2, NoRequestIsNone
      <4> QED BY <1>3, <4>2, <4>3
    <3> QED BY <3>1, <3>2
  <2>2. ASSUME NEW k \in Keys, table'[k] # NoRequest
        PROVE  session'[table'[k]] = "open" /\ directive[table'[k]].key = k
    <3>1. CASE k = key
      BY <1>2, <1>3, <3>1
    <3>2. CASE k # key
      <4>1. table'[k] = table[k]
        BY <1>3, <3>2
      <4>2. table[k] \in Requests /\ Open(table[k]) /\ directive[table[k]].key = k
        BY <2>2, <4>1 DEF IInv, Registered, TypeOK
      <4> QED BY <1>2, <4>1, <4>2 DEF Open
    <3> QED BY <3>1, <3>2
  <2> QED BY <1>0, <2>1, <2>2 DEF Registered, Open
<1>6. Phases'
  BY <1>1, <1>2 DEF IInv, Phases, Open, Negotiating
<1>7. CameraSide'
  <2>1. \A q \in Requests : task'[q] = "running" => session'[q] = "open"
    BY <1>2 DEF IInv, CameraSide, Open
  <2>2. ASSUME NEW k \in Keys, stream'[k] # NoRequest
        PROVE  session'[stream'[k]] = "open" /\ directive[stream'[k]].key = k
    <3>1. stream'[k] = stream[k]
      BY DEF Reserve
    <3>2. stream[k] \in Requests /\ Open(stream[k]) /\ directive[stream[k]].key = k
      BY <2>2, <3>1 DEF IInv, CameraSide, TypeOK
    <3> QED BY <1>2, <3>1, <3>2 DEF Open
  <2> QED BY <1>0, <2>1, <2>2 DEF CameraSide, Open
<1>8. NoneAfterStop'
  BY <1>1 DEF Reserve, NoneAfterStop
<1> QED BY <1>4, <1>5, <1>6, <1>7, <1>8 DEF IInv

\* What the camera does, in its task or through receive().
LEMMA CameraKeeps ==
  ASSUME IInv, NEW r \in Requests, Camera(r)
  PROVE  IInv'
<1>1. CASE OpenStream(r)
  <2>1. Open(r) /\ directive[r].key \in Keys
    BY <1>1 DEF OpenStream, IInv, CameraSide, TypeOK, Directives
  <2>2. TypeOK'
    BY <1>1 DEF OpenStream, IInv, TypeOK, signals
  <2>3. \A k \in Keys : stream'[k] = IF k = directive[r].key THEN r ELSE stream[k]
    BY <1>1 DEF OpenStream, IInv, TypeOK
  <2>4. CameraSide'
    BY <1>1, <2>1, <2>3 DEF OpenStream, IInv, CameraSide, Open, signals
  <2>5. Registered' /\ Phases' /\ NoneAfterStop'
    BY <1>1 DEF OpenStream, IInv, Registered, Phases, NoneAfterStop, Open
  <2> QED BY <2>2, <2>4, <2>5 DEF IInv
<1>2. CASE TaskEnds(r)
  <2>1. PICK result \in {"returned", "raised"} : task' = [task EXCEPT ![r] = result]
    BY <1>2 DEF TaskEnds
  <2>2. TypeOK'
    BY <1>2, <2>1 DEF TaskEnds, IInv, TypeOK
  <2>3. \A q \in Requests : task'[q] = "running" => task[q] = "running"
    BY <2>1 DEF IInv, TypeOK
  <2>4. CameraSide'
    BY <1>2, <2>3 DEF TaskEnds, IInv, CameraSide, Open
  <2>5. Registered' /\ Phases' /\ NoneAfterStop'
    BY <1>2 DEF TaskEnds, IInv, Registered, Phases, NoneAfterStop, Open
  <2> QED BY <2>2, <2>4, <2>5 DEF IInv
<1>3. CASE ReceiveAnswer(r) \/ ReceiveError(r)
  <2>1. UNCHANGED <<directive, pc, session, table, armed, task, stream, stopping>>
    BY <1>3 DEF ReceiveAnswer, ReceiveError
  <2>2. future' \in [Requests -> {"none", "pending", "set", "cancelled"}]
    BY <1>3 DEF ReceiveAnswer, ReceiveError, Answered, IInv, TypeOK
  <2>3. failed' \in [Requests -> BOOLEAN]
    BY <1>3 DEF ReceiveAnswer, ReceiveError, IInv, TypeOK
  <2>4. TypeOK'
    BY <2>1, <2>2, <2>3 DEF IInv, TypeOK
  <2>5. Registered' /\ Phases' /\ CameraSide' /\ NoneAfterStop'
    BY <2>1 DEF IInv, Registered, Phases, CameraSide, NoneAfterStop, Open
  <2> QED BY <2>4, <2>5 DEF IInv
<1> QED BY <1>1, <1>2, <1>3 DEF Camera

\* Keeping the answer and arming the expiry happen in one step.
LEMMA FinishKeeps ==
  ASSUME IInv, NEW r \in Requests, Finish(r)
  PROVE  IInv'
<1>1. Open(r)
  BY DEF Finish, Usable
<1>2. \A q \in Requests :
        /\ pc'[q] = IF q = r THEN "answered" ELSE pc[q]
        /\ armed'[q] = IF q = r THEN TRUE ELSE armed[q]
  BY DEF Finish, IInv, TypeOK
<1>3. TypeOK'
  BY <1>2 DEF Finish, IInv, TypeOK, signals, Over
<1>4. Phases'
  BY <1>1, <1>2 DEF Finish, IInv, Phases, Open
<1>5. Registered' /\ CameraSide' /\ NoneAfterStop'
  BY DEF Finish, IInv, Registered, CameraSide, NoneAfterStop, Open, signals
<1> QED BY <1>3, <1>4, <1>5 DEF IInv

\* Raising refuses the request and closes whatever it had reserved.
LEMMA RaiseKeeps ==
  ASSUME IInv, NEW r \in Requests, Raise(r)
  PROVE  IInv'
<1>1. pc' = [pc EXCEPT ![r] = "refused"] /\ stopping' = stopping /\ Close({r})
  BY DEF Raise
<1>2. pc' \in [Requests -> {"new", "auth"} \cup Negotiating \cup Over]
  BY <1>1 DEF IInv, TypeOK, Over
<1>3. \A q \in Requests : pc'[q] = pc[q] \/ (q \in {r} /\ pc'[q] = "refused")
  BY <1>1 DEF IInv, TypeOK
<1>4. stopping' \in BOOLEAN /\ (stopping' => stopping \/ \A q \in Requests : Open(q) => q \in {r})
  BY <1>1 DEF IInv, TypeOK
<1>5. UNCHANGED <<directive, failed>>
  BY DEF Raise
<1> QED BY <1>1, <1>2, <1>3, <1>4, <1>5, CloseKeeps

\* A timer, a disconnect, a vanished camera or a shutdown only closes.
LEMMA ReleaseKeeps ==
  ASSUME IInv, NEW S \in SUBSET Requests, Close(S), UNCHANGED <<directive, pc, failed>>,
         \/ stopping' = stopping
         \/ stopping' = TRUE /\ S = {r \in Requests : Open(r)}
  PROVE  IInv'
<1>1. pc' \in [Requests -> {"new", "auth"} \cup Negotiating \cup Over]
  BY DEF IInv, TypeOK
<1>2. \A q \in Requests : pc'[q] = pc[q] \/ (q \in S /\ pc'[q] = "refused")
  OBVIOUS
<1>3. stopping' \in BOOLEAN
  BY DEF IInv, TypeOK
<1>4. stopping' => stopping \/ \A q \in Requests : Open(q) => q \in S
  BY Zenon
<1>5. UNCHANGED <<directive, failed>>
  OBVIOUS
<1> QED BY <1>1, <1>2, <1>3, <1>4, <1>5, CloseKeeps

\* Every step of the event loop keeps the invariant.
LEMMA NextKeeps ==
  ASSUME IInv, [Next]_vars
  PROVE  IInv'
<1>1. CASE UNCHANGED vars
  BY <1>1 DEF vars, signals, IInv, TypeOK, Registered, Phases, CameraSide, NoneAfterStop, Open
<1>2. ASSUME NEW r \in Requests,
             Arrive(r) \/ Deny(r) \/ Duplicate(r) \/ RefuseNew(r) \/ OfferDone(r) \/ AnswerDone(r)
      PROVE  IInv'
  <2>1. CASE Arrive(r)
    BY <2>1, MoveKeeps DEF Arrive, Over
  <2>2. CASE Deny(r) \/ RefuseNew(r)
    BY <2>2, MoveKeeps DEF Deny, RefuseNew, Over
  <2>3. CASE Duplicate(r)
    BY <2>3, MoveKeeps DEF Duplicate, Over
  <2>4. CASE OfferDone(r)
    BY <2>4, MoveKeeps DEF OfferDone, Negotiating
  <2>5. CASE AnswerDone(r)
    BY <2>5, MoveKeeps DEF AnswerDone, Negotiating
  <2> QED BY <1>2, <2>1, <2>2, <2>3, <2>4, <2>5
<1>3. ASSUME NEW r \in Requests,
             OfferFails(r) \/ AnswerCancelled(r) \/ FinishBadly(r) \/ Timeout(r) \/ Cancel(r)
      PROVE  IInv'
  BY <1>3, RaiseKeeps DEF OfferFails, AnswerCancelled, FinishBadly, Timeout, Cancel
<1>4. ASSUME NEW r \in Requests, Expire(r)
      PROVE  IInv'
  <2>1. Close({r}) /\ UNCHANGED <<directive, pc, failed>> /\ stopping' = stopping
    BY <1>4 DEF Expire
  <2> QED BY <2>1, ReleaseKeeps
<1>5. ASSUME NEW k \in Keys, NEW camera \in Cameras, NEW user \in Users,
             Disconnect(k, camera, user)
      PROVE  IInv'
  <2>1. table[k] \in Requests
    BY <1>5 DEF Disconnect, IInv, TypeOK
  <2>2. Close({table[k]}) /\ UNCHANGED <<directive, pc, failed>> /\ stopping' = stopping
    BY <1>5 DEF Disconnect
  <2> QED BY <2>1, <2>2, ReleaseKeeps
<1>6. ASSUME NEW camera \in Cameras, CameraGone(camera)
      PROVE  IInv'
  <2> DEFINE S == {r \in Requests : Open(r) /\ directive[r].camera = camera}
  <2>1. S \in SUBSET Requests /\ Close(S) /\ UNCHANGED <<directive, pc, failed>>
        /\ stopping' = stopping
    BY <1>6 DEF CameraGone
  <2> QED BY <2>1, ReleaseKeeps
<1>7. CASE Stop
  <2> DEFINE S == {r \in Requests : Open(r)}
  <2>1. S \in SUBSET Requests /\ Close(S) /\ UNCHANGED <<directive, pc, failed>>
        /\ stopping' = TRUE
    BY <1>7 DEF Stop
  <2> QED BY <2>1, ReleaseKeeps
<1>8. ASSUME NEW r \in Requests, Reserve(r) \/ Camera(r) \/ Finish(r)
      PROVE  IInv'
  BY <1>8, ReserveKeeps, CameraKeeps, FinishKeeps
<1> QED
  BY <1>1, <1>2, <1>3, <1>4, <1>5, <1>6, <1>7, <1>8 DEF Next, Begin, Resume

----------------------------------------------------------------------------
\* The inductive invariant of SessionManager's table, timers and streams.
THEOREM Invariance == Spec => []IInv
BY InitIInv, NextKeeps, PTL DEF Spec

\* Every field of every directive and both tables keep their types, for any
\* interleaving of initiate, the camera and whatever closes sessions.
THEOREM TypeCorrect == Spec => []TypeOK
<1>1. IInv => TypeOK
  BY DEF IInv
<1> QED BY <1>1, Invariance, PTL

\* close and the table never let a camera stream outlive the open session that
\* started it, or be closed on behalf of another session.
THEOREM NoStreamLeaks == Spec => []NoOrphanStream
<1>1. IInv => NoOrphanStream
  <2> SUFFICES ASSUME IInv, NEW k \in Keys, stream[k] # NoRequest
               PROVE  table[k] = stream[k]
    BY DEF NoOrphanStream
  <2>1. stream[k] \in Requests /\ Open(stream[k]) /\ directive[stream[k]].key = k
    BY DEF IInv, CameraSide, TypeOK
  <2> QED BY <2>1 DEF IInv, Registered
<1> QED BY <1>1, Invariance, PTL

\* initiate retains a session only under a deadline: ANSWER_TIMEOUT while it
\* negotiates, SESSION_DURATION from the answer on.
THEOREM RetentionBounded == Spec => []RetainedIsBounded
<1>1. IInv => RetainedIsBounded
  BY DEF IInv, Phases, RetainedIsBounded
<1> QED BY <1>1, Invariance, PTL

\* After stop() no session is open and no camera streams, ever again.
THEOREM StopIsFinal == Spec => []StoppedForGood
<1>1. IInv => StoppedForGood
  BY DEF IInv, Registered, CameraSide, NoneAfterStop, StoppedForGood, TypeOK
<1> QED BY <1>1, Invariance, PTL

----------------------------------------------------------------------------
(* Capacity: the table only grows in Reserve, one entry at a time. *)

Occupied == {k \in Keys : table[k] # NoRequest}

\* Only a reservation adds to the table, and it looks at the limit first.
LEMMA CapacityStep ==
  ASSUME IInv, Within, [Next]_vars
  PROVE  Within'
<1>1. IsFiniteSet(Occupied) /\ Cardinality(Occupied) \in Nat
  BY SetsAreFinite, FS_Subset, FS_CardinalityType DEF Occupied
<1>2. CASE Occupied' \subseteq Occupied
  <2>1. Cardinality(Occupied') <= Cardinality(Occupied) /\ Cardinality(Occupied') \in Nat
    BY <1>1, <1>2, FS_Subset, FS_CardinalityType
  <2> QED BY <1>1, <2>1, SessionsAreNat DEF Within, Occupied
<1>3. ASSUME NEW r \in Requests, Reserve(r)
      PROVE  Within'
  <2>1. Cardinality(Occupied) < MaxSessions
    BY <1>1, <1>3, SessionsAreNat DEF Reserve, AtCapacity, Occupied
  <2>2. Occupied' \subseteq Occupied \cup {directive[r].key}
    BY <1>3 DEF Reserve, Occupied, IInv, TypeOK
  <2>3. /\ IsFiniteSet(Occupied \cup {directive[r].key})
        /\ Cardinality(Occupied \cup {directive[r].key}) <= Cardinality(Occupied) + 1
    <3>1. /\ IsFiniteSet(Occupied \cup {directive[r].key})
          /\ \/ Cardinality(Occupied \cup {directive[r].key}) = Cardinality(Occupied)
             \/ Cardinality(Occupied \cup {directive[r].key}) = Cardinality(Occupied) + 1
      BY <1>1, FS_AddElement
    <3> QED BY <1>1, <3>1
  <2>4. Cardinality(Occupied') <= Cardinality(Occupied) + 1 /\ Cardinality(Occupied') \in Nat
    BY <1>1, <2>2, <2>3, FS_Subset, FS_CardinalityType
  <2> QED BY <1>1, <2>1, <2>4, SessionsAreNat DEF Within, Occupied
<1>4. ASSUME NEW S, Close(S)
      PROVE  Occupied' \subseteq Occupied
  BY <1>4 DEF Close, Occupied
<1>5. ASSUME table' = table
      PROVE  Occupied' \subseteq Occupied
  BY <1>5 DEF Occupied
<1>6. ASSUME NEW r \in Requests, Arrive(r) \/ Deny(r) \/ Duplicate(r) \/ RefuseNew(r) \/ Camera(r)
      PROVE  table' = table
  BY <1>6 DEF Arrive, Deny, Duplicate, RefuseNew, Camera, OpenStream, TaskEnds, ReceiveAnswer,
              ReceiveError
<1>7. ASSUME NEW r \in Requests, Resume(r) \/ Cancel(r) \/ Expire(r)
      PROVE  table' = table \/ \E S : Close(S)
  BY <1>7 DEF Resume, OfferDone, OfferFails, AnswerDone, AnswerCancelled, Finish, FinishBadly,
              Timeout, Cancel, Expire, Raise
<1>8. ASSUME \/ \E k \in Keys, camera \in Cameras, user \in Users : Disconnect(k, camera, user)
             \/ \E camera \in Cameras : CameraGone(camera)
             \/ Stop
      PROVE  \E S : Close(S)
  BY <1>8 DEF Disconnect, CameraGone, Stop
<1>9. CASE UNCHANGED vars
  BY <1>2, <1>5, <1>9 DEF vars
<1> QED
  BY <1>2, <1>3, <1>4, <1>5, <1>6, <1>7, <1>8, <1>9 DEF Next, Begin

\* The table never holds more than MAX_SESSIONS sessions, pending negotiations
\* included, and holds exactly the open ones.
THEOREM CapacityHolds == Spec => []Capacity
<1>1. Init => Within
  <2> SUFFICES ASSUME Init PROVE Within
    OBVIOUS
  <2>1. {k \in Keys : table[k] # NoRequest} = {}
    BY DEF Init
  <2> QED BY <2>1, FS_EmptySet, SessionsAreNat DEF Within
<1>2. IInv /\ Within => Capacity
  <2> SUFFICES ASSUME IInv, Within, NEW r \in Requests
               PROVE  Open(r) <=> table[directive[r].key] = r
    BY DEF Capacity, Within
  <2>1. directive[r].key \in Keys
    BY DEF IInv, TypeOK, Directives
  <2> QED BY <2>1, NoRequestIsNone DEF IInv, Registered
<1>3. Spec => []Within
  BY <1>1, CapacityStep, Invariance, PTL DEF Spec
<1> QED BY <1>2, <1>3, Invariance, PTL

----------------------------------------------------------------------------
\* initiate answers, or replays an answer, only for a session that is open
\* with its timer armed and was offered by the same user, camera and digest.
THEOREM AnswersOnlyLive == Spec => AnswersAreLive
<1>1. ASSUME IInv, [Next]_vars, NEW r \in Requests,
             pc'[r] \in {"answered", "replayed"}, pc'[r] # pc[r]
      PROVE  \E s \in Requests :
               /\ table'[directive[r].key] = s /\ armed'[s]
               /\ directive[s].user = directive[r].user
               /\ directive[s].camera = directive[r].camera
               /\ directive[s].offer = directive[r].offer
  <2>1. Finish(r) \/ Duplicate(r)
    <3>1. ASSUME NEW q \in Requests, Raise(q)
          PROVE  pc'[r] \in {pc[r], "refused"}
      BY <1>1, <3>1 DEF Raise, IInv, TypeOK
    <3>2. ASSUME NEW q \in Requests, q # r,
                 Arrive(q) \/ Begin(q) \/ Resume(q) \/ Cancel(q)
          PROVE  pc'[r] \in {pc[r], "refused"}
      BY <1>1, <3>1, <3>2 DEF Arrive, Begin, Deny, Duplicate, RefuseNew, Reserve, Resume, OfferDone,
                        OfferFails, AnswerDone, AnswerCancelled, Finish, FinishBadly, Timeout,
                        Cancel, IInv, TypeOK
    <3>3. ASSUME Arrive(r) \/ Deny(r) \/ RefuseNew(r) \/ Reserve(r) \/ OfferDone(r)
                 \/ OfferFails(r) \/ AnswerDone(r) \/ AnswerCancelled(r) \/ FinishBadly(r)
                 \/ Timeout(r) \/ Cancel(r)
          PROVE  FALSE
      BY <1>1, <3>1, <3>3 DEF Arrive, Deny, RefuseNew, Reserve, OfferDone, OfferFails, AnswerDone,
                        AnswerCancelled, FinishBadly, Timeout, Cancel, IInv, TypeOK
    <3>4. ASSUME NEW q \in Requests, Camera(q) \/ Expire(q)
          PROVE  pc' = pc
      BY <3>4 DEF Camera, OpenStream, TaskEnds, ReceiveAnswer, ReceiveError, Expire
    <3>5. ASSUME \/ \E k \in Keys, camera \in Cameras, user \in Users : Disconnect(k, camera, user)
                 \/ \E camera \in Cameras : CameraGone(camera)
                 \/ Stop
          PROVE  pc' = pc
      BY <3>5 DEF Disconnect, CameraGone, Stop
    <3>6. CASE UNCHANGED vars
      BY <1>1, <3>6 DEF vars
    <3> QED
      BY <1>1, <3>2, <3>3, <3>4, <3>5, <3>6 DEF Next, Begin, Resume
  <2>2. CASE Finish(r)
    <3>1. table[directive[r].key] = r /\ table' = table
      BY <1>1, <2>2 DEF Finish, Usable, IInv, Registered
    <3>2. armed'[r]
      BY <1>1, <2>2 DEF Finish, IInv, TypeOK
    <3> QED BY <3>1, <3>2
  <2>3. CASE Duplicate(r)
    <3> DEFINE s == table[directive[r].key]
    <3>1. s # NoRequest /\ pc' = [pc EXCEPT ![r] = IF SameOffer(r, s) /\ pc[s] = "answered"
                                                   THEN "replayed" ELSE "refused"]
      BY <2>3 DEF Duplicate
    <3>2. SameOffer(r, s) /\ pc[s] = "answered"
      BY <1>1, <3>1 DEF IInv, TypeOK
    <3>3. s \in Requests /\ Open(s)
      BY <1>1, <3>1 DEF IInv, Registered, TypeOK, Directives
    <3>4. armed[s]
      BY <1>1, <3>2, <3>3 DEF IInv, Phases, Negotiating
    <3>5. table' = table /\ armed' = armed
      BY <2>3 DEF Duplicate
    <3> QED BY <3>2, <3>3, <3>4, <3>5 DEF SameOffer
  <2> QED BY <2>1, <2>2, <2>3
<1>2. IInv /\ [Next]_vars =>
        [\A r \in Requests :
           pc'[r] \in {"answered", "replayed"} /\ pc'[r] # pc[r] =>
             \E s \in Requests :
               /\ table'[directive[r].key] = s /\ armed'[s]
               /\ directive[s].user = directive[r].user
               /\ directive[s].camera = directive[r].camera
               /\ directive[s].offer = directive[r].offer]_vars
  BY <1>1
<1> QED BY <1>2, Invariance, PTL DEF Spec, AnswersAreLive
=============================================================================
