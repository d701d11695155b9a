---------------------------- MODULE RtcSessions -----------------------------
(***************************************************************************)
(* class SessionManager of alexa_rtc_bridge/session.py and the callbacks of *)
(* its __init__.py: one event loop on which many Alexa directives           *)
(* interleave at their awaits. An action is what runs between two awaits.   *)
(*                                                                          *)
(* A Session object belongs to the request that created it, so a request    *)
(* names its session. Time is abstracted: a deadline may pass whenever the  *)
(* code waits under it, so the end of candidate gathering, which only ends  *)
(* such a wait sooner, is left out. Offers, answers and candidates are      *)
(* opaque; whether an answer is usable is a choice. The camera keeps its    *)
(* streams by session identifier, and close_webrtc_session releases one.    *)
(***************************************************************************)
EXTENDS Naturals, FiniteSets

CONSTANTS
  Requests,      \* InitiateSessionWithOffer directives that may arrive
  Keys,          \* session identifiers
  Cameras, Users, Offers,
  MaxSessions,   \* MAX_SESSIONS
  NoRequest      \* no session

ASSUME SetsAreFinite    == IsFiniteSet(Keys)
ASSUME SessionsAreNat   == MaxSessions \in Nat
ASSUME NoRequestIsNone  == NoRequest \notin Requests

Directives == [key : Keys, camera : Cameras, user : Users, offer : Offers]

VARIABLES
  directive,  \* what each request asks for, once it arrived
  pc,         \* where initiate/_answer stands for each request
  session,    \* its Session object: "none", "open", or "closed"
  table,      \* self.sessions
  armed,      \* session.expiry is a pending timer
  task,       \* session.task, the camera's handling of the offer
  future,     \* session.answer_future
  failed,     \* camera_error
  stream,     \* the camera: which session opened a stream under each key
  stopping    \* self.stopping

signals == <<task, future, failed>>
vars == <<directive, pc, session, table, armed, signals, stream, stopping>>

Negotiating == {"offer", "answer", "gather"}
Over        == {"answered", "replayed", "refused"}
Open(r)     == session[r] = "open"

Init ==
  /\ directive \in [Requests -> Directives]
  /\ pc = [r \in Requests |-> "new"]
  /\ session = [r \in Requests |-> "none"]
  /\ table = [k \in Keys |-> NoRequest]
  /\ armed = [r \in Requests |-> FALSE]
  /\ task = [r \in Requests |-> "none"]
  /\ future = [r \in Requests |-> "none"]
  /\ failed = [r \in Requests |-> FALSE]
  /\ stream = [k \in Keys |-> NoRequest]
  /\ stopping = FALSE

----------------------------------------------------------------------------
(* close(key, session), for a set of sessions; closed ones are left alone. *)

\* Faulty variant of TasksWithout: nothing cancels the camera's task.
TasksLeftRunning(C) == task

\* session.task.cancel(): a running camera task never resumes.
TasksWithout(C) == [r \in Requests |->
                      IF r \in C /\ task[r] = "running" THEN "cancelled" ELSE task[r]]

\* The camera closes by identifier, the table by identity.
Close(S) ==
  LET C == {r \in S : Open(r)}
  IN /\ session' = [r \in Requests |-> IF r \in C THEN "closed" ELSE session[r]]
     /\ table' = [k \in Keys |-> IF table[k] \in C THEN NoRequest ELSE table[k]]
     /\ armed' = [r \in Requests |-> r \notin C /\ armed[r]]
     /\ task' = TasksWithout(C)
     /\ future' = [r \in Requests |->
                     IF r \in C /\ future[r] = "pending" THEN "cancelled" ELSE future[r]]
     /\ stream' = [k \in Keys |->
                     IF \E r \in C : directive[r].key = k THEN NoRequest ELSE stream[k]]

----------------------------------------------------------------------------
(* Faulty variants, for mutation tests of the properties. *)

UsableUnlessError(r) == ~failed[r]

FullOnly == Cardinality({k \in Keys : table[k] # NoRequest}) >= MaxSessions

FullOffByOne == stopping \/ Cardinality({k \in Keys : table[k] # NoRequest}) > MaxSessions

OfferDeadlineOnly == {"offer"}

\* "except Exception" lets a CancelledError through without closing.
CancelEscapes(r) ==
  /\ pc[r] \in {"auth"} \cup Negotiating
  /\ pc' = [pc EXCEPT ![r] = "refused"]
  /\ UNCHANGED <<directive, session, table, armed, signals, stream, stopping>>

----------------------------------------------------------------------------
(* initiate: from the directive to the reservation *)

\* _identity before its await: a stopping bridge refuses at once.
Arrive(r) ==
  /\ pc[r] = "new"
  /\ pc' = [pc EXCEPT ![r] = IF stopping THEN "refused" ELSE "auth"]
  /\ UNCHANGED <<directive, session, table, armed, signals, stream, stopping>>

\* An inactive user, a missing permission, camera or capability, a bad payload.
Deny(r) ==
  /\ pc[r] = "auth"
  /\ pc' = [pc EXCEPT ![r] = "refused"]
  /\ UNCHANGED <<directive, session, table, armed, signals, stream, stopping>>

\* Same camera, user and offer digest.
SameOffer(r, s) ==
  /\ directive[s].camera = directive[r].camera
  /\ directive[s].user = directive[r].user
  /\ directive[s].offer = directive[r].offer

\* self.sessions.get(key): the established answer again, or an error.
Duplicate(r) ==
  LET s == table[directive[r].key]
  IN /\ pc[r] = "auth"
     /\ s # NoRequest
     /\ pc' = [pc EXCEPT ![r] =
                 IF SameOffer(r, s) /\ pc[s] = "answered" THEN "replayed" ELSE "refused"]
     /\ UNCHANGED <<directive, session, table, armed, signals, stream, stopping>>

\* self.stopping or len(self.sessions) >= MAX_SESSIONS
AtCapacity == stopping \/ Cardinality({k \in Keys : table[k] # NoRequest}) >= MaxSessions

RefuseNew(r) ==
  /\ pc[r] = "auth"
  /\ table[directive[r].key] = NoRequest
  /\ AtCapacity
  /\ pc' = [pc EXCEPT ![r] = "refused"]
  /\ UNCHANGED <<directive, session, table, armed, signals, stream, stopping>>

\* The Session is reserved and the camera task created without a yield.
Reserve(r) ==
  /\ pc[r] = "auth"
  /\ table[directive[r].key] = NoRequest
  /\ ~AtCapacity
  /\ pc' = [pc EXCEPT ![r] = "offer"]
  /\ session' = [session EXCEPT ![r] = "open"]
  /\ table' = [table EXCEPT ![directive[r].key] = r]
  /\ task' = [task EXCEPT ![r] = "running"]
  /\ future' = [future EXCEPT ![r] = "pending"]
  /\ UNCHANGED <<directive, armed, failed, stream, stopping>>

----------------------------------------------------------------------------
(* The camera: its task and the messages it sends to receive(). *)

OpenStream(r) ==
  /\ task[r] = "running"
  /\ stream' = [stream EXCEPT ![directive[r].key] = r]
  /\ UNCHANGED <<directive, pc, session, table, armed, signals, stopping>>

TaskEnds(r) ==
  /\ task[r] = "running"
  /\ \E result \in {"returned", "raised"} : task' = [task EXCEPT ![r] = result]
  /\ UNCHANGED <<directive, pc, session, table, armed, future, failed, stream, stopping>>

\* receive() ignores what comes after _answer ended or the session closed.
Accepting(r) == pc[r] \in Negotiating /\ Open(r)

Answered(r) == [future EXCEPT ![r] = IF future[r] = "pending" THEN "set" ELSE future[r]]

ReceiveAnswer(r) ==
  /\ Accepting(r)
  /\ future' = Answered(r)
  /\ UNCHANGED <<directive, pc, session, table, armed, task, failed, stream, stopping>>

ReceiveError(r) ==
  /\ Accepting(r)
  /\ failed' = [failed EXCEPT ![r] = TRUE]
  /\ future' = Answered(r)
  /\ UNCHANGED <<directive, pc, session, table, armed, task, stream, stopping>>

----------------------------------------------------------------------------
(* _answer, and the end of initiate *)

\* Whatever is raised, initiate closes its session before it propagates.
Raise(r) ==
  /\ Close({r})
  /\ pc' = [pc EXCEPT ![r] = "refused"]
  /\ UNCHANGED <<directive, failed, stopping>>

OfferDone(r) ==
  /\ pc[r] = "offer"
  /\ task[r] = "returned"
  /\ pc' = [pc EXCEPT ![r] = "answer"]
  /\ UNCHANGED <<directive, session, table, armed, signals, stream, stopping>>

OfferFails(r) ==
  /\ pc[r] = "offer"
  /\ task[r] \in {"raised", "cancelled"}
  /\ Raise(r)

AnswerDone(r) ==
  /\ pc[r] = "answer"
  /\ future[r] = "set"
  /\ pc' = [pc EXCEPT ![r] = "gather"]
  /\ UNCHANGED <<directive, session, table, armed, signals, stream, stopping>>

AnswerCancelled(r) ==
  /\ pc[r] = "answer"
  /\ future[r] = "cancelled"
  /\ Raise(r)

\* Not camera_error, and not closed while it waited for candidates.
Usable(r) == ~failed[r] /\ Open(r)

\* gathering_done, or CANDIDATE_TIMEOUT, and an answer Alexa can use: the
\* answer is kept, the expiry armed and the response sent without a yield.
Finish(r) ==
  /\ pc[r] = "gather"
  /\ Usable(r)
  /\ pc' = [pc EXCEPT ![r] = "answered"]
  /\ armed' = [armed EXCEPT ![r] = TRUE]
  /\ UNCHANGED <<directive, session, table, signals, stream, stopping>>

\* An error or a close meanwhile, or an answer that is not one or has no IPv4.
FinishBadly(r) ==
  /\ pc[r] = "gather"
  /\ Raise(r)

\* ANSWER_TIMEOUT covers all three waits.
Timed == Negotiating

Timeout(r) ==
  /\ pc[r] \in Timed
  /\ Raise(r)

\* The HTTP request behind the directive is cancelled.
Cancel(r) ==
  /\ pc[r] \in {"auth"} \cup Negotiating
  /\ Raise(r)

----------------------------------------------------------------------------
(* What else closes sessions *)

Expire(r) ==
  /\ armed[r]
  /\ Close({r})
  /\ UNCHANGED <<directive, pc, failed, stopping>>

\* disconnected(): by the user and the camera that own the session.
Disconnect(k, camera, user) ==
  LET s == table[k]
  IN /\ s # NoRequest
     /\ directive[s].camera = camera /\ directive[s].user = user
     /\ Close({s})
     /\ UNCHANGED <<directive, pc, failed, stopping>>

\* camera_state_changed: the entity was removed or became unavailable.
CameraGone(camera) ==
  /\ ~stopping
  /\ Close({r \in Requests : Open(r) /\ directive[r].camera = camera})
  /\ UNCHANGED <<directive, pc, failed, stopping>>

\* EVENT_HOMEASSISTANT_STOP
Stop ==
  /\ ~stopping
  /\ stopping' = TRUE
  /\ Close({r \in Requests : Open(r)})
  /\ UNCHANGED <<directive, pc, failed>>

----------------------------------------------------------------------------
Begin(r) == Deny(r) \/ Duplicate(r) \/ RefuseNew(r) \/ Reserve(r)
Camera(r) == OpenStream(r) \/ TaskEnds(r) \/ ReceiveAnswer(r) \/ ReceiveError(r)
Resume(r) ==
  \/ OfferDone(r) \/ OfferFails(r) \/ AnswerDone(r) \/ AnswerCancelled(r)
  \/ Finish(r) \/ FinishBadly(r) \/ Timeout(r)

Next ==
  \/ \E r \in Requests : Arrive(r) \/ Begin(r) \/ Camera(r) \/ Resume(r) \/ Cancel(r) \/ Expire(r)
  \/ \E k \in Keys, camera \in Cameras, user \in Users : Disconnect(k, camera, user)
  \/ \E camera \in Cameras : CameraGone(camera)
  \/ Stop

Spec == Init /\ [][Next]_vars

\* The event loop runs what is ready and the timers go off; neither the
\* camera nor Alexa ever has to do anything.
FairSpec ==
  /\ Spec
  /\ \A r \in Requests : WF_vars(Begin(r)) /\ WF_vars(Resume(r)) /\ WF_vars(Expire(r))

----------------------------------------------------------------------------
(* Properties *)

\* Every field of every request, and both tables, keep their types, and a
\* request that has not reserved yet has no Session object.
TypeOK ==
  /\ directive \in [Requests -> Directives]
  /\ pc \in [Requests -> {"new", "auth"} \cup Negotiating \cup Over]
  /\ session \in [Requests -> {"none", "open", "closed"}]
  /\ table \in [Keys -> Requests \cup {NoRequest}]
  /\ armed \in [Requests -> BOOLEAN]
  /\ task \in [Requests -> {"none", "running", "returned", "raised", "cancelled"}]
  /\ future \in [Requests -> {"none", "pending", "set", "cancelled"}]
  /\ failed \in [Requests -> BOOLEAN]
  /\ stream \in [Keys -> Requests \cup {NoRequest}]
  /\ stopping \in BOOLEAN
  /\ \A r \in Requests : pc[r] \in {"new", "auth"} => session[r] = "none"

\* The table holds exactly the open sessions, pending negotiations included,
\* and never more than MAX_SESSIONS of them.
Capacity ==
  /\ \A r \in Requests : Open(r) <=> table[directive[r].key] = r
  /\ Cardinality({k \in Keys : table[k] # NoRequest}) <= MaxSessions

\* "Do not leave Ring's unbounded keepalive running": a camera stream lives
\* only under the open session that started it. No other session's close
\* reaches it and no late camera task opens one for a session that is gone.
NoOrphanStream ==
  \A k \in Keys : stream[k] # NoRequest => table[k] = stream[k]

\* A session is kept only while its request negotiates under ANSWER_TIMEOUT or
\* its expiry timer is pending: nothing is retained that no timer will end.
RetainedIsBounded ==
  \A r \in Requests : Open(r) =>
    \/ pc[r] \in Negotiating /\ ~armed[r]
    \/ pc[r] = "answered" /\ armed[r]

\* An answer, new or replayed, reaches Alexa only for an open session that was
\* offered by the same user on the same camera with the same offer.
AnswersAreLive ==
  [][\A r \in Requests :
       pc'[r] \in {"answered", "replayed"} /\ pc'[r] # pc[r] =>
         \E s \in Requests :
           /\ table'[directive[r].key] = s /\ armed'[s]
           /\ directive[s].user = directive[r].user
           /\ directive[s].camera = directive[r].camera
           /\ directive[s].offer = directive[r].offer]_vars

\* Once Home Assistant stops, no session is open and none opens again, even
\* for a directive whose authentication was under way.
StoppedForGood == stopping => \A k \in Keys : table[k] = NoRequest /\ stream[k] = NoRequest

\* Every directive that got as far as authentication is answered or refused,
\* whether or not the camera ever responds.
DirectivesEnd == \A r \in Requests : pc[r] = "auth" ~> pc[r] \in Over

\* Every session is released, whether or not Alexa ever disconnects it.
SessionsEnd == \A r \in Requests : Open(r) ~> ~Open(r)
=============================================================================
