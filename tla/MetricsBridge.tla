--------------------------- MODULE MetricsBridge ----------------------------
(***************************************************************************)
(* The metrics half of bridge.py (class Bridge, main): every INTERVAL a    *)
(* fixed list of Prometheus queries, each result published to Home         *)
(* Assistant as a value and a retained availability. A sensor is offline   *)
(* unless its query gave exactly one finite sample; a killed bridge leaves *)
(* "online" behind, which expire_after makes up for.                       *)
(*                                                                         *)
(* Sensors are numbered in the order they are published. A query fails for *)
(* any reason parse_vector knows or because the query deadline passed; a   *)
(* publish is accepted, rejected (or not sent: the deadline), or times out *)
(* after Home Assistant acted on it. A publish that times out and is acted *)
(* on after later ones is left out: it would undo them until the next      *)
(* cycle. Time is counted in intervals.                                    *)
(***************************************************************************)
EXTENDS Naturals, Sequences

CONSTANTS
  NumSensors,   \* SENSORS
  Expire        \* EXPIRE_AFTER, in intervals

SensorsAreNat == NumSensors \in Nat \ {0} /\ Expire \in Nat \ {0}

Sensors == 1 .. NumSensors

VARIABLES
  works,      \* sensors whose query gives one finite sample
  calm,       \* no fault happens any more
  phase,      \* where main() and cycle() are
  at,         \* the sensor being published, one past the last when all were
  part,       \* which of its messages
  results,    \* sensors this cycle has a value for
  available,  \* Bridge.available: sensors believed online
  online,     \* Home Assistant: retained availability
  age         \* Home Assistant: intervals since it received the value

bridgeVars == <<works, calm, phase, at, part, results, available, online, age>>

Phases == {"down", "startup", "backoff", "offline", "query", "publish", "wait", "stop"}

\* The first process finds what an earlier one may have left.
BridgeInit ==
  /\ works \in SUBSET Sensors /\ calm = FALSE
  /\ phase = "down" /\ at = 1 /\ part = 1 /\ results = {} /\ available = {}
  /\ online \in SUBSET Sensors
  /\ age = [s \in Sensors |-> Expire]

\* What Home Assistant shows.
Shown(s) == s \in online /\ age[s] < Expire

----------------------------------------------------------------------------
(* The world. *)

TargetChanges(s) ==
  /\ ~calm
  /\ works' = IF s \in works THEN works \ {s} ELSE works \cup {s}
  /\ UNCHANGED <<calm, phase, at, part, results, available, online, age>>

Calm ==
  /\ ~calm /\ calm' = TRUE
  /\ UNCHANGED <<works, phase, at, part, results, available, online, age>>

\* An interval passes: between two cycles, before a retry of the startup, or with
\* no process. The deadlines keep a cycle within its own.
Pass ==
  /\ phase \in {"wait", "backoff", "down"}
  /\ phase' = CASE phase = "wait"    -> "query"
                [] phase = "backoff" -> "startup"
                [] phase = "down"    -> "down"
  /\ age' = [s \in Sensors |-> IF age[s] < Expire THEN age[s] + 1 ELSE Expire]
  /\ UNCHANGED <<works, calm, at, part, results, available, online>>

----------------------------------------------------------------------------
(* Faulty variants, for mutation tests of the properties. *)

\* A sensor believed online is not told so again.
MessagesOnChange ==
  CASE phase = "publish" /\ at \in results /\ at \in available -> <<"value">>
    [] phase = "publish" /\ at \in results -> <<"value", "online">>
    [] OTHER -> <<"offline">>

\* A query that fails leaves the last sample.
LastSamples(failing) == results \cup (works \ failing)

----------------------------------------------------------------------------
(* Startup and cycle. *)

\* publish_discovery. A failed startup is tried again after a pause.
Discover(accepted) ==
  /\ phase = "startup" /\ (calm => accepted)
  /\ phase' = IF accepted THEN "offline" ELSE "backoff"
  /\ UNCHANGED <<works, calm, at, part, results, available, online, age>>

\* One finite sample, and before the deadline.
Samples(failing) == works \ failing

\* All the queries, up to the deadline; then discovery again when it is due,
\* whose failure stops nothing.
Query(failing) ==
  /\ phase = "query" /\ (calm => failing = {})
  /\ results' = Samples(failing)
  /\ phase' = "publish" /\ at' = 1
  /\ UNCHANGED <<works, calm, part, available, online, age>>

\* "State first, so the entity never comes online showing an old value."
ValueFirst == <<"value", "online">>

\* What is published for the sensor at hand: mark_all_offline or the cycle.
Messages == IF phase = "publish" /\ at \in results THEN ValueFirst ELSE <<"offline">>

\* Home Assistant acts on a message.
Acts(m) ==
  /\ online' = CASE m = "online"  -> online \cup {at}
                 [] m = "offline" -> online \ {at}
                 [] m = "value"   -> online
  /\ age' = IF m = "value" THEN [age EXCEPT ![at] = 0] ELSE age

Finished == CASE phase = "offline" -> "query" [] phase = "publish" -> "wait" [] phase = "stop" -> "down"
GivenUp  == CASE phase = "offline" -> "backoff" [] phase = "publish" -> "wait" [] phase = "stop" -> "down"

\* The bridge believes it as soon as all of a sensor's messages are accepted.
Accepted ==
  /\ Acts(Messages[part])
  /\ IF part < Len(Messages)
     THEN part' = part + 1 /\ UNCHANGED <<phase, at, available>>
     ELSE /\ part' = 1 /\ at' = at + 1
          /\ available' = IF Messages[part] = "offline" THEN available \ {at} ELSE available \cup {at}
          /\ phase' = IF at < NumSensors THEN phase ELSE Finished

\* A startup starts over, a cycle breaks off, a shutdown leaves it to expire_after.
Ends == phase' = GivenUp /\ at' = 1

\* Rejected, not sent for lack of time, or timed out: Home Assistant acts on it
\* before the next message, or never.
Failed ==
  /\ ~calm
  /\ Acts(Messages[part]) \/ UNCHANGED <<online, age>>
  /\ Ends
  /\ part' = 1
  /\ UNCHANGED available

Send ==
  /\ phase \in {"offline", "publish", "stop"}
  /\ Accepted \/ Failed
  /\ UNCHANGED <<works, calm, results>>

----------------------------------------------------------------------------
(* main() *)

Start ==
  /\ phase = "down"
  /\ phase' = "startup" /\ at' = 1 /\ part' = 1
  /\ results' = {} /\ available' = {}
  /\ UNCHANGED <<works, calm, online, age>>

\* SIGTERM is looked at between cycles and between attempts to start.
Stop ==
  /\ ~calm
  /\ phase \in {"startup", "backoff", "query", "wait"}
  /\ phase' = "stop" /\ at' = 1
  /\ UNCHANGED <<works, calm, part, results, available, online, age>>

Kill ==
  /\ ~calm /\ phase # "down"
  /\ phase' = "down"
  /\ UNCHANGED <<works, calm, at, part, results, available, online, age>>

Bridge ==
  \/ \E accepted \in BOOLEAN : Discover(accepted)
  \/ \E failing \in SUBSET Sensors : Query(failing)
  \/ Send

BridgeNext ==
  \/ \E s \in Sensors : TargetChanges(s)
  \/ Calm \/ Pass \/ Bridge \/ Start \/ Stop \/ Kill

BridgeSpec == BridgeInit /\ [][BridgeNext]_bridgeVars

\* The loop goes on, time passes however often the bridge is killed, and a bridge
\* that is down when the faults are over is started again.
BridgeFairSpec ==
  BridgeSpec /\ WF_bridgeVars(Bridge) /\ SF_bridgeVars(Pass) /\ WF_bridgeVars(calm /\ Start)

----------------------------------------------------------------------------
(* Properties *)

\* Where the loop is, what it believes, what Home Assistant holds.
BridgeTypeOK ==
  /\ {works, results, available, online} \subseteq SUBSET Sensors
  /\ calm \in BOOLEAN /\ phase \in Phases
  /\ at \in 1 .. NumSensors + 1 /\ part \in 1 .. 2
  /\ age \in [Sensors -> 0 .. Expire]

\* Whatever became of earlier publishes, a cycle leaves each sensor that it got to,
\* all of them when nothing broke it off, shown with its new value, or hidden, and
\* believed to be: a cycle repairs what a timeout, a kill or an earlier process
\* left behind.
CycleIsShown ==
  phase \in {"publish", "wait"} => \A s \in 1 .. at - 1 :
    /\ Shown(s) = (s \in results) /\ (s \in available) = (s \in results)
    /\ s \in results => age[s] = 0

\* "The entity never comes online showing an old value": not even by a message that
\* timed out, or in a cycle whose earlier ones failed.
ComesOnlineFresh ==
  [][\A s \in Sensors : s \notin online /\ s \in online' => age[s] = 0]_bridgeVars

\* "Fail-closed": a sensor without a sample for good is not shown in the end, even
\* when no publish ever gets through or the bridge is killed and stays down.
FailsClosed ==
  \A s \in Sensors :
    <>[](s \notin works \/ phase = "down") => <>[](~Shown(s))

\* Once faults stop, Home Assistant shows exactly the sensors that work, and the
\* bridge's own view of it, which trails ambiguous publishes, agrees.
Settles == <>[](calm => \A s \in Sensors :
                  /\ Shown(s) = (s \in works)
                  /\ (s \in available) = (s \in works))
=============================================================================
