----------------------------- MODULE MCServices ------------------------------
(* PetkitStore, MetricsBridge and FanRamp, checked together with their       *)
(* liveness. They share nothing, so a behaviour follows one of them, its     *)
(* subject, and leaves the others where they start. The properties are those *)
(* of the modules, under their own names.                                    *)
EXTENDS PetkitStore, MetricsBridge, FanRamp

VARIABLE subject

vars == <<subject, storeVars, bridgeVars, rampVars>>

ASSUME Sizes == StoreBounds /\ SensorsAreNat /\ RampBounds

\* Only the subject starts in any of its initial states.
Init ==
  /\ subject \in {"store", "bridge", "fans"}
  /\ StoreInit /\ BridgeInit /\ RampInit
  /\ subject # "bridge" => works = {} /\ online = {}
  /\ subject # "fans"   => \A s \in Servers, f \in Levels : fan[s] <= f

Next ==
  \/ subject = "store"  /\ StoreNext  /\ UNCHANGED <<subject, bridgeVars, rampVars>>
  \/ subject = "bridge" /\ BridgeNext /\ UNCHANGED <<subject, storeVars, rampVars>>
  \/ subject = "fans"   /\ RampNext   /\ UNCHANGED <<subject, storeVars, bridgeVars>>

\* The fairness of StoreFairSpec, BridgeFairSpec and RampFairSpec, for the subject.
FairSpec ==
  /\ Init /\ [][Next]_vars
  /\ WF_storeVars(subject = "store" /\ Poll)
  /\ WF_storeVars(subject = "store" /\ Insert)
  /\ WF_storeVars(subject = "store" /\ (WriteManifest \/ WriteFails))
  /\ \A e \in Entities : SF_storeVars(subject = "store" /\ StorePicture(e))
  /\ WF_bridgeVars(subject = "bridge" /\ Bridge)
  /\ SF_bridgeVars(subject = "bridge" /\ Pass)
  /\ WF_bridgeVars(subject = "bridge" /\ calm /\ Start)
  /\ \A s \in Servers : WF_rampVars(subject = "fans" /\ ThermalPoll(s))
=============================================================================
