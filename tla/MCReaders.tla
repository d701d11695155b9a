----------------------------- MODULE MCReaders -------------------------------
(* UsageQueue, Briefing, SolisVerdict and BayStream, checked together for    *)
(* safety. They share nothing, so a behaviour follows one of them, its       *)
(* subject, and leaves the others where they start. The properties are those *)
(* of the modules, under their own names.                                    *)
EXTENDS UsageQueue, Briefing, SolisVerdict, BayStream

VARIABLE subject

vars == <<subject, usageVars, briefingVars, verdictVars, streamVars>>

\* One tariff, without two half-hours in a row at the same price.
OnePrice == {[h \in 0 .. Days * PerDay - 1 |-> (h * 5) % 7]}

ASSUME Sizes ==
  /\ UsageSizes /\ UsageSeries
  /\ BriefingSizes /\ HorizonWithinDay
  /\ WindowIsOne
  /\ BayNamesFinite /\ CapacitiesAreNat /\ MissingIsNone

\* Only the subject starts in any of its initial states.
Init ==
  /\ subject \in {"usage", "briefing", "verdict", "stream"}
  /\ UsageInit /\ BriefingInit /\ VerdictInit /\ StreamInit
  /\ subject # "briefing" => holes = {}
  /\ subject # "verdict"  => armed /\ running /\ timed

Next ==
  \/ subject = "usage"    /\ UsageNext    /\ UNCHANGED <<subject, briefingVars, verdictVars, streamVars>>
  \/ subject = "briefing" /\ BriefingNext /\ UNCHANGED <<subject, usageVars, verdictVars, streamVars>>
  \/ subject = "verdict"  /\ VerdictNext  /\ UNCHANGED <<subject, usageVars, briefingVars, streamVars>>
  \/ subject = "stream"   /\ StreamNext   /\ UNCHANGED <<subject, usageVars, briefingVars, verdictVars>>

Spec == Init /\ [][Next]_vars
=============================================================================
