---------------------------- MODULE MCSolisStale ----------------------------
(* SolisSlots with what the last planned apply_schedule started from and     *)
(* wanted remembered, to check what its docstring says of a failure.         *)
EXTENDS SolisSlots, Functions

VARIABLES
  before,    \* the window registers when it started
  planned    \* the windows it was to write

\* As a plan would leave it: no two slots hold the same window.
StaleInit ==
  /\ Init
  /\ IsInjective(inverter.window)
  /\ before = inverter.window /\ planned = AllOff

Starts == pc = "idle" /\ pc' = "read" /\ ~clearing'

StaleNext ==
  /\ Next
  /\ before'  = IF Starts THEN inverter.window ELSE before
  /\ planned' = IF Starts THEN target' ELSE planned

StaleSpec == StaleInit /\ [][StaleNext]_<<vars, before, planned>>

NewlyWritten(s) == planned[s] # Off /\ inverter.window[s] = planned[s] /\ before[s] # planned[s]
Outdated(s)     == inverter.window[s] # planned[s]

\* The docstring of apply_schedule: its three phases are there "so a failure
\* part-way can never leave a stale slot live next to a new one".
NoStaleBesideNew ==
  pc = "idle" /\ outcome = "failed" =>
    ~ \E s, t \in Slots :
        /\ planned[s] # planned[t]
        /\ Armed(s) /\ Outdated(s)
        /\ Armed(t) /\ NewlyWritten(t)
=============================================================================
