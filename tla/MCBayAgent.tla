----------------------------- MODULE MCBayAgent -----------------------------
(* BayAgent on hardware that loses no LED by itself, to check what the agent *)
(* says of its own errors.                                                   *)
EXTENDS BayAgent

SteadySpec == Init /\ [][Next /\ \A b \in Bays : ~Drift(b)]_vars
=============================================================================
