-------------------------- MODULE MCClientSession ---------------------------
(* Small instances of ClientSession. *)
EXTENDS ClientSession

\* Managed and shared workflows, with faults, and without where more is promised.
Programs == {s \in Scenario : s.managed \/ s.faults}

\* Nothing fails but what the code itself raises.
Faultless == {[managed |-> TRUE, faults |-> FALSE]}
=============================================================================
