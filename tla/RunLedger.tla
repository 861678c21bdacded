----------------------------- MODULE RunLedger ------------------------------
(***************************************************************************)
(* The books the service keeps of the clients: workflow runs and the acts  *)
(* filed under them.  A run is opened, then closed once; an act is created *)
(* and reported under an open run, and reported once.                      *)
(***************************************************************************)
EXTENDS Naturals, Sequences

VARIABLES
    runs,     \* the status of every run, in the order they were opened
    acts      \* every act: the run it belongs to and its status

FinalStatuses == {"SUCCEEDED", "FAILED"}

IsOpen(r) == r \in DOMAIN runs /\ runs[r] = "RUNNING"

Init == runs = <<>> /\ acts = <<>>

OpenRun == runs' = Append(runs, "RUNNING") /\ UNCHANGED acts

CloseRun ==
    \E r \in DOMAIN runs, status \in FinalStatuses :
        /\ IsOpen(r)
        /\ runs' = [runs EXCEPT ![r] = status]
        /\ UNCHANGED acts

CreateAct ==
    \E r \in DOMAIN runs :
        /\ IsOpen(r)
        /\ acts' = Append(acts, [run |-> r, status |-> "RUNNING"])
        /\ UNCHANGED runs

UpdateAct ==
    \E a \in DOMAIN acts, status \in FinalStatuses :
        /\ acts[a].status = "RUNNING" /\ IsOpen(acts[a].run)
        /\ acts' = [acts EXCEPT ![a].status = status]
        /\ UNCHANGED runs

Next == OpenRun \/ CloseRun \/ CreateAct \/ UpdateAct

Spec == Init /\ [][Next]_<<runs, acts>>
=============================================================================
