-------------------------- MODULE MCWorkflowStore ---------------------------
(* Small instances of WorkflowStore. *)
EXTENDS WorkflowStore, TLC

CONSTANTS p1, p2, n1, n2, n3

\* The third name has the runtime of the first.
MCSanitized == (n1 :> n1) @@ (n2 :> n2) @@ (n3 :> n1)

\* One command at a time on two workflows.
Serial == [procs |-> {p1}, names |-> {n1, n2}, commands |-> 5,
           faults |-> FALSE, crashes |-> FALSE]

\* One at a time on two that share a runtime.
Sharing == [Serial EXCEPT !.names = {n1, n3}, !.commands = 4]

\* Two at once on one workflow, with failures and crashes inside the lock.
Concurrent == [procs |-> {p1, p2}, names |-> {n1}, commands |-> 3,
               faults |-> TRUE, crashes |-> TRUE]

MCSettings == {Serial, Sharing, Concurrent}

\* Two at once on two workflows, and nothing fails.
Faultless == {[Concurrent EXCEPT !.names = {n1, n2}, !.commands = 2,
                                 !.faults = FALSE, !.crashes = FALSE]}
=============================================================================
