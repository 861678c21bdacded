---------------------------- MODULE MCDeployment ----------------------------
(* Small instances of Deployment. *)
EXTENDS Deployment

CONSTANTS p1, p2, w1, w2, w3

\* One command after the other, while the project is edited and commands break off.
Serial == [procs |-> {p1}, remote |-> FALSE, names |-> {w1}, commands |-> 3, edits |-> 1,
           seconds |-> 1, faults |-> TRUE]

\* Two at once, on one workflow or on two.
Concurrent == [Serial EXCEPT !.procs = {p1, p2}, !.commands = 2, !.edits = 0]

\* The names of w1 and w3 agree in their first 48 characters.
MCSanitized == [w \in {w1, w2, w3} |-> IF w = w3 THEN w1 ELSE w]

MCSettings ==
    {Serial,
     [Serial EXCEPT !.names = {w1, w3}, !.edits = 0],
     [Serial EXCEPT !.remote = TRUE, !.commands = 2],
     Concurrent,
     [Concurrent EXCEPT !.remote = TRUE, !.seconds = 0, !.names = {w1, w2}]}
=============================================================================
