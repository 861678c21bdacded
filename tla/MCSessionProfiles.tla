-------------------------- MODULE MCSessionProfiles --------------------------
(* Small instances of SessionProfiles. *)
EXTENDS SessionProfiles

CONSTANTS p1, p2

File == [kind |-> "file", procs |-> {p1, p2}, sessions |-> 4, crashes |-> 1, deletes |-> 0, faults |-> TRUE]

MCSettings ==
    {File,
     [File EXCEPT !.kind = "s3", !.crashes = 0],
     [File EXCEPT !.kind = "agentcore", !.sessions = 3, !.deletes = 1],
     [File EXCEPT !.kind = "agentcore", !.deletes = 1, !.faults = FALSE]}
=============================================================================
