----------------------------- MODULE MCActLoop ------------------------------
(* Small instances of ActLoop: every kind of call occurs, alone and after a *)
(* call that may redirect the agent, and one program leaves the browser     *)
(* alone.                                                                   *)
EXTENDS ActLoop

MCPrograms == {
    <<"action", "observe", "hitl">>,
    <<"tool">>,
    <<"action", "return">>,
    <<"throw">>,
    <<"unknown">>}
=============================================================================
