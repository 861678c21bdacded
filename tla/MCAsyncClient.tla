--------------------------- MODULE MCAsyncClient ----------------------------
(* Small instances of AsyncClient. *)
EXTENDS AsyncClient

Common == [playwright |-> "own", browser |-> "launch", saves |-> FALSE,
           faults |-> FALSE, cancels |-> 0]

\* The default configuration, and one with a Playwright driver of the program's,
\* with everything that can fail; the default Chrome with up to two cancellations,
\* of which one may hit the clean-up; somebody's endpoint.
MCSettings ==
    {[Common EXCEPT !.faults = TRUE, !.saves = TRUE],
     [Common EXCEPT !.playwright = "given", !.faults = TRUE],
     [Common EXCEPT !.browser = "default", !.saves = TRUE, !.cancels = 2],
     [Common EXCEPT !.playwright = "given", !.browser = "endpoint", !.cancels = 1]}
=============================================================================
