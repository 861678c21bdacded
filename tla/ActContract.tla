---------------------------- MODULE ActContract -----------------------------
(***************************************************************************)
(* What one client promises the callers of act(): acts run one after       *)
(* another, an act takes at most MaxSteps model steps, and it ends exactly *)
(* once, with a result or with an error that fits the steps it took.       *)
(***************************************************************************)
EXTENDS Naturals

CONSTANTS
    MaxSteps,    \* the act's max_steps, a natural number
    Errors       \* the exceptions an act may end with

VARIABLES
    phase,       \* "idle" or "running"
    steps,       \* model steps taken by the current (or last) act
    outcome      \* how the last act ended, "none" before

contractVars == <<phase, steps, outcome>>

Init ==
    /\ phase = "idle"
    /\ steps = 0
    /\ outcome = "none"

Begin ==
    /\ phase = "idle"
    /\ phase' = "running"
    /\ steps' = 0
    /\ outcome' = "none"

\* The model is asked for one more program.
ModelStep ==
    /\ phase = "running"
    /\ steps < MaxSteps
    /\ steps' = steps + 1
    /\ UNCHANGED <<phase, outcome>>

\* A result and a cancellation need a program the model returned; the step
\* limit is only blamed when it was reached.
Fits(o) ==
    /\ o \in {"result", "ActCanceledError"} => steps > 0
    /\ o = "ActExceededMaxStepsError" => steps = MaxSteps

End ==
    /\ phase = "running"
    /\ \E o \in Errors \cup {"result"} : Fits(o) /\ outcome' = o
    /\ phase' = "idle"
    /\ UNCHANGED steps

Next == Begin \/ ModelStep \/ End

Spec == Init /\ [][Next]_contractVars
=============================================================================
