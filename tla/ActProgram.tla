----------------------------- MODULE ActProgram -----------------------------
(***************************************************************************)
(* The programs a model step returns and what one run of a program leaves  *)
(* behind: impl/program/base.py and impl/program/runner.py.  A call is the *)
(* kind of tool it names; its arguments and return value are left out.     *)
(***************************************************************************)
EXTENDS Sequences, Naturals

None == "none"

\* Kinds of calls: a browser action that may redirect the agent (agentClick
\* ...), the settle calls (wait, waitForPageToSettle), takeObservation, a
\* user's tool, a human-in-the-loop tool, return, throw, and a name the tool
\* map does not hold.
Calls == {"action", "settle", "observe", "tool", "hitl",
          "return", "throw", "unknown"}

BrowserCalls == {"action", "settle", "observe"}

\* The calls Burst marks as tools: their input is a dict, not a list.
IsTool(call) == call \in {"tool", "hitl"}

\* requires_unlocked_actuator_context
NeedsUnlockedContext(call) == call = "hitl"

\* What a call's target (or the state guardrail run after takeObservation) may
\* raise.
Raises == [call \in Calls |->
    CASE call = "action"  -> {"AgentRedirectError", "ActStateGuardrailError",
                              "InterpreterError", "ValueError", "Exception"}
      [] call = "settle"  -> {"Exception"}
      [] call = "observe" -> {"ActStateGuardrailError", "Exception"}
      [] call = "tool"    -> {"ValueError", "Exception"}
      [] call = "hitl"    -> {"NoHumanInputToolAvailable",
                              "HumanInputCanceled", "Exception"}
      [] OTHER            -> {}]

RawErrors == UNION {Raises[call] : call \in Calls}

\* The exception the runner files in the call's result.
ErrorOf(call, raised) ==
    IF raised \in {None, "AgentRedirectError", "ActStateGuardrailError"} THEN raised
    ELSE IF raised = "NoHumanInputToolAvailable" THEN "ActAgentFailed"
    ELSE IF raised = "InterpreterError" THEN "ActInvalidModelGenerationError"
    ELSE IF IsTool(call) THEN "ActToolError"
    ELSE IF raised = "ValueError" THEN "ActInvalidModelGenerationError"
    ELSE "ActActuationError"

CallErrors == {"ActAgentFailed", "AgentRedirectError", "ActStateGuardrailError",
               "ActInvalidModelGenerationError", "ActToolError",
               "ActActuationError"}

CallResults == [call : Calls, raised : RawErrors \cup {None},
                error : CallErrors \cup {None}]

ResultOf(call, raised) ==
    [call |-> call, raised |-> raised, error |-> ErrorOf(call, raised)]

\* The runner breaks out of the program after this result.
Stops(result) ==
    \/ result.call \in {"return", "throw"}
    \/ result.error \notin {None, "AgentRedirectError"}

\* dispatch() runs this program before it enters the controller.
InitialProgram == <<"settle", "observe">>

\* ProgramResult's views of a run.
HasReturn(results) == \E i \in DOMAIN results : results[i].call = "return"

HasThrow(results) == \E i \in DOMAIN results : results[i].call = "throw"

HasException(results) == \E i \in DOMAIN results : results[i].error # None

\* has_exception() returns the first call that failed, whatever failed later.
IsFirstException(results, i) ==
    /\ i \in DOMAIN results
    /\ results[i].error # None
    /\ \A j \in 1 .. (i - 1) : results[j].error = None

\* A takeObservation that left an observation behind: the guardrail rejects a
\* value that is already recorded, any other failure leaves None.
Observed(result) ==
    result.call = "observe" /\ result.raised \in {None, "ActStateGuardrailError"}

\* has_observation() looks at the run's first takeObservation, the backend at
\* its last.
FirstObserved(results) ==
    \E i \in DOMAIN results :
        /\ Observed(results[i])
        /\ \A j \in DOMAIN results : j < i => results[j].call # "observe"

LastObserved(results) ==
    \E i \in DOMAIN results :
        /\ Observed(results[i])
        /\ \A j \in DOMAIN results : j > i => results[j].call # "observe"
=============================================================================
