------------------------------ MODULE ActLoop -------------------------------
(***************************************************************************)
(* The act() loop of one client: the dispatcher's main thread, the         *)
(* controller it consults, the thread that watches the keyboard for        *)
(* ctrl+x, and the people around it.  A client runs its acts one after     *)
(* another on the same controller and the same watcher.                    *)
(*                                                                         *)
(* Code: impl/dispatcher.py, impl/controller.py,                           *)
(* impl/keyboard_event_watcher.py, impl/program/runner.py.                 *)
(***************************************************************************)
EXTENDS ActProgram

CONSTANTS
    MaxSteps,      \* max_steps of every act
    MaxActs,       \* bound on the acts of the client
    Tty,           \* tty=True: a KeyboardEventWatcher, not a nullcontext
    Programs       \* the programs the service may answer a step with

ASSUME ActLoopAssumption ==
    /\ MaxSteps \in Nat
    /\ MaxActs \in Nat
    /\ Tty \in BOOLEAN
    /\ Programs \subseteq Seq(Calls)

VARIABLES
    pc,            \* where the main thread is
    acts,          \* acts dispatched so far
    \* --- the Act and the locals of dispatch()
    steps,         \* len(act._steps)
    stepIdx,       \* step_idx
    complete,      \* act.is_complete
    didTimeout,    \* act.did_timeout
    expired,       \* time.time() > end_time
    outcome,       \* "result" or the exception leaving dispatch()
    \* --- the program being run
    program,       \* its calls still to run
    results,       \* program_result.call_results
    ctxLocked,     \* the actuator's hooks are in place
    \* --- NovaStateController
    ctl,           \* _state
    \* --- KeyboardEventWatcher
    watcher,       \* where its thread is
    trigger,       \* the trigger event
    finalStop,     \* final_stop
    \* --- the outside
    keyPending,    \* a ctrl+x waits in the terminal's input
    debugger,      \* DEBUGGER_ATTACHED_EVENT
    \* --- history
    signalled,     \* a cancel was asked for since this act entered the controller
    heldStarts     \* programs started since the pending pause or cancel

actVars == <<steps, stepIdx, complete, didTimeout, outcome>>
programVars == <<program, results, ctxLocked>>
watcherVars == <<watcher, trigger, finalStop>>
\* All that is not the main thread's own.
otherVars == <<ctl, watcherVars, keyPending, debugger, signalled, heldStarts>>
vars == <<pc, acts, actVars, expired, programVars, otherVars>>

ControlStates == {"ACTIVE", "PAUSED", "CANCELLED"}
BackendErrors == {"ActAPIError", "AuthError", "Exception"}
LoopErrors == {"ActTimeoutError", "ActExceededMaxStepsError", "ActCanceledError",
               "InvalidScreenResolution", "ValueError", "KeyboardInterrupt"}
Errors == CallErrors \cup BackendErrors \cup LoopErrors

\* Inside `with self._controller`, after __enter__ and before __exit__.
InLoop == pc \in {"check", "plan", "pause", "cancel", "compile", "run"}

\* What the state property of the controller returns.
SeenState == IF Tty /\ trigger THEN "CANCELLED" ELSE ctl

CancelPending == SeenState = "CANCELLED"
Held == SeenState # "ACTIVE"

Init ==
    /\ pc = "idle" /\ acts = 0
    /\ steps = 0 /\ stepIdx = 0 /\ complete = FALSE /\ didTimeout = FALSE
    /\ expired = FALSE /\ outcome = None
    /\ program = <<>> /\ results = <<>> /\ ctxLocked = FALSE
    /\ ctl = "ACTIVE"
    /\ watcher = "none" /\ trigger = FALSE /\ finalStop = FALSE
    /\ keyPending = FALSE /\ debugger = FALSE
    /\ signalled = FALSE /\ heldStarts = 0

-----------------------------------------------------------------------------
(* The main thread.                                                        *)

\* An exception e (or the result) leaves the loop: the controller is exited on
\* the way out.
LeaveLoop(e) ==
    /\ outcome' = e
    /\ pc' = "exit"
    /\ UNCHANGED <<acts, steps, stepIdx, expired, programVars, watcherVars,
                   keyPending, debugger, signalled, heldStarts>>

Raise(e) == LeaveLoop(e) /\ UNCHANGED <<complete, didTimeout, ctl>>

\* A fresh Act is dispatched.
Dispatch ==
    /\ pc = "idle" /\ acts < MaxActs
    /\ acts' = acts + 1
    /\ steps' = 0 /\ stepIdx' = 0 /\ complete' = FALSE /\ didTimeout' = FALSE
    /\ expired' = FALSE /\ outcome' = None
    /\ program' = InitialProgram /\ results' = <<>>
    /\ signalled' = FALSE
    /\ pc' = "initial"
    /\ UNCHANGED <<ctxLocked, ctl, watcherVars, keyPending, debugger, heldStarts>>

\* Mutant: the context is not locked again after a human-in-the-loop tool.
RunCallEffect_NoRelock(call, raised) ==
    /\ results' = Append(results, ResultOf(call, raised))
    /\ program' = IF Stops(ResultOf(call, raised)) THEN <<>> ELSE Tail(program)
    /\ ctxLocked' = CASE call \in BrowserCalls -> TRUE
                      [] NeedsUnlockedContext(call) -> FALSE
                      [] OTHER -> ctxLocked

\* The context after a call: browser actions put the hooks in place, a
\* human-in-the-loop tool removes them and they come back only if it returns.
RunCallEffect(call, raised) ==
    /\ results' = Append(results, ResultOf(call, raised))
    /\ program' = IF Stops(ResultOf(call, raised)) THEN <<>> ELSE Tail(program)
    /\ ctxLocked' = CASE call \in BrowserCalls -> TRUE
                      [] NeedsUnlockedContext(call) -> raised = None
                      [] OTHER -> ctxLocked

RunCall ==
    /\ pc \in {"initial", "run"} /\ program # <<>>
    /\ \E raised \in Raises[Head(program)] \cup {None} :
           RunCallEffect(Head(program), raised)
    /\ UNCHANGED <<pc, acts, actVars, expired, otherVars>>

\* The initial program failed: dispatch() raises before it enters the controller.
InitialFailed ==
    /\ pc = "initial" /\ program = <<>>
    /\ \E i \in DOMAIN results :
           IsFirstException(results, i) /\ outcome' = results[i].error
    /\ pc' = "idle"
    /\ UNCHANGED <<acts, steps, stepIdx, complete, didTimeout, expired, programVars,
                   otherVars>>

\* Mutant: the terminal's pending input is kept.
EnterController_NoFlush ==
    /\ pc = "initial" /\ program = <<>> /\ ~HasException(results)
    /\ watcher' = IF Tty THEN "top" ELSE watcher
    /\ pc' = "enter"
    /\ UNCHANGED <<acts, actVars, expired, programVars, ctl, trigger, finalStop,
                   keyPending, debugger, signalled, heldStarts>>

\* __enter__: the terminal's pending input is flushed and the thread started ...
EnterController ==
    /\ pc = "initial" /\ program = <<>> /\ ~HasException(results)
    /\ IF Tty THEN watcher' = "top" /\ keyPending' = FALSE
              ELSE UNCHANGED <<watcher, keyPending>>
    /\ pc' = "enter"
    /\ UNCHANGED <<acts, actVars, expired, programVars, ctl, trigger, finalStop,
                   debugger, signalled, heldStarts>>

\* ... and, with the thread already running, the controller is reset; the
\* deadline is set only now.
EnterReset ==
    /\ pc = "enter"
    /\ trigger' = FALSE /\ ctl' = "ACTIVE" /\ heldStarts' = 0
    /\ expired' = FALSE
    /\ pc' = "check"
    /\ UNCHANGED <<acts, actVars, programVars, watcher, finalStop, keyPending,
                   debugger, signalled>>

\* The head of the loop: timeout, then step limit, then the viewport check.
CheckTimeout ==
    /\ pc = "check" /\ expired
    /\ didTimeout' = TRUE
    /\ LeaveLoop("ActTimeoutError")
    /\ UNCHANGED <<complete, ctl>>

CheckMaxSteps ==
    /\ pc = "check" /\ ~expired /\ stepIdx >= MaxSteps
    /\ Raise("ActExceededMaxStepsError")

CheckViewport ==
    /\ pc = "check" /\ ~expired /\ stepIdx < MaxSteps /\ FirstObserved(results)
    /\ Raise("InvalidScreenResolution")

\* Mutant: one step too many.
CheckPassed_OffByOne ==
    /\ pc = "check" /\ ~expired /\ stepIdx <= MaxSteps
    /\ pc' = "plan"
    /\ UNCHANGED <<acts, actVars, expired, programVars, otherVars>>

CheckPassed ==
    /\ pc = "check" /\ ~expired /\ stepIdx < MaxSteps
    /\ pc' = "plan"
    /\ UNCHANGED <<acts, actVars, expired, programVars, otherVars>>

\* backend.step(): without an observation it refuses, else the service answers
\* with a program or the call fails.
StepRefused ==
    /\ pc = "plan" /\ ~LastObserved(results)
    /\ Raise("ValueError")

StepFailed ==
    /\ pc = "plan" /\ LastObserved(results)
    /\ \E e \in BackendErrors : Raise(e)

StepAnswered ==
    /\ pc = "plan" /\ LastObserved(results)
    /\ steps' = steps + 1
    /\ program' \in Programs
    /\ pc' = "pause"
    /\ UNCHANGED <<acts, stepIdx, complete, didTimeout, expired, outcome, results,
                   ctxLocked, otherVars>>

\* Reading the state property stores a keyboard cancel in _state.
ReadState == ctl' = SeenState

\* Mutant: reads _state past the keyboard trigger.
PauseCheck_WhileActive ==
    /\ pc = "pause" /\ ctl # "PAUSED"
    /\ ReadState
    /\ pc' = "cancel"
    /\ UNCHANGED <<acts, actVars, expired, programVars, watcherVars, keyPending,
                   debugger, signalled, heldStarts>>

\* Mutant: does not wait.
PauseCheck_Skipped ==
    /\ pc = "pause"
    /\ ReadState
    /\ pc' = "cancel"
    /\ UNCHANGED <<acts, actVars, expired, programVars, watcherVars, keyPending,
                   debugger, signalled, heldStarts>>

\* `while control.state == PAUSED: sleep`: disabled, as asleep, while paused.
PauseCheck ==
    /\ pc = "pause" /\ SeenState # "PAUSED"
    /\ ReadState
    /\ pc' = "cancel"
    /\ UNCHANGED <<acts, actVars, expired, programVars, watcherVars, keyPending,
                   debugger, signalled, heldStarts>>

\* `if control.state == CANCELLED`: a second read.
Canceled ==
    /\ pc = "cancel" /\ SeenState = "CANCELLED"
    /\ ReadState
    /\ LeaveLoop("ActCanceledError")
    /\ UNCHANGED <<complete, didTimeout>>

NotCanceled ==
    /\ pc = "cancel" /\ SeenState # "CANCELLED"
    /\ ReadState
    /\ pc' = "compile"
    /\ UNCHANGED <<acts, actVars, expired, programVars, watcherVars, keyPending,
                   debugger, signalled, heldStarts>>

\* Program.compile: a call whose tool is unknown fails the whole program.
CompileFailed ==
    /\ pc = "compile" /\ \E i \in DOMAIN program : program[i] = "unknown"
    /\ Raise("ActToolError")

StartProgram ==
    /\ pc = "compile" /\ \A i \in DOMAIN program : program[i] # "unknown"
    /\ results' = <<>>
    /\ heldStarts' = IF Held THEN heldStarts + 1 ELSE 0
    /\ pc' = "run"
    /\ UNCHANGED <<acts, actVars, expired, program, ctxLocked, ctl, watcherVars,
                   keyPending, debugger, signalled>>

\* The run's end: a throw, else the first exception unless it is a redirect ...
Thrown ==
    /\ pc = "run" /\ program = <<>> /\ HasThrow(results)
    /\ Raise("ActAgentFailed")

ProgramFailed ==
    /\ pc = "run" /\ program = <<>> /\ ~HasThrow(results)
    /\ \E i \in DOMAIN results :
           /\ IsFirstException(results, i)
           /\ results[i].error # "AgentRedirectError"
           /\ Raise(results[i].error)

\* ... which is only logged, and the loop goes on as after a clean run.
Survives(res) ==
    /\ ~HasThrow(res)
    /\ \A i \in DOMAIN res :
           IsFirstException(res, i) => res[i].error = "AgentRedirectError"

Complete ==
    /\ pc = "run" /\ program = <<>> /\ Survives(results) /\ HasReturn(results)
    /\ complete' = TRUE
    /\ LeaveLoop("result")
    /\ UNCHANGED <<didTimeout, ctl>>

\* Mutant: step_idx is not counted up.
NextStep_Forgotten ==
    /\ pc = "run" /\ program = <<>> /\ Survives(results) /\ ~HasReturn(results)
    /\ pc' = "check"
    /\ UNCHANGED <<acts, actVars, expired, programVars, otherVars>>

NextStep ==
    /\ pc = "run" /\ program = <<>> /\ Survives(results) /\ ~HasReturn(results)
    /\ stepIdx' = stepIdx + 1
    /\ pc' = "check"
    /\ UNCHANGED <<acts, steps, complete, didTimeout, expired, outcome, programVars,
                   otherVars>>

\* __exit__: the terminal is restored first, which flushes its input, ...
ExitController ==
    /\ pc = "exit"
    /\ keyPending' = IF Tty THEN FALSE ELSE keyPending
    /\ pc' = "stop"
    /\ UNCHANGED <<acts, actVars, expired, programVars, ctl, watcherVars,
                   debugger, signalled, heldStarts>>

\* Mutant: final_stop is not set before the join.
ExitStop_Forgotten ==
    /\ pc = "stop"
    /\ pc' = "join"
    /\ UNCHANGED <<acts, actVars, expired, programVars, otherVars>>

\* ... then the thread is told to stop, ...
ExitStop ==
    /\ pc = "stop"
    /\ finalStop' = IF Tty THEN TRUE ELSE finalStop
    /\ pc' = "join"
    /\ UNCHANGED <<acts, actVars, expired, programVars, ctl, watcher, trigger,
                   keyPending, debugger, signalled, heldStarts>>

\* ... joined, and the controller is reset.
ExitReset ==
    /\ pc = "join" /\ watcher \in {"none", "dead"}
    /\ trigger' = FALSE /\ ctl' = "ACTIVE" /\ heldStarts' = 0
    /\ pc' = "idle"
    /\ UNCHANGED <<acts, actVars, expired, programVars, watcher, finalStop,
                   keyPending, debugger, signalled>>

\* ctrl+c: a KeyboardInterrupt is no Exception, nothing on the way catches it.
\* Inside a human-in-the-loop tool it leaves the context unlocked.
Interrupt ==
    /\ InLoop \/ pc = "initial"
    /\ outcome' = "KeyboardInterrupt"
    /\ pc' = IF InLoop THEN "exit" ELSE "idle"
    /\ ctxLocked' \in IF pc = "run" /\ program # <<>> /\ Head(program) = "hitl"
                      THEN {ctxLocked, FALSE} ELSE {ctxLocked}
    /\ UNCHANGED <<acts, steps, stepIdx, complete, didTimeout, expired, program,
                   results, otherVars>>

MainStep ==
    \/ RunCall \/ InitialFailed \/ EnterController \/ EnterReset
    \/ CheckTimeout \/ CheckMaxSteps \/ CheckViewport \/ CheckPassed
    \/ StepRefused \/ StepFailed \/ StepAnswered
    \/ PauseCheck \/ Canceled \/ NotCanceled \/ CompileFailed \/ StartProgram
    \/ Thrown \/ ProgramFailed \/ Complete \/ NextStep
    \/ ExitController \/ ExitStop \/ ExitReset

-----------------------------------------------------------------------------
(* The keyboard watcher's thread: one round of its loop is the test of     *)
(* final_stop (and of the debugger), the poll of the keyboard, and, when   *)
(* something was there to read, the read.                                  *)

WatchTop ==
    /\ watcher = "top"
    /\ IF finalStop THEN watcher' = "dead" /\ UNCHANGED finalStop
       ELSE IF debugger THEN watcher' = "dead" /\ finalStop' = TRUE
       ELSE watcher' = "poll" /\ UNCHANGED finalStop
    /\ UNCHANGED <<pc, acts, actVars, expired, programVars, ctl, trigger,
                   keyPending, debugger, signalled, heldStarts>>

\* select() with no timeout: does stdin have something?
WatchPoll ==
    /\ watcher = "poll"
    /\ watcher' = IF keyPending THEN "read" ELSE "top"
    /\ UNCHANGED <<pc, acts, actVars, expired, programVars, ctl, trigger, finalStop,
                   keyPending, debugger, signalled, heldStarts>>

\* stdin.read(1): disabled, as blocked, once a flush took what select() saw.
WatchRead ==
    /\ watcher = "read" /\ keyPending
    /\ watcher' = "top"
    /\ trigger' = TRUE /\ keyPending' = FALSE
    /\ UNCHANGED <<pc, acts, actVars, expired, programVars, ctl, finalStop,
                   debugger, signalled, heldStarts>>

WatchStep == WatchTop \/ WatchPoll \/ WatchRead

-----------------------------------------------------------------------------
(* The outside: the clock, the keyboard, other threads that hold the       *)
(* controller.  pause() and resume() raise in any other state.             *)

AsksCancel == signalled' = (signalled \/ InLoop \/ pc = "enter")

DeadlinePasses ==
    /\ InLoop /\ ~expired
    /\ expired' = TRUE
    /\ UNCHANGED <<pc, acts, actVars, programVars, otherVars>>

PressCtrlX ==
    /\ Tty /\ ~keyPending
    /\ keyPending' = TRUE
    /\ AsksCancel
    /\ UNCHANGED <<pc, acts, actVars, expired, programVars, ctl, watcherVars,
                   debugger, heldStarts>>

Pause ==
    /\ ctl = "ACTIVE"
    /\ ctl' = "PAUSED"
    /\ UNCHANGED <<pc, acts, actVars, expired, programVars, watcherVars,
                   keyPending, debugger, signalled, heldStarts>>

Resume ==
    /\ ctl = "PAUSED"
    /\ ctl' = "ACTIVE"
    /\ heldStarts' = IF Tty /\ trigger THEN heldStarts ELSE 0
    /\ UNCHANGED <<pc, acts, actVars, expired, programVars, watcherVars,
                   keyPending, debugger, signalled>>

Cancel ==
    /\ ctl # "CANCELLED"
    /\ ctl' = "CANCELLED"
    /\ AsksCancel
    /\ UNCHANGED <<pc, acts, actVars, expired, programVars, watcherVars,
                   keyPending, debugger, heldStarts>>

Breakpoint ==
    /\ ~debugger
    /\ debugger' = TRUE
    /\ UNCHANGED <<pc, acts, actVars, expired, programVars, ctl, watcherVars,
                   keyPending, signalled, heldStarts>>

Environment ==
    DeadlinePasses \/ PressCtrlX \/ Pause \/ Resume \/ Cancel \/ Breakpoint
    \/ Interrupt

Next == Dispatch \/ MainStep \/ WatchStep \/ Environment

Spec == Init /\ [][Next]_vars

\* The main thread and the watcher keep running: the service answers or fails,
\* tools return, the interpreter schedules both threads.
FairSpec == Spec /\ WF_vars(MainStep) /\ WF_vars(WatchStep)

-----------------------------------------------------------------------------
(* Properties.                                                             *)

TypeOK ==
    /\ pc \in {"idle", "initial", "enter", "check", "plan", "pause", "cancel",
               "compile", "run", "exit", "stop", "join"}
    /\ acts \in 0 .. MaxActs
    /\ steps \in Nat /\ stepIdx \in Nat
    /\ complete \in BOOLEAN /\ didTimeout \in BOOLEAN /\ expired \in BOOLEAN
    /\ outcome \in Errors \cup {None, "result"}
    /\ program \in Seq(Calls) /\ results \in Seq(CallResults)
    /\ ctxLocked \in BOOLEAN
    /\ ctl \in ControlStates
    /\ watcher \in {"none", "top", "poll", "read", "dead"}
    /\ trigger \in BOOLEAN /\ finalStop \in BOOLEAN
    /\ keyPending \in BOOLEAN /\ debugger \in BOOLEAN
    /\ signalled \in BOOLEAN /\ heldStarts \in Nat

\* A pause or a cancel is read at two places of a loop that goes on meanwhile:
\* still, of all the programs of the act at most one starts after the pause or
\* the cancel was requested and before it was lifted, the one already past both
\* reads.
HeldStartsAtMostOnce == heldStarts <= 1

\* The controller, its trigger and the terminal's input outlive an act: no act
\* is canceled by a signal given before it entered the controller.
NoStaleCancel == outcome = "ActCanceledError" => signalled

\* The loop goes on to its next step, with the observation of the last program,
\* while the actuator's hooks are removed for a human only where the
\* human-in-the-loop tool failed behind an earlier redirect of that same program:
\* any other failure of it ends its act, and whatever a later program does, its
\* observation is made with the hooks back in place.
UnlockedOnlyBehindRedirect ==
    pc \in {"check", "plan", "pause"} /\ LastObserved(results) /\ ~ctxLocked =>
        \E i \in DOMAIN results :
            /\ IsFirstException(results, i)
            /\ results[i].error = "AgentRedirectError"
            /\ \E j \in DOMAIN results :
                   j > i /\ NeedsUnlockedContext(results[j].call)

\* The step limit and act.is_complete: an act asks for at most MaxSteps
\* programs, is marked complete exactly when it ended with a result, and never
\* both completes and times out.
CompletesOnce ==
    /\ steps <= MaxSteps
    /\ complete <=> outcome = "result"
    /\ ~(complete /\ didTimeout)

\* A cancel seen by the controller ends the act, even one that is paused.
CancelEndsAct == (InLoop /\ CancelPending) ~> ~InLoop

\* The join waits for a thread that saw a key and then, the key flushed with the
\* restored terminal, waits for another one.
StuckInRead == pc = "join" /\ watcher = "read" /\ ~keyPending

\* Unless it stays paused for ever, every act ends, or hangs in the one way the
\* exit allows, in the join of a thread whose key was flushed: within its step
\* limit the loop cannot be kept going by redirects, and whatever else the
\* watcher's thread is doing it sees final_stop.
ActEnds == <>[](ctl # "PAUSED") => (pc # "idle" ~> pc = "idle" \/ StuckInRead)

\* nova_act.py: "NovaAct listens for ctrl+x signals from the terminal, allowing
\* users to exit agent action": during an act, unless a debugger took the
\* terminal, the watcher's thread lives.
ListensForCtrlX ==
    Tty /\ ~debugger /\ InLoop => watcher \in {"top", "poll", "read"}

-----------------------------------------------------------------------------
(* What the caller sees of the loop.                                       *)

Contract == INSTANCE ActContract WITH
    phase   <- IF pc = "idle" THEN "idle" ELSE "running",
    steps   <- steps,
    outcome <- IF pc = "idle" THEN outcome ELSE None

\* The loop implements the contract of act().
ImplementsContract == Contract!Spec
=============================================================================
