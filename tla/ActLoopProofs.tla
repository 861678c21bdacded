--------------------------- MODULE ActLoopProofs ----------------------------
(***************************************************************************)
(* What ActLoop guarantees for every step limit, every number of acts and  *)
(* every set of programs, proved from an inductive invariant in four       *)
(* parts and, on top of it, one of the actuator's hooks.                   *)
(***************************************************************************)
EXTENDS ActLoop, TLAPS

-----------------------------------------------------------------------------
(* The inductive invariant.                                                *)

\* A program that started under a pause or a cancel was past both reads: while
\* it is counted the request is pending, and no read lets another one through.
HeldInv ==
    /\ heldStarts \in {0, 1}
    /\ heldStarts = 1 => /\ Held
                         /\ pc # "compile"
                         /\ pc = "cancel" => CancelPending

\* Whatever the controller, the trigger or the terminal holds of a cancel once
\* the act is inside the controller was asked for during this act.
SignalInv ==
    /\ keyPending => Tty
    /\ pc = "enter" /\ keyPending => signalled
    /\ InLoop /\ (keyPending \/ trigger \/ ctl = "CANCELLED") => signalled
    /\ outcome = "ActCanceledError" => signalled

\* How step_idx, the recorded steps, the flags and the outcome go together.
StepInv ==
    /\ stepIdx <= MaxSteps /\ steps <= MaxSteps
    /\ pc = "initial" => steps = 0
    /\ pc \in {"initial", "enter", "check", "plan"} => steps = stepIdx
    /\ pc = "plan" => stepIdx < MaxSteps
    /\ pc \in {"pause", "cancel", "compile", "run"} => steps = stepIdx + 1
    /\ complete <=> outcome = "result"
    /\ InLoop \/ pc \in {"initial", "enter"} => outcome = None /\ ~didTimeout
    /\ pc \in {"exit", "stop", "join"} => outcome # None
    /\ ~(complete /\ didTimeout)
    /\ outcome \in {"result", "ActCanceledError"} => steps > 0
    /\ outcome = "ActExceededMaxStepsError" => steps = MaxSteps

IInv == TypeOK /\ HeldInv /\ SignalInv /\ StepInv

\* What the last run of a program says of the hooks: an observation made in it is
\* a browser call, so without the hooks a human-in-the-loop tool failed after it,
\* and that ended the run.  What the loop goes on from is a run whose first
\* exception, if it has one, is a redirect.
HumanFailed(result) ==
    /\ NeedsUnlockedContext(result.call)
    /\ result.error # None
    /\ result.error # "AgentRedirectError"

HooksInv ==
    /\ HasException(results) => \E i \in DOMAIN results : IsFirstException(results, i)
    /\ (InLoop \/ pc \in {"initial", "enter"}) /\ LastObserved(results) /\ ~ctxLocked =>
           /\ Len(results) > 0
           /\ HumanFailed(results[Len(results)])
           /\ pc \in {"initial", "run"} => program = <<>>
    /\ pc \in {"enter", "check", "plan", "pause"} =>
           \A i \in DOMAIN results :
               IsFirstException(results, i) => results[i].error = "AgentRedirectError"

-----------------------------------------------------------------------------
(* Facts about programs.                                                   *)

\* Whatever a call raises, its result carries an error dispatch() can raise.
LEMMA ResultOfType ==
    ASSUME NEW call \in Calls, NEW raised \in Raises[call] \cup {None}
    PROVE  ResultOf(call, raised) \in CallResults
<1>1. raised \in RawErrors \cup {None}
  BY DEF RawErrors
<1>2. ErrorOf(call, raised) \in CallErrors \cup {None}
  BY DEF ErrorOf, CallErrors
<1>. QED
  BY <1>1, <1>2 DEF ResultOf, CallResults

\* The first exception of a run is one of the errors of a call.
LEMMA FirstExceptionType ==
    ASSUME NEW res \in Seq(CallResults), NEW i \in DOMAIN res,
           IsFirstException(res, i)
    PROVE  res[i].error \in CallErrors
<1>1. res[i] \in CallResults
  OBVIOUS
<1>2. res[i].error \in CallErrors \cup {None}
  BY <1>1 DEF CallResults
<1>. QED
  BY <1>2 DEF IsFirstException

-----------------------------------------------------------------------------
(* Type correctness.                                                       *)

\* The initial program and the programs of the service are sequences of calls.
LEMMA InitialProgramType == InitialProgram \in Seq(Calls)
  BY DEF InitialProgram, Calls

\* Every step keeps the types.
LEMMA TypeStep == TypeOK /\ [Next]_vars => TypeOK'
<1>. SUFFICES ASSUME TypeOK, [Next]_vars PROVE TypeOK'
  OBVIOUS
<1>. USE ActLoopAssumption DEF TypeOK
<1>1. CASE Dispatch
  <2>1. program' \in Seq(Calls) /\ results' \in Seq(CallResults)
    BY <1>1, InitialProgramType DEF Dispatch
  <2>2. acts' \in 0 .. MaxActs
    BY <1>1 DEF Dispatch
  <2>. QED
    BY <1>1, <2>1, <2>2 DEF Dispatch, watcherVars
<1>2. CASE RunCall
  <2>1. PICK raised \in Raises[Head(program)] \cup {None} :
            RunCallEffect(Head(program), raised)
    BY <1>2 DEF RunCall
  <2>2. program # <<>> /\ Head(program) \in Calls /\ Tail(program) \in Seq(Calls)
    BY <1>2 DEF RunCall
  <2>3. ResultOf(Head(program), raised) \in CallResults
    BY <2>1, <2>2, ResultOfType
  <2>4. results' \in Seq(CallResults)
    BY <2>1, <2>3 DEF RunCallEffect
  <2>5. program' \in Seq(Calls)
    BY <2>1, <2>2 DEF RunCallEffect
  <2>6. ctxLocked' \in BOOLEAN
    BY <2>1 DEF RunCallEffect
  <2>. QED
    BY <1>2, <2>4, <2>5, <2>6 DEF RunCall, actVars, otherVars, watcherVars
<1>3. CASE InitialFailed
  <2>1. outcome' \in CallErrors
    BY <1>3, FirstExceptionType DEF InitialFailed
  <2>. QED
    BY <1>3, <2>1 DEF InitialFailed, Errors, programVars, otherVars, watcherVars
<1>4. CASE EnterController \/ EnterReset \/ CheckPassed
  <2>1. CASE EnterController
    <3>1. keyPending' \in BOOLEAN /\ watcher' \in {watcher, "top"}
      BY <2>1 DEF EnterController
    <3>. QED
      BY <2>1, <3>1 DEF EnterController, actVars, programVars
  <2>2. CASE EnterReset
    BY <2>2 DEF EnterReset, actVars, programVars, ControlStates
  <2>3. CASE CheckPassed
    BY <2>3 DEF CheckPassed, actVars, programVars, otherVars, watcherVars
  <2>. QED
    BY <1>4, <2>1, <2>2, <2>3
<1>5. CASE CheckTimeout
  BY <1>5 DEF CheckTimeout, LeaveLoop, Errors, LoopErrors, programVars, watcherVars
<1>6. CASE CheckMaxSteps \/ CheckViewport \/ StepRefused \/ CompileFailed \/ Thrown
  <2>1. \E e \in Errors : Raise(e)
    BY <1>6 DEF CheckMaxSteps, CheckViewport, StepRefused, CompileFailed,
                Thrown, Errors, CallErrors, LoopErrors
  <2>. QED
    BY <2>1 DEF Raise, LeaveLoop, programVars, watcherVars
<1>7. CASE StepFailed
  BY <1>7 DEF StepFailed, Raise, LeaveLoop, Errors, programVars, watcherVars
<1>8. CASE StepAnswered
  BY <1>8 DEF StepAnswered, otherVars, watcherVars
<1>9. CASE PauseCheck \/ NotCanceled
  BY <1>9 DEF PauseCheck, NotCanceled, ReadState, SeenState, ControlStates,
              actVars, programVars, watcherVars
<1>10. CASE Canceled
  BY <1>10 DEF Canceled, ReadState, SeenState, ControlStates, LeaveLoop, Errors,
              LoopErrors, programVars, watcherVars
<1>11. CASE StartProgram
  BY <1>11 DEF StartProgram, actVars, watcherVars
<1>12. CASE ProgramFailed
  <2>1. PICK i \in DOMAIN results :
            IsFirstException(results, i) /\ Raise(results[i].error)
    BY <1>12 DEF ProgramFailed
  <2>2. results[i].error \in CallErrors
    BY <2>1, FirstExceptionType
  <2>. QED
    BY <2>1, <2>2 DEF Raise, LeaveLoop, Errors, programVars, watcherVars
<1>13. CASE Complete
  BY <1>13 DEF Complete, LeaveLoop, programVars, watcherVars
<1>14. CASE NextStep
  BY <1>14 DEF NextStep, programVars, otherVars, watcherVars
<1>15. CASE ExitController \/ ExitStop \/ ExitReset
  <2>1. CASE ExitController
    <3>1. keyPending' \in BOOLEAN
      BY <2>1 DEF ExitController
    <3>. QED
      BY <2>1, <3>1 DEF ExitController, actVars, programVars, watcherVars
  <2>2. CASE ExitReset
    BY <2>2 DEF ExitReset, actVars, programVars, ControlStates
  <2>3. CASE ExitStop
    <3>1. finalStop' \in BOOLEAN
      BY <2>3 DEF ExitStop
    <3>. QED
      BY <2>3, <3>1 DEF ExitStop, actVars, programVars
  <2>. QED
    BY <1>15, <2>1, <2>2, <2>3
<1>16. CASE WatchStep
  <2>1. CASE WatchTop
    <3>1. watcher' \in {"poll", "dead"} /\ finalStop' \in BOOLEAN
      BY <2>1 DEF WatchTop
    <3>. QED
      BY <2>1, <3>1 DEF WatchTop, actVars, programVars
  <2>2. CASE WatchPoll
    BY <2>2 DEF WatchPoll, actVars, programVars
  <2>3. CASE WatchRead
    BY <2>3 DEF WatchRead, actVars, programVars
  <2>. QED
    BY <1>16, <2>1, <2>2, <2>3 DEF WatchStep
<1>17. CASE DeadlinePasses
  BY <1>17 DEF DeadlinePasses, actVars, programVars, otherVars, watcherVars
<1>18. CASE Pause \/ Resume
  BY <1>18 DEF Pause, Resume, ControlStates, actVars, programVars, watcherVars
<1>19. CASE Breakpoint
  BY <1>19 DEF Breakpoint, actVars, programVars, watcherVars
<1>20. CASE PressCtrlX \/ Cancel
  <2>1. signalled' \in BOOLEAN
    BY <1>20 DEF PressCtrlX, Cancel, AsksCancel
  <2>2. CASE PressCtrlX
    BY <2>1, <2>2 DEF PressCtrlX, actVars, programVars, watcherVars
  <2>3. CASE Cancel
    BY <2>1, <2>3 DEF Cancel, ControlStates, actVars, programVars, watcherVars
  <2>. QED
    BY <1>20, <2>2, <2>3
<1>21. CASE Interrupt
  <2>1. pc' \in {"exit", "idle"} /\ outcome' \in Errors
    BY <1>21 DEF Interrupt, Errors, LoopErrors
  <2>2. ctxLocked' \in BOOLEAN
    BY <1>21 DEF Interrupt
  <2>. QED
    BY <1>21, <2>1, <2>2 DEF Interrupt, otherVars, watcherVars
<1>22. CASE UNCHANGED vars
  BY <1>22 DEF vars, actVars, programVars, otherVars, watcherVars
<1>. QED
  BY <1>1, <1>2, <1>3, <1>4, <1>5, <1>6, <1>7, <1>8, <1>9, <1>10, <1>11,
     <1>12, <1>13, <1>14, <1>15, <1>16, <1>17, <1>18, <1>19, <1>20, <1>21,
     <1>22
  DEF Next, MainStep, Environment

-----------------------------------------------------------------------------
(* At most one program starts under a pause or a cancel.                   *)

\* Every step keeps the count of programs started while held.
LEMMA HeldStep == TypeOK /\ HeldInv /\ [Next]_vars => HeldInv'
<1>. SUFFICES ASSUME TypeOK, HeldInv, [Next]_vars PROVE HeldInv'
  OBVIOUS
<1>. USE DEF HeldInv, Held, CancelPending, SeenState
<1>1. CASE Dispatch \/ RunCall \/ InitialFailed \/ EnterController \/ CheckPassed
           \/ StepAnswered \/ NextStep
  BY <1>1 DEF Dispatch, RunCall, InitialFailed, EnterController, CheckPassed,
              StepAnswered, NextStep, otherVars, watcherVars
<1>2. CASE EnterReset \/ ExitReset
  BY <1>2 DEF EnterReset, ExitReset
<1>3. CASE CheckTimeout \/ Complete
  BY <1>3 DEF CheckTimeout, Complete, LeaveLoop, watcherVars
<1>4. CASE \E e : Raise(e)
  BY <1>4 DEF Raise, LeaveLoop, watcherVars
<1>5. CASE PauseCheck \/ NotCanceled
  BY <1>5 DEF PauseCheck, NotCanceled, ReadState, watcherVars, TypeOK, ControlStates
<1>6. CASE Canceled
  BY <1>6 DEF Canceled, ReadState, LeaveLoop, watcherVars
<1>7. CASE StartProgram
  BY <1>7 DEF StartProgram, watcherVars
<1>8. CASE ExitController \/ ExitStop
  <2>1. CASE ExitController
    BY <2>1 DEF ExitController, watcherVars
  <2>2. CASE ExitStop
    BY <2>2 DEF ExitStop, watcherVars
  <2>. QED
    BY <1>8, <2>1, <2>2
<1>9. CASE WatchStep
  BY <1>9 DEF WatchStep, WatchTop, WatchPoll, WatchRead, TypeOK
<1>10. CASE DeadlinePasses \/ PressCtrlX \/ Breakpoint
  BY <1>10 DEF DeadlinePasses, PressCtrlX, Breakpoint, otherVars, watcherVars
<1>11. CASE Pause \/ Resume \/ Cancel
  BY <1>11 DEF Pause, Resume, Cancel, watcherVars
<1>12. CASE Interrupt
  BY <1>12 DEF Interrupt, otherVars, watcherVars
<1>13. CASE UNCHANGED vars
  BY <1>13 DEF vars, otherVars, watcherVars
<1>. QED
  BY <1>1, <1>2, <1>3, <1>4, <1>5, <1>6, <1>7, <1>8, <1>9, <1>10, <1>11, <1>12,
     <1>13
  DEF Next, MainStep, Environment, CheckMaxSteps, CheckViewport, StepRefused,
      StepFailed, CompileFailed, Thrown, ProgramFailed

-----------------------------------------------------------------------------
(* No act is canceled by an old signal.                                    *)

\* The errors raised elsewhere than at the read of the state are not
\* ActCanceledError.
LEMMA OtherRaises ==
    ASSUME TypeOK,
           CheckMaxSteps \/ CheckViewport \/ StepRefused \/ StepFailed
           \/ CompileFailed \/ Thrown \/ ProgramFailed
    PROVE  \E e \in Errors \ {"ActCanceledError"} : Raise(e)
<1>1. CASE ProgramFailed
  <2>1. PICK i \in DOMAIN results :
            IsFirstException(results, i) /\ Raise(results[i].error)
    BY <1>1 DEF ProgramFailed
  <2>2. results[i].error \in CallErrors
    BY <2>1, FirstExceptionType DEF TypeOK
  <2>3. "ActCanceledError" \notin CallErrors
    BY DEF CallErrors
  <2>. QED
    BY <2>1, <2>2, <2>3 DEF Errors
<1>2. CASE StepFailed
  BY <1>2 DEF StepFailed, Errors, BackendErrors
<1>. QED
  BY <1>1, <1>2 DEF CheckMaxSteps, CheckViewport, StepRefused, CompileFailed,
                    Thrown, Errors, CallErrors, LoopErrors

\* Every step keeps a pending cancel tied to a signal of this act.
LEMMA SignalStep == TypeOK /\ SignalInv /\ [Next]_vars => SignalInv'
<1>. SUFFICES ASSUME TypeOK, SignalInv, [Next]_vars PROVE SignalInv'
  OBVIOUS
<1>. USE ActLoopAssumption DEF SignalInv, InLoop
<1>1. CASE Dispatch
  BY <1>1 DEF Dispatch, watcherVars, None
<1>2. CASE RunCall \/ CheckPassed \/ StepAnswered \/ NextStep
  BY <1>2 DEF RunCall, CheckPassed, StepAnswered, NextStep, actVars, otherVars,
              watcherVars
<1>3. CASE InitialFailed
  <2>1. outcome' \in CallErrors
    BY <1>3, FirstExceptionType DEF InitialFailed, TypeOK
  <2>. QED
    BY <1>3, <2>1 DEF InitialFailed, CallErrors, otherVars, watcherVars
<1>4. CASE EnterController
  BY <1>4 DEF EnterController, actVars, TypeOK
<1>5. CASE EnterReset
  BY <1>5 DEF EnterReset, actVars
<1>6. CASE CheckTimeout \/ Complete
  BY <1>6 DEF CheckTimeout, Complete, LeaveLoop, watcherVars
<1>7. CASE CheckMaxSteps \/ CheckViewport \/ StepRefused \/ StepFailed
           \/ CompileFailed \/ Thrown \/ ProgramFailed
  BY <1>7, OtherRaises DEF Raise, LeaveLoop, watcherVars
<1>8. CASE PauseCheck \/ NotCanceled
  BY <1>8 DEF PauseCheck, NotCanceled, ReadState, SeenState, actVars, watcherVars
<1>9. CASE Canceled
  BY <1>9 DEF Canceled, SeenState, LeaveLoop, watcherVars
<1>10. CASE StartProgram
  BY <1>10 DEF StartProgram, actVars, watcherVars
<1>11. CASE ExitController \/ ExitStop \/ ExitReset
  <2>1. CASE ExitController
    BY <2>1 DEF ExitController, actVars, watcherVars
  <2>2. CASE ExitStop
    BY <2>2 DEF ExitStop, actVars, watcherVars
  <2>3. CASE ExitReset
    BY <2>3 DEF ExitReset, actVars, watcherVars
  <2>. QED
    BY <1>11, <2>1, <2>2, <2>3
<1>12. CASE WatchStep
  <2>1. CASE WatchTop
    BY <2>1 DEF WatchTop, actVars
  <2>2. CASE WatchPoll
    BY <2>2 DEF WatchPoll, actVars
  <2>3. CASE WatchRead
    BY <2>3 DEF WatchRead, actVars
  <2>. QED
    BY <1>12, <2>1, <2>2, <2>3 DEF WatchStep
<1>13. CASE DeadlinePasses \/ Pause \/ Resume \/ Breakpoint
  BY <1>13 DEF DeadlinePasses, Pause, Resume, Breakpoint, actVars, otherVars,
               watcherVars
<1>14. CASE PressCtrlX \/ Cancel
  <2>1. signalled \/ InLoop \/ pc = "enter" => signalled'
    BY <1>14 DEF PressCtrlX, Cancel, AsksCancel
  <2>. QED
    BY <1>14, <2>1 DEF PressCtrlX, Cancel, actVars, watcherVars
<1>15. CASE Interrupt
  BY <1>15 DEF Interrupt, otherVars, watcherVars
<1>16. CASE UNCHANGED vars
  BY <1>16 DEF vars, actVars, otherVars, watcherVars
<1>. QED
  BY <1>1, <1>2, <1>3, <1>4, <1>5, <1>6, <1>7, <1>8, <1>9, <1>10, <1>11, <1>12,
     <1>13, <1>14, <1>15, <1>16
  DEF Next, MainStep, Environment

-----------------------------------------------------------------------------
(* Steps, flags and outcome.                                               *)

\* Every step keeps the step index, the flags and the outcome together.
LEMMA StepStep == TypeOK /\ StepInv /\ [Next]_vars => StepInv'
<1>. SUFFICES ASSUME TypeOK, StepInv, [Next]_vars PROVE StepInv'
  OBVIOUS
<1>. USE ActLoopAssumption DEF StepInv, InLoop
<1>1. CASE Dispatch
  BY <1>1 DEF Dispatch, None
<1>2. CASE RunCall \/ EnterController \/ EnterReset
  BY <1>2 DEF RunCall, EnterController, EnterReset, actVars
<1>3. CASE InitialFailed
  <2>1. outcome' \in CallErrors
    BY <1>3, FirstExceptionType DEF InitialFailed, TypeOK
  <2>. QED
    BY <1>3, <2>1 DEF InitialFailed, CallErrors, None
<1>4. CASE CheckTimeout
  BY <1>4 DEF CheckTimeout, LeaveLoop, None
<1>5. CASE CheckMaxSteps
  BY <1>5 DEF CheckMaxSteps, Raise, LeaveLoop, None, TypeOK
<1>6. CASE CheckPassed
  BY <1>6 DEF CheckPassed, actVars, TypeOK
<1>7. CASE CheckViewport \/ StepRefused \/ StepFailed \/ CompileFailed \/ Thrown
           \/ ProgramFailed
  <2>1. PICK e \in Errors : /\ Raise(e)
                            /\ e \notin {"ActCanceledError",
                                         "ActExceededMaxStepsError"}
    <3>1. CASE ProgramFailed
      <4>1. PICK i \in DOMAIN results :
                IsFirstException(results, i) /\ Raise(results[i].error)
        BY <3>1 DEF ProgramFailed
      <4>2. results[i].error \in CallErrors
        BY <4>1, FirstExceptionType DEF TypeOK
      <4>. QED
        BY <4>1, <4>2 DEF Errors, CallErrors
    <3>2. CASE StepFailed
      BY <3>2 DEF StepFailed, Errors, BackendErrors
    <3>. QED
      BY <1>7, <3>1, <3>2 DEF CheckViewport, StepRefused, CompileFailed, Thrown,
                              Errors, CallErrors, LoopErrors
  <2>2. e # None /\ e # "result"
    BY DEF Errors, CallErrors, BackendErrors, LoopErrors, None
  <2>3. InLoop
    BY <1>7 DEF CheckViewport, StepRefused, StepFailed, CompileFailed, Thrown,
                ProgramFailed
  <2>. QED
    BY <2>1, <2>2, <2>3 DEF Raise, LeaveLoop, None, TypeOK
<1>8. CASE StepAnswered
  BY <1>8 DEF StepAnswered, TypeOK, None
<1>9. CASE PauseCheck \/ NotCanceled
  BY <1>9 DEF PauseCheck, NotCanceled, actVars
<1>10. CASE Canceled
  BY <1>10 DEF Canceled, LeaveLoop, None, TypeOK
<1>11. CASE StartProgram
  BY <1>11 DEF StartProgram, actVars
<1>12. CASE Complete
  BY <1>12 DEF Complete, LeaveLoop, None, TypeOK
<1>13. CASE NextStep
  BY <1>13 DEF NextStep, TypeOK
<1>14. CASE ExitController \/ ExitStop \/ ExitReset
  <2>1. CASE ExitController
    BY <2>1 DEF ExitController, actVars
  <2>2. CASE ExitStop
    BY <2>2 DEF ExitStop, actVars
  <2>3. CASE ExitReset
    BY <2>3 DEF ExitReset, actVars
  <2>. QED
    BY <1>14, <2>1, <2>2, <2>3
<1>15. CASE WatchStep
  BY <1>15 DEF WatchStep, WatchTop, WatchPoll, WatchRead, actVars
<1>16. CASE DeadlinePasses \/ PressCtrlX \/ Pause \/ Resume \/ Cancel \/ Breakpoint
  BY <1>16 DEF DeadlinePasses, PressCtrlX, Pause, Resume, Cancel, Breakpoint, actVars
<1>17. CASE Interrupt
  BY <1>17 DEF Interrupt, None
<1>18. CASE UNCHANGED vars
  BY <1>18 DEF vars, actVars
<1>. QED
  BY <1>1, <1>2, <1>3, <1>4, <1>5, <1>6, <1>7, <1>8, <1>9, <1>10, <1>11, <1>12,
     <1>13, <1>14, <1>15, <1>16, <1>17, <1>18
  DEF Next, MainStep, Environment

-----------------------------------------------------------------------------
(* The actuator's hooks.                                                   *)

\* A run that failed has a first failure, however it goes on.
LEMMA FirstExceptionAppend ==
    ASSUME NEW res \in Seq(CallResults), NEW result \in CallResults,
           HasException(res) => \E i \in DOMAIN res : IsFirstException(res, i)
    PROVE  LET new == Append(res, result)
           IN  HasException(new) => \E i \in DOMAIN new : IsFirstException(new, i)
<1>. DEFINE new == Append(res, result)
<1>. SUFFICES ASSUME HasException(new)
              PROVE  \E i \in DOMAIN new : IsFirstException(new, i)
  OBVIOUS
<1>1. /\ new \in Seq(CallResults) /\ Len(new) = Len(res) + 1
      /\ DOMAIN new = 1 .. Len(new) /\ DOMAIN res = 1 .. Len(res) /\ Len(res) \in Nat
      /\ \A i \in DOMAIN res : new[i] = res[i]
      /\ new[Len(new)] = result
  OBVIOUS
<1>2. CASE HasException(res)
  <2>1. PICK i \in DOMAIN res : IsFirstException(res, i)
    BY <1>2
  <2>2. IsFirstException(new, i)
    BY <1>1, <2>1 DEF IsFirstException
  <2>. QED
    BY <1>1, <2>1, <2>2
<1>3. CASE ~HasException(res)
  <2>1. IsFirstException(new, Len(new))
    BY <1>1, <1>3 DEF HasException, IsFirstException
  <2>. QED
    BY <1>1, <2>1
<1>. QED
  BY <1>2, <1>3

\* Only an observation makes a run observed.
LEMMA LastObservedAppend ==
    ASSUME NEW res \in Seq(CallResults), NEW result \in CallResults,
           result.call # "observe", LastObserved(Append(res, result))
    PROVE  LastObserved(res)
<1>. DEFINE new == Append(res, result)
<1>1. /\ Len(new) = Len(res) + 1 /\ Len(res) \in Nat
      /\ DOMAIN new = 1 .. Len(new) /\ DOMAIN res = 1 .. Len(res)
      /\ \A i \in DOMAIN res : new[i] = res[i]
      /\ new[Len(new)] = result
  OBVIOUS
<1>2. PICK i \in DOMAIN new :
          Observed(new[i]) /\ \A j \in DOMAIN new : j > i => new[j].call # "observe"
  BY DEF LastObserved
<1>3. i \in DOMAIN res
  BY <1>1, <1>2 DEF Observed
<1>. QED
  BY <1>1, <1>2, <1>3 DEF LastObserved

\* A human-in-the-loop tool that raises stops its program and is no redirect.
LEMMA HumanFailure ==
    ASSUME NEW call \in Calls, NeedsUnlockedContext(call),
           NEW raised \in Raises[call]
    PROVE  HumanFailed(ResultOf(call, raised)) /\ Stops(ResultOf(call, raised))
<1>1. call = "hitl" /\ raised \in {"NoHumanInputToolAvailable",
                                   "HumanInputCanceled", "Exception"}
  BY DEF NeedsUnlockedContext, Raises
<1>2. ErrorOf(call, raised) \in {"ActAgentFailed", "ActToolError"}
  BY <1>1 DEF ErrorOf, IsTool, None
<1>. QED
  BY <1>1, <1>2 DEF HumanFailed, Stops, ResultOf, NeedsUnlockedContext, None

\* Where the main thread runs no program and its results stay, nothing changes
\* for the hooks.
LEMMA HooksStay ==
    ASSUME HooksInv, UNCHANGED <<results, ctxLocked>>,
           \/ UNCHANGED <<pc, program>>
           \/ pc' \in {"idle", "exit", "stop", "join", "cancel", "compile"}
              /\ (InLoop' => InLoop)
           \/ pc' \in {"check", "plan", "pause"} /\ pc \in {"enter", "check", "plan"}
    PROVE  HooksInv'
BY DEF HooksInv, InLoop, HasException, IsFirstException, LastObserved

\* Every step keeps what the last run says of the hooks.
LEMMA HooksStep == TypeOK /\ HooksInv /\ [Next]_vars => HooksInv'
<1>. SUFFICES ASSUME TypeOK, HooksInv, [Next]_vars PROVE HooksInv'
  OBVIOUS
<1>1. CASE Dispatch \/ StartProgram
  <2>1. results' = <<>> /\ pc' \in {"initial", "run"}
    BY <1>1 DEF Dispatch, StartProgram
  <2>2. ~LastObserved(<<>>) /\ ~HasException(<<>>)
    BY DEF LastObserved, HasException
  <2>. QED
    BY <2>1, <2>2 DEF HooksInv, LastObserved, HasException
<1>2. CASE RunCall
  <2>. DEFINE call == Head(program)
  <2>1. PICK raised \in Raises[call] \cup {None} : RunCallEffect(call, raised)
    BY <1>2 DEF RunCall
  <2>. DEFINE result == ResultOf(call, raised)
  <2>2. program # <<>> /\ call \in Calls /\ pc \in {"initial", "run"} /\ pc' = pc
    BY <1>2 DEF RunCall, TypeOK
  <2>3. result \in CallResults /\ result.call = call /\ results \in Seq(CallResults)
    BY <2>1, <2>2, ResultOfType DEF ResultOf, TypeOK
  <2>4. results' = Append(results, result)
    BY <2>1 DEF RunCallEffect
  <2>5. HasException(results') =>
            \E i \in DOMAIN results' : IsFirstException(results', i)
    BY <2>3, <2>4, FirstExceptionAppend DEF HooksInv
  <2>6. ASSUME LastObserved(results'), ~ctxLocked'
        PROVE  /\ Len(results') > 0
               /\ HumanFailed(results'[Len(results')])
               /\ program' = <<>>
    <3>1. call \notin BrowserCalls
      BY <2>1, <2>6 DEF RunCallEffect, BrowserCalls, NeedsUnlockedContext
    <3>2. LastObserved(results)
      BY <2>3, <2>4, <2>6, <3>1, LastObservedAppend DEF BrowserCalls
    <3>3. ctxLocked
      BY <2>2, <3>2 DEF HooksInv, InLoop
    <3>4. NeedsUnlockedContext(call) /\ raised # None
      BY <2>1, <2>6, <3>1, <3>3 DEF RunCallEffect
    <3>5. HumanFailed(result) /\ Stops(result)
      BY <2>1, <2>2, <3>4, HumanFailure
    <3>6. Len(results') = Len(results) + 1 /\ results'[Len(results')] = result
          /\ Len(results) \in Nat
      BY <2>3, <2>4
    <3>7. program' = <<>>
      BY <2>1, <3>5 DEF RunCallEffect
    <3>. QED
      BY <3>5, <3>6, <3>7
  <2>. HIDE DEF call, result
  <2>. QED
    BY <2>2, <2>5, <2>6 DEF HooksInv
<1>3. CASE EnterController
  <2>1. ~HasException(results) /\ UNCHANGED <<results, ctxLocked>> /\ pc = "initial"
        /\ pc' = "enter"
    BY <1>3 DEF EnterController, programVars
  <2>. QED
    BY <2>1 DEF HooksInv, HasException, IsFirstException, LastObserved, InLoop
<1>4. CASE NextStep
  <2>1. Survives(results) /\ UNCHANGED <<results, ctxLocked>> /\ pc = "run"
        /\ pc' = "check"
    BY <1>4 DEF NextStep, programVars
  <2>. QED
    BY <2>1 DEF HooksInv, HasException, IsFirstException, LastObserved, InLoop, Survives
<1>5. CASE EnterReset \/ CheckPassed \/ StepAnswered
  BY <1>5, HooksStay DEF EnterReset, CheckPassed, StepAnswered, programVars
<1>6. CASE PauseCheck \/ NotCanceled
  BY <1>6, HooksStay DEF PauseCheck, NotCanceled, programVars, InLoop
<1>7. CASE InitialFailed \/ ExitController \/ ExitStop \/ ExitReset
  BY <1>7, HooksStay DEF InitialFailed, ExitController, ExitStop, ExitReset, programVars, InLoop
<1>8. CASE \E e : LeaveLoop(e)
  BY <1>8, HooksStay DEF LeaveLoop, programVars, InLoop
<1>9. CASE Interrupt
  BY <1>9 DEF Interrupt, HooksInv, InLoop, HasException, IsFirstException,
              LastObserved
<1>10. CASE WatchStep \/ DeadlinePasses \/ PressCtrlX \/ Pause \/ Resume \/ Cancel
            \/ Breakpoint
  BY <1>10, HooksStay DEF WatchStep, WatchTop, WatchPoll, WatchRead, DeadlinePasses, PressCtrlX,
                         Pause, Resume, Cancel, Breakpoint, programVars
<1>11. CASE UNCHANGED vars
  BY <1>11, HooksStay DEF vars, programVars
<1>12. CASE \/ CheckTimeout \/ CheckMaxSteps \/ CheckViewport \/ StepRefused
            \/ StepFailed \/ Canceled \/ CompileFailed \/ Thrown \/ ProgramFailed
            \/ Complete
  <2>1. \E e : LeaveLoop(e)
    BY <1>12 DEF CheckTimeout, CheckMaxSteps, CheckViewport, StepRefused, StepFailed,
                 Canceled, CompileFailed, Thrown, ProgramFailed, Complete, Raise
  <2>. QED
    BY <1>8, <2>1
<1>. QED
  BY <1>1, <1>2, <1>3, <1>4, <1>5, <1>6, <1>7, <1>9, <1>10, <1>11, <1>12
  DEF Next, MainStep, Environment

-----------------------------------------------------------------------------
(* The theorems.                                                           *)

\* The invariant holds of every reachable state.
THEOREM Invariance == Spec => []IInv
<1>1. Init => IInv
  <2>. SUFFICES ASSUME Init PROVE IInv
    OBVIOUS
  <2>. USE ActLoopAssumption DEF Init
  <2>1. TypeOK
    <3>1. program \in Seq(Calls) /\ results \in Seq(CallResults)
      OBVIOUS
    <3>2. acts \in 0 .. MaxActs
      OBVIOUS
    <3>. QED
      BY <3>1, <3>2 DEF TypeOK, ControlStates
  <2>2. HeldInv
    BY DEF HeldInv
  <2>3. SignalInv
    BY DEF SignalInv, InLoop, None
  <2>4. StepInv
    BY DEF StepInv, InLoop, None
  <2>. QED
    BY <2>1, <2>2, <2>3, <2>4 DEF IInv
<1>2. IInv /\ [Next]_vars => IInv'
  BY TypeStep, HeldStep, SignalStep, StepStep DEF IInv
<1>. QED
  BY <1>1, <1>2, PTL DEF Spec

\* Type correctness.
THEOREM TypeCorrect == Spec => []TypeOK
<1>1. IInv => TypeOK
  BY DEF IInv
<1>. QED
  BY <1>1, Invariance, PTL

\* However pauses, cancels, keys and resumes interleave with the loop, at most
\* one program starts under a pending pause or cancel.
THEOREM AtMostOneHeldStart == Spec => []HeldStartsAtMostOnce
<1>1. IInv => HeldStartsAtMostOnce
  BY DEF IInv, HeldInv, HeldStartsAtMostOnce
<1>. QED
  BY <1>1, Invariance, PTL

\* No act is canceled by what an earlier act, or the time between two acts, left
\* in the controller, its trigger or the terminal.
THEOREM CancelsAreOwn == Spec => []NoStaleCancel
<1>1. IInv => NoStaleCancel
  BY DEF IInv, SignalInv, NoStaleCancel
<1>. QED
  BY <1>1, Invariance, PTL

\* Every act keeps to its step limit, and completes only with a result and
\* never after it timed out.
THEOREM ActsCompleteOnce == Spec => []CompletesOnce
<1>1. IInv => CompletesOnce
  BY DEF IInv, StepInv, CompletesOnce
<1>. QED
  BY <1>1, Invariance, PTL

\* Whatever programs the service answers with, the loop goes on from an
\* observation without the actuator's hooks only where a human-in-the-loop tool
\* failed behind a redirect of the same program.
THEOREM HooksComeBack == Spec => []UnlockedOnlyBehindRedirect
<1>1. Init => HooksInv
  BY DEF Init, HooksInv, LastObserved, HasException
<1>2. TypeOK /\ HooksInv => UnlockedOnlyBehindRedirect
  <2>. SUFFICES ASSUME TypeOK, HooksInv, pc \in {"check", "plan", "pause"},
                       LastObserved(results), ~ctxLocked
                PROVE  \E i \in DOMAIN results :
                           /\ IsFirstException(results, i)
                           /\ results[i].error = "AgentRedirectError"
                           /\ \E j \in DOMAIN results :
                                  j > i /\ NeedsUnlockedContext(results[j].call)
    BY DEF UnlockedOnlyBehindRedirect
  <2>. DEFINE last == Len(results)
  <2>1. last \in DOMAIN results /\ DOMAIN results = 1 .. last /\ last \in Nat
    BY DEF HooksInv, TypeOK, InLoop
  <2>2. HumanFailed(results[last])
    BY DEF HooksInv, InLoop
  <2>3. PICK i \in DOMAIN results : IsFirstException(results, i)
    BY <2>1, <2>2 DEF HooksInv, HasException, HumanFailed
  <2>4. results[i].error = "AgentRedirectError"
    BY <2>3 DEF HooksInv
  <2>5. last > i /\ NeedsUnlockedContext(results[last].call)
    BY <2>1, <2>2, <2>4 DEF HumanFailed
  <2>. QED
    BY <2>1, <2>3, <2>4, <2>5
<1>. QED
  BY <1>1, <1>2, HooksStep, TypeCorrect, PTL DEF Spec

-----------------------------------------------------------------------------
(* The loop implements the contract of act().                              *)

\* Under the invariant every step is a step of the contract or leaves what the
\* caller sees alone.
LEMMA ContractStep ==
    IInv /\ IInv' /\ [Next]_vars => [Contract!Next]_(Contract!contractVars)
<1>. SUFFICES ASSUME IInv, IInv', [Next]_vars
              PROVE  [Contract!Next]_(Contract!contractVars)
  OBVIOUS
<1>. USE ActLoopAssumption
     DEF Contract!Next, Contract!Begin, Contract!ModelStep, Contract!End,
         Contract!Fits, Contract!contractVars
<1>1. CASE Dispatch
  BY <1>1 DEF Dispatch, None
<1>2. CASE InitialFailed
  <2>1. outcome' \in CallErrors
    BY <1>2, FirstExceptionType DEF InitialFailed, IInv, TypeOK
  <2>2. outcome' \in Errors /\ outcome' \notin {"result", "ActCanceledError",
                                               "ActExceededMaxStepsError"}
    BY <2>1 DEF Errors, CallErrors
  <2>. QED
    BY <1>2, <2>2 DEF InitialFailed
<1>3. CASE StepAnswered
  BY <1>3 DEF StepAnswered, IInv, TypeOK, StepInv
<1>4. CASE ExitReset
  BY <1>4 DEF ExitReset, IInv, TypeOK, StepInv, actVars
<1>5. CASE Interrupt
  BY <1>5 DEF Interrupt, InLoop, Errors, LoopErrors
<1>6. CASE RunCall \/ EnterController \/ EnterReset \/ CheckPassed \/ PauseCheck
           \/ NotCanceled \/ StartProgram \/ NextStep
  BY <1>6 DEF RunCall, EnterController, EnterReset, CheckPassed, PauseCheck,
              NotCanceled, StartProgram, NextStep, actVars
<1>7. CASE CheckTimeout \/ Canceled \/ Complete
  BY <1>7 DEF CheckTimeout, Canceled, Complete, LeaveLoop
<1>8. CASE CheckMaxSteps \/ CheckViewport \/ StepRefused \/ StepFailed
           \/ CompileFailed \/ Thrown \/ ProgramFailed
  BY <1>8 DEF CheckMaxSteps, CheckViewport, StepRefused, StepFailed,
              CompileFailed, Thrown, ProgramFailed, Raise, LeaveLoop
<1>9. CASE ExitController \/ ExitStop
  BY <1>9 DEF ExitController, ExitStop, actVars
<1>10. CASE WatchStep
  BY <1>10 DEF WatchStep, WatchTop, WatchPoll, WatchRead, actVars
<1>11. CASE DeadlinePasses \/ PressCtrlX \/ Pause \/ Resume \/ Cancel \/ Breakpoint
  BY <1>11 DEF DeadlinePasses, PressCtrlX, Pause, Resume, Cancel, Breakpoint,
               actVars
<1>12. CASE UNCHANGED vars
  BY <1>12 DEF vars, actVars
<1>. QED
  BY <1>1, <1>2, <1>3, <1>4, <1>5, <1>6, <1>7, <1>8, <1>9, <1>10, <1>11, <1>12
  DEF Next, MainStep, Environment

\* What the callers of act() see of the loop is the contract: acts one after
\* another, each within its steps, each ending once with a fitting outcome.
THEOREM Implementation == Spec => ImplementsContract
<1>1. Init => Contract!Init
  BY DEF Init, Contract!Init, None
<1>. QED
  BY <1>1, ContractStep, Invariance, PTL DEF Spec, ImplementsContract, Contract!Spec
=============================================================================
