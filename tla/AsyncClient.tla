---------------------------- MODULE AsyncClient -----------------------------
(***************************************************************************)
(* The asyncio client.  Every client is used by a task of its own inside   *)
(* `async with`.  Calls of the service are synchronous and hold the event  *)
(* loop; tasks interleave at awaits only, and there a task may be          *)
(* cancelled: CancelledError passes every `except Exception`.              *)
(*                                                                         *)
(* Code: asyncio/nova_act.py, asyncio/impl/, asyncio/tools/browser/,       *)
(* impl/thinker.py.                                                        *)
(***************************************************************************)
EXTENDS Naturals, Sequences

CONSTANTS
    Clients,
    Root,        \* the handlers the trace logger has from its configuration
    Settings,    \* how the clients are configured, see Setting
    MaxActs,     \* bound on the acts created
    MaxSteps     \* an act's max_steps

\* playwright: the client starts a Playwright driver of its own or is given one;
\* browser: it launches one, starts the user's default Chrome, or connects to
\* somebody's endpoint; saves: it has a browser session provider; faults: calls
\* may fail; cancels: a bound on cancellations.
Setting == [playwright : {"own", "given"}, browser : {"launch", "default", "endpoint"},
            saves : BOOLEAN, faults : BOOLEAN, cancels : Nat]

ASSUME AsyncClientAssumption ==
    /\ \A s \in Settings : s \in Setting
    /\ Root \notin Clients /\ MaxActs \in Nat /\ MaxSteps \in Nat \ {0}

VARIABLES
    setting,     \* chosen once
    runs, acts,  \* the service's: the status of runs; acts, with the loss of a report
    handlers,    \* whose handlers the trace logger has: Root's or a client's Thinker's
    overlapped,  \* history: two Thinkers were there at once
    cancels,     \* cancellations so far
    task         \* the clients and what their tasks are at

vars == <<setting, runs, acts, handlers, overlapped, cancels, task>>

Faults == setting.faults
Own == setting.playwright = "own"

\* Where tasks are between two awaits: only with calls of the service ahead.
Holding == {"session", "failed"}
\* The awaits of start(), of acts and of stop().
Starting == {"driver", "default", "connect", "page", "undo"}
Acting == {"observe", "paused", "program"}
Stopping == {"saving", "draining", "closing", "unplug"}

\* driver, browser, chrome: what the client started and is there: a Playwright
\* driver, a browser launched by it, the default Chrome; context: _context is not
\* None; saved: original_handlers of the Thinker; exc: the with statement is left
\* by an exception; aborted: a cancellation waits for the end of a finally;
\* blame: history of what went wrong.
Fresh == [at |-> "new", run |-> 0, session |-> FALSE, driver |-> FALSE, browser |-> FALSE,
          chrome |-> FALSE, context |-> FALSE, act |-> 0, steps |-> 0, saved |-> Root,
          exc |-> FALSE, aborted |-> FALSE, blame |-> {}]

Init ==
    /\ setting \in Settings
    /\ runs = <<>> /\ acts = <<>> /\ handlers = Root /\ overlapped = FALSE /\ cancels = 0
    /\ task = [c \in Clients |-> Fresh]

LoopIsFree == \A c \in Clients : task[c].at \notin Holding
Set(c, t) == task' = [task EXCEPT ![c] = t]
Blamed(t, what) == [t EXCEPT !.blame = @ \cup {what}]
\* At an await that completes.
Awaits(c, label) == task[c].at = label /\ LoopIsFree

logVars == <<handlers, overlapped>>
-----------------------------------------------------------------------------
(* start()                                                                 *)

\* Workflow.__enter__()
Enter(c) ==
    /\ Awaits(c, "new")
    /\ \/ /\ runs' = Append(runs, "RUNNING")
          /\ Set(c, [task[c] EXCEPT !.at = "session", !.run = Len(runs')])
       \/ Faults /\ UNCHANGED runs /\ Set(c, [task[c] EXCEPT !.at = "failed"])
    /\ UNCHANGED <<acts, logVars, cancels>>

\* The default Chrome is started without an await in between; a browser that
\* has to be installed may not be, which is raised past the clean-up.
Prepared(t) ==
    IF setting.browser = "default" THEN {[t EXCEPT !.at = "default", !.chrome = TRUE]}
    ELSE {[t EXCEPT !.at = "connect"]}
         \cup IF Faults /\ setting.browser = "launch"
              THEN {Blamed([t EXCEPT !.at = "failed"], "install")} ELSE {}

CreateSession(c) ==
    /\ task[c].at = "session"
    /\ LET t == [task[c] EXCEPT !.session = TRUE]
       IN  \/ Own /\ Set(c, [t EXCEPT !.at = "driver"])
           \/ ~Own /\ \E u \in Prepared(t) : Set(c, u)
           \/ Faults /\ Set(c, [t EXCEPT !.at = "failed"])
    /\ UNCHANGED <<runs, acts, logVars, cancels>>

\* async_playwright().start()
DriverStarts(c) ==
    /\ Awaits(c, "driver")
    /\ \/ \E u \in Prepared([task[c] EXCEPT !.driver = TRUE]) : Set(c, u)
       \/ Faults /\ Set(c, [task[c] EXCEPT !.at = "failed"])
    /\ UNCHANGED <<runs, acts, logVars, cancels>>

DefaultChromeAnswers(c) ==
    /\ Awaits(c, "default")
    /\ Set(c, [task[c] EXCEPT !.at = "connect"])
    /\ UNCHANGED <<runs, acts, logVars, cancels>>

Connects(c) ==
    /\ Awaits(c, "connect")
    /\ Set(c, [task[c] EXCEPT !.at = "page", !.browser = setting.browser = "launch"])
    /\ UNCHANGED <<runs, acts, logVars, cancels>>

\* The cookies are there and the starting page: only now is _context set.
PageOpens(c) ==
    /\ Awaits(c, "page")
    /\ Set(c, [task[c] EXCEPT !.at = "ready", !.context = TRUE])
    /\ UNCHANGED <<runs, acts, logVars, cancels>>

\* Mutant: the manager does not clean up.
StartBreaks_NoStop(c) ==
    /\ Faults /\ \E label \in {"default", "connect", "page"} : Awaits(c, label)
    /\ Set(c, Blamed([task[c] EXCEPT !.at = "failed", !.chrome = FALSE], "start"))
    /\ UNCHANGED <<runs, acts, logVars, cancels>>

\* The manager's `except Exception`: its stop(), which knows of no context yet.
StartBreaks(c) ==
    /\ Faults /\ \E label \in {"default", "connect", "page"} : Awaits(c, label)
    /\ Set(c, Blamed([task[c] EXCEPT !.at = IF Own THEN "undo" ELSE "failed",
                                     !.chrome = FALSE], "start"))
    /\ UNCHANGED <<runs, acts, logVars, cancels>>

\* The driver ends, and the browsers it launched with it.
Undo(c) ==
    /\ Awaits(c, "undo")
    /\ \/ Set(c, [task[c] EXCEPT !.at = "failed", !.driver = FALSE, !.browser = FALSE])
       \/ Faults /\ Set(c, Blamed([task[c] EXCEPT !.at = "failed"], "stop"))
    /\ UNCHANGED <<runs, acts, logVars, cancels>>

\* Workflow.__exit__(): the run, if there is one, is closed or the call is lost.
CloseRun(c, t, failed) ==
    \/ /\ runs' = IF t.run = 0 THEN runs
                  ELSE [runs EXCEPT ![t.run] = IF failed THEN "FAILED" ELSE "SUCCEEDED"]
       /\ Set(c, t)
    \/ Faults /\ UNCHANGED runs /\ Set(c, Blamed(t, "lost"))

\* start()'s `except Exception`: _stop(), without anything to await, and
\* StartFailed.
StartFails(c) ==
    /\ task[c].at = "failed"
    /\ CloseRun(c, [task[c] EXCEPT !.at = "done", !.session = FALSE], FALSE)
    /\ UNCHANGED <<acts, logVars, cancels>>
-----------------------------------------------------------------------------
(* act()                                                                   *)

BeginAct(c) ==
    /\ Awaits(c, "ready") /\ Len(acts) < MaxActs
    /\ acts' = Append(acts, [run |-> task[c].run, status |-> "RUNNING", lost |-> FALSE])
    /\ Set(c, [task[c] EXCEPT !.at = "observe", !.act = Len(acts'), !.steps = 0])
    /\ UNCHANGED <<runs, logVars, cancels>>

\* Mutant: a cancelled act is not reported.
Reported_NotCancelled(a, how) ==
    {[acts EXCEPT ![a].status = CASE how = "error" -> "FAILED"
                                  [] how = "result" -> "SUCCEEDED"
                                  [] OTHER -> @]}
    \cup IF Faults THEN {[acts EXCEPT ![a].lost = TRUE]} ELSE {}

\* _act's finally: FAILED for an error, which a cancellation is not; the logs of
\* the act or the call may fail.
Reported(a, how) ==
    {[acts EXCEPT ![a].status = IF how = "error" THEN "FAILED" ELSE "SUCCEEDED"]}
    \cup IF Faults THEN {[acts EXCEPT ![a].lost = TRUE]} ELSE {}

\* The act ends; the logger has the handlers hs.
EndAct(c, how, hs) ==
    /\ acts' \in Reported(task[c].act, how)
    /\ handlers' = hs
    /\ Set(c, [task[c] EXCEPT !.at = "ready", !.act = 0])
    /\ UNCHANGED <<runs, overlapped, cancels>>

\* Mutant: the steps of an act are not counted.
RunProgram_Uncounted(c, hs) ==
    /\ handlers' = c
    /\ overlapped' = (overlapped \/ \E d \in Clients \ {c} : task[d].at = "program")
    /\ Set(c, [task[c] EXCEPT !.at = "program", !.saved = hs])
    /\ UNCHANGED <<runs, acts, cancels>>

\* A Thinker is entered for the program: it puts its handler in the place of hs.
RunProgram(c, hs) ==
    /\ handlers' = c
    /\ overlapped' = (overlapped \/ \E d \in Clients \ {c} : task[d].at = "program")
    /\ Set(c, [task[c] EXCEPT !.at = "program", !.saved = hs, !.steps = @ + 1])
    /\ UNCHANGED <<runs, acts, cancels>>

LimitReached(t) == t.steps >= MaxSteps

\* One round of the loop of dispatch(): the step limit, the model's answer, and
\* the controller; the Thinker around the model's step leaves the handlers as
\* they were.
Plan(c, hs) ==
    IF LimitReached(task[c]) THEN EndAct(c, "error", hs)
    ELSE \/ EndAct(c, "error", hs)
         \/ RunProgram(c, hs)
         \/ /\ Set(c, [task[c] EXCEPT !.at = "paused"]) /\ handlers' = hs
            /\ UNCHANGED <<runs, acts, overlapped, cancels>>

\* The initial program.
Observes(c) ==
    Awaits(c, "observe") /\ (Plan(c, handlers) \/ EndAct(c, "error", handlers))

\* Resumed, or canceled by the controller.
Resumes(c) ==
    Awaits(c, "paused") /\ (RunProgram(c, handlers) \/ EndAct(c, "error", handlers))

\* Mutant: what the logger has is taken as what it had.
Leaves_Late(c) == handlers
\* Thinker.__exit__()
Leaves(c) == task[c].saved

\* The program ends with a result, fails, or the loop goes on.
ProgramEnds(c) ==
    Awaits(c, "program") /\ (\E how \in {"result", "error"} : EndAct(c, how, Leaves(c)) \/ Plan(c, Leaves(c)))
-----------------------------------------------------------------------------
(* __aexit__() and stop()                                                  *)

\* What stop() of the manager awaits: the session's state is saved and the pages
\* drained, a context of a given driver closed, a driver of its own stopped.
StopAwaits ==
    (IF setting.saves THEN <<"saving", "draining">> ELSE <<>>)
    \o (IF ~Own /\ setting.browser = "launch" THEN <<"closing">> ELSE <<>>)
    \o (IF Own THEN <<"unplug">> ELSE <<>>)

Finished(t) == [t EXCEPT !.at = "done", !.session = FALSE, !.context = FALSE, !.chrome = FALSE]

\* On to the i-th of them, or to the end of _stop(): the default Chrome is
\* terminated before the driver is stopped.
StopFrom(c, t, i) ==
    IF t.aborted
    THEN Set(c, Blamed([t EXCEPT !.at = "done"], "cancelled")) /\ UNCHANGED runs
    ELSE IF i > Len(StopAwaits) THEN CloseRun(c, Finished(t), t.exc)
    ELSE /\ Set(c, [t EXCEPT !.at = StopAwaits[i],
                             !.chrome = @ /\ StopAwaits[i] # "unplug"])
         /\ UNCHANGED runs

\* The with statement is left, by an exception or not.
Leave(c) ==
    /\ Awaits(c, "ready")
    /\ \E exc \in BOOLEAN : StopFrom(c, [task[c] EXCEPT !.exc = exc], 1)
    /\ UNCHANGED <<acts, logVars, cancels>>

\* What is done at the end of an await of stop(): errors of saving, draining and
\* closing are only logged.
Stopped(t) ==
    CASE t.at = "closing" ->
            {[t EXCEPT !.browser = FALSE, !.context = FALSE]}
            \cup IF Faults THEN {Blamed([t EXCEPT !.context = FALSE], "stop")} ELSE {}
      [] t.at = "unplug" -> {[t EXCEPT !.driver = FALSE, !.browser = FALSE]}
      [] OTHER -> {t}

StopGoesOn(c) ==
    /\ \E i \in DOMAIN StopAwaits :
        /\ Awaits(c, StopAwaits[i])
        /\ \E t \in Stopped(task[c]) : StopFrom(c, t, i + 1)
    /\ UNCHANGED <<acts, logVars, cancels>>

\* The driver's stop() raises: StopFailed.
StopBreaks(c) ==
    /\ Faults /\ Awaits(c, "unplug")
    /\ Set(c, Blamed([task[c] EXCEPT !.at = "done"], "stop"))
    /\ UNCHANGED <<runs, acts, logVars, cancels>>
-----------------------------------------------------------------------------
(* Cancellation of a task at an await.                                     *)

Cancels == cancels < setting.cancels /\ cancels' = cancels + 1

\* What was awaited may have happened or not.
HalfDone(t, driver, browser) ==
    /\ driver # t.driver => t.at \in {"driver", "undo", "unplug"}
    /\ browser # t.browser =>
        \/ t.at = "connect" /\ setting.browser = "launch"
        \/ t.at \in {"closing", "undo", "unplug"} /\ t.browser
    /\ browser /\ Own => driver

\* Nobody cleans up.
Abandoned(c) ==
    \E driver, browser \in BOOLEAN :
        /\ HalfDone(task[c], driver, browser)
        /\ Set(c, Blamed([task[c] EXCEPT !.at = "done", !.driver = driver, !.browser = browser],
                         "cancelled"))

\* Out of start(): the with statement is not entered.
CancelStart(c) ==
    /\ task[c].at \in Starting /\ LoopIsFree /\ Cancels
    /\ Abandoned(c)
    /\ UNCHANGED <<runs, acts, logVars>>

\* Thinker.__exit__(), if it is the program that is cancelled.
LeavesCancelled(c) == IF task[c].at = "program" THEN Leaves(c) ELSE handlers

\* Out of act(), as by wait_for(): the program may go on or leave.
CancelAct(c) ==
    /\ task[c].at \in Acting /\ LoopIsFree /\ Cancels
    /\ acts' \in Reported(task[c].act, "cancelled")
    /\ handlers' = LeavesCancelled(c)
    /\ Set(c, [task[c] EXCEPT !.at = "ready", !.act = 0])
    /\ UNCHANGED <<runs, overlapped>>

\* Out of stop(): the pages are drained in a finally, all else stays.
CancelStop(c) ==
    /\ task[c].at \in Stopping /\ LoopIsFree /\ Cancels
    /\ IF task[c].at = "saving"
       THEN Set(c, [task[c] EXCEPT !.at = "draining", !.aborted = TRUE])
       ELSE Abandoned(c)
    /\ UNCHANGED <<runs, acts, logVars>>
-----------------------------------------------------------------------------

Step(c) ==
    \/ Enter(c) \/ CreateSession(c) \/ DriverStarts(c) \/ DefaultChromeAnswers(c)
    \/ Connects(c) \/ PageOpens(c) \/ StartBreaks(c) \/ Undo(c) \/ StartFails(c)
    \/ Observes(c) \/ ProgramEnds(c) \/ StopGoesOn(c) \/ StopBreaks(c)

Next ==
    /\ \E c \in Clients :
        \/ Step(c) \/ Resumes(c) \/ BeginAct(c) \/ Leave(c)
        \/ CancelStart(c) \/ CancelAct(c) \/ CancelStop(c)
    /\ UNCHANGED setting

Spec == Init /\ [][Next]_vars

\* Awaited calls return, the loop runs its tasks, and programs leave their with
\* statements; nobody has to resume a paused act.
FairSpec ==
    /\ Spec
    /\ \A c \in Clients : /\ WF_vars(Step(c) /\ UNCHANGED setting)
                          /\ SF_vars(Leave(c) /\ UNCHANGED setting)
-----------------------------------------------------------------------------
(* Properties.                                                             *)

\* async with: when a client's task is over, nothing the client started is left
\* and its run is closed, unless it was cancelled in start() or stop() or a stop
\* failed.  Only the driver stays when no browser could be installed, a browser
\* launched by a driver of the program's when what followed the launch failed, and
\* a run when the call that closes it was lost.
NothingLeft ==
    \A c \in Clients : LET t == task[c] IN
        t.at = "done" /\ t.blame \cap {"cancelled", "stop"} = {} =>
            /\ ~t.chrome
            /\ t.driver => "install" \in t.blame
            /\ t.browser => ~Own /\ "start" \in t.blame
            /\ t.run # 0 /\ runs[t.run] = "RUNNING" => "lost" \in t.blame

\* Wherever a task is cancelled or fails, an act that the service still lists as
\* RUNNING is one its client's task is in, under the client's own run, which is
\* open, unless the one report of it was lost.
ActsAccountedFor ==
    \A a \in DOMAIN acts :
        acts[a].status = "RUNNING" /\ ~acts[a].lost =>
            \E c \in Clients : LET t == task[c] IN
                /\ t.act = a /\ t.at \in Acting
                /\ t.run = acts[a].run /\ t.run \in DOMAIN runs /\ runs[t.run] = "RUNNING"

\* Thinker: as long as no two programs run at once, the logger has its own
\* handlers whenever none runs, whatever ended the last one.
HandlersRestored ==
    ~overlapped /\ (\A c \in Clients : task[c].at # "program") => handlers = Root

\* Unless it stays paused for ever, every task ends, cancelled or not.
TasksEnd ==
    \A c \in Clients :
        <>[](task[c].at # "paused") => (task[c].at # "new" ~> task[c].at = "done")
=============================================================================
