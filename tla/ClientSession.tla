--------------------------- MODULE ClientSession ----------------------------
(***************************************************************************)
(* The life of NovaAct clients around their acts: start(), act(), stop()   *)
(* and the with statement, the workflow runs they open and close, and what *)
(* the service hears of runs and acts.  A client with an API key manages a *)
(* workflow of its own; the others share one workflow that the program     *)
(* entered.  Every client is used by one thread.                           *)
(*                                                                         *)
(* Code: nova_act.py, types/workflow.py, impl/backends/burst/backend.py,   *)
(* tools/human/interface/human_input_callback.py.                          *)
(***************************************************************************)
EXTENDS Naturals, Sequences

CONSTANTS
    Clients,
    Shared,      \* the workflow of the clients that do not manage one
    Scenarios,   \* what a run of the program is like, see Scenario
    MaxRuns,     \* bound on the runs opened
    MaxActs      \* bound on the acts created

\* managed: the clients manage a workflow each;
\* faults: stop() may fail, calls may be interrupted, reports get lost.
Scenario == [managed : BOOLEAN, faults : BOOLEAN]

ASSUME ClientSessionAssumption ==
    /\ Scenarios \subseteq Scenario
    /\ MaxRuns \in Nat /\ MaxActs \in Nat

VARIABLES
    scenario,    \* chosen once
    \* --- the service
    runs,        \* the status of every workflow run
    acts,        \* every act: its run, its status and whether its report was lost
    \* --- Workflow._workflow_run, 0 for None
    current,
    \* --- NovaAct
    at,          \* what the client's thread is doing
    run,         \* _workflow_run
    session,     \* _session_id is not None
    browser,     \* _actuator.started
    answering,   \* act_session_id of the human input callbacks is set
    act,         \* the act in progress, 0 for none
    error,       \* _act's error is not None
    cause,       \* why the client is stopping
    \* --- history
    refused      \* a start() after a stop() failed for the session it had

serviceVars == <<runs, acts>>
clientVars == <<run, session, browser, answering, act, error, cause, refused>>
vars == <<scenario, serviceVars, current, at, clientVars>>

Managed == scenario.managed
Faults == scenario.faults

Workflows == IF Managed THEN Clients ELSE {Shared}
Started(c) == browser[c] /\ session[c]

Init ==
    /\ scenario \in Scenarios
    /\ runs = <<>> /\ acts = <<>>
    /\ current = [w \in Workflows |-> 0]
    /\ at = [c \in Clients |-> "none"]
    /\ run = [c \in Clients |-> 0]
    /\ session = [c \in Clients |-> FALSE]
    /\ browser = [c \in Clients |-> FALSE]
    /\ answering = [c \in Clients |-> FALSE]
    /\ act = [c \in Clients |-> 0]
    /\ error = [c \in Clients |-> FALSE]
    /\ cause = [c \in Clients |-> "none"]
    /\ refused = [c \in Clients |-> FALSE]

Goto(c, label) == at' = [at EXCEPT ![c] = label]

-----------------------------------------------------------------------------
(* Workflow.                                                               *)

\* __enter__: the backend opens a run.
EnterWorkflow(w) ==
    /\ Len(runs) < MaxRuns
    /\ runs' = Append(runs, "RUNNING")
    /\ current' = [current EXCEPT ![w] = Len(runs')]
    /\ UNCHANGED acts

\* Mutant: __exit__ keeps the run it closed.
ExitWorkflow_KeepsRun(w, failed) ==
    /\ IF current[w] = 0 THEN UNCHANGED runs
       ELSE \/ runs' = [runs EXCEPT ![current[w]] =
                            IF failed THEN "FAILED" ELSE "SUCCEEDED"]
            \/ Faults /\ UNCHANGED runs
    /\ UNCHANGED <<acts, current>>

\* __exit__: the run is closed, unless the report fails, and forgotten anyway.
ExitWorkflow(w, failed) ==
    /\ IF current[w] = 0 THEN UNCHANGED runs
       ELSE \/ runs' = [runs EXCEPT ![current[w]] =
                            IF failed THEN "FAILED" ELSE "SUCCEEDED"]
            \/ Faults /\ UNCHANGED runs
    /\ current' = [current EXCEPT ![w] = 0]
    /\ UNCHANGED acts

\* The program's own with statement around its clients; it joins their threads
\* before it leaves.
ProgramEnters ==
    /\ ~Managed /\ current[Shared] = 0
    /\ EnterWorkflow(Shared)
    /\ UNCHANGED <<at, clientVars>>

ProgramExits ==
    /\ ~Managed /\ current[Shared] # 0
    /\ \A c \in Clients : at[c] = "none"
    /\ \E failed \in BOOLEAN : ExitWorkflow(Shared, failed)
    /\ UNCHANGED <<at, clientVars>>

-----------------------------------------------------------------------------
(* start()                                                                 *)

\* _set_workflow: a client of a workflow needs its run.
Construct(c) ==
    /\ at[c] = "none"
    /\ ~Managed => current[Shared] # 0
    /\ Goto(c, "idle")
    /\ run' = [run EXCEPT ![c] = IF Managed THEN 0 ELSE current[Shared]]
    /\ UNCHANGED <<serviceVars, current, session, browser, answering, act, error, cause, refused>>

\* The program drops a client whose browser is gone, and its workflow with it.
Discard(c) ==
    /\ at[c] = "idle" /\ ~browser[c]
    /\ Goto(c, "none")
    /\ current' = IF Managed THEN [current EXCEPT ![c] = 0] ELSE current
    /\ run' = [run EXCEPT ![c] = 0]
    /\ session' = [session EXCEPT ![c] = FALSE]
    /\ answering' = [answering EXCEPT ![c] = FALSE]
    /\ cause' = [cause EXCEPT ![c] = "none"]
    /\ refused' = [refused EXCEPT ![c] = FALSE]
    /\ UNCHANGED <<serviceVars, browser, act, error>>

Start(c) ==
    /\ at[c] = "idle" /\ ~Started(c)
    /\ Goto(c, IF Managed THEN "enter" ELSE "session")
    /\ UNCHANGED <<serviceVars, current, clientVars>>

\* Mutant: the client is not stopped.
StartFails_NoStop(c) ==
    /\ Goto(c, "idle")
    /\ cause' = [cause EXCEPT ![c] = "start"]

\* `except Exception`: the client is stopped as by stop().
StartFails(c) ==
    /\ Goto(c, "stopping")
    /\ cause' = [cause EXCEPT ![c] = "start"]

OpenRun(c) ==
    /\ at[c] = "enter"
    /\ EnterWorkflow(c)
    /\ run' = [run EXCEPT ![c] = Len(runs')]
    /\ Goto(c, "session")
    /\ UNCHANGED <<session, browser, answering, act, error, cause, refused>>

\* The service refuses a run or a session, or the browser does not start, or
\* it starts and what follows it fails.
StartCallFails(c) ==
    /\ at[c] \in {"enter", "session", "browser"}
    /\ StartFails(c)
    /\ browser' \in {browser, [browser EXCEPT ![c] = browser[c] \/ at[c] = "browser"]}
    /\ UNCHANGED <<serviceVars, current, run, session, answering, act, error, refused>>

\* The callbacks take a session once in their life.
CreateSession(c) ==
    /\ at[c] = "session"
    /\ session' = [session EXCEPT ![c] = TRUE]
    /\ IF answering[c]
       THEN /\ StartFails(c)
            /\ refused' = [refused EXCEPT ![c] = cause[c] # "start"]
            /\ UNCHANGED answering
       ELSE /\ Goto(c, "browser")
            /\ answering' = [answering EXCEPT ![c] = TRUE]
            /\ UNCHANGED <<cause, refused>>
    /\ UNCHANGED <<serviceVars, current, run, browser, act, error>>

StartBrowser(c) ==
    /\ at[c] = "browser"
    /\ browser' = [browser EXCEPT ![c] = TRUE]
    /\ Goto(c, "idle")
    /\ UNCHANGED <<serviceVars, current, run, session, answering, act, error, cause, refused>>

-----------------------------------------------------------------------------
(* stop() and __exit__                                                     *)

\* stop(), or the with statement is left: by its end or by an exception.
Stop(c) ==
    /\ at[c] = "idle" /\ Started(c)
    /\ \E why \in {"none", "exception"} : cause' = [cause EXCEPT ![c] = why]
    /\ Goto(c, "stopping")
    /\ UNCHANGED <<serviceVars, current, run, session, browser, answering, act, error, refused>>

\* Mutant: the run is closed before the browser.
StopBrowser_Later(c) ==
    /\ at[c] = "stopping"
    /\ session' = [session EXCEPT ![c] = FALSE]
    /\ Goto(c, IF Managed THEN "exiting" ELSE "idle")
    /\ UNCHANGED <<serviceVars, current, run, browser, answering, act, error, cause, refused>>

StopBrowser(c) ==
    /\ at[c] = "stopping"
    /\ browser' = [browser EXCEPT ![c] = FALSE]
    /\ session' = [session EXCEPT ![c] = FALSE]
    /\ Goto(c, IF Managed THEN "exiting" ELSE "idle")
    /\ UNCHANGED <<serviceVars, current, run, answering, act, error, cause, refused>>

\* The actuator's stop() raises: StopFailed, the rest of _stop is skipped.
StopFails(c) ==
    /\ Faults
    /\ at[c] = "stopping"
    /\ Goto(c, "idle")
    /\ browser' \in {browser, [browser EXCEPT ![c] = FALSE]}
    /\ UNCHANGED <<serviceVars, current, run, session, answering, act, error, cause, refused>>

\* The managed workflow is exited with the exception of the with statement,
\* with none after a failed start().
CloseRun(c) ==
    /\ at[c] = "exiting"
    /\ ExitWorkflow(c, cause[c] = "exception")
    /\ Goto(c, "idle")
    /\ UNCHANGED clientVars

-----------------------------------------------------------------------------
(* act()                                                                   *)

CreateAct(c) ==
    /\ at[c] = "idle" /\ Started(c) /\ Len(acts) < MaxActs
    /\ acts' = Append(acts, [run |-> run[c], status |-> "RUNNING", lost |-> FALSE])
    /\ act' = [act EXCEPT ![c] = Len(acts')]
    /\ error' = [error EXCEPT ![c] = FALSE]
    /\ Goto(c, "act")
    /\ UNCHANGED <<runs, current, run, session, browser, answering, cause, refused>>

\* dispatch() returns a result that fits the schema, raises an Exception, or is
\* interrupted by a KeyboardInterrupt, which `except Exception` does not catch.
Ends == {"result", "error"} \cup (IF Faults THEN {"interrupt"} ELSE {})

\* Mutant: what follows the try is no finally clause.
ActEnds_NoFinally(c) ==
    /\ at[c] = "act"
    /\ \E how \in Ends :
           /\ error' = [error EXCEPT ![c] = how = "error"]
           /\ Goto(c, IF how = "interrupt" THEN "idle" ELSE "report")
    /\ UNCHANGED <<serviceVars, current, run, session, browser, answering, act, cause, refused>>

ActEnds(c) ==
    /\ at[c] = "act"
    /\ \E how \in Ends : error' = [error EXCEPT ![c] = how = "error"]
    /\ Goto(c, "report")
    /\ UNCHANGED <<serviceVars, current, run, session, browser, answering, act, cause, refused>>

\* The status _act reports: FAILED if it caught an error.
StatusOf(failed) == IF failed THEN "FAILED" ELSE "SUCCEEDED"

\* The finally clause: writing the act's logs or the update fails, or ctrl+c
\* comes before it; there is no second try.
ReportAct(c) ==
    /\ at[c] = "report"
    /\ \/ acts' = [acts EXCEPT ![act[c]].status = StatusOf(error[c])]
       \/ Faults /\ acts' = [acts EXCEPT ![act[c]].lost = TRUE]
    /\ act' = [act EXCEPT ![c] = 0]
    /\ error' = [error EXCEPT ![c] = FALSE]
    /\ Goto(c, "idle")
    /\ UNCHANGED <<runs, current, run, session, browser, answering, cause, refused>>

-----------------------------------------------------------------------------

\* ctrl+c leaves start() and stop() where they are: nothing cleans up.
Interrupt(c) ==
    /\ Faults
    /\ at[c] \in {"enter", "session", "browser", "stopping", "exiting"}
    /\ current' = IF at[c] = "exiting" THEN [current EXCEPT ![c] = 0] ELSE current
    /\ Goto(c, "idle")
    /\ UNCHANGED <<serviceVars, clientVars>>

\* What a client's thread does once the program called it.
ClientStep(c) ==
    \/ OpenRun(c) \/ StartCallFails(c) \/ CreateSession(c) \/ StartBrowser(c)
    \/ StopBrowser(c) \/ StopFails(c) \/ CloseRun(c)
    \/ ActEnds(c) \/ ReportAct(c)

\* What the program does with a client.
ProgramStep(c) ==
    Construct(c) \/ Discard(c) \/ Start(c) \/ Stop(c) \/ CreateAct(c)

Next ==
    /\ \/ ProgramEnters \/ ProgramExits
       \/ \E c \in Clients : ClientStep(c) \/ ProgramStep(c) \/ Interrupt(c)
    /\ UNCHANGED scenario

Spec == Init /\ [][Next]_vars

\* Calls return, acts end (ActLoop), and the program leaves its with statements.
FairSpec ==
    /\ Spec
    /\ \A c \in Clients : WF_vars(ClientStep(c) /\ UNCHANGED scenario)
                      /\ SF_vars(Stop(c) /\ UNCHANGED scenario)

-----------------------------------------------------------------------------
(* What the service sees of the clients.                                   *)

Ledger == INSTANCE RunLedger WITH
    runs <- runs,
    acts <- [a \in DOMAIN acts |-> [run |-> acts[a].run, status |-> acts[a].status]]

-----------------------------------------------------------------------------
(* Properties.                                                             *)

\* The run of a client is closed only after its browser is gone, however start()
\* and stop() fail or are interrupted on the way; and unless a call is lost or
\* interrupted an open run is the run of a workflow that is entered: no failure
\* of start() leaves a run behind.
BrowserNeedsOpenRun ==
    /\ \A c \in Clients : browser[c] => run[c] # 0 /\ runs[run[c]] = "RUNNING"
    /\ ~Faults => \A r \in DOMAIN runs :
           runs[r] = "RUNNING" => \E w \in Workflows : current[w] = r

\* Whatever fails or is interrupted, in act() and in the start() and stop()
\* around it, an act that the service still lists as RUNNING is one a client is
\* busy with, in a browser that is up and under the client's own open run, unless
\* the one report of it was lost.
ActsAccountedFor ==
    \A a \in DOMAIN acts :
        acts[a].status = "RUNNING" /\ ~acts[a].lost =>
            \E c \in Clients :
                /\ act[c] = a /\ at[c] \in {"act", "report"} /\ browser[c]
                /\ acts[a].run = run[c] /\ Ledger!IsOpen(run[c])

\* A program that leaves its with statements closes every managed run.
RunsClose ==
    \A r \in 1 .. MaxRuns :
        Managed /\ ~Faults /\ Ledger!IsOpen(r) ~> ~Ledger!IsOpen(r)

\* nova_act.py: "to start over, run stop()": a client that was stopped can be
\* started.
StopAllowsRestart == \A c \in Clients : ~refused[c]

\* Clients keep the books: runs close once, and acts are created and reported
\* only under an open run.
ImplementsLedger == Ledger!Spec
=============================================================================
