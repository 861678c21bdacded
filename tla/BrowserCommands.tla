-------------------------- MODULE BrowserCommands ---------------------------
(* The browser commands of the CLI: each invocation is a process that         *)
(* prepares the session, takes its lock, runs one action on the page, leaves *)
(* its traces (steps, recording) and ends.  Several processes may run on the *)
(* same session; it may be closed, and its lock file removed, under them.    *)
(* BrowserActions gives the outcomes of the actions; BrowserSessions models  *)
(* how sessions come and go in detail.                                       *)
EXTENDS BrowserActions

CONSTANTS
    Procs,          \* the processes that run commands
    Nobody,         \* the lock's holder when it is free
    Settings        \* who runs what, and what happens to the tabs

ASSUME BrowserCommandsAssumption == Nobody \notin Procs

VARIABLES
    setting,    \* chosen once: procs and names, the processes and their commands;
                \* commands and tabs, bounds on those issued and those open; changes:
                \* pages and the user open and close tabs
    file,       \* the session's metadata file: "none", "started", and "failed" as long
                \* as it has no endpoint
    chrome,     \* how many Chromes the session had; the last one is connected to
    tabs,       \* the tabs of that Chrome, in order; <<>>: it is gone
    active,     \* active_tab_index of the metadata file, from 0
    lock,       \* who holds the lock on the lock file that is there
    robbed,     \* history: who is in the session although the lock file was removed
                \* under it, or came in beside one of those
    proc,       \* the processes' commands
    issued,     \* how many commands were issued
    manifest,   \* recording.json: the commands' entries
    trajectory, \* the newest trajectory file: the number of the command, 0: none,
                \* and whether its own act or its observation wrote it
    selected    \* history: the tab the CLI selected; 0: none, or a tab at or before
                \* it was closed since by its page or the user
vars == <<setting, file, chrome, tabs, active, lock, robbed, proc, issued, manifest, trajectory, selected>>

MaxCommands == setting.commands
MaxTabs == setting.tabs
-----------------------------------------------------------------------------
(* The commands.  rejects: whether arguments may be refused before a session *)
(* is prepared; outcomes: of the block under the lock.                       *)

Command(rejects, outcomes) == [rejects |-> rejects, outcomes |-> outcomes]

\* A call on the tab the CLI selected (get_active_page), and a file written:
\* write_output_file() and resolve_output_path() end the process on failure.
TabCall(op) == PageCall(<<Effect(op, {"page"}, "tab")>>)
File == Returns(TRUE) \cup Raises("SystemExit")
ThenTrue(First) == Then(First, LAMBDA a : Returns(TRUE))
ThenFile(First) == Then(First, LAMBDA a : File)

\* commands/browsing
AskCommand == Command(TRUE, Ask)
ExecuteCommand == Command(TRUE, Execute)
ClickCommand == Command(TRUE, Click)
TypeCommand == Command(TRUE, TypeText(TRUE) \cup TypeText(FALSE))
FillFormCommand(submit) == Command(TRUE, FillForm(submit))
VerifyCommand == Command(TRUE, Verify)
WaitForCommand == Command(TRUE, WaitFor)
ScrollToCommand == Command(TRUE, ScrollTo)
GotoCommand == Command(TRUE, Then(Goto, LAMBDA a : ThenTrue(TabCall("read"))))
BackCommand == Command(FALSE, ThenTrue(TabCall("back")))
ForwardCommand == Command(FALSE, ThenTrue(TabCall("forward")))
RefreshCommand == Command(FALSE, ThenTrue(TabCall("reload")))
\* page(): signatures only, a usage error, or a method of the page.
PageCommand == Command(FALSE, Returns(TRUE) \cup Raises("UsageError") \cup ThenTrue(TabCall("method")))
TabListCommand == Command(FALSE, ThenTrue(TabCall("read")))
\* The captures live in the process: a new one only attaches its listeners.
ConsoleLogCommand == Command(FALSE, ThenTrue(TabCall("listen")))
NetworkLogCommand == Command(FALSE, ThenTrue(TabCall("listen")))

\* commands/extraction
ExtractCommand == Command(TRUE, Then(File, LAMBDA f : Extract))
GetContentCommand == Command(FALSE, Then(File, LAMBDA f : ThenFile(ReadPage)))
QueryCommand == Command(TRUE, Then(File, LAMBDA f : ThenFile(ReadPage)))
StyleCommand == Command(FALSE, Then(File, LAMBDA f : ThenFile(GetStyles)))
ScreenshotCommand ==
    Command(FALSE, Then(File, LAMBDA f : Then(ReadPage, LAMBDA a :
                        ThenFile(TabCall("read") \cup Returns(TRUE)))))
SnapshotCommand == Command(TRUE, Then(File, LAMBDA f : ThenFile(TabCall("read"))))
PdfCommand == Command(FALSE, Then(File, LAMBDA f : ThenFile(TabCall("read"))))
PerfCommand == Command(TRUE, ThenFile(TabCall("read")))
\* evaluate(): its own timeout ends the process, other errors are raised.
EvaluateCommand ==
    Command(TRUE, ThenFile(Except(EvaluateJs, {"EvaluationTimedOut"}, Raises("SystemExit"))))
DiffCommand == Command(TRUE, Diff)

\* commands/session: the trace belongs to the Playwright driver of the process.
TraceStartCommand == Command(FALSE, ThenTrue(TabCall("trace")))
TraceStopCommand == Command(FALSE, Raises("PlaywrightError"))

Commands == [
    ask |-> AskCommand, execute |-> ExecuteCommand, click |-> ClickCommand,
    type |-> TypeCommand, fill_form |-> FillFormCommand(FALSE),
    fill_form_submit |-> FillFormCommand(TRUE), verify |-> VerifyCommand,
    wait_for |-> WaitForCommand, scroll_to |-> ScrollToCommand, goto |-> GotoCommand,
    back |-> BackCommand, forward |-> ForwardCommand, refresh |-> RefreshCommand,
    page |-> PageCommand, tab_list |-> TabListCommand, console_log |-> ConsoleLogCommand,
    network_log |-> NetworkLogCommand, extract |-> ExtractCommand,
    get_content |-> GetContentCommand, query |-> QueryCommand, style |-> StyleCommand,
    screenshot |-> ScreenshotCommand, snapshot |-> SnapshotCommand, pdf |-> PdfCommand,
    perf |-> PerfCommand, evaluate |-> EvaluateCommand, diff |-> DiffCommand,
    trace_start |-> TraceStartCommand, trace_stop |-> TraceStopCommand]
PageCommands == DOMAIN Commands
TabCommands == {"tab_new", "tab_close", "tab_select"}
Names == PageCommands \cup TabCommands
-----------------------------------------------------------------------------
(* Pages and tabs. *)

NewTab == CHOOSE t \in 1..(MaxTabs + 1) :
            /\ t \notin Range(tabs)
            /\ \A u \in 1..(t - 1) : u \in Range(tabs)

\* Mutant: the client is not patched.
SdkTab_Unpatched(pages, index) == Last(pages)
\* get_active_page(): the tab at the index, the client's page if there is none.
\* patch_active_tab(): the client's page is the last tab, unless an index other
\* than 0 is selected.
SdkTab(pages, index) == IF index # 0 /\ index < Len(pages) THEN pages[index + 1] ELSE Last(pages)
ActiveTab(pages, index) == IF index < Len(pages) THEN pages[index + 1] ELSE SdkTab(pages, index)

\* A page or the user opens a tab or closes one, which moves those after it up;
\* with the last tab the Chrome would go.
NoChange == [tabs |-> tabs, selected |-> selected]
TabChanges ==
    (IF setting.changes /\ Len(tabs) < MaxTabs
     THEN {[NoChange EXCEPT !.tabs = Append(tabs, NewTab)]} ELSE {})
    \cup (IF setting.changes /\ Len(tabs) > 1
          THEN {[tabs |-> RemoveAt(tabs, i), selected |-> IF i <= active + 1 THEN 0 ELSE selected] :
                    i \in DOMAIN tabs}
          ELSE {})

\* The calls of a block: those after the k-th find the tabs changed.
Located(did, index, k, change) ==
    [i \in DOMAIN did |->
        LET pages == IF i <= k THEN tabs ELSE change.tabs
        IN  [op |-> did[i].op, about |-> did[i].about, on |-> did[i].on,
             tab |-> IF did[i].on = "sdk" THEN SdkTab(pages, index) ELSE ActiveTab(pages, index)]]
Acting(did) == {i \in DOMAIN did : did[i].op \in {"click", "act"}}
AskedModel(did) == \E i \in DOMAIN did : did[i].op \in {"act", "look"}
-----------------------------------------------------------------------------
NoSteps == [num |-> 0, by |-> "none"]
Idle == [pc |-> "idle", name |-> "none", num |-> 0, chrome |-> 0, index |-> 0,
         did |-> <<>>, exc |-> "none", wrote |-> FALSE, steps |-> NoSteps, loaded |-> <<>>]

Init ==
    /\ setting \in Settings
    /\ file = "none" /\ chrome = 0 /\ tabs = <<>> /\ active = 0
    /\ lock = Nobody /\ robbed = {}
    /\ proc = [p \in Procs |-> Idle]
    /\ issued = 0 /\ manifest = <<>> /\ trajectory = NoSteps /\ selected = 0

sessionVars == <<file, chrome, tabs, active, selected>>
lockVars == <<lock, robbed>>
traceVars == <<manifest, trajectory>>

\* The process ends; whatever context managers it is in are left.
End(p) == /\ proc' = [proc EXCEPT ![p] = Idle]
          /\ lock' = IF lock = p THEN Nobody ELSE lock
          /\ robbed' = robbed \ {p}

\* remove_lock(): the lock file goes, whoever holds it; the next to come makes a
\* new one.
RemoveLock == lock' = Nobody /\ robbed' = robbed \cup ({lock} \ {Nobody})

\* A command line is parsed; arguments may be refused there.
Start(p, name) ==
    /\ p \in setting.procs /\ name \in setting.names
    /\ proc[p].pc = "idle" /\ issued < MaxCommands
    /\ issued' = issued + 1
    /\ \/ proc' = [proc EXCEPT ![p] = [Idle EXCEPT !.pc = "parsed", !.name = name, !.num = issued']]
       \/ name \in PageCommands /\ Commands[name].rejects /\ UNCHANGED proc
    /\ UNCHANGED <<sessionVars, traceVars, lockVars>>

\* get_or_create_session(): a session without an endpoint is closed by force
\* before it is created anew; one that is not on file has no lock file to remove.
ClearStale == IF file = "failed" THEN RemoveLock ELSE UNCHANGED lockVars

\* prepare_session(): authentication, then a connection to the session's Chrome,
\* or a new one, which may have several tabs if it restores them.  A session whose
\* Chrome is gone is an error.  The metadata is read before the lock.
PrepareSession(p) ==
    /\ proc[p].pc = "parsed"
    /\ IF file = "started"
       THEN tabs # <<>> /\ UNCHANGED <<sessionVars, lockVars>>
       ELSE /\ ClearStale
            /\ file' = "started" /\ chrome' = chrome + 1 /\ active' = 0 /\ selected' = 0
            /\ \E n \in 1..MaxTabs : tabs' = [i \in 1..n |-> i]
    /\ proc' = [proc EXCEPT ![p] = [@ EXCEPT !.pc = "prepared", !.chrome = chrome', !.index = active']]
    /\ UNCHANGED <<traceVars, issued>>

\* It fails, or is interrupted: before it touches the session; when it cannot connect
\* to the Chrome, which is terminated; or on the way to a new one.
PrepareFails(p) ==
    /\ proc[p].pc = "parsed"
    /\ \/ UNCHANGED <<sessionVars, lockVars>>
       \/ /\ \/ file = "started" /\ UNCHANGED <<file, active, lockVars>>
             \/ file # "started" /\ ClearStale /\ active' = 0 /\ file' \in {"none", "failed", "started"}
          /\ tabs' = <<>> /\ selected' = 0 /\ UNCHANGED chrome
    /\ proc' = [proc EXCEPT ![p] = Idle]
    /\ UNCHANGED <<traceVars, issued>>

\* command_session() up to its yield: the output is captured, the lock taken,
\* the client's page patched, a screenshot tried.
EnterSession(p) ==
    /\ proc[p].pc = "prepared" /\ lock = Nobody
    /\ lock' = p
    /\ robbed' = IF robbed # {} THEN robbed \cup {p} ELSE robbed
    /\ proc' = [proc EXCEPT ![p].pc = "inside"]
    /\ UNCHANGED <<sessionVars, traceVars, issued>>

\* Mutant: the command goes on when its time is up.
LockTimeout_GoesOn(p) ==
    /\ proc[p].pc = "prepared" /\ lock # Nobody
    /\ proc' = [proc EXCEPT ![p].pc = "inside"]
    /\ UNCHANGED <<sessionVars, traceVars, lockVars, issued>>

\* SessionLockTimeout
LockTimeout(p) ==
    /\ proc[p].pc = "prepared" /\ lock # Nobody /\ End(p)
    /\ UNCHANGED <<sessionVars, traceVars, issued>>

Ran(p, did, exc, wrote) ==
    proc' = [proc EXCEPT ![p] = [@ EXCEPT !.pc = "ran", !.did = did, !.exc = exc, !.wrote = wrote]]

Connected(p) == tabs # <<>> /\ proc[p].chrome = chrome
Runs(p, name) == proc[p].pc = "inside" /\ proc[p].name = name /\ Connected(p)

\* The Chrome the command connected to is gone.
RunDisconnected(p) ==
    /\ proc[p].pc = "inside" /\ ~Connected(p)
    /\ Ran(p, <<>>, "PlaywrightError", FALSE)
    /\ UNCHANGED <<sessionVars, traceVars, lockVars, issued>>

\* The body of a command on a page; acting on it may change the tabs.  A trajectory
\* is written after an act, if that does not fail.
RunCommand(p, name) ==
    /\ Runs(p, name)
    /\ \E o \in Commands[name].outcomes :
        \E wrote \in IF AskedModel(o.did) THEN BOOLEAN ELSE {FALSE},
           k \in Acting(o.did) \cup {Len(o.did)}, change \in {NoChange} \cup TabChanges :
            /\ k \in Acting(o.did) \/ change = NoChange
            /\ Ran(p, Located(o.did, proc[p].index, k, change), o.exc, wrote)
            /\ tabs' = change.tabs /\ selected' = change.selected
            /\ trajectory' = IF wrote THEN [num |-> proc[p].num, by |-> "command"] ELSE trajectory
    /\ UNCHANGED <<file, chrome, active, manifest, lockVars, issued>>

\* tab_new(): a tab whose page cannot be loaded stays open, unselected.
TabNew(p) ==
    /\ Runs(p, "tab_new")
    /\ \/ /\ Len(tabs) < MaxTabs
          /\ Ran(p, <<>>, "none", FALSE)
          /\ tabs' = Append(tabs, NewTab) /\ active' = Len(tabs) /\ selected' = NewTab
       \/ /\ Ran(p, <<>>, "PlaywrightError", FALSE)
          /\ tabs' \in {tabs} \cup IF Len(tabs) < MaxTabs THEN {Append(tabs, NewTab)} ELSE {}
          /\ UNCHANGED <<active, selected>>
    /\ UNCHANGED <<file, chrome, traceVars, lockVars, issued>>

\* The index, from 0, that is active once the i-th of n tabs is closed.
NextActive(i, n) == IF i - 1 < n - 1 THEN i - 1 ELSE n - 2

\* tab_close(): the tab of that number, or the active one; the one that takes
\* its place, or the last, is brought to the front.
TabClose(p) ==
    /\ Runs(p, "tab_close")
    /\ \E asked \in -1..MaxTabs :
        LET own == CHOOSE i \in DOMAIN tabs : tabs[i] = ActiveTab(tabs, proc[p].index)
            i == IF asked = -1 THEN own ELSE asked + 1
        IN  IF Len(tabs) <= 1 \/ i \notin DOMAIN tabs
            THEN Ran(p, <<>>, "SystemExit", FALSE) /\ UNCHANGED <<tabs, active, selected>>
            ELSE /\ Ran(p, <<>>, "none", FALSE)
                 /\ tabs' = RemoveAt(tabs, i)
                 /\ active' = NextActive(i, Len(tabs))
                 /\ selected' = IF i < Len(tabs) THEN tabs[i + 1] ELSE tabs[i - 1]
    /\ UNCHANGED <<file, chrome, traceVars, lockVars, issued>>

\* tab_select()
TabSelect(p) ==
    /\ Runs(p, "tab_select")
    /\ \E index \in 0..MaxTabs :
        IF index < Len(tabs)
        THEN Ran(p, <<>>, "none", FALSE) /\ active' = index /\ selected' = tabs[index + 1]
        ELSE Ran(p, <<>>, "SystemExit", FALSE) /\ UNCHANGED <<active, selected>>
    /\ UNCHANGED <<file, chrome, tabs, traceVars, lockVars, issued>>
-----------------------------------------------------------------------------
(* After the block. *)

\* Mutant: the steps are those of the newest trajectory before this one.
StepsOf_Early(p) == trajectory
\* emit_steps_summary(): of the session's newest trajectory, unless the file
\* cannot be read or written.
StepsOf(p) == trajectory'

Observed(p, wrote, steps) ==
    proc' = [proc EXCEPT ![p] = [@ EXCEPT !.pc = "recording", !.did = <<>>,
                 !.wrote = proc[p].wrote \/ wrote, !.steps = steps, !.loaded = manifest]]

\* _handle_post_command() up to the recorder, which reads the manifest when it
\* is made.  With --observe a look that fails with anything but a RuntimeError
\* escapes.
PostCommand(p) ==
    /\ proc[p].pc = "ran" /\ proc[p].exc = "none"
    /\ \E observed \in Returns(TRUE) \cup Observe :
        IF observed.exc # "none"
        THEN /\ proc' = [proc EXCEPT ![p] = [@ EXCEPT !.exc = observed.exc]]
             /\ UNCHANGED trajectory
        ELSE \E wrote \in IF AskedModel(observed.did) THEN BOOLEAN ELSE {FALSE} :
                /\ trajectory' = IF wrote THEN [num |-> proc[p].num, by |-> "observe"]
                                 ELSE trajectory
                /\ \E steps \in {NoSteps, StepsOf(p)} :
                    Observed(p, wrote, steps)
    /\ UNCHANGED <<sessionVars, manifest, lockVars, issued>>

\* history: robbed
Entry(p) == [num |-> proc[p].num, steps |-> proc[p].steps, wrote |-> proc[p].wrote,
             robbed |-> p \in robbed]

\* Mutant: the recorder does not take up the manifest it finds.
RecordStep_Fresh(p) ==
    /\ proc[p].pc = "recording"
    /\ manifest' \in {<<Entry(p)>>, manifest}
    /\ End(p)
    /\ UNCHANGED <<sessionVars, trajectory, issued>>

\* record_step(): the manifest is replaced by the one that was read with the
\* entry appended, or stays as it is; then the block and the command end.
RecordStep(p) ==
    /\ proc[p].pc = "recording"
    /\ manifest' \in {Append(proc[p].loaded, Entry(p)), manifest}
    /\ End(p)
    /\ UNCHANGED <<sessionVars, trajectory, issued>>

\* The end of the block by an exception, a screenshot of the failure included,
\* or by the end of the process (exit_with_error): neither is recorded.
Fail(p) ==
    /\ proc[p].pc = "ran" /\ proc[p].exc # "none"
    /\ End(p)
    /\ UNCHANGED <<sessionVars, traceVars, issued>>

\* KeyboardInterrupt, or the process is killed: the locks go with it.
Interrupt(p) ==
    /\ proc[p].pc # "idle" /\ End(p)
    /\ UNCHANGED <<sessionVars, traceVars, issued>>

-----------------------------------------------------------------------------
(* The session, under the commands. *)

\* The metadata stays, and the lock with it.
ChromeDies ==
    /\ tabs # <<>>
    /\ tabs' = <<>> /\ selected' = 0
    /\ UNCHANGED <<file, chrome, active, traceVars, lockVars, proc, issued>>

\* session close, close --force, close-all and prune end the Chrome and remove the
\* session's files, if a command is at work or not; recording and trajectories stay.
\* A close that fails to stop keeps the session, but not the lock file.  session
\* list removes the lock file of a session that is not on file.
CloseSession ==
    /\ RemoveLock
    /\ \/ file' = "none" /\ tabs' = <<>> /\ active' = 0 /\ selected' = 0
       \/ file = "started" /\ UNCHANGED <<file, tabs, active, selected>>
    /\ UNCHANGED <<chrome, traceVars, proc, issued>>

\* The user, or a page left to itself.
TabsChange ==
    /\ tabs # <<>>
    /\ \E change \in TabChanges : tabs' = change.tabs /\ selected' = change.selected
    /\ UNCHANGED <<file, chrome, active, traceVars, lockVars, proc, issued>>

Step(p) ==
    \/ \E name \in Names : Start(p, name)
    \/ \E name \in PageCommands : RunCommand(p, name)
    \/ PrepareSession(p) \/ PrepareFails(p) \/ EnterSession(p) \/ LockTimeout(p)
    \/ RunDisconnected(p) \/ TabNew(p) \/ TabClose(p) \/ TabSelect(p)
    \/ PostCommand(p) \/ RecordStep(p) \/ Fail(p) \/ Interrupt(p)

Next ==
    /\ (\E p \in Procs : Step(p)) \/ ChromeDies \/ CloseSession \/ TabsChange
    /\ UNCHANGED setting

Spec == Init /\ [][Next]_vars
-----------------------------------------------------------------------------
(* Properties. *)

Inside(p) == proc[p].pc \in {"inside", "ran", "recording"}

\* The session's lock keeps commands apart as long as its file is: two are in the
\* session at once only after the file was removed under one of them, by a close, a
\* prune, a list, or a command that found the session without an endpoint.
OneInside == \A p, q \in Procs : Inside(p) /\ Inside(q) => p = q \/ {p, q} \subseteq robbed

\* SessionRecorder: commands read the recording of the session, append to it and
\* replace it.  Whatever fails, is killed or closed between the two, and whoever else
\* runs, no command's entry is lost, except by a command that records although the
\* lock file was removed under it, or beside such a one.
RecordingGrows ==
    [][IsPrefix(manifest, manifest') \/ \E p \in robbed : RecordStep(p)]_vars

\* write_steps_summary() takes the newest trajectory of the whole session; the
\* steps of a command that left a trajectory are nevertheless its own, unless the
\* lock file was removed under it or it came in beside such a one.
StepsAreOwn ==
    \A i \in DOMAIN manifest :
        LET e == manifest[i]
        IN  e.wrote /\ ~e.robbed => e.steps = NoSteps \/ e.steps.num = e.num

\* What a command is asked to work on.
Work == [click |-> {"target"}, type |-> {"text"}, goto |-> {"url"}, ask |-> {"question"},
         execute |-> {"prompt"}, fill_form |-> Range(Fields),
         fill_form_submit |-> Range(Fields) \cup {"submit"}]

\* A command that reports success has worked on all of it, directly or by the
\* model, however often a direct call failed on the way; a form is submitted
\* when that was asked and not before every field is filled.
WorkIsDone ==
    \A p \in Procs :
        LET did == proc[p].did
            about(n) == UNION {did[i].about : i \in 1..n}
        IN  proc[p].pc = "ran" /\ proc[p].exc = "none" /\ proc[p].name \in DOMAIN Work =>
                /\ Work[proc[p].name] \subseteq about(Len(did))
                /\ \A i \in DOMAIN did :
                    "submit" \in did[i].about =>
                        proc[p].name = "fill_form_submit" /\ Range(Fields) \subseteq about(i)

\* get_active_page() and patch_active_tab(): calls go to the tab that was selected,
\* by tab-new, tab-close or tab-select, however many tabs came and went since after
\* it, if the selection is not older than the command's connection and no tab at or
\* before it was closed behind the CLI's back; calls of the client only if it
\* is not the first tab.
SelectedTabUsed ==
    [][\A p \in Procs :
          /\ proc[p].pc = "inside" /\ proc'[p].pc = "ran"
          /\ selected # 0 /\ selected' = selected /\ proc[p].index = active
          => \A i \in DOMAIN proc'[p].did :
                 proc'[p].did[i].on = "tab" \/ active # 0 => proc'[p].did[i].tab = selected]_vars

=============================================================================
