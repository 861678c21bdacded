# Nova Act: models, checks and proofs

TLA+ models of the Nova Act SDK and of the `act` command line, checked with TLC
and, where marked, proved with TLAPS. Paths below are relative to
`src/src/nova_act/`; `PROJECT.json` maps every definition to its lines.

    tlc -workers 2 -config MCActLoop.cfg MCActLoop      # any run of PROJECT.json
    tlapm ActLoopProofs.tla                             # the proofs

## 1. The system

| Component | State it keeps | Operations | What is hard |
|---|---|---|---|
| Act loop (`impl/dispatcher.py`) | the `Act`, `step_idx`, the last program result, the deadline | `dispatch`, `cancel_prompt` | order of timeout, step limit, pause, cancel, completion; redirects that keep the loop going |
| Controller (`impl/controller.py`) and keyboard watcher (`impl/keyboard_event_watcher.py`, `util/terminal_manager.py`) | `_state`, `trigger`, `final_stop`, the terminal's mode and input | `pause`, `resume`, `cancel`, `reset`, enter, exit; a thread that polls for ctrl+x | a thread beside the loop; flags that outlive an act |
| Programs (`impl/program/`) | call results | `compile`, `run`, `has_return`, `has_throw`, `has_exception` | a locked browser context that is unlocked for humans; several failures in one run |
| NovaAct client (`nova_act.py`) | session id, run, actuator, callbacks | `start`, `stop`, `with`, `act` | failures and ctrl+c in the middle of each; starting again |
| asyncio client (`asyncio/`, `impl/thinker.py`) | the same, and the drivers and browsers it started; the trace logger's handlers | the same, in tasks of one event loop | tasks that interleave and are cancelled at awaits; `CancelledError` passes every `except Exception` |
| Workflow (`types/workflow.py`) | `_workflow_run` | `with`, managed or shared | shared by clients on several threads; lost updates |
| Backends (`impl/backends/`) | none of their own; runs, acts and sessions at the service | `create_*`, `step`, `update_*` | calls fail or are lost; two services name one fault differently |
| Local actuator (`tools/browser/default/`) | Playwright objects | `start`, `stop`, click and type at a point | failures of start and stop; elements that are found again; redirects |
| Human input (`tools/human/`) | `act_session_id`, responses | `approve`, `ui_takeover` | cancels, waits |
| Browser session providers (`browser_auth/`) | a state file, an S3 object, an AgentCore profile; caches in memory and on disk | load, save, look up or create a profile | killed saves, stale caches, processes that share a name |
| Workflow store (`cli/core/state_manager.py`, `cli/workflow/`) | `workflows.json`, a lock file; definitions and runtimes in AWS | `create`, `update`, `delete [--cleanup]`, `deploy`, quick deploy | processes that read, call AWS, read, write; dying inside the lock; file and cloud apart |
| Deployment (`cli/workflow/services/`, `cli/workflow/utils/`, `cli/core/clients/`) | build directories, images, roles, a CodeBuild project per region, runtimes | role, image, runtime, record; `run` | a dozen calls without a transaction, repeated after failures, shared by concurrent commands |
| Browser sessions (`cli/browser/services/session/`, `cli/core/locking.py`, `cli/browser/utils/session.py`) | a metadata file and a lock file and a profile directory per session; Chromes that outlive the commands | get or create, reconnect, use, close, force close, close all, prune, list | probe-then-launch of ports, stale snapshots, lock files removed under their holders, orphaned Chromes |
| Browser commands (`cli/browser/commands/`, `cli/browser/services/browser_actions/`, `intent_resolution/`) | the tabs, the selected tab | one action each, directly or by the model | direct calls that fail half done; indices of tabs that moved |
| Recording, steps, captures (`cli/browser/services/`) | `recording.json`, trajectories, logs | append, summarise, capture, filter | read-append-replace; "the newest file"; answers out of order |
| CLI errors, authentication, qa-plan (`cli/browser/utils/`, `gherkin_compiler.py`) | none | translate, detect, compile | order of handlers and of detection; grouping without losing a step |

How they interact: `NovaAct.act` creates an act at the backend and hands it to
the dispatcher; the dispatcher enters the controller, asks the backend for a
program per step, runs it through the runner on the actuator and the human input
tools, and reads the controller between the two. The client reports the act and,
when it stops, saves the browser's state through its session provider and closes a
managed workflow's run. A browser command of the CLI finds a session's file, builds
a `NovaAct` connected to the Chrome it names, works under the session's lock file and
appends to the session's recording. The workflow commands share one JSON file; a
deployment makes the AWS resources that the file then names.

## 2. The modules

| Module | Models | Composed of |
|---|---|---|
| `ActProgram` | kinds of calls, error mapping, results of a run | - |
| `ActLoop` | dispatcher, controller, watcher thread, the people outside | EXTENDS `ActProgram` |
| `ActContract` | what `act()` promises its caller | refined by `ActLoop` |
| `RunLedger` | the service's books of runs and acts | refined by `ClientSession` |
| `ClientSession` | clients on threads, workflows and their failures | - |
| `AsyncClient` | clients in tasks of one event loop, awaits and cancellations | - |
| `SessionProfiles` | saved browser state: file, S3, AgentCore | - |
| `WorkflowStore` | the workflow commands and their state file | - |
| `Deployment` | what one step of `WorkflowStore` does: role, image, build, runtime; and `run` | - |
| `BrowserSessions` | the browser session layer of the CLI | - |
| `IntentResolution` | which element a target means | - |
| `BrowserActions` | outcomes of the actions on a page | EXTENDS `IntentResolution` |
| `BrowserCommands` | the commands under the session's lock, tabs, steps, recording | EXTENDS `BrowserActions` |
| `ServiceErrors`, `Actuation`, `CliAuth` | pure algorithms | - |
| `QaPlan`, `NetworkCapture` | pure algorithms | EXTEND `Picking` |
| `Picking` | what a condition keeps of a list | - |
| `CliAlgorithms` | applies those to one input each | EXTENDS the five |
| `ActLoopProofs`, `ClientSessionProofs`, `AsyncClientProofs`, `SessionProfilesProofs`, `WorkflowStoreProofs`, `DeploymentProofs`, `BrowserSessionsProofs`, `BrowserCommandsProofs` | proofs | EXTEND their module and `TLAPS`; the last one `CliAlgorithms` as well, what the same commands compute |
| `MC...` | constants for TLC | one per component |

Where a component is run by one process as well as by several, or with failures as
well as without, its module has a variable `setting` that is chosen in `Init` and
never changes: one run checks all the settings of its MC module.

### ActProgram and ActLoop

A call is the kind of tool it names; what it may raise and what the runner makes
of it (`ErrorOf`) follow the `except` clauses of `ProgramRunner.run` in their
order. `pc` is the main thread's place in `dispatch()`: `initial` (the first
program), `enter` (inside the controller's `__enter__`, with the thread already
running), `check`, `plan`, `pause`, `cancel`, `compile`, `run`, `exit` and `join`
(inside `__exit__`). The watcher's thread alternates between testing `final_stop`
and polling the keyboard, which is two steps: `select` sees a key (`WatchPoll`), then a
read takes it (`WatchRead`) and blocks if the terminal was flushed in between. `pause`, `resume`, `cancel`, ctrl+x, `breakpoint()`, the
deadline and ctrl+c may come at any moment. `ctxLocked` follows the hooks a
locked context has (non-interactive mode; in interactive mode both calls do
nothing). One program call is one step; reading `control.state` is one step and,
as in the code, stores a keyboard cancel in `_state`.

### ClientSession

One thread per client. `at` is where the thread is; each service call and the
browser's start and stop are steps that succeed or fail. With `Managed` every
client opens and closes a run of its own; otherwise the program's own `with
Workflow` surrounds the clients: they are constructed and used inside it and
their threads are joined before it is left (the README's usage). `Faults` adds
lost reports, a failing `stop()` and `KeyboardInterrupt`. An act is `RUNNING` in the
service's books until it is reported; `lost` marks one whose only report failed.

### WorkflowStore

A process runs one command: first read, AWS, second read, lock, write, unlock.
`mine` is the entry it wants to leave behind, `snap` the file it will write.
Successive reads with nothing between them are one. A quick deploy is its
registration; the deployment that follows it is a later `deploy` of the same name.
`create` with an explicit ARN is the case of a definition that is already there. An ARN on
file is `known` to AWS or was `built` from the name without asking: by a quick deploy
that skips the definition with the bucket (`DefineSkipped`) or whose definition failed.
A runtime is there under its `Sanitized` name, which several workflows may have.

### BrowserSessions

A process runs one command on one session. `pc` follows `get_or_create_session`:
look up, reconnect, or clear the stale session, prune, count, initialize, probe a
port, launch, poll, connect; then the command under the lock, or the close. `close-all`
lists the sessions and takes them one by one (`CloseNext`) through the steps of a
single close, whatever becomes of each. `profile` is the Chrome that last worked in a
session's profile directory, until the directory is removed with the session. A
Chrome is an index into `chromes`; it does not listen if its port is taken
(assumed of Chrome). A lock file that is removed frees the lock for others: they
lock a new file. `Faults` are failing launches, connections and stops and ctrl+c;
`Deaths` are Chromes that die; `Crashes` are killed processes.

### AsyncClient

A task's `at` is the await it is at, or the synchronous stretch in which it holds the
event loop (`session`, `failed`): while one does, no other task moves. `HalfDone` is
what may be true when an await is cancelled: what it awaited happened or not. A
cancellation inside `start()` or `stop()` runs no clean-up, because both only catch
`Exception`; inside an act it passes `Thinker.__exit__`, the report of the act in its
`finally`, and the `with` statement. `blame` is the history that `NothingLeft` excuses
leaks by.

### Deployment

One step per AWS or Docker call of `deploy`, in its order: role, policies, build
directory, `docker build` or upload, push or CodeBuild project, build and poll, runtime
(created, or updated on a conflict), record. Runtimes are known by their `Sanitized`
names: a conflict may be with the runtime of another workflow, which is then updated
(`displaced` remembers whose). The bytes of an image are the set of files
in it, each marked with its project's workflow. A tag is a name and a second. `Breaks`
is a failing call or a killed process; both leave what was done. Builds of the service
run beside the commands. The save of a record is one step here: `WorkflowStore` has it in
full, and has the deployment as one step.

### SessionProfiles

A saved state is the number of the session that saved it, a file that is not written to
its end has `Partial`. File names and files are kept apart: `tmp` and `final` are what
the two names lead to, so a process may go on writing a file that has been renamed. The
provider is an object per process that serves one session after another.

### BrowserActions and BrowserCommands

An action is the set of its outcomes: the effects it had in order, the exception it
left by, its value. `Then` and `Except` compose them as statements and `try` do. A
command is parsed, prepares its session, takes the lock, runs one action, leaves its
traces and ends; each of these is a step, and only the lock orders the processes. Under
them the Chrome dies (`ChromeDies`), the session is closed, pruned or listed
(`CloseSession`), or a command that finds it without an endpoint closes it by force
(`ClearStale`); all but the first remove the lock file, whoever holds it, after which the
next command locks a new one. `robbed` is who was inside then, or came in beside one of
those. Pages and the user open and close tabs, between the commands and by what a
command does on a page (`TabChanges`). The functions `navigate`, `explore` and `search` of the service are called by no
command.

### The algorithms

Each is an operator from its input to its output; what of the input does not matter is
left out (a Gherkin text is whether it has a URL and mentions a login). The properties
are written from the input and the output, never from the algorithm: `LogIsTrue`
finds the entry of a request by looking for the first answer that is its own in the
history, and `PlanKeepsSteps` counts the scenarios a feature asks for.

## 3. Runs

Passing runs. Each property has a mutant in `PROJECT.json`: a change to the code's
definition, as a plausible bug would make it, that breaks the property in this run.

| Run | States | What it shows |
|---|---|---|
| `MCActLoop` | 947 K | at most one program starts after a pause or cancel was requested; no act is canceled by a signal from before it; the loop goes on with an unlocked context only behind a redirect; step limit, completion and timeout agree; refinement of `ActContract`; a cancel ends the act even while paused, and every act ends unless it is paused for ever or its watcher waits for a key that was flushed |
| `MCClient` | 569 K | a browser never outlives its run's being open, and no open run is left behind; an act listed as running is in progress under its client's open run, or its report was lost; refinement of `RunLedger`; managed runs are closed |
| `MCWorkflowStore` | 68 K | one saver; a stale lock freezes the store; serial commands lose no update and keep entries and AWS resources together, but for what shared runtime names and built ARNs excuse |
| `MCBrowserSessions` | 554 K | no Chrome is lost and the limit is kept; endpoint and tab on file are true, a profile holds nothing of an earlier session; only commands on a session terminate its Chrome; every command ends |
| `MCBrowserCommands` | 2.0 M | two commands are inside only if the lock file was removed under one; unless it was, the recording only grows and recorded steps are the command's own; a command that reports success did its work, in order; calls go to the selected tab |
| `MCAsyncClient` | 244 K | nothing is left of a client but what is named; no act is forgotten although tasks are cancelled; log handlers are restored; tasks end |
| `MCDeployment` | 856 K | builds and runtimes have complete roles; a runtime runs an image of a workflow of its name; the record names what runs unless another workflow took the runtime |
| `MCSessionProfiles` | 113 K | the saved file is whole; a session starts from what was saved last; its two loads are of one state; one name is one profile |
| `MCCliAlgorithms` | 105 K | a fault is reported alike by both services' clients; a compiled plan keeps every step in order; what is typed, and into which element; the key is required exactly in key mode; the network log tells what happened |

Runs that find a disagreement with what the repository says (`findings` in
`PROJECT.json` quotes the lines):

| Run | Finding |
|---|---|
| `MCActLoopCtrlX` | `final_stop` is never cleared: from its second act on a client does not listen for ctrl+x |
| `MCClientRestart` | after `stop()`, `start()` fails at the callbacks' assertion |
| `MCStoreLost` | the lock protects the write, not the read it is based on |

Other disagreements the models reproduce, without a run of their own. Where one
limits a property, the property's condition says so.

Core:

- `impl/program/base.py:58`: a guardrail block behind a redirect of the same program
  is swallowed; the repository's README promises `ActStateGuardrailError`.
- `impl/program/runner.py:138`: a human's cancel surfaces as `ActToolError`, not as
  the `ActCanceledError` it is declared to be (`types/act_errors.py:142`).
- `nova_act.py:765`: the run of a failed `start()` is closed as SUCCEEDED
  (`types/workflow.py:338` says FAILED if an exception was raised).
- `nova_act.py:1078`, and the same in `asyncio/nova_act.py`: an act ended by ctrl+c
  or by a cancellation is reported SUCCEEDED; `ActsAccountedFor` is about its being
  reported at all.
- `impl/keyboard_event_watcher.py:78`: leaving the controller may hang. The thread's
  `select` sees a key, `__exit__` restores the terminal and discards it
  (`util/terminal_manager.py:73`), and the thread's `read(1)` (line 101) waits for
  another one while `join()` waits for the thread; line 31 calls it "a non-blocking
  thread". `ActEnds` excuses that join (`StuckInRead`) and nothing else.
- asyncio client: a cancellation inside `start()` or `stop()` cleans nothing up, a
  failed browser installation leaves the driver (`NothingLeft` names both), and
  `Thinker`s of two clients that overlap leave a handler of a finished one
  (`impl/thinker.py:117`; `HandlersRestored` is about clients that do not).
- `impl/backends/sunburst/client.py:365`: 401 and 403 have no rule of their own, so the
  two services' clients name a refused access differently (`FaultsReportedAlike` leaves it out).
- `browser_auth/`: the cache of a provider survives a session whose start or
  `storage_state()` failed, and a failing list or get call of AgentCore ends in a
  second profile of the same name (conditions of `StartsFromLastSave`, `OneProfile`).

Workflow commands and deployment:

- `cli/workflow/workflow_manager.py:395`: a quick deploy with `--skip-s3-creation`
  skips the definition with the bucket and records an ARN built from the name, as one
  does whose definition could not be created; `cli/README.md:463` says
  "auto-created". `RecordsHaveResources` is about ARNs that AWS knew.
- `cli/workflow/utils/docker_builder.py:82`: `--build-dir` without
  `--overwrite-build-dir` always fails, because the caller made the directory.
- `cli/core/clients/agentcore/client.py:123`: runtime names are cut to 48 characters
  and workflow names may have 64, so two workflows with a long common prefix share one;
  `cli/README.md:462` says "one per workflow". `OwnImage`, `RecordIsCurrent` and
  `RecordsHaveResources` say what holds of them nevertheless.

Browser commands:

- `chrome_launcher.py:125`, `manager.py:439` (`cli/browser/services/session/`): two
  sessions created at once may share a Chrome and may exceed the limit.
  `NoBrowserLost` and `OwnBrowser` are checked one command at a time for that reason.
- `closer.py:159`: a plain close terminates the Chrome of a command that holds the
  session lock, and closes, prunes and lists remove the lock file under it
  (`cli/core/locking.py:72`). The next command locks a new file: the two may take one
  another's steps, and the entry of one is lost if it is recorded between the other's
  load and replacement of the manifest (`session_recorder.py:75`, 117). `OneInside`,
  `StepsAreOwn` and `RecordingGrows` name that case.
- `cli/browser/utils/session.py:158`: "e.g., tabs were closed between invocations" is
  about an index out of bounds; one within bounds silently leads to another tab
  (condition of `SelectedTabUsed`).
- `cli/browser/utils/session.py:143`: the endpoint of `--cdp` is put into the options
  and used by nobody.
- `manager.py:545`: the `session close` that `BrowserProcessDead` advises fails with
  the same error.
- `connector.py:278`: a failed reconnection terminates the session's Chrome
  (`manager.py:105` promises that only an explicit close does).
- `connector.py:212`: in AWS mode every command enters a workflow and only a failed
  connection leaves it: each command leaves an open run.
- `cli/browser/utils/session.py:189`: when the first tab is selected nothing is
  patched, and the model works on the tab that was opened last (condition of
  `SelectedTabUsed`).
- `commands/browsing/network_log.py:98` says "Subsequent calls display accumulated
  entries"; the registry of captures is the memory of a process that ends with the command.
- `cli/browser/utils/error_handlers.py`: an exhausted daily quota is reported as
  retryable (188), connection errors of `requests` and boto miss the handler (296),
  and the advice `--nova-arg nova_act_api_key` (149) cannot help, because
  authentication fails before the arguments are used (`auth.py:189`).
- `gherkin_compiler.py:250`: `Background`, `Rule` and the tags of `Examples` are ignored.

### Bounds, and why they are enough

Where an MC module defines `MCSettings`, a run checks each of them; what a setting
leaves out (faults, crashes, a second process) is in another.

- `MCActLoop`: two acts, because what can be stale is left by an earlier act; two
  steps, so that a redirect, the step limit and a second pause occur; programs of
  at most three calls, enough for a failure behind a redirect, and one that leaves the
  browser alone after it. `MaxSteps = 1` in the violation run still has the limit.
- `MCClient`: two clients, two runs, two acts, so that a second one meets what an
  unreported first one left: either both have a run of their own, or
  both share one that is closed and entered again, or one starts twice.
- `MCWorkflowStore`: one process, two names, five commands, which is a create, a
  deployment, an update, a deletion and one that comes after; two processes, one
  name, three commands with failures and crashes: a stale lock needs three; one process,
  two names that are cut to the same, four commands: both deploy, one is cleaned up. The
  setting of `MCStoreLost` has no failures: an update is lost without them.
- `MCBrowserSessions`: one command at a time, three commands of any kind on three sessions
  with a limit of two, and four on two sessions, with failures and deaths; without
  killed processes, because the code saves a PID only after the connection and loses
  the Chrome of a process killed before. Two processes with three commands, on two
  sessions, and on one with crashes: a session that exists meets two commands at once,
  or a prune. Every command starts at most one Chrome.
- `MCBrowserCommands`: every command on its own, with forms of two fields (one fails,
  one does not) and pages of up to two elements (a tie exists); two processes with three
  commands at once, one of which may come after the lock file was removed under the other
  two; one process with two of the commands that move tabs or act, on three tabs (a middle
  one can be closed) that also change by themselves. What a command does matters to
  nobody but through the tabs and the traces, so the second setting has one command.
- `MCAsyncClient`: two tasks, because the event loop interleaves pairs; two acts of
  one step; up to two cancellations, so that one may hit the clean-up of another.
- `MCDeployment`: three commands in a row while a project is edited and calls break
  off (a deployment, one that breaks off, one that mends it); two at once on one
  workflow and on two, locally and with CodeBuild; three in a row on two workflows of
  one runtime name; two policies (one may be missing);
  tags of one second and of the next.
- `MCSessionProfiles`: four sessions of two processes with one killed save for the
  file, without kills for S3; for AgentCore three sessions with faults and four
  without, and one profile deleted by somebody.
- `MCCliAlgorithms`: one algorithm applied to one input: plans of up to three steps
  (a condition, an action and a check), two scenarios with tags beside a background,
  pages of two elements in documents of every kind, histories of six events (two
  requests under one id with their answers, a response whose body fails after it, and
  a clear).

`CHECK_DEADLOCK FALSE` stands where the bounded supply of acts, commands or sessions
runs out, or where a paused act waits for somebody to resume it.

### Fairness

- `ActLoop`: weak fairness of the main thread and of the watcher thread. The
  interpreter schedules both; a service call answers or fails (boto's timeouts; the
  Sunburst client sets none, so there it is an assumption); tools return.
- `ClientSession`: weak fairness of a client's thread inside a call; strong fairness
  of `Stop`: a program leaves its `with` statement in the end.
- `AsyncClient`: weak fairness of a task's step, because the event loop runs every
  task that is ready; strong fairness of `Leave`, as for `Stop`.
- `BrowserSessions`: weak fairness of a process's step: AWS, Chrome and waits for
  locks all have time limits, and a command under a lock ends.
- The other modules state safety only, and no fairness.

No fairness is given to people, crashes, deaths, faults or cancellations.

## 4. Proofs

Every safety property of a passing run, invariant or step property, is a theorem.
A property is seldom inductive; each proof module has inductive invariants, each checked
with TLC on the constants of the component's run before it was proved, a lemma per group
of actions, and the theorems that follow.
They hold for every value of the constants under the named assumptions of the modules,
which TLC evaluates in every run: bounds are natural numbers, a name that stands for
nobody or nothing is none of the others, there is at least one name, session, file or
step where the code has at least one, and the settings are settings. The sets of
processes, clients, names and workflows are arbitrary, infinite ones included; only
`BrowserSessions` needs finitely many sessions, because its Chromes are counted.

`ActLoopProofs`, for all `MaxSteps`, `MaxActs`, `Tty` and `Programs`. The invariant
`IInv` has four parts.

- `TypeOK`: needs that whatever a call raises maps to an error dispatch() may raise
  (`ResultOfType`, `FirstExceptionType`); it is the theorem `TypeCorrect`.
- `HeldInv` gives `HeldStartsAtMostOnce`: once a program was started under a
  pending request, that request is still pending, the main thread is not between
  the second read and the start, and between the reads it is a cancel, which the
  second read catches.
- `SignalInv` gives `NoStaleCancel`: whatever of a cancel the terminal, the trigger
  or `_state` holds inside the controller was asked for during this act, because
  `__enter__` flushes the terminal before the thread runs and resets after.
- `StepInv` gives `CompletesOnce`, and with it the refinement: `steps` and `stepIdx`
  differ by one exactly between a step's answer and its end.

`Invariance` proves them together; `AtMostOneHeldStart`, `CancelsAreOwn`,
`ActsCompleteOnce` follow, and `Implementation` maps every step to a step of
`ActContract` or a stutter. `HooksInv`, beside them, gives `UnlockedOnlyBehindRedirect`
(`HooksComeBack`): an observation is a browser call, so if the hooks are gone after it
a human-in-the-loop tool failed later in the run and ended it; the loop goes on only if
something failed before, and that was a redirect. The proof showed that the property needs
its condition `LastObserved`: the program after an unlocked one may leave the browser
alone, so its results name no redirect; it leaves no observation either, and the next step
is refused.

`ClientSessionProofs`, for any number of clients, runs and acts.
`BrowserNeedsOpenRun` says nothing of the time between the session's creation and
the browser's start, nor of which workflow a run belongs to. The invariant adds both:
a workflow's entered run is open and no other workflow's (`RunsOK`), and a client's
run is the one its workflow has entered from the session on, or, under a shared
workflow, as long as there is a client (`ClientOK`). That is why closing one run never
closes it under somebody else's browser. `NoRunBehind` adds that without faults a
client about to enter has left the run before. For `ActsAccountedFor`, the act in progress
is `RUNNING`, under the client's run, and nobody else's (`ActOK`, `ActsOwn`), and one that
is `RUNNING` is in progress or its report was lost (`NoneForgotten`).
`BrowserUnderOpenRun`, `ActsStayAccounted` and the refinement `KeepsTheLedger` follow;
`BooksAppend` is the fact about sequences the refinement needs.

`AsyncClientProofs`, for any number of clients, acts, steps and cancellations. A task
touches what is its own, the books and the logger, so the invariant is one about each
task (`TaskOK`) and one about the logger. `Resources` says at every await what may be
there of driver, browser, Chrome and run and what `blame` must say of it, so that a
cancellation or a failure at any await ends in what `NothingLeft` excuses. For
`ActsAccountedFor`, whose proof is the longest here, `Acc` says that from
`Workflow.__enter__` until its task is over or has failed to start a client has an open
run that no other client has (`RunsOwn`), and that an act not reported is one its client's
task is in (`NoneForgotten`): every way out of an act, a cancellation at any of its awaits
included, goes through its report, and every way to the closing of the run leads out of
the act. `HandlersOK`: without an overlap the logger has the handlers
of the one client whose program runs, who saved Root's.

`SessionProfilesProofs`, for any number of processes, sessions, crashes and failures.
`RestoresOneState`: between the two loads the cache is what the cookies came from, and
nothing but the provider itself writes it. `SavedStateIntact`: as long as no two save
at once, the file of the one that saves has the temporary name, is not the one with the
final name, and is whole before the rename. `StartInv` gives `StartsFromLastSave`: what
was saved last is what the name, the object or the one profile leads to (`LastOK`), and a
provider between sessions whose last session came to save has nothing in its cache. `OneInv`
gives `OneProfile`: one process at a time looks, and one that is about to create has
found none that is usable.

`WorkflowStoreProofs`. For any set of processes `OneSaver` is inductive together with the
type of `pc` (`MutualExclusion`), and with it `StaleLockFreezes`. For one command at a
time, without failures and crashes (`SoloInv`): what a command has read is the file, but for
its own entry; what it is about to save has its resources (`Prepared`); and an entry
without them is that of a cleanup that has not saved yet. Of a runtime that holds only
where its name is `Unshared`, of a definition only where the ARN is `known`. `SavesStay` (`NoLostUpdate`) and
`FileAgreesWithCloud` (`RecordsHaveResources`) follow.

`DeploymentProofs`, for any number of workflows, files, commands and policies.

- `RolesReady`: a role only improves (`Keeps`); the invariant follows each command: its
  role exists and is trusted before policies are attached, has them all from the step
  `prepare` on, and the CodeBuild project has a ready role before any build of it starts.
- `RecordIsCurrent` (`RecordInv`): of a workflow never deployed twice at once one command
  at most is at it; when that one is to save, the runtime runs its image; otherwise the
  runtime runs the image on file, or the last deployment broke off. Both hold until a
  workflow of the same runtime name takes the runtime (`displaced`).
- `OwnImage` (`ImageInv`): on its way an image keeps to files of its workflow, in the
  directory, the archive or local image, the build and the registry; a tag names its
  workflow; a build that succeeded was pushed; and what `--build-dir` holds only grows, so
  that what it once gave an image stays excused.

`BrowserSessionsProofs`, in two parts.

- For any number of processes, whatever is killed (`IInv`): the PID on file, and the one a
  process remembers, is a Chrome of that session, and a session thought stopped has
  none that runs; so pruning a session read as stopped ends nothing (`CommandsEndOwn`).
  The proof needs that a lock is held only by a command that works with its session, or
  closes it (`LocksHeld`).
- For one command at a time without crashes (`SoloInv`): file and memory agree but for a
  Chrome not yet on file (`OnFile`, `InMemory`); each label has what the steps before
  it established of the own session (`Phase`), of the others, pruned or counted
  (`Others`), and of limit and port (`Room`: the port is free at the launch, and nobody but
  the new Chrome listens on it while it is polled); and every Chrome that runs is on file
  or about to be (`Named`). `SessionsAreOwn`, `ChromesAccountedFor`.

`BrowserCommandsProofs`, for any number of processes, tabs and commands and any form or
page, and a session that is closed under them at any moment: a command in its block that
is not `robbed` holds the lock and is alone in the session (`LockOK`, which gives
`OneInside`); so what its recorder loaded is what the file still is, and the
replacement only appends (`RecordingGrows`), and the newest trajectory is its own once it
has written one (`StepsAreOwn`). `TabInv` gives `SelectedTabUsed`: a tab that is selected
is the open one at the active index; a tab the page or the user closes at or before it
ends the selection, and one closed after it moves nothing.

`SuccessMeansDone` (`WorkIsDone`) looks into the outcomes of the actions. Each action is
composed of statements (`Then`, `Except`, `Act`), and a lemma per form of composition
says what its outcomes did and about what. The direct fill of a form is a recursive
function over its fields, `FastFill`: the proof first shows that such a function exists
for any number of fields, then that every field is filled or among those that failed,
which are handed to the model together with the submission. Both are inductions on a
number, done without the library's induction theorems: the set of counterexamples has a
least number (`LeastNumber`, from the well-foundedness of `<`), and the step contradicts
it. The model writes a form's submission as the effect "submit", so no field may have that
name (`BrowserActionsAssumption`).

The algorithms, for every input that the assumptions of `CliAlgorithms` describe; there
is no invariant to find, only what a function computes. The same induction replaces the
loops of the code.

- `KeyInKeyMode` and `RedirectsLeadThere` (pages of any size, whose ids are unique in the
  main document) are proved by cases.
- `FaultsAlike`: the hierarchy of exceptions has no cycle (seven steps down from its
  root reach every class), so that `Ancestors` is what its definition says; no class of a
  handler extends another's that comes before; an answer without a rule is sorted by status.
- `LogShowsWhatHappened`: `LogInv` relates, after every event, the book of entries, the
  index of unanswered requests and the deque to the history. It holds because an `id()`
  leads to the last request that had it, which is why `HistoriesAssumption` asks that no
  later request took the id of one that is still to be answered: Python reuses an id only
  after the object is gone. What filters and limits show is then a fact about places in
  sets of numbers (`Picked`).
- `PlansKeepSteps`: `GroupsOK` says after each step that the groups are consecutive,
  of one keyword, complete so far, and that what navigates is alone; `PlansOK` says after
  each child that both plans have what is asked for so far.

The proofs changed the models in two ways. Several `CASE` expressions had arms that
overlap, of which TLC takes the first and TLA+ leaves open which; they are `IF`s or disjoint
arms now. And what was written with `SelectSeq`, `FoldLeft` or `FlattenSeq`, whose
argument is an operator, became a recursive function or a set of indices, because no
prover can expand them.

Only model-checked: liveness (`CancelEndsAct`, `ActEnds`, `RunsClose`, `TasksEnd`,
`CommandsEnd`), because fairness and ENABLED are outside the prover.

## 5. Not modelled, and why

- Time: deadlines pass, no clock. Overrunning a deadline inside a step, and the
  accounting of time worked and human wait time, are not seen.
- Lost replies of `create_*` (orphans at the service, boto's retries).
- ctrl+c inside the controller's own `__enter__` and `__exit__`.
- What pages, DOM utilities, log writing, run viewers, uploads and formatting do.
- PID reuse; the content of a copied default profile and directories the user names
  (the CLI never removes those); `--ttl` and `--dry-run` of prune; a lock file being
  unlinked between a waiter's open and its lock.
- `SIGTERM` is a crash.
- `NOVA_ACT_DISABLE_SESSION_LOCK=1` (`cli/core/locking.py:105`): commands lock.
- Limits of AWS on what the CLI names: a role's name has at most 64 characters, so that
  `nova-act-{workflow}-role` of a workflow name of more than 50 is refused, and its
  deployment with it, unless a role is given.
- A shared workflow used by clients outside its `with`; a client constructed under
  one workflow run and started under another.
- `navigate`, `explore` and `search` of the browser actions, which no command calls.
- `scripts/generate_sync.py`, the setup and doctor commands, telemetry and samples:
  tools around the system, with no state that the system's own depends on.

## 6. Plan

What is left, in order:

1. Accounting: `TimeWorked` (human wait time tracker, `_calculate_time_worked`, the
   client's totals) as a module beside `ActLoop`, with bounds as properties.
2. `BrowserSessions`: an abstract `SessionDirectory` that serial use refines.
3. Properties for the disagreements of section 3 that have no run, in place of
   runs that later modules make redundant.
4. Proofs: `SessionDirectory` as a refinement of `BrowserSessions` under serial use;
   what is atomic about a save of `SessionProfiles` as an abstract store.
