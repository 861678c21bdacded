-------------------------- MODULE BrowserSessions ---------------------------
(***************************************************************************)
(* The browser sessions of the CLI.  Every command is a process of its own *)
(* that finds a session by its metadata file, connects to the Chrome it    *)
(* names and works with it under the session's lock file; the Chromes      *)
(* outlive the commands.                                                   *)
(*                                                                         *)
(* Code: cli/browser/services/session/, cli/core/locking.py,               *)
(* cli/browser/utils/session.py.                                           *)
(***************************************************************************)
EXTENDS Naturals, Sequences, FiniteSets

CONSTANTS
    Procs,        \* the processes that run commands
    Ids,          \* session ids
    Nobody,       \* no process
    Ports,        \* the CDP ports are 1 .. Ports
    Limit,        \* max_sessions
    Settings      \* who runs what, and what may go wrong, see Setting

Commands == {"use", "create", "close", "force", "closeAll", "forceAll", "prune", "list"}

\* procs, ops, ids: which processes run which commands on which sessions;
\* commands: a bound on them, each of which starts at most one Chrome;
\* faults: launches, connections and stops may fail or be interrupted;
\* deaths: Chromes may die by themselves; crashes: processes may be killed.
Setting == [procs : SUBSET Procs, ops : SUBSET Commands, ids : SUBSET Ids, commands : Nat,
            faults : BOOLEAN, deaths : BOOLEAN, crashes : BOOLEAN]

ASSUME BrowserSessionsAssumption ==
    /\ Nobody \notin Procs
    /\ Ids # {} /\ IsFiniteSet(Ids)
    /\ {Ports, Limit} \subseteq Nat
    /\ \A s \in Settings : s \in Setting

VARIABLES
    setting,    \* chosen once
    record,     \* the metadata file of every session
    lock,       \* who holds the lock on the lock file that is there
    profile,    \* the Chrome whose commands used a session's profile directory last, 0 for none
    chromes,    \* every Chrome started: its session, its port, whether it runs
    commands,   \* commands started
    pc,         \* where a process is
    op, id,     \* its command and --session-id
    mem,        \* its SessionManager._sessions
    doomed,     \* the sessions it is about to prune or to close
    port,       \* the port it probed
    selected    \* history: the tab last selected in a session

procVars == <<op, id, mem, doomed, port>>
vars == <<setting, record, lock, profile, chromes, commands, pc, procVars, selected>>

Faults == setting.faults
Deaths == setting.deaths
Crashes == setting.crashes
MaxCommands == setting.commands

\* SessionInfo: the Chrome it started, the one its endpoint leads to, 0 for
\* none, and active_tab_index.
States == {"none", "starting", "started", "stopping", "stopped", "failed"}
NoInfo == [state |-> "none", pid |-> 0, port |-> 0, endpoint |-> 0, tab |-> 0]

There(info) == info.state # "none"

Init ==
    /\ setting \in Settings
    /\ record = [i \in Ids |-> NoInfo] /\ lock = [i \in Ids |-> Nobody]
    /\ profile = [i \in Ids |-> 0]
    /\ chromes = <<>> /\ commands = 0
    /\ pc = [p \in Procs |-> "idle"]
    /\ op = [p \in Procs |-> "none"] /\ id = [p \in Procs |-> CHOOSE i \in Ids : TRUE]
    /\ mem = [p \in Procs |-> record]
    /\ doomed = [p \in Procs |-> {}] /\ port = [p \in Procs |-> 0]
    /\ selected = [i \in Ids |-> 0]

Alive(k) == k \in DOMAIN chromes /\ chromes[k].runs

\* The Chrome that answers on a port.
Listens(k, n) == Alive(k) /\ chromes[k].port = n
Bound(n) == \E k \in DOMAIN chromes : Listens(k, n)

\* ChromeTerminator
Terminated(k) == [j \in DOMAIN chromes |->
    IF j = k THEN [chromes[j] EXCEPT !.runs = FALSE] ELSE chromes[j]]

\* load_session: the state on file is not believed, the process tells.
Loaded(i) ==
    IF There(record[i])
    THEN [record[i] EXCEPT !.state = IF Alive(record[i].pid) THEN "started" ELSE "stopped"]
    ELSE NoInfo

\* Sessions already in memory are not loaded again.
LoadedAll(p) == [i \in Ids |-> IF There(mem[p][i]) THEN mem[p][i] ELSE Loaded(i)]

\* The session of the command, in memory.
Mine(p) == mem[p][id[p]]
Keeps(p, info) == mem' = [mem EXCEPT ![p][id[p]] = info]
Saves(p, info) == record' = [record EXCEPT ![id[p]] = info]
Writes(p, info) == Keeps(p, info) /\ Saves(p, info)
Goto(p, label) == pc' = [pc EXCEPT ![p] = label]
Ends(p) == Goto(p, "idle")

\* close-all goes on to the next session, whatever became of this one.
All(p) == op[p] \in {"closeAll", "forceAll"}
Returns(p) == Goto(p, IF All(p) THEN "batch" ELSE "idle")

\* _cleanup_user_data_dir: of the directories the CLI made itself.
Cleaned(i, info) == [profile EXCEPT ![i] = IF info.pid # 0 THEN 0 ELSE @]

-----------------------------------------------------------------------------
(* get_or_create_session                                                   *)

Begin(p) ==
    /\ p \in setting.procs /\ pc[p] = "idle" /\ commands < MaxCommands
    /\ commands' = commands + 1
    /\ \E o \in setting.ops, i \in setting.ids : op' = [op EXCEPT ![p] = o] /\ id' = [id EXCEPT ![p] = i]
    /\ mem' = [mem EXCEPT ![p] = [i \in Ids |-> NoInfo]]
    /\ Goto(p, CASE op'[p] = "create" -> "available"
                 [] op'[p] = "force"  -> "clear"
                 [] op'[p] = "prune"  -> "prune"
                 [] op'[p] \in {"list", "closeAll", "forceAll"} -> "list"
                 [] OTHER             -> "get")
    /\ doomed' = [doomed EXCEPT ![p] = {}]
    /\ UNCHANGED <<record, lock, profile, chromes, port, selected>>

\* validate_session_available
Available(p) ==
    /\ pc[p] = "available"
    /\ IF There(record[id[p]]) THEN Ends(p) ELSE Goto(p, "get")
    /\ UNCHANGED <<record, lock, profile, chromes, commands, procVars, selected>>

\* get_session: a session that has no endpoint has no NovaAct either, one whose
\* process is gone is an error.
GetSession(p) ==
    /\ pc[p] = "get"
    /\ LET info == IF There(Mine(p)) THEN Mine(p) ELSE Loaded(id[p])
           closing == op[p] \in {"close", "closeAll"}
       IN  /\ Keeps(p, info)
           /\ IF ~There(info) \/ info.endpoint = 0
              THEN IF closing /\ ~There(info) THEN Returns(p)
                   ELSE Goto(p, IF closing THEN "stop" ELSE "clear")
              ELSE IF Alive(info.pid) THEN Goto(p, "reconnect") ELSE Returns(p)
    /\ UNCHANGED <<record, lock, profile, chromes, commands, op, id, doomed, port, selected>>

\* The session is saved as it was loaded before it was connected.
Reconnect(p) ==
    /\ pc[p] = "reconnect" /\ Alive(Mine(p).endpoint)
    /\ Writes(p, [Mine(p) EXCEPT !.state = "started"])
    /\ Goto(p, CASE op[p] = "use" -> "lock" [] op[p] = "create" -> "idle" [] OTHER -> "stop")
    /\ UNCHANGED <<lock, profile, chromes, commands, op, id, doomed, port, selected>>

\* A session that cannot be connected loses its Chrome.
ConnectFails(p) ==
    /\ pc[p] \in {"reconnect", "connect"}
    /\ Faults \/ ~Alive(Mine(p).endpoint)
    /\ chromes' = Terminated(Mine(p).pid)
    /\ Writes(p, [Mine(p) EXCEPT !.state = "failed"])
    /\ Returns(p)
    /\ UNCHANGED <<lock, profile, commands, op, id, doomed, port, selected>>

-----------------------------------------------------------------------------
(* force_close, as a command and before a session is created afresh.       *)

AfterClear(p) == IF op[p] = "force" \/ All(p) THEN Returns(p) ELSE Goto(p, "prune")

Clear(p) ==
    /\ pc[p] = "clear"
    /\ LET info == LoadedAll(p)[id[p]]
       IN  IF There(info) THEN Keeps(p, info) /\ Goto(p, "tryLock")
                          ELSE AfterClear(p) /\ UNCHANGED mem
    /\ UNCHANGED <<record, lock, profile, chromes, commands, op, id, doomed, port, selected>>

\* Two seconds later it goes on without the lock.
TryLock(p) ==
    /\ pc[p] = "tryLock"
    /\ lock' = [lock EXCEPT ![id[p]] = IF @ = Nobody THEN p ELSE @]
    /\ Goto(p, "kill")
    /\ UNCHANGED <<record, profile, chromes, commands, procVars, selected>>

ForceKill(p) ==
    /\ pc[p] = "kill"
    /\ chromes' = Terminated(Mine(p).pid)
    /\ Goto(p, "clean")
    /\ UNCHANGED <<record, lock, profile, commands, procVars, selected>>

\* Whoever holds the lock holds it on a file that is gone.
ForceClean(p) ==
    /\ pc[p] = "clean"
    /\ lock' = [lock EXCEPT ![id[p]] = Nobody]
    /\ Writes(p, NoInfo)
    /\ profile' = Cleaned(id[p], Mine(p))
    /\ selected' = [selected EXCEPT ![id[p]] = 0]
    /\ AfterClear(p)
    /\ UNCHANGED <<chromes, commands, op, id, doomed, port>>

-----------------------------------------------------------------------------
(* list_sessions, create_session                                           *)

\* list_sessions: lock files that no session goes with are removed.
List(p) ==
    /\ pc[p] = "list"
    /\ mem' = [mem EXCEPT ![p] = LoadedAll(p)]
    /\ lock' = [i \in Ids |-> IF There(mem'[p][i]) THEN lock[i] ELSE Nobody]
    /\ doomed' = [doomed EXCEPT ![p] = IF All(p) THEN {i \in Ids : There(mem'[p][i])} ELSE {}]
    /\ Returns(p)
    /\ UNCHANGED <<record, profile, chromes, commands, op, id, port, selected>>

\* close_sessions_batch: one after the other, as they were listed.
CloseNext(p) ==
    /\ pc[p] = "batch"
    /\ IF doomed[p] = {} THEN Ends(p) /\ UNCHANGED <<id, doomed>>
       ELSE \E i \in doomed[p] :
                /\ doomed' = [doomed EXCEPT ![p] = @ \ {i}]
                /\ id' = [id EXCEPT ![p] = i]
                /\ Goto(p, IF op[p] = "forceAll" THEN "clear" ELSE "get")
    /\ UNCHANGED <<record, lock, profile, chromes, commands, op, mem, port, selected>>

\* prune_sessions: what is not active goes.
Prune(p) ==
    /\ pc[p] = "prune"
    /\ mem' = [mem EXCEPT ![p] = LoadedAll(p)]
    /\ doomed' = [doomed EXCEPT ![p] = {i \in Ids : mem'[p][i].state = "stopped"}]
    /\ Goto(p, "pruning")
    /\ UNCHANGED <<record, lock, profile, chromes, commands, op, id, port, selected>>

\* Mutant: the file is read again to find the process to terminate.
PruneOne_Reread(p) ==
    /\ pc[p] = "pruning"
    /\ \E i \in doomed[p] :
           /\ doomed' = [doomed EXCEPT ![p] = @ \ {i}]
           /\ chromes' = Terminated(record[i].pid)
           /\ record' = [record EXCEPT ![i] = NoInfo]
           /\ mem' = [mem EXCEPT ![p][i] = NoInfo]
           /\ profile' = Cleaned(i, mem[p][i])
           /\ lock' = [lock EXCEPT ![i] = Nobody]
           /\ selected' = [selected EXCEPT ![i] = 0]
    /\ UNCHANGED <<commands, pc, op, id, port>>

PruneOne(p) ==
    /\ pc[p] = "pruning"
    /\ \E i \in doomed[p] :
           /\ doomed' = [doomed EXCEPT ![p] = @ \ {i}]
           /\ chromes' = Terminated(mem[p][i].pid)
           /\ record' = [record EXCEPT ![i] = NoInfo]
           /\ mem' = [mem EXCEPT ![p][i] = NoInfo]
           /\ profile' = Cleaned(i, mem[p][i])
           /\ lock' = [lock EXCEPT ![i] = Nobody]
           /\ selected' = [selected EXCEPT ![i] = 0]
    /\ UNCHANGED <<commands, pc, op, id, port>>

Pruned(p) ==
    /\ pc[p] = "pruning" /\ doomed[p] = {}
    /\ Goto(p, IF op[p] = "prune" THEN "idle" ELSE "count")
    /\ UNCHANGED <<record, lock, profile, chromes, commands, procVars, selected>>

Active(infos) == {i \in Ids : infos[i].state \in {"starting", "started"}}

\* The id is taken, or the limit reached.
Count(p) ==
    /\ pc[p] = "count"
    /\ IF There(Mine(p)) THEN Ends(p) /\ UNCHANGED mem
       ELSE /\ mem' = [mem EXCEPT ![p] = LoadedAll(p)]
            /\ Goto(p, IF Cardinality(Active(mem'[p])) >= Limit THEN "idle" ELSE "init")
    /\ UNCHANGED <<record, lock, profile, chromes, commands, op, id, doomed, port, selected>>

Initialize(p) ==
    /\ pc[p] = "init"
    /\ Writes(p, [NoInfo EXCEPT !.state = "starting"])
    /\ Goto(p, "probe")
    /\ UNCHANGED <<lock, profile, chromes, commands, op, id, doomed, port, selected>>

\* Ports of the sessions in memory, and on file for the others.
UsedPorts(p) ==
    {IF There(mem[p][i]) THEN mem[p][i].port ELSE record[i].port : i \in Ids}

\* Mutant: the sessions' ports are not asked for, nor is the port tried.
Probe_First(p) ==
    /\ pc[p] = "probe"
    /\ port' = [port EXCEPT ![p] = 1]
    /\ Goto(p, "launch")
    /\ UNCHANGED <<record, lock, profile, chromes, commands, op, id, mem, doomed, selected>>

\* find_available_port: the first that no session claims and that can be bound.
Probe(p) ==
    /\ pc[p] = "probe"
    /\ \E n \in 1 .. Ports :
           /\ n \notin UsedPorts(p) /\ ~Bound(n)
           /\ \A m \in 1 .. (n - 1) : m \in UsedPorts(p) \/ Bound(m)
           /\ port' = [port EXCEPT ![p] = n]
    /\ Goto(p, "launch")
    /\ UNCHANGED <<record, lock, profile, chromes, commands, op, id, mem, doomed, selected>>

\* A Chrome whose port is taken runs without it.
Launch(p) ==
    /\ pc[p] = "launch"
    /\ chromes' = Append(chromes, [id |-> id[p], runs |-> TRUE,
                                   port |-> IF Bound(port[p]) THEN 0 ELSE port[p]])
    /\ mem' = [mem EXCEPT ![p][id[p]].pid = Len(chromes')]
    /\ Goto(p, "poll")
    /\ UNCHANGED <<record, lock, profile, commands, op, id, doomed, port, selected>>

\* get_cdp_endpoint: whoever answers on the port.
Poll(p) ==
    /\ pc[p] = "poll"
    /\ \E k \in DOMAIN chromes :
           /\ Listens(k, port[p])
           /\ Keeps(p, [Mine(p) EXCEPT !.endpoint = k, !.port = port[p]])
    /\ Goto(p, "connect")
    /\ UNCHANGED <<record, lock, profile, chromes, commands, op, id, doomed, port, selected>>

\* The profile of the default Chrome cannot be copied, or is in use, or there is
\* no Chrome of that name.
SetupFails(p) ==
    /\ pc[p] = "probe" /\ Faults
    /\ Writes(p, [NoInfo EXCEPT !.state = "failed"])
    /\ Ends(p)
    /\ UNCHANGED <<lock, profile, chromes, commands, op, id, doomed, port, selected>>

\* Mutant: get_cdp_endpoint polls for ever.
LaunchFails_NoTimeout(p) ==
    /\ \/ pc[p] = "probe" /\ \A n \in 1 .. Ports : n \in UsedPorts(p) \/ Bound(n)
       \/ pc[p] = "launch" /\ Faults
    /\ Writes(p, [NoInfo EXCEPT !.state = "failed"])
    /\ Ends(p)
    /\ UNCHANGED <<lock, profile, chromes, commands, op, id, doomed, port, selected>>

\* No port, no Chrome, or no answer: the session is saved without a process.
LaunchFails(p) ==
    /\ \/ pc[p] = "probe" /\ \A n \in 1 .. Ports : n \in UsedPorts(p) \/ Bound(n)
       \/ pc[p] = "launch" /\ Faults
       \/ pc[p] = "poll" /\ (Bound(port[p]) => Faults)
    /\ chromes' = Terminated(Mine(p).pid)
    /\ Writes(p, [NoInfo EXCEPT !.state = "failed"])
    /\ Ends(p)
    /\ UNCHANGED <<lock, profile, commands, op, id, doomed, port, selected>>

Connect(p) ==
    /\ pc[p] = "connect" /\ Alive(Mine(p).endpoint)
    /\ Writes(p, [Mine(p) EXCEPT !.state = "started"])
    /\ Goto(p, IF op[p] = "use" THEN "lock" ELSE "idle")
    /\ UNCHANGED <<lock, profile, chromes, commands, op, id, doomed, port, selected>>

-----------------------------------------------------------------------------
(* The command itself, under the lock.                                     *)

Lock(p) ==
    /\ pc[p] = "lock" /\ lock[id[p]] = Nobody
    /\ lock' = [lock EXCEPT ![id[p]] = p]
    /\ Goto(p, "work")
    /\ UNCHANGED <<record, profile, chromes, commands, procVars, selected>>

LockTimeout(p) ==
    /\ pc[p] = "lock" /\ lock[id[p]] # Nobody
    /\ Ends(p)
    /\ UNCHANGED <<record, lock, profile, chromes, commands, procVars, selected>>

\* The lock a process holds is released, if its file is still there.
Released(p) == [i \in Ids |-> IF lock[i] = p THEN Nobody ELSE lock[i]]

\* The command succeeds or fails; tab-select and the like save the session.
Work(p) ==
    /\ pc[p] = "work"
    /\ \E tab \in {0, 1} :
           \/ /\ Writes(p, [Mine(p) EXCEPT !.tab = tab])
              /\ selected' = [selected EXCEPT ![id[p]] = tab]
           \/ UNCHANGED <<mem, record, selected>>
    /\ LET k == Mine(p).endpoint
       IN  profile' = IF Alive(k) THEN [profile EXCEPT ![chromes[k].id] = k] ELSE profile
    /\ lock' = Released(p)
    /\ Ends(p)
    /\ UNCHANGED <<chromes, commands, op, id, doomed, port>>

-----------------------------------------------------------------------------
(* normal_close                                                            *)

\* nova_act.stop() raises StopFailed: the session stays, its lock file goes.
StopFails(p) ==
    /\ pc[p] = "stop" /\ Faults /\ Mine(p).endpoint # 0
    /\ Writes(p, [Mine(p) EXCEPT !.state = "stopping"])
    /\ lock' = [lock EXCEPT ![id[p]] = Nobody]
    /\ Returns(p)
    /\ UNCHANGED <<profile, chromes, commands, op, id, doomed, port, selected>>

\* Mutant: the Chrome is left running.
Stop_KeepsChrome(p) ==
    /\ pc[p] = "stop"
    /\ Goto(p, "remove")
    /\ UNCHANGED <<record, lock, profile, chromes, commands, procVars, selected>>

Stop(p) ==
    /\ pc[p] = "stop"
    /\ chromes' = Terminated(Mine(p).pid)
    /\ Goto(p, "remove")
    /\ UNCHANGED <<record, lock, profile, commands, procVars, selected>>

\* Saved as stopped, and removed.
Remove(p) ==
    /\ pc[p] = "remove"
    /\ lock' = [lock EXCEPT ![id[p]] = Nobody]
    /\ Writes(p, NoInfo)
    /\ profile' = Cleaned(id[p], Mine(p))
    /\ selected' = [selected EXCEPT ![id[p]] = 0]
    /\ Returns(p)
    /\ UNCHANGED <<chromes, commands, op, id, doomed, port>>

-----------------------------------------------------------------------------

\* ctrl+c: a Chrome being connected is terminated, the lock released.
Interrupt(p) ==
    /\ Faults
    /\ pc[p] \in {"poll", "connect", "reconnect", "lock", "work"}
    /\ IF pc[p] \in {"poll", "connect"} THEN chromes' = Terminated(Mine(p).pid)
                                        ELSE UNCHANGED chromes
    /\ IF pc[p] = "connect"
       THEN Writes(p, [Mine(p) EXCEPT !.state = "failed"])
       ELSE UNCHANGED <<mem, record>>
    /\ lock' = Released(p)
    /\ Ends(p)
    /\ UNCHANGED <<profile, commands, op, id, doomed, port, selected>>

\* The process is killed: the system releases its lock, its Chrome runs on.
Crash(p) ==
    /\ Crashes /\ pc[p] # "idle"
    /\ lock' = Released(p)
    /\ Ends(p)
    /\ UNCHANGED <<record, profile, chromes, commands, procVars, selected>>

ChromeDies ==
    /\ Deaths
    /\ \E k \in DOMAIN chromes : Alive(k) /\ chromes' = Terminated(k)
    /\ UNCHANGED <<record, lock, profile, commands, pc, procVars, selected>>

Step(p) ==
    \/ Available(p) \/ GetSession(p) \/ Reconnect(p) \/ ConnectFails(p)
    \/ Clear(p) \/ TryLock(p) \/ ForceKill(p) \/ ForceClean(p)
    \/ List(p) \/ CloseNext(p) \/ Prune(p) \/ PruneOne(p) \/ Pruned(p) \/ Count(p) \/ Initialize(p)
    \/ Probe(p) \/ Launch(p) \/ Poll(p) \/ SetupFails(p) \/ LaunchFails(p) \/ Connect(p)
    \/ Lock(p) \/ LockTimeout(p) \/ Work(p)
    \/ StopFails(p) \/ Stop(p) \/ Remove(p)

Next ==
    /\ ChromeDies \/ \E p \in Procs : Begin(p) \/ Step(p) \/ Interrupt(p) \/ Crash(p)
    /\ UNCHANGED setting

Spec == Init /\ [][Next]_vars

\* A process runs on, Chrome answers or times out.
FairSpec == Spec /\ \A p \in Procs : WF_vars(Step(p) /\ UNCHANGED setting)

-----------------------------------------------------------------------------
(* Properties                                                              *)

\* One command at a time, and none is killed.
Alone == (\E p \in Procs : setting.procs = {p}) /\ ~Crashes

\* Chromes are accounted for: there are never more than max_sessions allows, and
\* between commands every one that runs is named by a metadata file: failed
\* launches, lost connections and interrupts leak none (create_session's safety net).
NoBrowserLost ==
    Alone =>
        /\ Cardinality({k \in DOMAIN chromes : Alive(k)}) <= Limit
        /\ (\A p \in Procs : pc[p] = "idle") =>
               \A k \in DOMAIN chromes : Alive(k) => \E i \in Ids : record[i].pid = k

\* What is on file of a session is true of it: its endpoint leads to the Chrome
\* the session started (find_available_port and get_cdp_endpoint agree on who
\* owns a port), its tab is the one a command selected, however often the session
\* was reconnected since (tab-select, save_session_metadata), and its profile holds
\* nothing of an earlier session of that name (_cleanup_user_data_dir).
OwnBrowser ==
    Alone => \A i \in Ids :
        /\ record[i].endpoint # 0 => record[i].endpoint = record[i].pid
        /\ There(record[i]) => record[i].tab = selected[i]
        /\ profile[i] \in {0, record[i].pid}

\* A Chrome is only terminated by a command on its own session: what a process
\* read about the other sessions before it pruned them never costs a live one.
OnlyOwnCommandsTerminate ==
    [][\A k \in DOMAIN chromes :
          Alive(k) /\ ~chromes'[k].runs /\ ~ChromeDies
              => \E p \in Procs : /\ pc[p] # "idle" /\ id[p] = chromes[k].id
                                   /\ op[p] \notin {"prune", "list"}]_vars

\* Every command ends, whatever Chrome does and whoever holds the lock.
CommandsEnd == \A p \in Procs : pc[p] # "idle" ~> pc[p] = "idle"
=============================================================================
