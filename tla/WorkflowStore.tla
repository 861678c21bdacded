--------------------------- MODULE WorkflowStore ----------------------------
(***************************************************************************)
(* The workflow commands of the CLI and the state file they share.  Every  *)
(* command is a process of its own: it reads the whole file, talks to AWS, *)
(* reads again, changes one entry and saves the whole under a lock file.   *)
(*                                                                         *)
(* Code: cli/core/state_manager.py, cli/workflow/workflow_manager.py,      *)
(* cli/workflow/workflow_deployer.py, cli/workflow/commands/.              *)
(***************************************************************************)
EXTENDS Naturals

CONSTANTS
    Procs,        \* the processes that run commands
    Names,        \* workflow names of one account and region
    Sanitized,    \* the runtime name of every workflow, see Unshared
    Settings      \* who runs commands on what, and what may go wrong

\* procs, names: which processes run commands on which workflows; commands: a
\* bound on them; faults: AWS calls and writes may fail; crashes: processes
\* may be killed.
Setting == [procs : SUBSET Procs, names : SUBSET Names, commands : Nat,
            faults : BOOLEAN, crashes : BOOLEAN]

ASSUME WorkflowStoreAssumption ==
    Names # {} /\ DOMAIN Sanitized = Names /\ \A s \in Settings : s \in Setting

VARIABLES
    setting,    \* chosen once
    file,       \* workflows.json: an entry for every name
    lockFile,   \* the lock file exists
    defs,       \* the names with a WorkflowDefinition in AWS
    runtimes,   \* the runtime names with an AgentCore runtime
    deploys,    \* image tags given out
    commands,   \* commands started
    pc,         \* where a process is
    op,         \* the command it runs ...
    name,       \* ... and its --name
    mine,       \* the entry it read first, then the one it wants to leave behind
    snap,       \* the file as it will write it
    orphaned,   \* history: a process died holding the lock
    last        \* history: what the last command saved on a name left there

awsVars == <<defs, runtimes, deploys>>
procVars == <<op, name, mine, snap>>
vars == <<setting, file, lockFile, awsVars, commands, pc, procVars, orphaned, last>>

Faults == setting.faults
Crashes == setting.crashes
MaxCommands == setting.commands

Ops == {"create", "update", "delete", "cleanup", "deploy", "quick"}

\* WorkflowInfo: its definition ARN, and the image its deployment runs.  An ARN
\* that is there is one AWS knew, or one put together from the name without asking.
Arns == {"none", "known", "built"}
NoEntry == [there |-> FALSE, arn |-> "none", image |-> 0]
Fresh(arn) == [there |-> TRUE, arn |-> arn, image |-> 0]

\* _sanitize_name(): runtimes are named by what is left of a workflow's name, which
\* others may share.
Unshared(n) == \A m \in Names : Sanitized[m] = Sanitized[n] => m = n

Init ==
    /\ setting \in Settings
    /\ file = [n \in Names |-> NoEntry] /\ lockFile = FALSE
    /\ defs = {} /\ runtimes = {} /\ deploys = 0 /\ commands = 0
    /\ pc = [p \in Procs |-> "idle"]
    /\ op = [p \in Procs |-> "create"]
    /\ name = [p \in Procs |-> CHOOSE n \in Names : TRUE]
    /\ mine = [p \in Procs |-> NoEntry]
    /\ snap = [p \in Procs |-> file]
    /\ orphaned = FALSE
    /\ last = file

Goto(p, label) == pc' = [pc EXCEPT ![p] = label]
Ends(p) == Goto(p, "idle")

-----------------------------------------------------------------------------

Begin(p) ==
    /\ p \in setting.procs /\ pc[p] = "idle" /\ commands < MaxCommands
    /\ commands' = commands + 1
    /\ \E o \in Ops, n \in setting.names :
           op' = [op EXCEPT ![p] = o] /\ name' = [name EXCEPT ![p] = n]
    /\ Goto(p, "check")
    /\ UNCHANGED <<file, lockFile, awsVars, mine, snap, orphaned, last>>

\* The first read.  create() of an entry that has its ARN is done; the others
\* need their entry.  A quick deploy registers a name that is not in use; the
\* deployment that follows is a "deploy" of that name.
Check(p) ==
    /\ pc[p] = "check"
    /\ LET e == file[name[p]]
           goesOn == CASE op[p] = "create" -> e.arn = "none"
                       [] op[p] = "quick"  -> ~e.there
                       [] op[p] = "update" -> e.there /\ name[p] \in defs
                       [] OTHER            -> e.there
       IN  /\ mine' = [mine EXCEPT ![p] = e]
           /\ Goto(p, IF ~goesOn THEN "idle"
                      ELSE IF op[p] \in {"update", "delete"} THEN "load" ELSE "aws")
    /\ UNCHANGED <<file, lockFile, awsVars, commands, op, name, snap, orphaned, last>>

\* CreateWorkflowDefinition: a conflict means that the definition is there.  When
\* it fails, a quick deploy puts the ARN together, and an entry that was there stays
\* as it was.  A quick deploy also looks the new definition up, which may fail.
AwsDefine(p) ==
    /\ pc[p] = "aws" /\ op[p] \in {"create", "quick"}
    /\ \E ok, found \in IF Faults THEN BOOLEAN ELSE {TRUE} :
           LET arn == IF ok THEN "known" ELSE IF op[p] = "quick" THEN "built" ELSE "none"
           IN  /\ defs' = IF ok THEN defs \cup {name[p]} ELSE defs
               /\ mine' = [mine EXCEPT ![p] =
                      IF @.there THEN [@ EXCEPT !.arn = arn] ELSE Fresh(arn)]
               /\ IF (mine[p].there /\ ~ok) \/ (op[p] = "quick" /\ ok /\ ~found)
                  THEN Ends(p) ELSE Goto(p, "load")
    /\ UNCHANGED <<file, lockFile, runtimes, deploys, commands, op, name, snap,
                   orphaned, last>>

\* A quick deploy with --skip-s3-creation skips the definition with the bucket.
DefineSkipped(p) ==
    /\ pc[p] = "aws" /\ op[p] = "quick"
    /\ mine' = [mine EXCEPT ![p] = Fresh("built")]
    /\ Goto(p, "load")
    /\ UNCHANGED <<file, lockFile, awsVars, commands, op, name, snap, orphaned, last>>

\* Image and runtime are made, the runtime created or updated.
AwsDeploy(p) ==
    /\ pc[p] = "aws" /\ op[p] = "deploy"
    /\ deploys' = deploys + 1
    /\ runtimes' = runtimes \cup {Sanitized[name[p]]}
    /\ mine' = [mine EXCEPT ![p].image = deploys']
    /\ Goto(p, "load")
    /\ UNCHANGED <<file, lockFile, defs, commands, op, name, snap, orphaned, last>>

AwsDeployFails(p) ==
    /\ pc[p] = "aws" /\ op[p] = "deploy"
    /\ Faults
    /\ Ends(p)
    /\ UNCHANGED <<file, lockFile, awsVars, commands, procVars, orphaned, last>>

\* --cleanup deletes the runtime on file, then the definition; a failure is a warning.
\* Under a shared name it may be gone, and another in its place.
AwsCleanup(p) ==
    /\ pc[p] = "aws" /\ op[p] = "cleanup"
    /\ LET gone == IF mine[p].image # 0 THEN {Sanitized[name[p]]} ELSE {}
           undefined == IF mine[p].arn # "none" THEN {name[p]} ELSE {}
       IN  /\ \E ok \in IF Faults \/ ~Unshared(name[p]) THEN BOOLEAN ELSE {TRUE} :
                  runtimes' = IF ok THEN runtimes \ gone ELSE runtimes
           /\ \E ok \in IF Faults THEN BOOLEAN ELSE {TRUE} :
                  defs' = IF ok THEN defs \ undefined ELSE defs
    /\ Goto(p, "load")
    /\ UNCHANGED <<file, lockFile, deploys, commands, procVars, orphaned, last>>

\* Mutant: --cleanup leaves the entry.
Changed_KeepsRecord(p, e) ==
    CASE op[p] \in {"create", "quick"}    -> mine[p]
      [] op[p] = "update"                 -> [e EXCEPT !.arn = "known"]
      [] op[p] = "deploy"                 -> [e EXCEPT !.image = mine[p].image]
      [] op[p] = "cleanup"                -> e
      [] OTHER                            -> NoEntry

\* The entry a command puts into the file it read: create() its own, update()
\* and deploy change the one they find.
Changed(p, e) ==
    CASE op[p] \in {"create", "quick"}    -> mine[p]
      [] op[p] = "update"                 -> [e EXCEPT !.arn = "known"]
      [] op[p] = "deploy"                 -> [e EXCEPT !.image = mine[p].image]
      [] OTHER                            -> NoEntry

\* Mutant: no second read, the entry is put into a fresh state.
Load_Fresh(p) ==
    /\ pc[p] = "load"
    /\ LET e == file[name[p]]
           saved == op[p] \in {"create", "quick"} \/ e.there
       IN  IF saved
           THEN /\ snap' = [snap EXCEPT ![p] =
                              [[n \in Names |-> NoEntry] EXCEPT ![name[p]] = Changed(p, e)]]
                /\ Goto(p, "lock")
           ELSE Ends(p) /\ UNCHANGED snap
    /\ UNCHANGED <<file, lockFile, awsVars, commands, op, name, mine, orphaned, last>>

\* The second read, and the change.  All but create() fail on a missing entry.
Load(p) ==
    /\ pc[p] = "load"
    /\ LET e == file[name[p]]
           saved == op[p] \in {"create", "quick"} \/ e.there
       IN  IF saved
           THEN /\ snap' = [snap EXCEPT ![p] = [file EXCEPT ![name[p]] = Changed(p, e)]]
                /\ Goto(p, "lock")
           ELSE Ends(p) /\ UNCHANGED snap
    /\ UNCHANGED <<file, lockFile, awsVars, commands, op, name, mine, orphaned, last>>

-----------------------------------------------------------------------------
(* StateLock                                                               *)

\* touch(exist_ok=False)
Lock(p) ==
    /\ pc[p] = "lock" /\ ~lockFile
    /\ lockFile' = TRUE
    /\ Goto(p, "write")
    /\ UNCHANGED <<file, awsVars, commands, procVars, orphaned, last>>

\* Mutant: the lock is broken when its time is up.
LockTimeout_Steals(p) ==
    /\ pc[p] = "lock" /\ lockFile
    /\ Goto(p, "write")
    /\ UNCHANGED <<file, lockFile, awsVars, commands, procVars, orphaned, last>>

\* After 30 s the command fails.
LockTimeout(p) ==
    /\ pc[p] = "lock" /\ lockFile
    /\ Ends(p)
    /\ UNCHANGED <<file, lockFile, awsVars, commands, procVars, orphaned, last>>

\* A temporary file is moved over the state file.
Write(p) ==
    /\ pc[p] = "write"
    /\ \/ /\ file' = snap[p]
          /\ last' = [last EXCEPT ![name[p]] = snap[p][name[p]]]
       \/ Faults /\ UNCHANGED <<file, last>>
    /\ Goto(p, "unlock")
    /\ UNCHANGED <<lockFile, awsVars, commands, procVars, orphaned>>

Unlock(p) ==
    /\ pc[p] = "unlock"
    /\ lockFile' = FALSE
    /\ Ends(p)
    /\ UNCHANGED <<file, awsVars, commands, procVars, orphaned, last>>

\* The process is killed; its lock file stays.
Crash(p) ==
    /\ Crashes /\ pc[p] # "idle"
    /\ orphaned' = (orphaned \/ pc[p] \in {"write", "unlock"})
    /\ Ends(p)
    /\ UNCHANGED <<file, lockFile, awsVars, commands, procVars, last>>

-----------------------------------------------------------------------------

Step(p) ==
    \/ Check(p) \/ AwsDefine(p) \/ DefineSkipped(p) \/ AwsDeploy(p) \/ AwsDeployFails(p)
    \/ AwsCleanup(p) \/ Load(p) \/ Lock(p) \/ LockTimeout(p) \/ Write(p) \/ Unlock(p)

Next ==
    /\ \E p \in Procs : Begin(p) \/ Step(p) \/ Crash(p)
    /\ UNCHANGED setting

Spec == Init /\ [][Next]_vars

-----------------------------------------------------------------------------
(* Properties.                                                             *)

InSave(p) == pc[p] \in {"write", "unlock"}

\* StateLock: at most one process saves, and while one does, or died doing it,
\* the lock file is there.
OneSaver ==
    /\ \A p, q \in Procs : InSave(p) /\ InSave(q) => p = q
    /\ orphaned => \A p \in Procs : ~InSave(p)
    /\ orphaned \/ (\E p \in Procs : InSave(p)) => lockFile

\* A process that dies while it saves ends the life of the store: until somebody
\* removes the lock file by hand no command changes the file again.
StaleLockFreezesStore == [][orphaned => UNCHANGED file]_vars

\* One command at a time, none is killed and AWS is up.
Alone == (\E p \in Procs : setting.procs = {p}) /\ ~Faults /\ ~Crashes

\* With one command at a time: a save changes the entry of its own workflow only,
\* to what its command wants, and what a command saved stays until the next
\* command on that workflow.
NoLostUpdate == Alone => file = last

\* cli/README.md:276, "Concurrent CLI operations are protected with file locks":
\* nor is an update lost with several commands at once.
NoUpdateLostAtOnce == file = last

\* With one command at a time and AWS up, an entry's deployment has its runtime if no
\* other workflow shares the runtime's name, and its ARN a definition unless a quick
\* deploy built it without asking AWS: cleanup, redeployment and recovery keep the file
\* and the cloud together.
RecordsHaveResources ==
    Alone /\ (\A p \in Procs : pc[p] = "idle") =>
        \A n \in Names : /\ file[n].image # 0 /\ Unshared(n) => Sanitized[n] \in runtimes
                         /\ file[n].arn = "known" => n \in defs

=============================================================================
