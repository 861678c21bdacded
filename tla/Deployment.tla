----------------------------- MODULE Deployment -----------------------------
(***************************************************************************)
(* `act workflow deploy` and `act workflow run`: what WorkflowStore takes  *)
(* as one step, the calls that make a workflow's role, image and runtime,  *)
(* by commands that run at once and break off anywhere.  The save of a     *)
(* record is one step here.                                                *)
(*                                                                         *)
(* Code: cli/workflow/workflow_deployer.py, services/agentcore/, utils/,   *)
(* commands/deploy.py and run.py, cli/core/clients/.                       *)
(***************************************************************************)
EXTENDS Naturals, Sequences

CONSTANTS
    Procs,       \* the processes that run commands
    Workflows,   \* the workflows of one account and region, all on file
    Files,       \* the files a project may have
    Policies,    \* the number of an execution role's inline policies
    Custom,      \* the directory of --build-dir
    Given,       \* the role of --execution-role-arn
    Sanitized,   \* the runtime name of every workflow, see SharesRuntime
    None,
    Settings

\* procs, names: the processes and workflows there are; remote: --remote-build;
\* commands, edits, seconds: bounds on commands, on edits of projects and on the
\* clock; faults: calls may fail and processes be killed.
Setting == [procs : SUBSET Procs, remote : BOOLEAN, names : SUBSET Workflows, commands : Nat, edits : Nat,
            seconds : Nat, faults : BOOLEAN]

ASSUME DeploymentAssumption ==
    /\ \A s \in Settings : s \in Setting
    /\ Policies \in Nat \ {0}
    /\ DOMAIN Sanitized = Workflows
    /\ Files # {} /\ None \notin Workflows \cup {Given} /\ Given \notin Workflows /\ Custom \notin Workflows
    /\ \A fs \in SUBSET (Workflows \X Files) : fs # None
    /\ None \notin [image : Workflows \X Nat, role : Workflows \cup {Given}]

VARIABLES
    setting,     \* chosen once
    commands, edits, now,
    source,      \* the files of every project
    dirs,        \* the build directories: the files in them, or None
    staged,      \* per image tag: the files of the local image, or of the archive in S3
    ecr,         \* per image tag: the files of the pushed image, or None
    roles,       \* the role of every workflow: there, trusted, with its policies
    project,     \* the service role of the region's one CodeBuild project, or None
    builds,      \* the builds started: tag, files, role, status
    runtimes,    \* the runtime of every runtime name: image and role, or None
    record,      \* the image of a workflow's deployment on file, or None
    cmd,         \* what the processes are at
    overlapped,  \* history: workflows of which two deployments were in work at once ...
    behind,      \* ... or whose last one broke off after it changed the runtime ...
    displaced,   \* ... or whose runtime another workflow of its name has taken
    ran          \* history: the workflows named and the files run by `run`

bounds == <<commands, edits, now>>
images == <<staged, ecr>>
aws == <<roles, project, builds, runtimes>>
history == <<overlapped, behind, displaced, ran>>
vars == <<setting, bounds, source, dirs, images, aws, record, cmd, history>>

Remote == setting.remote
Faults == setting.faults
Tags == Workflows \X (0 .. setting.seconds)
RuntimeNames == {Sanitized[w] : w \in Workflows}

\* _sanitize_name(): a runtime's name is the workflow's, cut to 48 characters; names
\* of up to 64 are valid, and those that agree so far share one runtime.
SharesRuntime(w) == {v \in Workflows : Sanitized[v] = Sanitized[w]}

NoRole == [there |-> FALSE, trust |-> FALSE, policies |-> 0]

\* dir, role: the build directory and the role to use; over: it may be there;
\* tag, image: the tags of the local image and of the pushed one; build: its number.
Command(at, w, dir, over, role) ==
    [at |-> at, w |-> w, dir |-> dir, over |-> over, role |-> role,
     tag |-> None, image |-> None, build |-> 0]
Idle == Command("idle", None, None, FALSE, None)

\* Roles may be left by earlier versions, with another trust policy and only some
\* of the policies.
Init ==
    /\ setting \in Settings
    /\ commands = 0 /\ edits = 0 /\ now = 0
    /\ source = [w \in Workflows |-> {CHOOSE f \in Files : TRUE}]
    /\ dirs = [d \in Workflows \cup {Custom} |-> None]
    /\ staged = [t \in Tags |-> {}] /\ ecr = [t \in Tags |-> None]
    /\ \E r \in {NoRole, [there |-> TRUE, trust |-> FALSE, policies |-> 1]} :
           roles = [w \in Workflows |-> IF w \in setting.names THEN r ELSE NoRole]
    /\ project = None /\ builds = <<>>
    /\ runtimes = [n \in RuntimeNames |-> None] /\ record = [w \in Workflows |-> None]
    /\ cmd = [p \in Procs |-> Idle]
    /\ overlapped = {} /\ behind = {} /\ displaced = {} /\ ran = {}

Deploying(w) == {p \in Procs : cmd[p].w = w /\ cmd[p].at \notin {"idle", "invoke"}}
At(p, label) == cmd[p].at = label
Goes(p, label) == cmd' = [cmd EXCEPT ![p].at = label]
Ends(p) == cmd' = [cmd EXCEPT ![p] = Idle]
-----------------------------------------------------------------------------
(* The world around the commands.                                          *)

\* Somebody works on a project.
Edit(w) ==
    /\ edits < setting.edits /\ edits' = edits + 1
    /\ \E fs \in (SUBSET Files) \ {{}, source[w]} : source' = [source EXCEPT ![w] = fs]
    /\ UNCHANGED <<setting, commands, now, dirs, images, aws, record, cmd, history>>

Tick ==
    /\ now < setting.seconds /\ now' = now + 1
    /\ UNCHANGED <<setting, commands, edits, source, dirs, images, aws, record, cmd, history>>

\* A build ends, whether or not somebody still waits for it.
BuildEnds(b) ==
    /\ builds[b].status = "IN_PROGRESS"
    /\ \/ /\ builds' = [builds EXCEPT ![b].status = "SUCCEEDED"]
          /\ ecr' = [ecr EXCEPT ![builds[b].tag] = builds[b].files]
       \/ Faults /\ builds' = [builds EXCEPT ![b].status = "FAILED"] /\ UNCHANGED ecr
    /\ UNCHANGED <<setting, bounds, source, dirs, staged, roles, project, runtimes, record,
                   cmd, history>>

\* A call fails, or the process is killed: the command does nothing more.
Breaks(p) ==
    /\ Faults /\ cmd[p].at # "idle"
    /\ behind' = IF At(p, "record") THEN behind \cup {cmd[p].w} ELSE behind
    /\ Ends(p)
    /\ UNCHANGED <<setting, bounds, source, dirs, images, aws, record, overlapped, displaced,
                   ran>>
-----------------------------------------------------------------------------
(* deploy: the role.                                                       *)

\* The workflow is on file, its entry point valid, a given role exists.
Deploy(p) ==
    /\ p \in setting.procs /\ At(p, "idle") /\ commands < setting.commands /\ commands' = commands + 1
    /\ \E w \in setting.names, dir \in {None, Custom}, over \in BOOLEAN, role \in {None, Given} :
        /\ dir = None => over  \* the state directory is always overwritten
        /\ cmd' = [cmd EXCEPT ![p] =
               Command(IF role = None THEN "role" ELSE "prepare", w,
                       IF dir = None THEN w ELSE dir, over, IF role = None THEN w ELSE role)]
        /\ overlapped' = IF Deploying(w) = {} THEN overlapped ELSE overlapped \cup {w}
    /\ UNCHANGED <<setting, edits, now, source, dirs, images, aws, record, behind, displaced,
                   ran>>

\* Mutant: an existing role is taken as it is.
EnsureRole_AsIs(p) ==
    /\ At(p, "role")
    /\ LET w == cmd[p].w
       IN  IF roles[w].there
           THEN Goes(p, "prepare") /\ UNCHANGED roles
           ELSE /\ roles' = [roles EXCEPT ![w] = [there |-> TRUE, trust |-> TRUE, policies |-> 0]]
                /\ Goes(p, "policies")
    /\ UNCHANGED <<setting, bounds, source, dirs, images, project, builds, runtimes, record,
                   history>>

\* create_default_execution_role(): the role is created with its trust policy;
\* if there is one, its trust policy is put right.
EnsureRole(p) ==
    /\ At(p, "role")
    /\ roles' = [roles EXCEPT ![cmd[p].w] =
           IF @.there THEN [@ EXCEPT !.trust = TRUE]
           ELSE [there |-> TRUE, trust |-> TRUE, policies |-> 0]]
    /\ Goes(p, "policies")
    /\ UNCHANGED <<setting, bounds, source, dirs, images, project, builds, runtimes, record,
                   history>>

\* _attach_inline_policies(): one call each; commands on one workflow attach the
\* same.
AttachPolicy(p) ==
    /\ At(p, "policies")
    /\ IF roles[cmd[p].w].policies = Policies
       THEN Goes(p, "prepare") /\ UNCHANGED roles
       ELSE roles' = [roles EXCEPT ![cmd[p].w].policies = @ + 1] /\ UNCHANGED cmd
    /\ UNCHANGED <<setting, bounds, source, dirs, images, project, builds, runtimes, record,
                   history>>
-----------------------------------------------------------------------------
(* deploy: the image.                                                      *)

FilesOf(w) == {w} \X source[w]

\* _generate_image_tag(), generate_unique_tag(): the workflow's name and the second.
Stamp(p) == <<cmd[p].w, now>>

\* The processed templates are put in a directory of the build directory, which
\* makes it: --build-dir without --overwrite-build-dir finds that it exists.
\* Whatever was in the directory stays there.
Prepare(p) ==
    /\ At(p, "prepare")
    /\ LET c == cmd[p]
           was == IF dirs[c.dir] = None THEN {} ELSE dirs[c.dir]
       IN  IF c.over
           THEN /\ dirs' = [dirs EXCEPT ![c.dir] = was \cup FilesOf(c.w)]
                /\ cmd' = [cmd EXCEPT ![p] = [@ EXCEPT !.at = "stage", !.tag = Stamp(p)]]
           ELSE dirs' = [dirs EXCEPT ![c.dir] = was] /\ Ends(p)
    /\ UNCHANGED <<setting, bounds, source, images, aws, record, history>>

\* docker build; or the directory's archive goes to S3 once the image's tag is known.
Stage(p) ==
    /\ At(p, "stage")
    /\ staged' = [staged EXCEPT ![cmd[p].tag] = dirs[cmd[p].dir]]
    /\ cmd' = [cmd EXCEPT ![p] = [@ EXCEPT !.at = IF Remote THEN "project" ELSE "push",
                                           !.image = IF Remote THEN Stamp(p) ELSE None]]
    /\ UNCHANGED <<setting, bounds, source, dirs, ecr, aws, record, history>>

\* docker tag and push: what has the tag by now.
Push(p) ==
    /\ At(p, "push")
    /\ ecr' = [ecr EXCEPT ![Stamp(p)] = staged[cmd[p].tag]]
    /\ cmd' = [cmd EXCEPT ![p] = [@ EXCEPT !.at = "create", !.image = Stamp(p)]]
    /\ UNCHANGED <<setting, bounds, source, dirs, staged, aws, record, history>>

\* _ensure_codebuild_project(): the project takes this deployment's role.
EnsureProject(p) ==
    /\ At(p, "project")
    /\ project' = cmd[p].role
    /\ Goes(p, "start")
    /\ UNCHANGED <<setting, bounds, source, dirs, images, roles, builds, runtimes, record, history>>

\* The build runs with the project's role, whoever's that is by now.
StartBuild(p) ==
    /\ At(p, "start")
    /\ builds' = Append(builds, [tag |-> cmd[p].image, files |-> staged[cmd[p].tag],
                                 role |-> project, status |-> "IN_PROGRESS"])
    /\ cmd' = [cmd EXCEPT ![p] = [@ EXCEPT !.at = "poll", !.build = Len(builds')]]
    /\ UNCHANGED <<setting, bounds, source, dirs, images, roles, project, runtimes, record, history>>

\* Mutant: giving up is taken as success.
Poll_Optimistic(p) ==
    /\ At(p, "poll")
    /\ LET status == builds[cmd[p].build].status
       IN  IF status = "FAILED" THEN Ends(p) ELSE Goes(p, "create")
    /\ UNCHANGED <<setting, bounds, source, dirs, images, aws, record, history>>

\* poll_build(): its end, or the time is up, which leaves the build going.
Poll(p) ==
    /\ At(p, "poll")
    /\ LET status == builds[cmd[p].build].status
       IN  \/ status = "SUCCEEDED" /\ Goes(p, "create")
           \/ status = "FAILED" /\ Ends(p)
           \/ status = "IN_PROGRESS" /\ Faults /\ Ends(p)
    /\ UNCHANGED <<setting, bounds, source, dirs, images, aws, record, history>>
-----------------------------------------------------------------------------
(* deploy: the runtime and the record.                                     *)

\* The runtime of its name runs the deployment's image with its role.
Takes(p) ==
    LET w == cmd[p].w
    IN  /\ runtimes' = [runtimes EXCEPT ![Sanitized[w]] =
                            [image |-> cmd[p].image, role |-> cmd[p].role]]
        /\ displaced' = (displaced \cup SharesRuntime(w)) \ {w}

\* create_agent_runtime(): a conflict means that there is one to update, this
\* workflow's or another's.
CreateRuntime(p) ==
    /\ At(p, "create")
    /\ IF runtimes[Sanitized[cmd[p].w]] = None
       THEN Takes(p) /\ Goes(p, "record")
       ELSE UNCHANGED <<runtimes, displaced>> /\ Goes(p, "update")
    /\ UNCHANGED <<setting, bounds, source, dirs, images, roles, project, builds, record,
                   overlapped, behind, ran>>

\* Mutant: the runtime that is there is taken as it is.
UpdateRuntime_Not(p) ==
    /\ At(p, "update") /\ Goes(p, "record")
    /\ UNCHANGED <<setting, bounds, source, dirs, images, aws, record, history>>

\* _update_existing_runtime(): found by its name on some page.
UpdateRuntime(p) ==
    /\ At(p, "update") /\ Takes(p) /\ Goes(p, "record")
    /\ UNCHANGED <<setting, bounds, source, dirs, images, roles, project, builds, record,
                   overlapped, behind, ran>>

\* update_deployment_state()
Record(p) ==
    /\ At(p, "record")
    /\ record' = [record EXCEPT ![cmd[p].w] = cmd[p].image]
    /\ behind' = behind \ {cmd[p].w}
    /\ Ends(p)
    /\ UNCHANGED <<setting, bounds, source, dirs, images, aws, overlapped, displaced, ran>>
-----------------------------------------------------------------------------
(* run                                                                     *)

\* The workflow has a deployment on file.
Run(p) ==
    /\ p \in setting.procs /\ At(p, "idle") /\ commands < setting.commands /\ commands' = commands + 1
    /\ \E w \in setting.names :
        record[w] # None /\ cmd' = [cmd EXCEPT ![p] = Command("invoke", w, None, FALSE, None)]
    /\ UNCHANGED <<setting, edits, now, source, dirs, images, aws, record, history>>

\* The runtime runs the image it has by now; the answer may be late.
Invoke(p) ==
    /\ At(p, "invoke")
    /\ LET runtime == runtimes[Sanitized[cmd[p].w]]
       IN  ran' = ran \cup {<<cmd[p].w, ecr[runtime.image]>>}
    /\ Ends(p)
    /\ UNCHANGED <<setting, bounds, source, dirs, images, aws, record, overlapped, behind, displaced>>
-----------------------------------------------------------------------------

Step(p) ==
    \/ EnsureRole(p) \/ AttachPolicy(p) \/ Prepare(p) \/ Stage(p) \/ Push(p)
    \/ EnsureProject(p) \/ StartBuild(p) \/ Poll(p)
    \/ CreateRuntime(p) \/ UpdateRuntime(p) \/ Record(p) \/ Invoke(p)

Next ==
    \/ \E p \in Procs : Deploy(p) \/ Run(p) \/ Step(p) \/ Breaks(p)
    \/ \E w \in setting.names : Edit(w)
    \/ \E b \in DOMAIN builds : BuildEnds(b)
    \/ Tick

Spec == Init /\ [][Next]_vars

-----------------------------------------------------------------------------
(* Properties.                                                             *)

Ready(role) == role = Given \/ (roles[role].trust /\ roles[role].policies = Policies)

\* What runs, a build or a runtime, runs with a role that can be assumed and has
\* all its policies, even after deployments that broke off halfway and with roles
\* of earlier versions, and although deployments share the CodeBuild project.
RolesReady ==
    /\ \A b \in DOMAIN builds : Ready(builds[b].role)
    /\ \A n \in RuntimeNames : runtimes[n] # None => Ready(runtimes[n].role)

\* What a runtime runs, and what `run` ran, is an image that was pushed, of a
\* workflow of the runtime's name, so of the workflow itself where no other has it:
\* with files of others only from a directory given by --build-dir.
OwnImage ==
    LET Own(w, files) ==
            files # None /\ files \subseteq {w} \X Files
                                \cup (IF dirs[Custom] = None THEN {} ELSE dirs[Custom])
    IN  /\ \A w \in Workflows : LET runtime == runtimes[Sanitized[w]] IN
              runtime # None => /\ runtime.image[1] \in SharesRuntime(w)
                                /\ Own(runtime.image[1], ecr[runtime.image])
        /\ \A r \in ran : \E w \in SharesRuntime(r[1]) : Own(w, r[2])

\* Between deployments the record on file names the image the runtime runs: only
\* two deployments at once, one that broke off before its save, or one of another
\* workflow whose name is cut to the same can part them, and the workflow's next
\* deployment mends the last two.
RecordIsCurrent ==
    \A w \in Workflows :
        Deploying(w) = {} /\ w \notin overlapped \cup behind \cup displaced =>
            LET runtime == runtimes[Sanitized[w]]
            IN  record[w] = IF runtime = None THEN None ELSE runtime.image

=============================================================================
