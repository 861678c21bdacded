-------------------------- MODULE DeploymentProofs --------------------------
(***************************************************************************)
(* Everything that runs has a role that is ready, an image of its own      *)
(* workflow, and a record on file that names it, for any number of         *)
(* workflows, of commands at once and of policies, and however commands    *)
(* break off.                                                              *)
(***************************************************************************)
EXTENDS Deployment, TLAPS

Content == (SUBSET (Workflows \X Files)) \cup {None}
Role == Workflows \cup {Given}
Labels == {"idle", "role", "policies", "prepare", "stage", "push", "project", "start", "poll",
           "create", "update", "record", "invoke"}
Commands == [at : Labels, w : Workflows \cup {None}, dir : Workflows \cup {Custom, None},
            over : BOOLEAN, role : Role \cup {None}, tag : Tags \cup {None},
            image : Tags \cup {None}, build : Nat]
Build == [tag : Tags, files : Content, role : Role, status : {"IN_PROGRESS", "SUCCEEDED", "FAILED"}]

\* What the steps before have left to the next.
DataOK ==
    /\ setting \in Settings /\ now \in 0 .. setting.seconds
    /\ source \in [Workflows -> SUBSET Files]
    /\ dirs \in [Workflows \cup {Custom} -> Content]
    /\ staged \in [Tags -> Content]
    /\ roles \in [Workflows -> [there : BOOLEAN, trust : BOOLEAN, policies : Nat]]
    /\ project \in Role \cup {None}
    /\ builds \in Seq(Build)
    /\ runtimes \in [RuntimeNames -> [image : Tags, role : Role] \cup {None}]

TypeOK == DataOK /\ cmd \in [Procs -> Commands]

\* The labels a deployment passes with a role that is ready, and with images named.
Later == {"prepare", "stage", "push", "project", "start", "poll", "create", "update", "record"}
Tagged == {"stage", "push", "project", "start"}
Named == {"project", "start", "poll", "create", "update", "record"}

\* The role of a deployment is made before it is used: trusted before the
\* policies, ready from the first step on it; and the project has one before a
\* build of it starts.
ProcOK(p) ==
    LET c == cmd[p]
    IN  /\ c.at # "idle" => c.w \in Workflows
        /\ c.at \notin {"idle", "invoke"} => c.dir \in Workflows \cup {Custom} /\ c.role \in Role
        /\ c.at \in {"role", "policies"} => c.role = c.w
        /\ c.at = "policies" => roles[c.w].trust
        /\ c.at \in Later => Ready(c.role)
        /\ c.at \in Tagged => c.tag \in Tags
        /\ c.at \in Named => c.image \in Tags
        /\ c.at = "start" => project # None

RolesOK ==
    /\ \A w \in Workflows : roles[w].trust => roles[w].there
    /\ project # None => Ready(project)

IInv == TypeOK /\ (\A p \in Procs : ProcOK(p)) /\ RolesOK /\ RolesReady

\* A role that is ready stays ready, and the project keeps some role.
Keeps ==
    /\ \A w \in Workflows : roles[w].trust => roles'[w].trust
    /\ \A r \in Role : Ready(r) => Ready(r)'
    /\ project # None => project' # None
    /\ UNCHANGED setting

\* What a step does to one process does not disturb what holds of the others.
LEMMA OthersOK ==
    ASSUME IInv, Keeps, NEW p \in Procs, NEW q \in Procs, q # p,
           NEW c, cmd' = [cmd EXCEPT ![p] = c]
    PROVE  ProcOK(q)'
<1>1. cmd'[q] = cmd[q]
  BY DEF IInv, TypeOK
<1>2. Tags' = Tags
  BY DEF Keeps, Tags
<1>. DEFINE d == cmd[q]
<1>3. ProcOK(q) /\ d \in Commands
  BY DEF IInv, TypeOK
<1>4. /\ d.at = "policies" => roles'[d.w].trust
      /\ d.at \in Later => Ready(d.role)'
  BY <1>3 DEF ProcOK, Keeps, Later
<1>. QED
  BY <1>1, <1>2, <1>3, <1>4 DEF ProcOK, Keeps

\* A step of one process: what is to be shown of it.
LEMMA OneProcess ==
    ASSUME IInv, DataOK', Keeps, RolesOK', RolesReady', NEW p \in Procs, NEW c \in Commands,
           cmd' = [cmd EXCEPT ![p] = c], ProcOK(p)'
    PROVE  IInv'
<1>1. Commands' = Commands
  BY DEF Commands, Tags, Keeps
<1>2. TypeOK'
  BY <1>1 DEF IInv, TypeOK
<1>3. \A q \in Procs : ProcOK(q)'
  BY OthersOK
<1>. QED
  BY <1>2, <1>3 DEF IInv

\* The same where it leaves what is in AWS alone, but for images.
LEMMA AwsAlone ==
    ASSUME IInv, DataOK', UNCHANGED <<setting, aws>>, NEW p \in Procs, NEW c \in Commands,
           cmd' = [cmd EXCEPT ![p] = c], ProcOK(p)'
    PROVE  IInv'
<1>1. Keeps /\ RolesOK' /\ RolesReady'
  BY DEF IInv, RolesOK, RolesReady, Ready, Keeps, aws
<1>. QED
  BY <1>1, OneProcess

\* A command ends: there is nothing to show of its process.
LEMMA Ending ==
    ASSUME IInv, DataOK', UNCHANGED <<setting, aws>>, NEW p \in Procs, Ends(p)
    PROVE  IInv'
<1>1. Idle \in Commands
  BY DEF Idle, Command, Commands, Labels
<1>2. ProcOK(p)'
  BY DEF ProcOK, Ends, Idle, Command, IInv, TypeOK, Later, Tagged, Named
<1>. QED
  BY <1>1, <1>2, AwsAlone DEF Ends

\* What runs has a role.
LEMMA RolesUsed ==
    ASSUME IInv
    PROVE  /\ \A b \in DOMAIN builds : builds[b].role \in Role
           /\ \A n \in RuntimeNames : runtimes[n] # None => runtimes[n].role \in Role
<1>1. builds \in Seq(Build) /\ runtimes \in [RuntimeNames -> [image : Tags, role : Role] \cup {None}]
  BY DEF IInv, TypeOK, DataOK
<1>2. \A b \in DOMAIN builds : builds[b] \in Build
  BY <1>1
<1>3. \A n \in RuntimeNames : runtimes[n] # None => runtimes[n] \in [image : Tags, role : Role]
  BY <1>1
<1>. QED
  BY <1>2, <1>3 DEF Build

LEMMA NoContent == None \in Content /\ {} \in Content
  BY DEF Content

LEMMA InitOK == Init => IInv
<1>. SUFFICES ASSUME Init PROVE IInv
  OBVIOUS
<1>. USE DEF Init
<1>1. \A s \in Settings : s.seconds \in Nat
  BY DeploymentAssumption DEF Setting
<1>2. DataOK
  <2>1. (CHOOSE f \in Files : TRUE) \in Files
    BY DeploymentAssumption
  <2>2. roles \in [Workflows -> [there : BOOLEAN, trust : BOOLEAN, policies : Nat]]
    <3>1. PICK r \in {NoRole, [there |-> TRUE, trust |-> FALSE, policies |-> 1]} :
              roles = [w \in Workflows |-> IF w \in setting.names THEN r ELSE NoRole]
      OBVIOUS
    <3>2. NoRole \in [there : BOOLEAN, trust : BOOLEAN, policies : Nat]
      BY DEF NoRole
    <3>3. [there |-> TRUE, trust |-> FALSE, policies |-> 1]
              \in [there : BOOLEAN, trust : BOOLEAN, policies : Nat]
      OBVIOUS
    <3>. QED
      BY <3>1, <3>2, <3>3
  <2>3. source \in [Workflows -> SUBSET Files]
    BY <2>1
  <2>4. builds \in Seq(Build)
    OBVIOUS
  <2>5. setting \in Settings /\ now \in 0 .. setting.seconds
    BY <1>1
  <2>6. dirs \in [Workflows \cup {Custom} -> Content]
    BY NoContent
  <2>7. staged \in [Tags -> Content]
    BY NoContent
  <2>8. runtimes \in [RuntimeNames -> [image : Tags, role : Role] \cup {None}]
    OBVIOUS
  <2>9. project \in Role \cup {None}
    OBVIOUS
  <2>. QED
    BY <2>2, <2>3, <2>4, <2>5, <2>6, <2>7, <2>8, <2>9 DEF DataOK
<1>3. cmd \in [Procs -> Commands]
  BY DEF Idle, Command, Commands, Labels
<1>4. \A p \in Procs : ProcOK(p)
  BY DEF ProcOK, Idle, Command, Later, Tagged, Named
<1>5. RolesOK /\ RolesReady
  BY DEF RolesOK, RolesReady, NoRole
<1>. QED
  BY <1>2, <1>3, <1>4, <1>5 DEF IInv, TypeOK

LEMMA DeployOK == ASSUME IInv, NEW p \in Procs, Deploy(p) PROVE IInv'
<1>1. PICK w \in setting.names, dir \in {None, Custom}, over \in BOOLEAN, role \in {None, Given} :
          cmd' = [cmd EXCEPT ![p] =
               Command(IF role = None THEN "role" ELSE "prepare", w,
                       IF dir = None THEN w ELSE dir, over, IF role = None THEN w ELSE role)]
  BY DEF Deploy
<1>. DEFINE c == Command(IF role = None THEN "role" ELSE "prepare", w,
                         IF dir = None THEN w ELSE dir, over, IF role = None THEN w ELSE role)
<1>2. w \in Workflows
  BY DeploymentAssumption DEF IInv, TypeOK, DataOK, Setting
<1>3. c \in Commands
  BY <1>2 DEF Command, Commands, Labels, Role
<1>4. cmd' = [cmd EXCEPT ![p] = c]
  BY <1>1
<1>5. DataOK' /\ UNCHANGED <<setting, aws>>
  BY DEF Deploy, IInv, TypeOK, DataOK, Tags, Build, images, aws, bounds
<1>6. cmd'[p] = c
  BY <1>4 DEF IInv, TypeOK
<1>7. ProcOK(p)'
  BY <1>2, <1>6, DeploymentAssumption DEF Command, ProcOK, Later, Tagged, Named, Role, Ready
<1>. QED
  BY <1>3, <1>4, <1>5, <1>7, AwsAlone

LEMMA RunOK == ASSUME IInv, NEW p \in Procs, Run(p) PROVE IInv'
<1>1. PICK w \in setting.names : cmd' = [cmd EXCEPT ![p] = Command("invoke", w, None, FALSE, None)]
  BY DEF Run
<1>2. w \in Workflows
  BY DeploymentAssumption DEF IInv, TypeOK, DataOK, Setting
<1>. DEFINE c == Command("invoke", w, None, FALSE, None)
<1>3. c \in Commands
  BY <1>2 DEF Command, Commands, Labels
<1>4. cmd'[p] = c
  BY <1>1 DEF IInv, TypeOK
<1>5. ProcOK(p)'
  BY <1>2, <1>4 DEF Command, ProcOK, Later, Tagged, Named
<1>6. DataOK' /\ UNCHANGED <<setting, aws>>
  BY DEF Run, IInv, TypeOK, DataOK, Tags, Build, images, aws
<1>. QED
  BY <1>1, <1>3, <1>5, <1>6, AwsAlone

\* The steps that make the role: it is trusted before its policies are there.
LEMMA RoleOK == ASSUME IInv, NEW p \in Procs, EnsureRole(p) \/ AttachPolicy(p) PROVE IInv'
<1>. DEFINE c == cmd[p]
<1>1. /\ c \in Commands /\ c.at \in {"role", "policies"}
      /\ c.w \in Workflows /\ c.role = c.w /\ c.dir \in Workflows \cup {Custom}
      /\ c.at = "policies" => roles[c.w].trust
  BY DEF IInv, TypeOK, ProcOK, EnsureRole, AttachPolicy, At
<1>2. /\ UNCHANGED <<setting, now, source, dirs, staged, project, builds, runtimes>>
      /\ \E r \in [there : BOOLEAN, trust : BOOLEAN, policies : Nat] :
             /\ roles' = [roles EXCEPT ![c.w] = r]
             /\ r.trust => r.there
             /\ roles[c.w].trust => r.trust
             /\ Ready(c.w) => r.trust /\ r.policies = Policies
             /\ \E label \in {"policies", "prepare"} :
                    /\ cmd' = [cmd EXCEPT ![p].at = label]
                    /\ label = "policies" => r.trust
                    /\ label = "prepare" => r.trust /\ r.policies = Policies
  <2>1. roles[c.w] \in [there : BOOLEAN, trust : BOOLEAN, policies : Nat] /\ c.w # Given
    BY <1>1, DeploymentAssumption DEF IInv, TypeOK, DataOK
  <2>2. CASE EnsureRole(p)
    <3>. DEFINE r == IF roles[c.w].there THEN [roles[c.w] EXCEPT !.trust = TRUE]
                     ELSE [there |-> TRUE, trust |-> TRUE, policies |-> 0]
    <3>1. r \in [there : BOOLEAN, trust : BOOLEAN, policies : Nat] /\ r.trust /\ r.there
      BY <2>1
    <3>2. Ready(c.w) => r.policies = Policies
      BY <2>1, <1>1 DEF Ready, IInv, RolesOK
    <3>3. roles' = [roles EXCEPT ![c.w] = r] /\ cmd' = [cmd EXCEPT ![p].at = "policies"]
      BY <2>2 DEF EnsureRole, Goes
    <3>. QED
      BY <2>2, <3>1, <3>2, <3>3 DEF EnsureRole, bounds, images
  <2>3. CASE AttachPolicy(p)
    <3>0. c.at = "policies" /\ roles[c.w].trust /\ roles[c.w].there
      BY <1>1, <2>3 DEF AttachPolicy, At, IInv, RolesOK
    <3>1. CASE roles[c.w].policies = Policies
      <4>1. roles' = [roles EXCEPT ![c.w] = roles[c.w]]
        BY <2>3, <3>1 DEF AttachPolicy, IInv, TypeOK, DataOK
      <4>. QED
        BY <2>1, <2>3, <3>0, <3>1, <4>1 DEF AttachPolicy, Goes, bounds, images
    <3>2. CASE roles[c.w].policies # Policies
      <4>. DEFINE r == [roles[c.w] EXCEPT !.policies = @ + 1]
      <4>1. roles' = [roles EXCEPT ![c.w] = r]
        BY <2>3, <3>2 DEF AttachPolicy
      <4>2. cmd' = [cmd EXCEPT ![p].at = "policies"]
        <5>1. cmd' = cmd
          BY <2>3, <3>2 DEF AttachPolicy
        <5>. QED
          BY <5>1, <3>0, <1>1 DEF IInv, TypeOK, Commands
      <4>3. ~ Ready(c.w)
        BY <2>1, <3>2 DEF Ready
      <4>4. r \in [there : BOOLEAN, trust : BOOLEAN, policies : Nat] /\ r.trust /\ r.there
        BY <2>1, <3>0
      <4>. QED
        BY <2>3, <4>1, <4>2, <4>3, <4>4 DEF AttachPolicy, bounds, images
    <3>. QED
      BY <3>1, <3>2
  <2>. QED
    BY <2>2, <2>3
<1>3. PICK r \in [there : BOOLEAN, trust : BOOLEAN, policies : Nat],
           label \in {"policies", "prepare"} :
          /\ roles' = [roles EXCEPT ![c.w] = r]
          /\ r.trust => r.there
          /\ roles[c.w].trust => r.trust
          /\ Ready(c.w) => r.trust /\ r.policies = Policies
          /\ cmd' = [cmd EXCEPT ![p].at = label]
          /\ label = "policies" => r.trust
          /\ label = "prepare" => r.trust /\ r.policies = Policies
  BY <1>2
<1>. DEFINE d == [c EXCEPT !.at = label]
<1>4. roles'[c.w] = r /\ \A w \in Workflows : w # c.w => roles'[w] = roles[w]
  BY <1>1, <1>3 DEF IInv, TypeOK, DataOK
<1>5. Keeps
  BY <1>1, <1>2, <1>4 DEF Keeps, Ready, Role
<1>6. DataOK'
  <2>1. roles' \in [Workflows -> [there : BOOLEAN, trust : BOOLEAN, policies : Nat]]
    BY <1>3 DEF IInv, TypeOK, DataOK
  <2>. QED
    BY <1>2, <2>1 DEF IInv, TypeOK, DataOK, Tags, Build
<1>7. RolesOK'
  <2>1. \A w \in Workflows : roles'[w].trust => roles'[w].there
    BY <1>3, <1>4 DEF IInv, RolesOK
  <2>2. project \in Role \cup {None}
    BY DEF IInv, TypeOK, DataOK
  <2>. QED
    BY <1>2, <1>5, <2>1, <2>2 DEF IInv, RolesOK, Keeps
<1>8. RolesReady'
  BY <1>2, <1>5, RolesUsed DEF IInv, RolesReady, Keeps
<1>9. d \in Commands /\ cmd' = [cmd EXCEPT ![p] = d] /\ cmd'[p] = d
  BY <1>1, <1>3 DEF IInv, TypeOK, Commands, Labels
<1>10. ProcOK(p)'
  <2>1. d.at = label /\ d.w = c.w /\ d.dir = c.dir /\ d.role = c.role
    BY <1>1 DEF Commands
  <2>2. c.w \in Role
    BY <1>1 DEF Role
  <2>. QED
    BY <1>1, <1>3, <1>4, <1>9, <2>1, <2>2 DEF ProcOK, Later, Tagged, Named, Ready
<1>. QED
  BY <1>5, <1>6, <1>7, <1>8, <1>9, <1>10, OneProcess

\* The steps that make an image.
LEMMA ImageOK ==
    ASSUME IInv, NEW p \in Procs, Prepare(p) \/ Stage(p) \/ Push(p) PROVE IInv'
<1>. DEFINE c == cmd[p]
<1>1. c \in Commands /\ c.w \in Workflows /\ c.dir \in Workflows \cup {Custom} /\ c.role \in Role
      /\ Ready(c.role) /\ c.at \in {"prepare", "stage", "push"} /\ (c.at # "prepare" => c.tag \in Tags)
  BY DEF IInv, TypeOK, ProcOK, Prepare, Stage, Push, At, Later, Tagged
<1>2. Stamp(p) \in Tags /\ Tags' = Tags
  BY <1>1 DEF Stamp, Tags, Prepare, Stage, Push, IInv, TypeOK, DataOK
<1>3. UNCHANGED <<setting, aws>>
  BY DEF Prepare, Stage, Push
<1>4. DataOK'
  <2>1. CASE Prepare(p)
    <3>1. c.dir \in DOMAIN dirs /\ dirs[c.dir] \in Content /\ FilesOf(c.w) \subseteq Workflows \X Files
      BY <1>1 DEF IInv, TypeOK, DataOK, FilesOf
    <3>2. \E files \in Content : dirs' = [dirs EXCEPT ![c.dir] = files]
      BY <2>1, <3>1 DEF Prepare, Content
    <3>3. dirs' \in [Workflows \cup {Custom} -> Content]
      BY <3>1, <3>2 DEF IInv, TypeOK, DataOK
    <3>. QED
      BY <2>1, <3>3, <1>2 DEF Prepare, IInv, TypeOK, DataOK, bounds, images, aws, Build
  <2>2. CASE Stage(p)
    <3>1. staged' \in [Tags -> Content]
      BY <2>2, <1>1 DEF Stage, IInv, TypeOK, DataOK
    <3>. QED
      BY <2>2, <3>1, <1>2 DEF Stage, IInv, TypeOK, DataOK, bounds, aws, Build
  <2>3. CASE Push(p)
    BY <2>3, <1>2 DEF Push, IInv, TypeOK, DataOK, bounds, aws, Build
  <2>. QED
    BY <2>1, <2>2, <2>3
<1>5. CASE Ends(p)
  BY <1>3, <1>4, <1>5, Ending
<1>6. \A r \in Role : Ready(r) => Ready(r)'
  BY <1>3 DEF Ready, aws
<1>7. CASE Prepare(p) /\ ~ Ends(p)
  <2>. DEFINE d == [c EXCEPT !.at = "stage", !.tag = Stamp(p)]
  <2>1. cmd' = [cmd EXCEPT ![p] = d] /\ cmd'[p] = d
    BY <1>7 DEF Prepare, IInv, TypeOK
  <2>2. /\ d \in Commands /\ d.at = "stage" /\ d.tag = Stamp(p)
        /\ d.w = c.w /\ d.dir = c.dir /\ d.role = c.role
    BY <1>1, <1>2 DEF Commands, Labels
  <2>3. ProcOK(p)'
    BY <1>1, <1>2, <1>6, <2>1, <2>2 DEF ProcOK, Tagged, Named, Later
  <2>. QED
    BY <1>3, <1>4, <2>1, <2>2, <2>3, AwsAlone
<1>8. CASE Stage(p)
  <2>. DEFINE d == [c EXCEPT !.at = IF Remote THEN "project" ELSE "push",
                             !.image = IF Remote THEN Stamp(p) ELSE None]
  <2>1. cmd' = [cmd EXCEPT ![p] = d] /\ cmd'[p] = d
    BY <1>8 DEF Stage, IInv, TypeOK
  <2>2. /\ d \in Commands /\ d.at \in {"project", "push"} /\ (d.at = "project" => d.image = Stamp(p))
        /\ d.w = c.w /\ d.dir = c.dir /\ d.role = c.role /\ d.tag = c.tag /\ c.tag \in Tags
    BY <1>1, <1>2, <1>8 DEF Commands, Labels, Stage, At
  <2>3. ProcOK(p)'
    BY <1>1, <1>2, <1>6, <2>1, <2>2 DEF ProcOK, Tagged, Named, Later
  <2>. QED
    BY <1>3, <1>4, <2>1, <2>2, <2>3, AwsAlone
<1>9. CASE Push(p)
  <2>. DEFINE d == [c EXCEPT !.at = "create", !.image = Stamp(p)]
  <2>1. cmd' = [cmd EXCEPT ![p] = d] /\ cmd'[p] = d
    BY <1>9 DEF Push, IInv, TypeOK
  <2>2. /\ d \in Commands /\ d.at = "create" /\ d.image = Stamp(p)
        /\ d.w = c.w /\ d.dir = c.dir /\ d.role = c.role
    BY <1>1, <1>2 DEF Commands, Labels
  <2>3. ProcOK(p)'
    BY <1>1, <1>2, <1>6, <2>1, <2>2 DEF ProcOK, Tagged, Named, Later
  <2>. QED
    BY <1>3, <1>4, <2>1, <2>2, <2>3, AwsAlone
<1>. QED
  BY <1>5, <1>7, <1>8, <1>9

\* A deployment whose image has its name.
LEMMA NamedOK ==
    ASSUME UNCHANGED setting, NEW p \in Procs, NEW d \in Commands, cmd'[p] = d,
           d.at \in {"poll", "create", "update", "record"}, d.w \in Workflows,
           d.dir \in Workflows \cup {Custom}, d.role \in Role, Ready(d.role)', d.image \in Tags
    PROVE  ProcOK(p)'
<1>1. d.image \in Tags'
  BY DEF Tags
<1>. QED
  BY <1>1 DEF ProcOK, Tagged, Named, Later

\* The steps of a remote build: it runs with a role the project has, which is
\* that of some deployment that is past making it.
LEMMA BuildOK ==
    ASSUME IInv, NEW p \in Procs, EnsureProject(p) \/ StartBuild(p) \/ Poll(p) PROVE IInv'
<1>. DEFINE c == cmd[p]
<1>1. /\ c \in Commands /\ c.w \in Workflows /\ c.dir \in Workflows \cup {Custom} /\ c.role \in Role
      /\ Ready(c.role) /\ c.at \in {"project", "start", "poll"} /\ c.image \in Tags
      /\ c.at # "poll" => c.tag \in Tags
      /\ c.at = "start" => project # None
  BY DEF IInv, TypeOK, ProcOK, EnsureProject, StartBuild, Poll, At, Later, Tagged, Named
<1>2. Tags' = Tags
  BY DEF Tags, EnsureProject, StartBuild, Poll
<1>3. UNCHANGED roles /\ \A r : Ready(r) <=> Ready(r)'
  BY DEF Ready, EnsureProject, StartBuild, Poll, aws
<1>0. \A r \in Role : Ready(r) => Ready(r)'
  BY <1>3
<1>4. CASE EnsureProject(p)
  <2>. DEFINE d == [c EXCEPT !.at = "start"]
  <2>1. cmd' = [cmd EXCEPT ![p] = d] /\ cmd'[p] = d
    BY <1>4 DEF EnsureProject, Goes, IInv, TypeOK
  <2>2. /\ d \in Commands /\ d.at = "start" /\ d.tag = c.tag /\ d.image = c.image
        /\ d.w = c.w /\ d.dir = c.dir /\ d.role = c.role
    BY <1>1 DEF Commands, Labels
  <2>3. project' = c.role /\ project' # None
    BY <1>1, <1>4, DeploymentAssumption DEF EnsureProject, Role
  <2>4. ProcOK(p)'
    <3>1. c.tag \in Tags
      BY <1>1, <1>4 DEF EnsureProject, At
    <3>. QED
      BY <1>1, <1>2, <1>3, <2>1, <2>2, <2>3, <3>1 DEF ProcOK, Tagged, Named, Later
  <2>5. DataOK'
    BY <1>1, <1>2, <1>4, <2>3 DEF EnsureProject, IInv, TypeOK, DataOK, bounds, images, Build
  <2>6. Keeps /\ RolesOK' /\ RolesReady'
    BY <1>1, <1>3, <1>4, <2>3 DEF EnsureProject, Keeps, IInv, RolesOK, RolesReady
  <2>. QED
    BY <2>1, <2>2, <2>4, <2>5, <2>6, OneProcess
<1>5. CASE StartBuild(p)
  <2>. DEFINE d == [c EXCEPT !.at = "poll", !.build = Len(builds')]
             b == [tag |-> c.image, files |-> staged[c.tag], role |-> project,
                   status |-> "IN_PROGRESS"]
  <2>1. c.at = "start" /\ c.tag \in Tags /\ project \in Role /\ Ready(project)
    BY <1>1, <1>5 DEF StartBuild, At, IInv, TypeOK, DataOK, RolesOK
  <2>2. b \in Build
    BY <1>1, <2>1 DEF Build, IInv, TypeOK, DataOK
  <2>3. builds' = Append(builds, b) /\ builds \in Seq(Build)
    BY <1>5 DEF StartBuild, IInv, TypeOK, DataOK
  <2>4. builds' \in Seq(Build) /\ Len(builds') \in Nat
    BY <2>2, <2>3
  <2>5. cmd' = [cmd EXCEPT ![p] = d] /\ cmd'[p] = d
    BY <1>5 DEF StartBuild, IInv, TypeOK
  <2>6. /\ d \in Commands /\ d.at = "poll" /\ d.image = c.image
        /\ d.w = c.w /\ d.dir = c.dir /\ d.role = c.role
    BY <1>1, <2>4 DEF Commands, Labels
  <2>7. ProcOK(p)'
    BY <1>0, <1>1, <1>5, <2>5, <2>6, NamedOK DEF StartBuild
  <2>8. DataOK'
    BY <1>2, <1>5, <2>4 DEF StartBuild, IInv, TypeOK, DataOK, bounds, images, Build
  <2>9. RolesReady'
    <3>1. \A n \in DOMAIN builds' : builds'[n].role = project \/ (n \in DOMAIN builds /\ builds'[n] = builds[n])
      BY <2>2, <2>3
    <3>. QED
      BY <1>3, <1>5, <2>1, <3>1 DEF StartBuild, IInv, RolesReady
  <2>10. Keeps /\ RolesOK'
    BY <1>3, <1>5 DEF StartBuild, Keeps, IInv, RolesOK
  <2>. QED
    BY <2>5, <2>6, <2>7, <2>8, <2>9, <2>10, OneProcess
<1>6. CASE Poll(p)
  <2>1. UNCHANGED <<setting, aws>> /\ DataOK'
    BY <1>2, <1>6 DEF Poll, IInv, TypeOK, DataOK, bounds, images, aws, Build
  <2>2. CASE Ends(p)
    BY <2>1, <2>2, Ending
  <2>3. CASE Goes(p, "create")
    <3>. DEFINE d == [c EXCEPT !.at = "create"]
    <3>1. cmd' = [cmd EXCEPT ![p] = d] /\ cmd'[p] = d
      BY <2>3 DEF Goes, IInv, TypeOK
    <3>2. /\ d \in Commands /\ d.at = "create" /\ d.image = c.image
          /\ d.w = c.w /\ d.dir = c.dir /\ d.role = c.role
      BY <1>1 DEF Commands, Labels
    <3>3. ProcOK(p)'
      BY <1>0, <1>1, <2>1, <3>1, <3>2, NamedOK
    <3>. QED
      BY <2>1, <3>1, <3>2, <3>3, AwsAlone
  <2>. QED
    BY <1>6, <2>2, <2>3 DEF Poll
<1>. QED
  BY <1>4, <1>5, <1>6

\* The steps that make the runtime: it runs with the role of its deployment.
LEMMA RuntimeOK ==
    ASSUME IInv, NEW p \in Procs, CreateRuntime(p) \/ UpdateRuntime(p) PROVE IInv'
<1>. DEFINE c == cmd[p]
            r == [image |-> c.image, role |-> c.role]
<1>1. /\ c \in Commands /\ c.w \in Workflows /\ c.dir \in Workflows \cup {Custom} /\ c.role \in Role
      /\ Ready(c.role) /\ c.image \in Tags
  BY DEF IInv, TypeOK, ProcOK, CreateRuntime, UpdateRuntime, At, Later, Named
<1>2. Tags' = Tags /\ UNCHANGED <<setting, now, source, dirs, staged, roles, project, builds>>
  BY DEF Tags, CreateRuntime, UpdateRuntime, bounds, images
<1>3. UNCHANGED runtimes \/ runtimes' = [runtimes EXCEPT ![Sanitized[c.w]] = r]
  BY DEF CreateRuntime, UpdateRuntime, Takes
<1>4. runtimes' \in [RuntimeNames -> [image : Tags, role : Role] \cup {None}]
  BY <1>1, <1>3 DEF IInv, TypeOK, DataOK
<1>5. DataOK'
  BY <1>2, <1>4 DEF IInv, TypeOK, DataOK, Build
<1>6. \A x : Ready(x) <=> Ready(x)'
  BY <1>2 DEF Ready
<1>7. Keeps /\ RolesOK'
  BY <1>2, <1>6 DEF Keeps, IInv, RolesOK
<1>8. RolesReady'
  <2>1. \A n \in RuntimeNames : runtimes'[n] = runtimes[n] \/ runtimes'[n].role = c.role
    BY <1>1, <1>3 DEF IInv, TypeOK, DataOK
  <2>. QED
    BY <1>1, <1>2, <1>6, <2>1 DEF IInv, RolesReady
<1>9. ASSUME NEW label \in {"record", "update"}, Goes(p, label) PROVE IInv'
  <2>. DEFINE d == [c EXCEPT !.at = label]
  <2>1. cmd' = [cmd EXCEPT ![p] = d] /\ cmd'[p] = d
    BY <1>9 DEF Goes, IInv, TypeOK
  <2>2. /\ d \in Commands /\ d.at = label /\ d.image = c.image
        /\ d.w = c.w /\ d.dir = c.dir /\ d.role = c.role
    BY <1>1 DEF Commands, Labels
  <2>3. ProcOK(p)'
    BY <1>1, <1>2, <1>6, <2>1, <2>2, NamedOK
  <2>. QED
    BY <1>5, <1>7, <1>8, <2>1, <2>2, <2>3, OneProcess
<1>. QED
  BY <1>9 DEF CreateRuntime, UpdateRuntime

\* The steps that end a command.
LEMMA EndOK ==
    ASSUME IInv, NEW p \in Procs, Record(p) \/ Invoke(p) \/ Breaks(p) PROVE IInv'
<1>1. Ends(p) /\ UNCHANGED <<setting, aws>>
  BY DEF Record, Invoke, Breaks
<1>2. DataOK'
  BY DEF Record, Invoke, Breaks, IInv, TypeOK, DataOK, Tags, Build, bounds, images, aws
<1>. QED
  BY <1>1, <1>2, Ending

\* The world: no step of it touches a role or a command.
LEMMA WorldOK ==
    ASSUME IInv,
           Tick \/ (\E w \in setting.names : Edit(w)) \/ (\E b \in DOMAIN builds : BuildEnds(b))
    PROVE  IInv'
<1>1. UNCHANGED <<setting, roles, project, runtimes, cmd, dirs, staged>> /\ Tags' = Tags
  BY DEF Tick, Edit, BuildEnds, aws, images, Tags
<1>2. /\ builds' \in Seq(Build) /\ DOMAIN builds' = DOMAIN builds
      /\ \A b \in DOMAIN builds : builds'[b].role = builds[b].role
  <2>1. builds \in Seq(Build)
    BY DEF IInv, TypeOK, DataOK
  <2>2. CASE UNCHANGED builds
    BY <2>1, <2>2
  <2>3. ASSUME NEW b \in DOMAIN builds, BuildEnds(b)
        PROVE  <1>2!:
    <3>1. PICK status \in {"SUCCEEDED", "FAILED"} : builds' = [builds EXCEPT ![b].status = status]
      BY <2>3 DEF BuildEnds
    <3>2. builds[b] \in Build
      BY <2>1
    <3>3. [builds[b] EXCEPT !.status = status] \in Build
      BY <3>2 DEF Build
    <3>. QED
      BY <2>1, <3>1, <3>2, <3>3 DEF Build
  <2>. QED
    BY <2>2, <2>3 DEF Tick, Edit, aws
<1>3. now' \in 0 .. setting.seconds
  <2>1. setting.seconds \in Nat
    BY DeploymentAssumption DEF IInv, TypeOK, DataOK, Setting
  <2>2. now \in 0 .. setting.seconds
    BY DEF IInv, TypeOK, DataOK
  <2>. QED
    BY <2>1, <2>2 DEF Tick, Edit, BuildEnds, bounds
<1>4. source' \in [Workflows -> SUBSET Files]
  <2>1. source \in [Workflows -> SUBSET Files]
    BY DEF IInv, TypeOK, DataOK
  <2>. QED
    BY <2>1 DEF Tick, Edit, BuildEnds
<1>5. TypeOK'
  BY <1>1, <1>2, <1>3, <1>4 DEF IInv, TypeOK, DataOK, Build, Commands
<1>6. \A p \in Procs : ProcOK(p)'
  BY <1>1 DEF IInv, ProcOK, Ready
<1>7. RolesOK' /\ RolesReady'
  BY <1>1, <1>2 DEF IInv, RolesOK, RolesReady, Ready
<1>. QED
  BY <1>5, <1>6, <1>7 DEF IInv

LEMMA StepOK == IInv /\ [Next]_vars => IInv'
<1>. SUFFICES ASSUME IInv, [Next]_vars PROVE IInv'
  OBVIOUS
<1>1. CASE UNCHANGED vars
  <2>1. DataOK' /\ TypeOK'
    BY <1>1 DEF vars, bounds, images, aws, IInv, TypeOK, DataOK, Tags, Build, Commands
  <2>2. \A p \in Procs : ProcOK(p)'
    BY <1>1 DEF vars, aws, Tags, IInv, ProcOK, Ready
  <2>3. RolesOK' /\ RolesReady'
    BY <1>1 DEF vars, aws, IInv, RolesOK, RolesReady, Ready
  <2>. QED
    BY <2>1, <2>2, <2>3 DEF IInv
<1>2. ASSUME NEW p \in Procs, Deploy(p) \/ Run(p) \/ Step(p) \/ Breaks(p)
      PROVE  IInv'
  BY <1>2, DeployOK, RunOK, RoleOK, ImageOK, BuildOK, RuntimeOK, EndOK DEF Step
<1>3. CASE Tick \/ (\E w \in setting.names : Edit(w)) \/ (\E b \in DOMAIN builds : BuildEnds(b))
  BY <1>3, WorldOK
<1>. QED
  BY <1>1, <1>2, <1>3 DEF Next

\* What runs, a build or a runtime, runs with a role that is ready: for any number
\* of deployments at once, of workflows and of policies, from roles in any state
\* that earlier versions leave, and wherever deployments break off.
THEOREM EverythingRunsWithReadyRole == Spec => []RolesReady
<1>1. IInv => RolesReady
  BY DEF IInv
<1>. QED
  BY <1>1, InitOK, StepOK, PTL DEF Spec
-----------------------------------------------------------------------------
(* The record on file and the runtime it names.                            *)

DeploysAt(c, w) == c.w = w /\ c.at \notin {"idle", "invoke"}
RecordsAt(c, w) == c.w = w /\ c.at = "record"

\* What a workflow has on file, by its runtime.
NamedBy(runtime) == IF runtime = None THEN None ELSE runtime.image

\* A runtime that was made stays: the commands past it, and the records, can
\* count on it.
RuntimesStay ==
    /\ \A p \in Procs :
           cmd[p].at \in {"update", "record", "invoke"} => runtimes[Sanitized[cmd[p].w]] # None
    /\ \A w \in Workflows : record[w] # None => runtimes[Sanitized[w]] # None

\* Of a workflow that was never deployed twice at once, and whose runtime no other
\* has taken: one command at most is at it; when that one is to save, the runtime
\* runs its image; before, and between deployments, the runtime runs the image on
\* file, unless the last one broke off.
WorkflowOK(w) ==
    w \notin overlapped =>
        /\ \A p, q \in Procs : DeploysAt(cmd[p], w) /\ DeploysAt(cmd[q], w) => p = q
        /\ w \notin displaced =>
               /\ \A p \in Procs :
                      RecordsAt(cmd[p], w) => runtimes[Sanitized[w]].image = cmd[p].image
               /\ \/ w \in behind \/ \E p \in Procs : RecordsAt(cmd[p], w)
                  \/ record[w] = NamedBy(runtimes[Sanitized[w]])

RecordInv ==
    /\ IInv
    /\ overlapped \subseteq Workflows /\ behind \subseteq Workflows
    /\ displaced \subseteq Workflows
    /\ record \in [Workflows -> Tags \cup {None}]
    /\ RuntimesStay
    /\ \A w \in Workflows : WorkflowOK(w)

\* The image of a deployment that is to save is a tag, and a runtime no None.
LEMMA Facts ==
    ASSUME IInv
    PROVE  /\ cmd \in [Procs -> Commands]
           /\ runtimes \in [RuntimeNames -> [image : Tags, role : Role] \cup {None}]
           /\ \A p \in Procs : cmd[p].at # "idle" => cmd[p].w \in Workflows
           /\ \A p \in Procs : cmd[p].at \in Named => cmd[p].image \in Tags /\ cmd[p].role \in Role
           /\ None \notin [image : Tags, role : Role]
<1>1. Tags \subseteq Workflows \X Nat
  BY DeploymentAssumption DEF IInv, TypeOK, DataOK, Setting, Tags
<1>2. None \notin [image : Tags, role : Role]
  BY <1>1, DeploymentAssumption DEF Role
<1>3. \A p \in Procs : cmd[p].at \in Named => cmd[p].at \notin {"idle", "invoke"}
  BY DEF Named
<1>. QED
  BY <1>2, <1>3 DEF IInv, TypeOK, DataOK, ProcOK

LEMMA RecordInit == Init => RecordInv
<1>. SUFFICES ASSUME Init PROVE RecordInv
  OBVIOUS
<1>1. \A p \in Procs : cmd[p].at = "idle"
  BY DEF Init, Idle, Command
<1>. QED
  BY <1>1, InitOK DEF Init, RecordInv, RuntimesStay, WorkflowOK, RuntimeNames, DeploysAt, RecordsAt, NamedBy

\* A step to which neither runtimes nor records matter.
LEMMA QuietStep ==
    ASSUME RecordInv, IInv', UNCHANGED <<setting, runtimes, record, overlapped, behind, displaced>>,
           NEW p \in Procs, NEW d, cmd' = [cmd EXCEPT ![p] = d],
           cmd[p].at # "record", d.at # "record",
           d.at \in {"idle", "invoke"} \/ (d.w = cmd[p].w /\ cmd[p].at \notin {"idle", "invoke"}),
           d.at \in {"update", "invoke"} => runtimes[Sanitized[d.w]] # None
    PROVE  RecordInv'
<1>1. cmd'[p] = d /\ \A q \in Procs \ {p} : cmd'[q] = cmd[q]
  BY DEF RecordInv, IInv, TypeOK
<1>2. Tags' = Tags
  BY DEF Tags
<1>3. RuntimesStay'
  BY <1>1 DEF RecordInv, RuntimesStay
<1>4. \A w \in Workflows : WorkflowOK(w)'
  <2>. SUFFICES ASSUME NEW w \in Workflows, w \notin overlapped PROVE WorkflowOK(w)'
    BY DEF WorkflowOK
  <2>1. \A q \in Procs : DeploysAt(cmd'[q], w) => DeploysAt(cmd[q], w)
    BY <1>1 DEF DeploysAt
  <2>2. \A q \in Procs : RecordsAt(cmd'[q], w) <=> RecordsAt(cmd[q], w)
    BY <1>1 DEF RecordsAt
  <2>3. \A q \in Procs : RecordsAt(cmd'[q], w) => cmd'[q] = cmd[q]
    BY <1>1 DEF RecordsAt
  <2>4. WorkflowOK(w)
    BY DEF RecordInv
  <2>. QED
    BY <2>1, <2>2, <2>3, <2>4 DEF WorkflowOK
<1>. QED
  BY <1>2, <1>3, <1>4 DEF RecordInv

\* The steps on the way to the image, and those of `run`.
LEMMA QuietOK ==
    ASSUME RecordInv, IInv', NEW p \in Procs,
           \/ EnsureRole(p) \/ AttachPolicy(p) \/ Prepare(p) \/ Stage(p) \/ Push(p)
           \/ EnsureProject(p) \/ StartBuild(p) \/ Poll(p) \/ Invoke(p)
    PROVE  RecordInv'
<1>. DEFINE c == cmd[p]
<1>1. c \in Commands /\ UNCHANGED <<setting, runtimes, record, overlapped, behind, displaced>>
  BY DEF RecordInv, IInv, TypeOK, EnsureRole, AttachPolicy, Prepare, Stage, Push, EnsureProject,
         StartBuild, Poll, Invoke, aws, history
<1>2. c.at \notin {"idle", "record"} /\ (~ Ends(p) => c.at # "invoke")
  BY DEF EnsureRole, AttachPolicy, Prepare, Stage, Push, EnsureProject, StartBuild, Poll, Invoke, At
<1>3. CASE Ends(p)
  <2>1. cmd' = [cmd EXCEPT ![p] = Idle] /\ Idle.at = "idle"
    BY <1>3 DEF Ends, Idle, Command
  <2>. QED
    BY <1>1, <1>2, <2>1, QuietStep
<1>4. ASSUME NEW label \in {"policies", "prepare", "start", "create"}, Goes(p, label), ~ Ends(p)
      PROVE  RecordInv'
  <2>. DEFINE d == [c EXCEPT !.at = label]
  <2>1. cmd' = [cmd EXCEPT ![p] = d] /\ d.at = label /\ d.w = c.w
    BY <1>1, <1>4 DEF Goes, Commands
  <2>. QED
    BY <1>1, <1>2, <1>4, <2>1, QuietStep
<1>5. CASE AttachPolicy(p) /\ UNCHANGED cmd
  <2>1. cmd' = [cmd EXCEPT ![p] = c]
    BY <1>5 DEF RecordInv, IInv, TypeOK
  <2>2. c.at = "policies"
    BY <1>5 DEF AttachPolicy, At
  <2>. QED
    BY <1>1, <1>2, <2>1, <2>2, QuietStep
<1>6. ASSUME NEW label \in {"stage", "project", "push", "create", "poll"}, ~ Ends(p), NEW d,
             d.at = label, d.w = c.w, cmd' = [cmd EXCEPT ![p] = d]
      PROVE  RecordInv'
  BY <1>1, <1>2, <1>6, QuietStep
<1>7. CASE Prepare(p) /\ ~ Ends(p)
  <2>. DEFINE d == [c EXCEPT !.at = "stage", !.tag = Stamp(p)]
  <2>1. cmd' = [cmd EXCEPT ![p] = d] /\ d.at = "stage" /\ d.w = c.w
    BY <1>1, <1>7 DEF Prepare, Commands
  <2>. QED
    BY <1>6, <1>7, <2>1
<1>8. CASE Stage(p) /\ ~ Ends(p)
  <2>. DEFINE d == [c EXCEPT !.at = IF Remote THEN "project" ELSE "push",
                             !.image = IF Remote THEN Stamp(p) ELSE None]
  <2>1. cmd' = [cmd EXCEPT ![p] = d] /\ d.at \in {"project", "push"} /\ d.w = c.w
    BY <1>1, <1>8 DEF Stage, Commands
  <2>. QED
    BY <1>6, <1>8, <2>1
<1>9. CASE Push(p) /\ ~ Ends(p)
  <2>. DEFINE d == [c EXCEPT !.at = "create", !.image = Stamp(p)]
  <2>1. cmd' = [cmd EXCEPT ![p] = d] /\ d.at = "create" /\ d.w = c.w
    BY <1>1, <1>9 DEF Push, Commands
  <2>. QED
    BY <1>6, <1>9, <2>1
<1>10. CASE StartBuild(p) /\ ~ Ends(p)
  <2>. DEFINE d == [c EXCEPT !.at = "poll", !.build = Len(builds')]
  <2>1. cmd' = [cmd EXCEPT ![p] = d] /\ d.at = "poll" /\ d.w = c.w
    BY <1>1, <1>10 DEF StartBuild, Commands
  <2>. QED
    BY <1>6, <1>10, <2>1
<1>. QED
  BY <1>3, <1>4, <1>5, <1>7, <1>8, <1>9, <1>10
     DEF EnsureRole, AttachPolicy, EnsureProject, Poll, Invoke

LEMMA RunsOK == ASSUME RecordInv, IInv', NEW p \in Procs, Run(p) PROVE RecordInv'
<1>1. PICK w \in setting.names : /\ record[w] # None
                                 /\ cmd' = [cmd EXCEPT ![p] = Command("invoke", w, None, FALSE, None)]
  BY DEF Run
<1>2. w \in Workflows
  BY DeploymentAssumption DEF RecordInv, IInv, TypeOK, DataOK, Setting
<1>3. runtimes[Sanitized[w]] # None
  BY <1>1, <1>2 DEF RecordInv, RuntimesStay
<1>4. UNCHANGED <<setting, runtimes, record, overlapped, behind, displaced>> /\ cmd[p].at = "idle"
  BY DEF Run, aws, history, At
<1>. DEFINE d == Command("invoke", w, None, FALSE, None)
<1>5. cmd' = [cmd EXCEPT ![p] = d] /\ d.at = "invoke" /\ d.w = w
  BY <1>1 DEF Command
<1>. QED
  BY <1>3, <1>4, <1>5, QuietStep

\* A deployment begins: the only one of its workflow, or the workflow is marked.
LEMMA DeploysOK == ASSUME RecordInv, IInv', NEW p \in Procs, Deploy(p) PROVE RecordInv'
<1>1. PICK v \in setting.names, dir \in {None, Custom}, over \in BOOLEAN, role \in {None, Given} :
          /\ cmd' = [cmd EXCEPT ![p] =
                 Command(IF role = None THEN "role" ELSE "prepare", v,
                         IF dir = None THEN v ELSE dir, over, IF role = None THEN v ELSE role)]
          /\ overlapped' = IF Deploying(v) = {} THEN overlapped ELSE overlapped \cup {v}
  BY DEF Deploy
<1>2. v \in Workflows
  BY DeploymentAssumption DEF RecordInv, IInv, TypeOK, DataOK, Setting
<1>3. /\ cmd'[p].w = v /\ cmd'[p].at \notin {"idle", "invoke", "update", "record"}
      /\ \A q \in Procs \ {p} : cmd'[q] = cmd[q]
  BY <1>1 DEF RecordInv, IInv, TypeOK, Command
<1>4. UNCHANGED <<setting, runtimes, record, behind, displaced>> /\ cmd[p].at = "idle" /\ Tags' = Tags
  BY DEF Deploy, aws, At, Tags
<1>5. RuntimesStay'
  BY <1>3, <1>4 DEF RecordInv, RuntimesStay
<1>6. \A w \in Workflows : WorkflowOK(w)'
  <2>. SUFFICES ASSUME NEW w \in Workflows, w \notin overlapped' PROVE WorkflowOK(w)'
    BY DEF WorkflowOK
  <2>1. w \notin overlapped /\ (w = v => Deploying(v) = {})
    BY <1>1
  <2>2. \A q, r \in Procs : DeploysAt(cmd'[q], w) /\ DeploysAt(cmd'[r], w) => q = r
    <3>1. WorkflowOK(w)
      BY DEF RecordInv
    <3>2. CASE w = v
      <4>1. \A q \in Procs : ~ DeploysAt(cmd[q], w)
        BY <2>1, <3>2 DEF Deploying, DeploysAt
      <4>. QED
        BY <1>3, <4>1
    <3>3. CASE w # v
      <4>1. \A q \in Procs : DeploysAt(cmd'[q], w) => DeploysAt(cmd[q], w)
        BY <1>3, <3>3 DEF DeploysAt
      <4>. QED
        BY <2>1, <3>1, <4>1 DEF WorkflowOK
    <3>. QED
      BY <3>2, <3>3
  <2>3. \A q \in Procs : RecordsAt(cmd'[q], w) <=> RecordsAt(cmd[q], w)
    BY <1>3, <1>4 DEF RecordsAt
  <2>4. \A q \in Procs : RecordsAt(cmd'[q], w) => cmd'[q] = cmd[q]
    BY <1>3 DEF RecordsAt
  <2>5. WorkflowOK(w)
    BY DEF RecordInv
  <2>. QED
    BY <1>4, <2>1, <2>2, <2>3, <2>4, <2>5 DEF WorkflowOK
<1>7. overlapped' \subseteq Workflows
  BY <1>1, <1>2 DEF RecordInv
<1>. QED
  BY <1>4, <1>5, <1>6, <1>7 DEF RecordInv

\* The runtime is made, or made to run the image; or there is one already.
LEMMA RuntimesOK ==
    ASSUME RecordInv, IInv', NEW p \in Procs, CreateRuntime(p) \/ UpdateRuntime(p)
    PROVE  RecordInv'
<1>. DEFINE c == cmd[p]
            r == [image |-> c.image, role |-> c.role]
<1>1. /\ c \in Commands /\ c.at \in {"create", "update"} /\ c.w \in Workflows
      /\ c.image \in Tags /\ c.role \in Role
      /\ UNCHANGED <<setting, record, overlapped, behind>> /\ Tags' = Tags
  <2>1. c.at \in {"create", "update"}
    BY DEF CreateRuntime, UpdateRuntime, At
  <2>. QED
    BY <2>1, Facts DEF RecordInv, CreateRuntime, UpdateRuntime, Tags, Named
<1>2. CASE UNCHANGED <<runtimes, displaced>> /\ runtimes[Sanitized[c.w]] # None /\ Goes(p, "update")
  <2>. DEFINE d == [c EXCEPT !.at = "update"]
  <2>1. cmd' = [cmd EXCEPT ![p] = d] /\ d.at = "update" /\ d.w = c.w
    BY <1>1, <1>2 DEF Goes, Commands
  <2>. QED
    BY <1>1, <1>2, <2>1, QuietStep
<1>3. CASE Takes(p) /\ Goes(p, "record")
  <2>1. /\ r \in [image : Tags, role : Role] /\ r # None
        /\ runtimes'[Sanitized[c.w]] = r
        /\ \A w \in Workflows : Sanitized[w] # Sanitized[c.w] =>
               runtimes'[Sanitized[w]] = runtimes[Sanitized[w]]
    BY <1>1, <1>3, Facts DEF RecordInv, Takes, RuntimeNames
  <2>2. /\ cmd'[p].at = "record" /\ cmd'[p].w = c.w /\ cmd'[p].image = c.image
        /\ \A q \in Procs \ {p} : cmd'[q] = cmd[q]
    BY <1>1, <1>3, Facts DEF RecordInv, Goes, Commands
  <2>3. \A w \in Workflows : runtimes[Sanitized[w]] # None => runtimes'[Sanitized[w]] # None
    BY <2>1
  <2>4. RuntimesStay'
    <3>1. \A q \in Procs :
              cmd'[q].at \in {"update", "record", "invoke"} => runtimes'[Sanitized[cmd'[q].w]] # None
      <4>1. \A q \in Procs \ {p} : cmd[q].at # "idle" => cmd[q].w \in Workflows
        BY Facts DEF RecordInv
      <4>. QED
        BY <2>1, <2>2, <2>3, <4>1 DEF RecordInv, RuntimesStay
    <3>. QED
      BY <1>1, <2>3, <3>1 DEF RecordInv, RuntimesStay
  <2>5. /\ displaced' \subseteq Workflows /\ c.w \notin displaced'
        /\ \A w \in Workflows \ {c.w} : w \notin displaced' =>
               w \notin displaced /\ Sanitized[w] # Sanitized[c.w]
    BY <1>1, <1>3 DEF Takes, SharesRuntime, RecordInv
  <2>6. \A w \in Workflows : WorkflowOK(w)'
    <3>. SUFFICES ASSUME NEW w \in Workflows, w \notin overlapped PROVE WorkflowOK(w)'
      BY <1>1 DEF WorkflowOK
    <3>1. WorkflowOK(w)
      BY DEF RecordInv
    <3>2. \A q \in Procs : DeploysAt(cmd'[q], w) <=> DeploysAt(cmd[q], w)
      BY <1>1, <2>2 DEF DeploysAt
    <3>3. CASE w = c.w
      <4>1. DeploysAt(cmd[p], w) /\ RecordsAt(cmd'[p], w)
        BY <1>1, <2>2, <3>3 DEF DeploysAt, RecordsAt
      <4>2. \A q \in Procs : RecordsAt(cmd'[q], w) => q = p
        BY <2>2, <3>1, <4>1 DEF WorkflowOK, DeploysAt, RecordsAt
      <4>. QED
        BY <2>1, <2>2, <3>1, <3>2, <3>3, <4>1, <4>2 DEF WorkflowOK
    <3>4. CASE w # c.w
      <4>1. \A q \in Procs : RecordsAt(cmd'[q], w) <=> RecordsAt(cmd[q], w)
        BY <1>1, <2>2, <3>4 DEF RecordsAt
      <4>2. \A q \in Procs : RecordsAt(cmd'[q], w) => cmd'[q] = cmd[q]
        BY <1>1, <2>2, <3>4 DEF RecordsAt
      <4>3. w \notin displaced' =>
                w \notin displaced /\ runtimes'[Sanitized[w]] = runtimes[Sanitized[w]]
        BY <2>1, <2>5, <3>4
      <4>. QED
        BY <1>1, <3>1, <3>2, <4>1, <4>2, <4>3 DEF WorkflowOK
    <3>. QED
      BY <3>3, <3>4
  <2>. QED
    BY <1>1, <2>4, <2>5, <2>6 DEF RecordInv
<1>. QED
  BY <1>1, <1>2, <1>3 DEF CreateRuntime, UpdateRuntime, At

\* The record names the image, and the workflow is no longer behind; or the
\* command breaks off, and it is if the runtime was changed.
LEMMA RecordsOK ==
    ASSUME RecordInv, IInv', NEW p \in Procs, Record(p) \/ Breaks(p)
    PROVE  RecordInv'
<1>. DEFINE c == cmd[p]
<1>1. /\ c \in Commands /\ c.at # "idle" /\ c.w \in Workflows
      /\ UNCHANGED <<setting, runtimes, overlapped, displaced>> /\ Tags' = Tags
  <2>1. c.at # "idle"
    BY DEF Record, Breaks, At
  <2>. QED
    BY <2>1, Facts DEF RecordInv, Record, Breaks, aws, Tags
<1>2. cmd' = [cmd EXCEPT ![p] = Idle] /\ cmd'[p].at = "idle" /\ \A q \in Procs \ {p} : cmd'[q] = cmd[q]
  BY Facts DEF RecordInv, Record, Breaks, Ends, Idle, Command
<1>3. CASE c.at # "record"
  <2>1. UNCHANGED <<record, behind>>
    BY <1>3 DEF Record, Breaks, At
  <2>. QED
    BY <1>1, <1>2, <1>3, <2>1, QuietStep DEF Idle, Command
<1>4. CASE c.at = "record"
  <2>1. /\ behind' \in {behind \cup {c.w}, behind \ {c.w}}
        /\ \A w \in Workflows \ {c.w} : record'[w] = record[w]
        /\ c.w \notin behind' => record'[c.w] = c.image
        /\ \A w \in Workflows : record'[w] # None => record[w] # None \/ w = c.w
    BY <1>1, <1>4 DEF Record, Breaks, RecordInv, At
  <2>2. record' \in [Workflows -> Tags \cup {None}]
    <3>1. c.image \in Tags
      BY <1>4, Facts DEF RecordInv, Named
    <3>. QED
      BY <1>1, <1>4, <3>1 DEF Record, Breaks, RecordInv
  <2>3. runtimes[Sanitized[c.w]] # None
    BY <1>4 DEF RecordInv, RuntimesStay
  <2>4. RuntimesStay'
    BY <1>1, <1>2, <2>1, <2>3 DEF RecordInv, RuntimesStay
  <2>5. \A w \in Workflows : WorkflowOK(w)'
    <3>. SUFFICES ASSUME NEW w \in Workflows, w \notin overlapped PROVE WorkflowOK(w)'
      BY <1>1 DEF WorkflowOK
    <3>1. WorkflowOK(w)
      BY DEF RecordInv
    <3>2. \A q \in Procs : DeploysAt(cmd'[q], w) => DeploysAt(cmd[q], w)
      BY <1>2 DEF DeploysAt
    <3>3. \A q \in Procs : RecordsAt(cmd'[q], w) => cmd'[q] = cmd[q] /\ q # p
      BY <1>2 DEF RecordsAt
    <3>4. CASE w = c.w
      <4>1. w \notin displaced => runtimes[Sanitized[w]].image = c.image
        BY <1>4, <3>1, <3>4 DEF WorkflowOK, RecordsAt
      <4>2. w \in displaced \cup behind' \/ record'[w] = NamedBy(runtimes[Sanitized[w]])
        BY <2>1, <2>3, <3>4, <4>1 DEF NamedBy
      <4>. QED
        BY <1>1, <3>1, <3>2, <3>3, <4>2 DEF WorkflowOK
    <3>5. CASE w # c.w
      <4>1. w \in behind' <=> w \in behind
        BY <2>1, <3>5
      <4>2. \A q \in Procs : RecordsAt(cmd[q], w) => RecordsAt(cmd'[q], w)
        BY <1>2, <3>5 DEF RecordsAt
      <4>. QED
        BY <1>1, <2>1, <3>1, <3>2, <3>3, <3>5, <4>1, <4>2 DEF WorkflowOK
    <3>. QED
      BY <3>4, <3>5
  <2>. QED
    BY <1>1, <2>1, <2>2, <2>4, <2>5 DEF RecordInv
<1>. QED
  BY <1>3, <1>4

LEMMA RecordStep == RecordInv /\ [Next]_vars => RecordInv'
<1>. SUFFICES ASSUME RecordInv, [Next]_vars PROVE RecordInv'
  OBVIOUS
<1>1. IInv'
  BY StepOK DEF RecordInv
<1>2. CASE UNCHANGED <<setting, runtimes, record, overlapped, behind, displaced, cmd>>
  BY <1>1, <1>2 DEF RecordInv, RuntimesStay, WorkflowOK, Tags
<1>3. ASSUME NEW p \in Procs, Deploy(p) \/ Run(p) \/ Step(p) \/ Breaks(p)
      PROVE  RecordInv'
  BY <1>1, <1>3, DeploysOK, RunsOK, QuietOK, RuntimesOK, RecordsOK DEF Step
<1>. QED
  BY <1>2, <1>3 DEF Next, vars, bounds, aws, history, Edit, Tick, BuildEnds

\* The record on file names the image that the workflow's runtime runs, for any
\* number of workflows and commands, whatever breaks off: unless two deployments
\* of the workflow were in work at once, its last one broke off before its save, or
\* a workflow whose name is cut to the same has taken the runtime since.
THEOREM RecordsAreCurrent == Spec => []RecordIsCurrent
<1>1. RecordInv => RecordIsCurrent
  <2>. SUFFICES ASSUME RecordInv, NEW w \in Workflows, Deploying(w) = {},
                       w \notin overlapped \cup behind \cup displaced
                PROVE  record[w] = NamedBy(runtimes[Sanitized[w]])
    BY DEF RecordIsCurrent, NamedBy
  <2>1. \A p \in Procs : ~ RecordsAt(cmd[p], w)
    BY DEF Deploying, RecordsAt
  <2>. QED
    BY <2>1 DEF RecordInv, WorkflowOK
<1>. QED
  BY <1>1, RecordInit, RecordStep, PTL DEF Spec

-----------------------------------------------------------------------------
(* The image of a runtime.                                                 *)

\* Files that the workflow, or the directory of --build-dir, has had.
OwnFiles(w, files, custom) ==
    files # None /\ files \subseteq ({w} \X Files) \cup (IF custom = None THEN {} ELSE custom)

ImageAt(c, ds, bs, es) ==
    /\ c.at \notin {"idle", "invoke"} => c.dir \in {c.w, Custom}
    /\ c.at = "stage" => ds[c.dir] # None
    /\ c.at \in Tagged => c.tag[1] = c.w
    /\ c.at \in Named => c.image[1] = c.w
    /\ c.at = "poll" => c.build \in DOMAIN bs /\ bs[c.build].tag = c.image
    /\ c.at \in {"create", "update", "record"} => es[c.image] # None

\* On its way from the project to the runtime an image keeps to files of its own
\* workflow: in the directory, the local image or archive, the build, the registry.
ImagesOK ==
    /\ \A w \in Workflows : dirs[w] # None => OwnFiles(w, dirs[w], dirs[Custom])
    /\ \A t \in Tags : OwnFiles(t[1], staged[t], dirs[Custom])
    /\ \A t \in Tags : ecr[t] # None => OwnFiles(t[1], ecr[t], dirs[Custom])
    /\ \A b \in DOMAIN builds :
           /\ OwnFiles(builds[b].tag[1], builds[b].files, dirs[Custom])
           /\ builds[b].status = "SUCCEEDED" => ecr[builds[b].tag] # None
    /\ \A w \in Workflows :
           LET runtime == runtimes[Sanitized[w]]
           IN  runtime # None =>
                   runtime.image[1] \in SharesRuntime(w) /\ ecr[runtime.image] # None
    /\ \A r \in ran : \E w \in SharesRuntime(r[1]) : OwnFiles(w, r[2], dirs[Custom])

ImageInv ==
    /\ RecordInv
    /\ ecr \in [Tags -> Content]
    /\ \A p \in Procs : ImageAt(cmd[p], dirs, builds, ecr)
    /\ ImagesOK

\* What was built, pushed or put in the directory of --build-dir stays.
Stays ==
    /\ UNCHANGED setting
    /\ dirs[Custom] # None => dirs'[Custom] # None /\ dirs[Custom] \subseteq dirs'[Custom]
    /\ \A d \in Workflows \cup {Custom} : dirs[d] # None => dirs'[d] # None
    /\ \A t \in Tags : ecr[t] # None => ecr'[t] # None
    /\ DOMAIN builds \subseteq DOMAIN builds' /\ \A b \in DOMAIN builds : builds'[b].tag = builds[b].tag

LEMMA Grown ==
    ASSUME Stays, NEW w, NEW files, OwnFiles(w, files, dirs[Custom])
    PROVE  OwnFiles(w, files, dirs'[Custom])
  BY DEF Stays, OwnFiles

LEMMA ImageInit == Init => ImageInv
<1>. SUFFICES ASSUME Init PROVE ImageInv
  OBVIOUS
<1>1. \A p \in Procs : cmd[p].at = "idle"
  BY DEF Init, Idle, Command
<1>2. ecr \in [Tags -> Content]
  BY NoContent DEF Init
<1>3. \A p \in Procs : ImageAt(cmd[p], dirs, builds, ecr)
  BY <1>1 DEF ImageAt, Tagged, Named
<1>4. \A t \in Tags : OwnFiles(t[1], staged[t], dirs[Custom])
  <2>1. {} # None
    BY DeploymentAssumption
  <2>. QED
    BY <2>1 DEF Init, OwnFiles
<1>5. ImagesOK
  BY <1>4 DEF Init, ImagesOK, RuntimeNames
<1>. QED
  BY <1>2, <1>3, <1>5, RecordInit DEF ImageInv

\* A step of one process: the others have what they had.
LEMMA ImageStep ==
    ASSUME ImageInv, RecordInv', Stays, ecr' \in [Tags -> Content], ImagesOK',
           NEW p \in Procs, NEW d, cmd' = [cmd EXCEPT ![p] = d], ImageAt(d, dirs', builds', ecr')
    PROVE  ImageInv'
<1>1. cmd'[p] = d /\ \A q \in Procs \ {p} : cmd'[q] = cmd[q]
  BY Facts DEF ImageInv, RecordInv
<1>2. ASSUME NEW q \in Procs \ {p} PROVE ImageAt(cmd'[q], dirs', builds', ecr')
  <2>. DEFINE c == cmd[q]
  <2>1. cmd'[q] = c /\ ImageAt(c, dirs, builds, ecr)
    BY <1>1 DEF ImageInv
  <2>2. /\ c.at = "stage" => c.dir \in Workflows \cup {Custom}
        /\ c.at \in Named => c.image \in Tags
    BY Facts DEF ImageInv, RecordInv, IInv, ProcOK
  <2>. HIDE DEF c
  <2>. QED
    BY <2>1, <2>2 DEF ImageAt, Stays, Named
<1>3. ecr' \in [Tags' -> Content']
  BY DEF Stays, Tags, Content
<1>. QED
  BY <1>1, <1>2, <1>3 DEF ImageInv

\* The same where the images stay as they are, and what runs and has run.
LEMMA ImagesAlone ==
    ASSUME ImageInv, RecordInv', UNCHANGED <<setting, dirs, images, builds, runtimes, ran>>,
           NEW p \in Procs, NEW d, cmd' = [cmd EXCEPT ![p] = d], ImageAt(d, dirs, builds, ecr)
    PROVE  ImageInv'
<1>1. Stays /\ ecr' \in [Tags -> Content] /\ ImagesOK' /\ ImageAt(d, dirs', builds', ecr')
  BY DEF ImageInv, Stays, ImagesOK, images, Tags
<1>. QED
  BY <1>1, ImageStep

\* A command that has ended, or a `run`, has no image of its own.
LEMMA NoImage ==
    ASSUME NEW d, d.at \in {"idle", "invoke"}, NEW ds, NEW bs, NEW es
    PROVE  ImageAt(d, ds, bs, es)
  BY DEF ImageAt, Tagged, Named

\* What a process at its label knows of its image.
LEMMA ImageFacts ==
    ASSUME ImageInv, NEW p \in Procs, cmd[p].at \notin {"idle", "invoke"}
    PROVE  LET c == cmd[p]
           IN  /\ c \in Commands /\ c.w \in Workflows
               /\ c.dir \in Workflows \cup {Custom} /\ c.dir \in {c.w, Custom}
               /\ c.at = "stage" => dirs[c.dir] # None
               /\ c.at \in Tagged => c.tag \in Tags /\ c.tag[1] = c.w
               /\ c.at \in Named => c.image \in Tags /\ c.image[1] = c.w
               /\ c.at = "poll" => c.build \in DOMAIN builds /\ builds[c.build].tag = c.image
               /\ c.at \in {"create", "update", "record"} => ecr[c.image] # None
               /\ Stamp(p) \in Tags /\ Stamp(p)[1] = c.w
<1>1. cmd[p] \in Commands /\ ProcOK(p) /\ cmd[p].w \in Workflows /\ now \in 0 .. setting.seconds
  BY DEF ImageInv, RecordInv, IInv, TypeOK, DataOK, ProcOK
<1>2. Stamp(p) \in Tags /\ Stamp(p)[1] = cmd[p].w
  BY <1>1 DEF Stamp, Tags
<1>. QED
  BY <1>1, <1>2 DEF ImageInv, ImageAt, ProcOK

LEMMA ImageAloneOK ==
    ASSUME ImageInv, RecordInv', NEW p \in Procs,
           \/ Deploy(p) \/ Run(p) \/ EnsureRole(p) \/ AttachPolicy(p) \/ EnsureProject(p)
           \/ Poll(p) \/ Record(p) \/ Breaks(p)
    PROVE  ImageInv'
<1>. DEFINE c == cmd[p]
<1>1. UNCHANGED <<setting, dirs, images, builds, runtimes, ran>>
  BY DEF Deploy, Run, EnsureRole, AttachPolicy, EnsureProject, Poll, Record, Breaks, aws, history
<1>2. CASE Ends(p)
  <2>1. cmd' = [cmd EXCEPT ![p] = Idle] /\ Idle.at = "idle"
    BY <1>2 DEF Ends, Idle, Command
  <2>2. ImageAt(Idle, dirs, builds, ecr)
    BY <2>1, NoImage
  <2>. QED
    BY <1>1, <2>1, <2>2, ImagesAlone
<1>3. CASE Run(p)
  <2>1. PICK w \in setting.names : cmd' = [cmd EXCEPT ![p] = Command("invoke", w, None, FALSE, None)]
    BY <1>3 DEF Run
  <2>. DEFINE d == Command("invoke", w, None, FALSE, None)
  <2>2. d.at = "invoke"
    BY DEF Command
  <2>3. ImageAt(d, dirs, builds, ecr)
    BY <2>2 DEF ImageAt, Tagged, Named
  <2>. QED
    BY <1>1, <2>1, <2>3, ImagesAlone
<1>4. CASE Deploy(p)
  <2>1. PICK w \in setting.names, dir \in {None, Custom}, over \in BOOLEAN, role \in {None, Given} :
            cmd' = [cmd EXCEPT ![p] =
                 Command(IF role = None THEN "role" ELSE "prepare", w,
                         IF dir = None THEN w ELSE dir, over, IF role = None THEN w ELSE role)]
    BY <1>4 DEF Deploy
  <2>. DEFINE d == Command(IF role = None THEN "role" ELSE "prepare", w,
                           IF dir = None THEN w ELSE dir, over, IF role = None THEN w ELSE role)
  <2>2. d.at \in {"role", "prepare"} /\ d.dir \in {d.w, Custom}
    BY DEF Command
  <2>3. ImageAt(d, dirs, builds, ecr)
    BY <2>2 DEF ImageAt, Tagged, Named
  <2>. QED
    BY <1>1, <2>1, <2>3, ImagesAlone
<1>5. ASSUME c.at \notin {"idle", "invoke"}, NEW label \in {"policies", "prepare", "start", "create"},
             Goes(p, label), label = "start" => c.at = "project",
             label = "create" => c.at = "poll" /\ builds[c.build].status = "SUCCEEDED"
      PROVE  ImageInv'
  <2>. DEFINE d == [c EXCEPT !.at = label]
  <2>1. c \in Commands
    BY <1>5, ImageFacts
  <2>2. /\ cmd' = [cmd EXCEPT ![p] = d] /\ d.at = label /\ d.w = c.w /\ d.dir = c.dir
        /\ d.tag = c.tag /\ d.image = c.image /\ d.build = c.build
    BY <1>5, <2>1 DEF Goes, Commands
  <2>3. label = "create" => ecr[c.image] # None
    BY <1>5, ImageFacts DEF ImageInv, ImagesOK
  <2>4. /\ c.dir \in {c.w, Custom}
        /\ label \in Tagged => c.tag[1] = c.w
        /\ label \in Named => c.image[1] = c.w
    BY <1>5, ImageFacts DEF Tagged, Named
  <2>. HIDE DEF d, c
  <2>5. ImageAt(d, dirs, builds, ecr)
    BY <2>2, <2>3, <2>4 DEF ImageAt
  <2>. QED
    BY <1>1, <2>2, <2>5, ImagesAlone
<1>6. CASE AttachPolicy(p) /\ UNCHANGED cmd
  <2>1. cmd' = [cmd EXCEPT ![p] = c] /\ ImageAt(c, dirs, builds, ecr)
    BY <1>6, Facts DEF ImageInv, RecordInv
  <2>. QED
    BY <1>1, <2>1, ImagesAlone
<1>. QED
  BY <1>2, <1>3, <1>4, <1>5, <1>6
     DEF EnsureRole, AttachPolicy, EnsureProject, Poll, Record, Breaks, At

\* The build directory has the project's files, and what it had.
LEMMA PreparesOK == ASSUME ImageInv, RecordInv', NEW p \in Procs, Prepare(p) PROVE ImageInv'
<1>. DEFINE c == cmd[p]
            was == IF dirs[c.dir] = None THEN {} ELSE dirs[c.dir]
<1>1. c.at = "prepare" /\ UNCHANGED <<setting, images, builds, runtimes, ran>>
  BY DEF Prepare, At, aws, history
<1>2. c \in Commands /\ c.w \in Workflows /\ c.dir \in {c.w, Custom} /\ Stamp(p)[1] = c.w
  BY <1>1, ImageFacts
<1>3. /\ dirs \in [Workflows \cup {Custom} -> Content] /\ source \in [Workflows -> SUBSET Files]
      /\ Custom \notin Workflows
  BY DeploymentAssumption DEF ImageInv, RecordInv, IInv, TypeOK, DataOK
<1>4. PICK files : /\ dirs' = [dirs EXCEPT ![c.dir] = files]
                   /\ was \subseteq files /\ files \subseteq was \cup ({c.w} \X Files)
  BY <1>2, <1>3 DEF Prepare, FilesOf
<1>5. files # None
  <2>1. files \subseteq Workflows \X Files
    BY <1>2, <1>3, <1>4 DEF Content
  <2>. QED
    BY <2>1, DeploymentAssumption
<1>6. /\ dirs'[c.dir] = files
      /\ \A d \in (Workflows \cup {Custom}) \ {c.dir} : dirs'[d] = dirs[d]
  BY <1>2, <1>3, <1>4
<1>7. Stays
  BY <1>1, <1>2, <1>4, <1>5, <1>6 DEF Stays, images
<1>8. \A w \in Workflows : dirs'[w] # None => OwnFiles(w, dirs'[w], dirs'[Custom])
  <2>. SUFFICES ASSUME NEW w \in Workflows, dirs'[w] # None
                PROVE  OwnFiles(w, dirs'[w], dirs'[Custom])
    OBVIOUS
  <2>1. dirs[w] # None => OwnFiles(w, dirs[w], dirs'[Custom])
    BY <1>7, Grown DEF ImageInv, ImagesOK
  <2>2. CASE w # c.dir
    BY <1>6, <2>1, <2>2
  <2>3. CASE w = c.dir
    <3>1. c.w = w /\ dirs'[w] = files
      BY <1>2, <1>3, <1>6, <2>3
    <3>. QED
      BY <1>4, <1>5, <2>1, <2>3, <3>1 DEF OwnFiles
  <2>. QED
    BY <2>2, <2>3
<1>9. ImagesOK'
  <2>1. Tags' = Tags /\ UNCHANGED <<ecr, staged>>
    BY <1>1 DEF Tags, images
  <2>. QED
    BY <1>1, <1>7, <1>8, <2>1, Grown DEF ImageInv, ImagesOK
<1>10. ecr' \in [Tags -> Content]
  BY <1>1 DEF ImageInv, images
<1>11. CASE Ends(p)
  <2>1. cmd' = [cmd EXCEPT ![p] = Idle] /\ Idle.at = "idle"
    BY <1>11 DEF Ends, Idle, Command
  <2>2. ImageAt(Idle, dirs', builds', ecr')
    BY <2>1, NoImage
  <2>. QED
    BY <1>7, <1>9, <1>10, <2>1, <2>2, ImageStep
<1>12. CASE ~ Ends(p)
  <2>. DEFINE d == [c EXCEPT !.at = "stage", !.tag = Stamp(p)]
  <2>1. /\ cmd' = [cmd EXCEPT ![p] = d] /\ d.at = "stage" /\ d.w = c.w /\ d.dir = c.dir
        /\ d.tag = Stamp(p)
    BY <1>2, <1>12 DEF Prepare, Commands
  <2>2. ImageAt(d, dirs', builds', ecr')
    BY <1>2, <1>5, <1>6, <2>1 DEF ImageAt, Tagged, Named
  <2>. QED
    BY <1>7, <1>9, <1>10, <2>1, <2>2, ImageStep
<1>. QED
  BY <1>11, <1>12

\* The image, or the archive, has what the directory has.
LEMMA StagesOK == ASSUME ImageInv, RecordInv', NEW p \in Procs, Stage(p) PROVE ImageInv'
<1>. DEFINE c == cmd[p]
            d == [c EXCEPT !.at = IF Remote THEN "project" ELSE "push",
                           !.image = IF Remote THEN Stamp(p) ELSE None]
<1>1. /\ c.at = "stage" /\ UNCHANGED <<setting, dirs, ecr, builds, runtimes, ran>>
      /\ staged' = [staged EXCEPT ![c.tag] = dirs[c.dir]] /\ cmd' = [cmd EXCEPT ![p] = d]
  BY DEF Stage, At, aws, history
<1>2. /\ c \in Commands /\ c.w \in Workflows /\ c.dir \in {c.w, Custom} /\ dirs[c.dir] # None
      /\ c.tag \in Tags /\ c.tag[1] = c.w /\ Stamp(p)[1] = c.w
  BY <1>1, ImageFacts DEF Tagged
<1>3. Stays /\ ecr' \in [Tags -> Content]
  BY <1>1 DEF Stays, ImageInv
<1>4. OwnFiles(c.w, dirs[c.dir], dirs[Custom])
  BY <1>2 DEF ImageInv, ImagesOK, OwnFiles
<1>5. \A t \in Tags : OwnFiles(t[1], staged'[t], dirs[Custom])
  <2>1. staged \in [Tags -> Content]
    BY DEF ImageInv, RecordInv, IInv, TypeOK, DataOK
  <2>. QED
    BY <1>1, <1>2, <1>4, <2>1 DEF ImageInv, ImagesOK
<1>6. ImagesOK'
  BY <1>1, <1>5 DEF ImageInv, ImagesOK, Tags
<1>7. /\ d.at \in {"project", "push"} /\ (d.at = "project" => d.image = Stamp(p))
      /\ d.w = c.w /\ d.dir = c.dir /\ d.tag = c.tag
  BY <1>2 DEF Commands
<1>. HIDE DEF d
<1>8. ImageAt(d, dirs', builds', ecr')
  BY <1>2, <1>7 DEF ImageAt, Tagged, Named
<1>. QED
  BY <1>1, <1>3, <1>6, <1>8, ImageStep

\* The image that has the tag is pushed: one of this workflow.
LEMMA PushesOK == ASSUME ImageInv, RecordInv', NEW p \in Procs, Push(p) PROVE ImageInv'
<1>. DEFINE c == cmd[p]
            d == [c EXCEPT !.at = "create", !.image = Stamp(p)]
<1>1. /\ c.at = "push" /\ UNCHANGED <<setting, dirs, staged, builds, runtimes, ran>>
      /\ ecr' = [ecr EXCEPT ![Stamp(p)] = staged[c.tag]] /\ cmd' = [cmd EXCEPT ![p] = d]
  BY DEF Push, At, aws, history
<1>2. /\ c \in Commands /\ c.dir \in {c.w, Custom} /\ c.tag \in Tags /\ c.tag[1] = c.w
      /\ Stamp(p) \in Tags /\ Stamp(p)[1] = c.w
  BY <1>1, ImageFacts DEF Tagged
<1>3. staged[c.tag] \in Content /\ ecr \in [Tags -> Content]
  BY <1>2 DEF ImageInv, RecordInv, IInv, TypeOK, DataOK
<1>4. OwnFiles(c.w, staged[c.tag], dirs[Custom])
  <2>1. OwnFiles(c.tag[1], staged[c.tag], dirs[Custom])
    BY <1>2 DEF ImageInv, ImagesOK
  <2>. QED
    BY <1>2, <2>1
<1>5. /\ ecr' \in [Tags -> Content] /\ ecr'[Stamp(p)] = staged[c.tag]
      /\ \A t \in Tags \ {Stamp(p)} : ecr'[t] = ecr[t]
  BY <1>1, <1>2, <1>3
<1>6. Stays
  BY <1>1, <1>4, <1>5 DEF Stays, OwnFiles
<1>7. \A t \in Tags : ecr'[t] # None => OwnFiles(t[1], ecr'[t], dirs[Custom])
  BY <1>2, <1>4, <1>5 DEF ImageInv, ImagesOK
<1>8. ImagesOK'
  <2>1. /\ \A w \in Workflows : runtimes[Sanitized[w]] # None => runtimes[Sanitized[w]].image \in Tags
        /\ \A b \in DOMAIN builds : builds[b].tag \in Tags
    <3>1. builds \in Seq(Build) /\ runtimes \in [RuntimeNames -> [image : Tags, role : Role] \cup {None}]
      BY DEF ImageInv, RecordInv, IInv, TypeOK, DataOK
    <3>2. \A w \in Workflows : runtimes[Sanitized[w]] # None
                                   => runtimes[Sanitized[w]] \in [image : Tags, role : Role]
      BY <3>1 DEF RuntimeNames
    <3>3. \A b \in DOMAIN builds : builds[b] \in Build
      BY <3>1
    <3>. QED
      BY <3>2, <3>3 DEF Build
  <2>. QED
    BY <1>1, <1>6, <1>7, <2>1 DEF ImageInv, ImagesOK, Tags, Stays
<1>9. /\ d.at = "create" /\ d.w = c.w /\ d.dir = c.dir /\ d.image = Stamp(p)
  BY <1>2 DEF Commands
<1>10. ecr'[Stamp(p)] # None
  BY <1>4, <1>5 DEF OwnFiles
<1>. HIDE DEF d
<1>11. ImageAt(d, dirs', builds', ecr')
  BY <1>2, <1>9, <1>10 DEF ImageAt, Tagged, Named
<1>. QED
  BY <1>1, <1>5, <1>6, <1>8, <1>11, ImageStep

\* A build starts from the archive, towards the tag.
LEMMA BuildsOK == ASSUME ImageInv, RecordInv', NEW p \in Procs, StartBuild(p) PROVE ImageInv'
<1>. DEFINE c == cmd[p]
            b == [tag |-> c.image, files |-> staged[c.tag], role |-> project, status |-> "IN_PROGRESS"]
            d == [c EXCEPT !.at = "poll", !.build = Len(builds')]
<1>1. /\ c.at = "start" /\ UNCHANGED <<setting, dirs, staged, ecr, runtimes, ran>>
      /\ builds' = Append(builds, b) /\ cmd' = [cmd EXCEPT ![p] = d]
  BY DEF StartBuild, At, images, history
<1>2. /\ c \in Commands /\ c.dir \in {c.w, Custom} /\ c.tag \in Tags /\ c.tag[1] = c.w
      /\ c.image \in Tags /\ c.image[1] = c.w
  BY <1>1, ImageFacts DEF Tagged, Named
<1>3. builds \in Seq(Build)
  BY DEF ImageInv, RecordInv, IInv, TypeOK, DataOK
<1>. HIDE DEF b
<1>4. /\ DOMAIN builds \subseteq DOMAIN builds' /\ Len(builds') \in DOMAIN builds'
      /\ builds'[Len(builds')] = b
      /\ \A n \in DOMAIN builds' : builds'[n] = b \/ (n \in DOMAIN builds /\ builds'[n] = builds[n])
      /\ \A n \in DOMAIN builds : builds'[n] = builds[n]
  BY <1>1, <1>3
<1>5. Stays /\ ecr' \in [Tags -> Content]
  BY <1>1, <1>4 DEF Stays, ImageInv
<1>6. OwnFiles(b.tag[1], b.files, dirs[Custom]) /\ b.status # "SUCCEEDED" /\ b.tag = c.image
  <2>1. OwnFiles(c.tag[1], staged[c.tag], dirs[Custom])
    BY <1>2 DEF ImageInv, ImagesOK
  <2>. QED
    BY <1>2, <2>1 DEF b
<1>7. ImagesOK'
  <2>1. \A n \in DOMAIN builds' :
            /\ OwnFiles(builds'[n].tag[1], builds'[n].files, dirs[Custom])
            /\ builds'[n].status = "SUCCEEDED" => ecr[builds'[n].tag] # None
    BY <1>4, <1>6 DEF ImageInv, ImagesOK
  <2>. QED
    BY <1>1, <2>1 DEF ImageInv, ImagesOK, Tags
<1>8. /\ d.at = "poll" /\ d.w = c.w /\ d.dir = c.dir /\ d.image = c.image /\ d.build = Len(builds')
  BY <1>2 DEF Commands
<1>. HIDE DEF d
<1>9. ImageAt(d, dirs', builds', ecr')
  BY <1>2, <1>4, <1>6, <1>8 DEF ImageAt, Tagged, Named
<1>. QED
  BY <1>1, <1>5, <1>7, <1>9, ImageStep

\* The runtime takes an image, that was pushed, of a workflow of its name.
LEMMA TakesOK ==
    ASSUME ImageInv, RecordInv', NEW p \in Procs, CreateRuntime(p) \/ UpdateRuntime(p)
    PROVE  ImageInv'
<1>. DEFINE c == cmd[p]
            r == [image |-> c.image, role |-> c.role]
<1>1. /\ c.at \in {"create", "update"} /\ UNCHANGED <<setting, dirs, images, builds, ran>>
      /\ UNCHANGED runtimes \/ runtimes' = [runtimes EXCEPT ![Sanitized[c.w]] = r]
      /\ \E label \in {"update", "record"} : cmd' = [cmd EXCEPT ![p].at = label]
  BY DEF CreateRuntime, UpdateRuntime, At, Takes, Goes
<1>2. /\ c \in Commands /\ c.w \in Workflows /\ c.dir \in {c.w, Custom}
      /\ c.image \in Tags /\ c.image[1] = c.w /\ ecr[c.image] # None
  BY <1>1, ImageFacts DEF Named
<1>3. Stays /\ ecr' \in [Tags -> Content]
  BY <1>1 DEF Stays, ImageInv, images
<1>4. ASSUME NEW w \in Workflows, runtimes'[Sanitized[w]] # None
      PROVE  /\ runtimes'[Sanitized[w]].image[1] \in SharesRuntime(w)
             /\ ecr[runtimes'[Sanitized[w]].image] # None
  <2>1. runtimes'[Sanitized[w]] = runtimes[Sanitized[w]]
            \/ (Sanitized[w] = Sanitized[c.w] /\ runtimes'[Sanitized[w]] = r)
    BY <1>1, <1>2, Facts DEF ImageInv, RecordInv, RuntimeNames
  <2>2. CASE runtimes'[Sanitized[w]] = runtimes[Sanitized[w]]
    BY <1>4, <2>2 DEF ImageInv, ImagesOK
  <2>3. CASE Sanitized[w] = Sanitized[c.w] /\ runtimes'[Sanitized[w]] = r
    BY <1>2, <2>3 DEF SharesRuntime
  <2>. QED
    BY <2>1, <2>2, <2>3
<1>5. ImagesOK'
  BY <1>1, <1>4 DEF ImageInv, ImagesOK, images, Tags, SharesRuntime
<1>6. PICK label \in {"update", "record"} : cmd' = [cmd EXCEPT ![p].at = label]
  BY <1>1
<1>. DEFINE d == [c EXCEPT !.at = label]
<1>7. /\ cmd' = [cmd EXCEPT ![p] = d]
      /\ d.at = label /\ d.w = c.w /\ d.dir = c.dir /\ d.image = c.image
  BY <1>2, <1>6 DEF Commands
<1>. HIDE DEF d
<1>8. ImageAt(d, dirs', builds', ecr')
  BY <1>1, <1>2, <1>7 DEF ImageAt, Tagged, Named, images
<1>. QED
  BY <1>3, <1>5, <1>7, <1>8, ImageStep

\* What is run is the image of the workflow's runtime.
LEMMA InvokesOK == ASSUME ImageInv, RecordInv', NEW p \in Procs, Invoke(p) PROVE ImageInv'
<1>. DEFINE w == cmd[p].w
            runtime == runtimes[Sanitized[w]]
            v == runtime.image[1]
            r == <<w, ecr[runtime.image]>>
<1>1. /\ cmd[p].at = "invoke" /\ UNCHANGED <<setting, dirs, images, builds, runtimes>>
      /\ ran' = ran \cup {r} /\ cmd' = [cmd EXCEPT ![p] = Idle]
  BY DEF Invoke, At, aws, Ends
<1>2. w \in Workflows /\ runtime # None
  BY <1>1, Facts DEF ImageInv, RecordInv, RuntimesStay
<1>3. runtime.image \in Tags /\ v \in SharesRuntime(w) /\ ecr[runtime.image] # None
  <2>1. Sanitized[w] \in RuntimeNames
    BY <1>2 DEF RuntimeNames
  <2>2. runtime \in [image : Tags, role : Role]
    BY <1>2, <2>1, Facts DEF ImageInv, RecordInv
  <2>. QED
    BY <1>2, <2>2 DEF ImageInv, ImagesOK
<1>4. OwnFiles(v, ecr[runtime.image], dirs[Custom])
  BY <1>3 DEF ImageInv, ImagesOK
<1>. HIDE DEF v, runtime
<1>5. ImagesOK'
  <2>1. \A x \in ran' : \E u \in SharesRuntime(x[1]) : OwnFiles(u, x[2], dirs[Custom])
    BY <1>1, <1>3, <1>4 DEF ImageInv, ImagesOK
  <2>. QED
    BY <1>1, <2>1 DEF ImageInv, ImagesOK, images, Tags, SharesRuntime
<1>6. Stays /\ ecr' \in [Tags -> Content]
  BY <1>1 DEF Stays, ImageInv, images
<1>7. ImageAt(Idle, dirs', builds', ecr')
  BY NoImage DEF Idle, Command
<1>. QED
  BY <1>1, <1>5, <1>6, <1>7, ImageStep

\* A build that ends well pushes its image.
LEMMA BuildEndsOK ==
    ASSUME ImageInv, RecordInv', NEW b \in DOMAIN builds, BuildEnds(b)
    PROVE  ImageInv'
<1>1. builds \in Seq(Build) /\ ecr \in [Tags -> Content] /\ builds[b] \in Build
  BY DEF ImageInv, RecordInv, IInv, TypeOK, DataOK
<1>2. builds[b].tag \in Tags /\ builds[b].files \in Content
  BY <1>1 DEF Build
<1>3. PICK status \in {"SUCCEEDED", "FAILED"} :
          /\ builds' = [builds EXCEPT ![b].status = status]
          /\ status = "SUCCEEDED" => ecr' = [ecr EXCEPT ![builds[b].tag] = builds[b].files]
          /\ status = "FAILED" => UNCHANGED ecr
  BY DEF BuildEnds
<1>4. UNCHANGED <<setting, dirs, staged, runtimes, cmd, ran>>
  BY DEF BuildEnds, history
<1>5. /\ DOMAIN builds' = DOMAIN builds
      /\ \A n \in DOMAIN builds : builds'[n].tag = builds[n].tag /\ builds'[n].files = builds[n].files
      /\ \A n \in DOMAIN builds \ {b} : builds'[n] = builds[n]
      /\ builds'[b].status = status
  BY <1>1, <1>3 DEF Build
<1>6. OwnFiles(builds[b].tag[1], builds[b].files, dirs[Custom])
  BY DEF ImageInv, ImagesOK
<1>7. /\ ecr' \in [Tags -> Content]
      /\ \A t \in Tags : ecr[t] # None => ecr'[t] # None
      /\ \A t \in Tags : ecr'[t] = ecr[t] \/ (t = builds[b].tag /\ ecr'[t] = builds[b].files)
      /\ status = "SUCCEEDED" => ecr'[builds[b].tag] # None
  BY <1>1, <1>2, <1>3, <1>6 DEF OwnFiles
<1>8. \A t \in Tags : ecr'[t] # None => OwnFiles(t[1], ecr'[t], dirs[Custom])
  BY <1>6, <1>7 DEF ImageInv, ImagesOK
<1>9. \A n \in DOMAIN builds' :
          /\ OwnFiles(builds'[n].tag[1], builds'[n].files, dirs[Custom])
          /\ builds'[n].status = "SUCCEEDED" => ecr'[builds'[n].tag] # None
  <2>1. \A n \in DOMAIN builds : builds[n].tag \in Tags
    <3>1. \A n \in DOMAIN builds : builds[n] \in Build
      BY <1>1
    <3>. QED
      BY <3>1 DEF Build
  <2>. QED
    BY <1>5, <1>7, <2>1 DEF ImageInv, ImagesOK
<1>10. \A w \in Workflows :
           runtimes[Sanitized[w]] # None =>
               /\ runtimes[Sanitized[w]].image[1] \in SharesRuntime(w)
               /\ ecr'[runtimes[Sanitized[w]].image] # None
  <2>1. ASSUME NEW w \in Workflows, runtimes[Sanitized[w]] # None
        PROVE  runtimes[Sanitized[w]].image \in Tags
    BY <2>1, Facts DEF ImageInv, RecordInv, RuntimeNames
  <2>. QED
    BY <1>7, <2>1 DEF ImageInv, ImagesOK
<1>11. ImagesOK'
  BY <1>4, <1>8, <1>9, <1>10 DEF ImageInv, ImagesOK, Tags, SharesRuntime
<1>12. \A p \in Procs : ImageAt(cmd'[p], dirs', builds', ecr')
  <2>. SUFFICES ASSUME NEW p \in Procs PROVE ImageAt(cmd[p], dirs, builds', ecr')
    BY <1>4
  <2>1. ImageAt(cmd[p], dirs, builds, ecr) /\ (cmd[p].at \in Named => cmd[p].image \in Tags)
    BY Facts DEF ImageInv, RecordInv
  <2>. QED
    BY <1>5, <1>7, <2>1 DEF ImageAt, Named
<1>. QED
  BY <1>4, <1>7, <1>11, <1>12 DEF ImageInv, Tags, Content

LEMMA ImageInvStep == ImageInv /\ [Next]_vars => ImageInv'
<1>. SUFFICES ASSUME ImageInv, [Next]_vars PROVE ImageInv'
  OBVIOUS
<1>1. RecordInv'
  BY RecordStep DEF ImageInv
<1>2. CASE UNCHANGED <<setting, dirs, images, builds, runtimes, ran, cmd>>
  BY <1>1, <1>2 DEF ImageInv, ImagesOK, images, Tags, Content
<1>3. ASSUME NEW p \in Procs, Deploy(p) \/ Run(p) \/ Step(p) \/ Breaks(p)
      PROVE  ImageInv'
  BY <1>1, <1>3, ImageAloneOK, PreparesOK, StagesOK, PushesOK, BuildsOK, TakesOK, InvokesOK DEF Step
<1>4. ASSUME NEW b \in DOMAIN builds, BuildEnds(b) PROVE ImageInv'
  BY <1>1, <1>4, BuildEndsOK
<1>. QED
  BY <1>2, <1>3, <1>4 DEF Next, vars, aws, history, Edit, Tick

\* A runtime, and whatever `run` ran, has an image that was pushed, with files only
\* of a workflow of the runtime's name or of the directory given by --build-dir:
\* whatever the deployments of this and of other workflows do at the same time.
THEOREM ImagesAreOwn == Spec => []OwnImage
<1>1. ImageInv => OwnImage
  <2>. SUFFICES ASSUME ImageInv PROVE OwnImage
    OBVIOUS
  <2>1. \A w, files : OwnFiles(w, files, dirs[Custom]) =>
            /\ files # None
            /\ files \subseteq {w} \X Files \cup (IF dirs[Custom] = None THEN {} ELSE dirs[Custom])
    BY DEF OwnFiles
  <2>2. ASSUME NEW w \in Workflows, runtimes[Sanitized[w]] # None
        PROVE  LET runtime == runtimes[Sanitized[w]]
               IN  /\ runtime.image[1] \in SharesRuntime(w)
                   /\ OwnFiles(runtime.image[1], ecr[runtime.image], dirs[Custom])
    <3>1. runtimes[Sanitized[w]].image \in Tags
      BY <2>2, Facts DEF ImageInv, RecordInv, RuntimeNames
    <3>. QED
      BY <2>2, <3>1 DEF ImageInv, ImagesOK
  <2>3. \A r \in ran : \E w \in SharesRuntime(r[1]) : OwnFiles(w, r[2], dirs[Custom])
    BY DEF ImageInv, ImagesOK
  <2>. QED
    BY <2>1, <2>2, <2>3 DEF OwnImage
<1>. QED
  BY <1>1, ImageInit, ImageInvStep, PTL DEF Spec
=============================================================================
