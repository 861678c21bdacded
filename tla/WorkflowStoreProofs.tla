------------------------ MODULE WorkflowStoreProofs -------------------------
(***************************************************************************)
(* The state file for any number of processes, workflows and commands: its *)
(* lock excludes, once the lock's owner died it excludes everyone, and with*)
(* one command at a time no save is lost and the file agrees with the      *)
(* cloud.                                                                  *)
(***************************************************************************)
EXTENDS WorkflowStore, TLAPS

\* The processes are at some step of a command.
PcOK == pc \in [Procs -> {"idle", "check", "aws", "load", "lock", "write", "unlock"}]

\* The steps other than those of a save leave its processes, the lock file and
\* the state file alone.
LEMMA OutsideSave ==
    ASSUME PcOK, NEW p \in Procs,
           Begin(p) \/ Check(p) \/ AwsDefine(p) \/ DefineSkipped(p) \/ AwsDeploy(p) \/ AwsDeployFails(p)
               \/ AwsCleanup(p) \/ Load(p) \/ LockTimeout(p)
    PROVE  /\ PcOK'
           /\ UNCHANGED <<file, lockFile, orphaned>>
           /\ \A q \in Procs : InSave(q)' <=> InSave(q)
<1>. USE DEF PcOK, InSave, Goto, Ends
<1>1. CASE Begin(p)
  BY <1>1 DEF Begin
<1>2. CASE Check(p)
  <2>1. /\ pc[p] = "check" /\ UNCHANGED <<file, lockFile, orphaned>>
        /\ \E label \in {"idle", "load", "aws"} : pc' = [pc EXCEPT ![p] = label]
    BY <1>2 DEF Check
  <2>. QED
    BY <2>1
<1>3. CASE AwsDefine(p)
  <2>1. /\ pc[p] = "aws" /\ UNCHANGED <<file, lockFile, orphaned>>
        /\ \E label \in {"idle", "load"} : pc' = [pc EXCEPT ![p] = label]
    BY <1>3 DEF AwsDefine
  <2>. QED
    BY <2>1
<1>4. CASE DefineSkipped(p) \/ AwsDeploy(p) \/ AwsDeployFails(p) \/ AwsCleanup(p)
  BY <1>4 DEF DefineSkipped, AwsDeploy, AwsDeployFails, AwsCleanup
<1>5. CASE Load(p)
  <2>1. /\ pc[p] = "load" /\ UNCHANGED <<file, lockFile, orphaned>>
        /\ \E label \in {"idle", "lock"} : pc' = [pc EXCEPT ![p] = label]
    BY <1>5 DEF Load
  <2>. QED
    BY <2>1
<1>6. CASE LockTimeout(p)
  BY <1>6 DEF LockTimeout
<1>. QED
  BY <1>1, <1>2, <1>3, <1>4, <1>5, <1>6

\* The lock excludes.
THEOREM MutualExclusion == Spec => [](PcOK /\ OneSaver)
<1>1. Init => PcOK /\ OneSaver
  BY DEF Init, PcOK, OneSaver, InSave
<1>2. PcOK /\ OneSaver /\ [Next]_vars => (PcOK /\ OneSaver)'
  <2>. SUFFICES ASSUME PcOK, OneSaver, [Next]_vars PROVE PcOK' /\ OneSaver'
    OBVIOUS
  <2>1. CASE UNCHANGED vars
    BY <2>1 DEF vars, PcOK, OneSaver, InSave
  <2>2. ASSUME NEW p \in Procs, Begin(p) \/ Step(p) \/ Crash(p)
        PROVE  PcOK' /\ OneSaver'
    <3>1. CASE Begin(p) \/ Check(p) \/ AwsDefine(p) \/ DefineSkipped(p) \/ AwsDeploy(p)
               \/ AwsDeployFails(p) \/ AwsCleanup(p) \/ Load(p) \/ LockTimeout(p)
      BY <3>1, OutsideSave DEF OneSaver
    <3>2. CASE Lock(p)
      BY <3>2 DEF Lock, Goto, PcOK, OneSaver, InSave
    <3>3. CASE Write(p)
      BY <3>3 DEF Write, Goto, PcOK, OneSaver, InSave
    <3>4. CASE Unlock(p)
      BY <3>4 DEF Unlock, Ends, Goto, PcOK, OneSaver, InSave
    <3>5. CASE Crash(p)
      <4>1. orphaned' => orphaned \/ InSave(p)
        BY <3>5 DEF Crash, InSave
      <4>. QED
        BY <3>5, <4>1 DEF Crash, Ends, Goto, PcOK, OneSaver, InSave
    <3>. QED
      BY <2>2, <3>1, <3>2, <3>3, <3>4, <3>5 DEF Step
  <2>. QED
    BY <2>1, <2>2 DEF Next
<1>. QED
  BY <1>1, <1>2, PTL DEF Spec

\* Once a process died while it saved, no command of any other changes the file.
THEOREM StaleLockFreezes == Spec => StaleLockFreezesStore
<1>1. PcOK /\ OneSaver /\ [Next]_vars => [orphaned => UNCHANGED file]_vars
  <2>. SUFFICES ASSUME PcOK, OneSaver, Next, orphaned PROVE UNCHANGED file
    BY DEF vars
  <2>1. PICK p \in Procs : Begin(p) \/ Step(p) \/ Crash(p)
    BY DEF Next
  <2>2. ~Write(p)
    BY DEF Write, OneSaver, InSave
  <2>3. CASE Lock(p) \/ Unlock(p) \/ Crash(p)
    BY <2>3 DEF Lock, Unlock, Crash
  <2>. QED
    BY <2>1, <2>2, <2>3, OutsideSave DEF Step
<1>. QED
  BY <1>1, MutualExclusion, PTL DEF Spec, StaleLockFreezesStore

-----------------------------------------------------------------------------
(* One command at a time.                                                  *)

Labels == {"idle", "check", "aws", "load", "lock", "write", "unlock"}
Record == [there : BOOLEAN, arn : Arns, image : Nat]

TypeOK ==
    /\ setting \in Setting
    /\ file \in [Names -> Record] /\ last \in [Names -> Record]
    /\ deploys \in Nat
    /\ pc \in [Procs -> Labels]
    /\ op \in [Procs -> Ops] /\ name \in [Procs -> Names]
    /\ mine \in [Procs -> Record] /\ snap \in [Procs -> [Names -> Record]]
    /\ \A p \in Procs : pc[p] # "idle" => p \in setting.procs

\* An entry's deployment has its runtime, an ARN that AWS knew its definition.
HasRuntime(n) == Unshared(n) => Sanitized[n] \in runtimes
Backed(e, n) == (e.image # 0 => HasRuntime(n)) /\ (e.arn = "known" => n \in defs)

\* What a command has seen to before it saves: its entry is still there if it needs
\* it, and what it is about to save is backed.
Prepared(p) ==
    /\ pc[p] = "aws" =>
           /\ op[p] \in {"create", "quick", "deploy", "cleanup"} /\ mine[p] = file[name[p]]
           /\ op[p] \in {"deploy", "cleanup"} => file[name[p]].there
    /\ pc[p] = "load" =>
           /\ op[p] \in {"create", "quick"} => Backed(mine[p], name[p])
           /\ op[p] = "update" => name[p] \in defs
           /\ op[p] = "deploy" => HasRuntime(name[p])
           /\ op[p] \notin {"create", "quick"} => file[name[p]].there
    /\ pc[p] \in {"lock", "write"} =>
           /\ Backed(snap[p][name[p]], name[p])
           /\ \A n \in Names \ {name[p]} : snap[p][n] = file[n]

\* A cleanup that has not saved yet: the entry is there, its resources are gone.
CleansUp(p, n) == pc[p] \in {"load", "lock", "write"} /\ op[p] = "cleanup" /\ name[p] = n

Solo ==
    /\ file = last
    /\ lockFile => \E p \in Procs : InSave(p)
    /\ \A p \in Procs : Prepared(p)
    /\ \A n \in Names : Backed(file[n], n) \/ \E p \in Procs : CleansUp(p, n)

SoloInv == TypeOK /\ (Alone => Solo)

LEMMA Goes ==
    ASSUME TypeOK, NEW p \in Procs, NEW l \in Labels, Goto(p, l)
    PROVE  /\ pc' \in [Procs -> Labels] /\ pc'[p] = l
           /\ \A q \in Procs \ {p} : pc'[q] = pc[q]
BY DEF TypeOK, Goto

LEMMA NoEntryOK == NoEntry \in Record
BY DEF NoEntry, Record, Arns

\* What is left to show of a command's step.
LEMMA SoloStep ==
    ASSUME TypeOK, Alone, NEW p \in setting.procs,
           \A q \in Procs \ {p} : pc'[q] = pc[q],
           file' = last', lockFile' => InSave(p)', Prepared(p)',
           \A n \in Names : Backed(file[n], n)' \/ CleansUp(p, n)'
    PROVE  Solo'
<1>1. p \in Procs /\ \A q \in Procs \ {p} : pc[q] = "idle"
  BY DEF TypeOK, Alone
<1>. QED
  BY <1>1 DEF Solo, Prepared

LEMMA SoloHere ==
    ASSUME TypeOK, Solo, Alone, NEW p \in Procs, pc[p] # "idle"
    PROVE  /\ p \in setting.procs /\ Prepared(p) /\ file = last /\ (lockFile => InSave(p))
           /\ ~Faults /\ ~Crashes
           /\ \A n \in Names : Backed(file[n], n) \/ CleansUp(p, n)
<1>1. \A q \in Procs \ {p} : pc[q] = "idle"
  BY DEF TypeOK, Alone
<1>. QED
  BY <1>1 DEF TypeOK, Solo, Alone, InSave, CleansUp

LEMMA AloneStays == ASSUME UNCHANGED setting PROVE Alone' <=> Alone
BY DEF Alone, Faults, Crashes

LEMMA BeginOK == ASSUME SoloInv, NEW p \in Procs, Begin(p), UNCHANGED setting PROVE SoloInv'
<1>1. /\ TypeOK /\ p \in setting.procs /\ pc[p] = "idle" /\ Goto(p, "check") /\ "check" \in Labels
      /\ UNCHANGED <<setting, file, lockFile, awsVars, mine, snap, last>>
  BY DEF SoloInv, Begin, Labels
<1>2. PICK o \in Ops, n \in Names : op' = [op EXCEPT ![p] = o] /\ name' = [name EXCEPT ![p] = n]
  BY <1>1 DEF Begin, TypeOK, Setting
<1>3. /\ pc' \in [Procs -> Labels] /\ pc'[p] = "check"
      /\ \A q \in Procs \ {p} : pc'[q] = pc[q]
  BY <1>1, Goes
<1>4. TypeOK'
  BY <1>1, <1>2, <1>3 DEF TypeOK, awsVars
<1>5. ASSUME Alone, Solo PROVE Solo'
  <2>1. \A q \in Procs : pc[q] = "idle"
    BY <1>1, <1>5 DEF TypeOK, Alone
  <2>2. file = last /\ ~lockFile /\ \A m \in Names : Backed(file[m], m)
    BY <1>5, <2>1 DEF Solo, InSave, CleansUp
  <2>3. Prepared(p)'
    BY <1>3 DEF Prepared
  <2>4. \A m \in Names : Backed(file[m], m)'
    BY <1>1, <2>2 DEF Backed, HasRuntime, awsVars
  <2>. QED
    BY <1>1, <1>3, <1>5, <2>2, <2>3, <2>4, SoloStep
<1>. QED
  BY <1>4, <1>5, AloneStays DEF SoloInv

LEMMA CheckOK == ASSUME SoloInv, NEW p \in Procs, Check(p), UNCHANGED setting PROVE SoloInv'
<1>. DEFINE e == file[name[p]]
            goesOn == CASE op[p] = "create" -> e.arn = "none"
                        [] op[p] = "quick"  -> ~e.there
                        [] op[p] = "update" -> e.there /\ name[p] \in defs
                        [] OTHER            -> e.there
            l == IF ~goesOn THEN "idle"
                 ELSE IF op[p] \in {"update", "delete"} THEN "load" ELSE "aws"
<1>1. /\ TypeOK /\ pc[p] = "check" /\ mine' = [mine EXCEPT ![p] = e] /\ Goto(p, l)
      /\ UNCHANGED <<setting, file, lockFile, awsVars, op, name, snap, last>>
  BY DEF SoloInv, Check
<1>2. e \in Record /\ op[p] \in Ops /\ name[p] \in Names /\ p \in setting.procs
  BY <1>1 DEF TypeOK
<1>3. /\ l \in {"idle", "load", "aws"}
      /\ l = "load" => op[p] \in {"update", "delete"} /\ e.there /\ (op[p] = "update" => name[p] \in defs)
      /\ l = "aws" => /\ op[p] \in {"create", "quick", "deploy", "cleanup"}
                      /\ op[p] \in {"deploy", "cleanup"} => e.there
  BY <1>2 DEF Ops
<1>. HIDE DEF l
<1>4. l \in Labels
  BY <1>3 DEF Labels
<1>5. /\ pc' \in [Procs -> Labels] /\ pc'[p] = l
      /\ \A q \in Procs \ {p} : pc'[q] = pc[q]
  BY <1>1, <1>4, Goes
<1>6. mine' \in [Procs -> Record] /\ mine'[p] = e
  BY <1>1, <1>2 DEF TypeOK
<1>7. TypeOK'
  BY <1>1, <1>2, <1>5, <1>6 DEF TypeOK, awsVars
<1>8. ASSUME Alone, Solo PROVE Solo'
  <2>1. /\ file = last /\ ~lockFile /\ \A n \in Names : Backed(file[n], n)
    BY <1>1, <1>8, SoloHere DEF InSave, CleansUp
  <2>2. Prepared(p)'
    BY <1>1, <1>3, <1>5, <1>6 DEF Prepared, awsVars
  <2>3. \A n \in Names : Backed(file[n], n)'
    BY <1>1, <2>1 DEF Backed, HasRuntime, awsVars
  <2>. QED
    BY <1>1, <1>2, <1>5, <1>8, <2>1, <2>2, <2>3, SoloStep
<1>. QED
  BY <1>7, <1>8, AloneStays DEF SoloInv

LEMMA AwsDefineOK == ASSUME SoloInv, NEW p \in Procs, AwsDefine(p), UNCHANGED setting PROVE SoloInv'
<1>1. /\ TypeOK /\ pc[p] = "aws" /\ op[p] \in {"create", "quick"}
      /\ UNCHANGED <<setting, file, lockFile, runtimes, deploys, op, name, snap, last>>
  BY DEF SoloInv, AwsDefine
<1>2. PICK ok \in IF Faults THEN BOOLEAN ELSE {TRUE}, found \in IF Faults THEN BOOLEAN ELSE {TRUE} :
          LET arn == IF ok THEN "known" ELSE IF op[p] = "quick" THEN "built" ELSE "none"
          IN  /\ defs' = IF ok THEN defs \cup {name[p]} ELSE defs
              /\ mine' = [mine EXCEPT ![p] =
                     IF @.there THEN [@ EXCEPT !.arn = arn] ELSE Fresh(arn)]
              /\ IF (mine[p].there /\ ~ok) \/ (op[p] = "quick" /\ ok /\ ~found)
                 THEN Ends(p) ELSE Goto(p, "load")
  BY DEF AwsDefine
<1>. DEFINE arn == IF ok THEN "known" ELSE IF op[p] = "quick" THEN "built" ELSE "none"
            e == IF mine[p].there THEN [mine[p] EXCEPT !.arn = arn] ELSE Fresh(arn)
            l == IF (mine[p].there /\ ~ok) \/ (op[p] = "quick" /\ ok /\ ~found)
                 THEN "idle" ELSE "load"
<1>3. mine[p] \in Record /\ p \in setting.procs /\ ok \in BOOLEAN /\ name[p] \in Names
  BY <1>1 DEF TypeOK
<1>4. e \in Record /\ (e.image = mine[p].image \/ e.image = 0)
  BY <1>3 DEF Record, Fresh, Arns
<1>5. mine' = [mine EXCEPT ![p] = e] /\ Goto(p, l) /\ l \in {"idle", "load"} /\ l \in Labels
  BY <1>2 DEF Ends, Labels
<1>. HIDE DEF e, l
<1>6. /\ pc' \in [Procs -> Labels] /\ pc'[p] = l
      /\ \A q \in Procs \ {p} : pc'[q] = pc[q]
  BY <1>1, <1>5, Goes
<1>7. mine' \in [Procs -> Record] /\ mine'[p] = e
  BY <1>1, <1>4, <1>5 DEF TypeOK
<1>8. TypeOK'
  BY <1>1, <1>3, <1>6, <1>7 DEF TypeOK
<1>9. ASSUME Alone, Solo PROVE Solo'
  <2>1. /\ file = last /\ ~lockFile /\ \A n \in Names : Backed(file[n], n)
        /\ mine[p] = file[name[p]] /\ ~Faults
    BY <1>1, <1>9, SoloHere DEF InSave, CleansUp, Prepared
  <2>2. ok /\ defs' = defs \cup {name[p]}
    BY <1>2, <2>1
  <2>3. Backed(mine[p], name[p])'
    BY <1>1, <1>3, <1>4, <1>7, <2>1, <2>2 DEF Backed, HasRuntime
  <2>4. Prepared(p)'
    BY <1>1, <1>5, <1>6, <2>3 DEF Prepared
  <2>5. \A n \in Names : Backed(file[n], n)'
    BY <1>1, <2>1, <2>2 DEF Backed, HasRuntime
  <2>. QED
    BY <1>1, <1>3, <1>6, <1>9, <2>1, <2>4, <2>5, SoloStep
<1>. QED
  BY <1>8, <1>9, AloneStays DEF SoloInv

LEMMA DefineSkippedOK ==
    ASSUME SoloInv, NEW p \in Procs, DefineSkipped(p), UNCHANGED setting PROVE SoloInv'
<1>1. /\ TypeOK /\ pc[p] = "aws" /\ op[p] = "quick" /\ Goto(p, "load") /\ "load" \in Labels
      /\ mine' = [mine EXCEPT ![p] = Fresh("built")]
      /\ UNCHANGED <<setting, file, lockFile, defs, runtimes, deploys, op, name, snap, last>>
  BY DEF SoloInv, DefineSkipped, awsVars, Labels
<1>2. Fresh("built") \in Record /\ Backed(Fresh("built"), name[p])
  BY DEF Record, Fresh, Arns, Backed, HasRuntime
<1>3. mine' \in [Procs -> Record] /\ mine'[p] = Fresh("built")
  BY <1>1, <1>2 DEF TypeOK
<1>4. /\ pc' \in [Procs -> Labels] /\ pc'[p] = "load"
      /\ \A q \in Procs \ {p} : pc'[q] = pc[q]
  BY <1>1, Goes
<1>5. TypeOK' /\ p \in setting.procs
  BY <1>1, <1>3, <1>4 DEF TypeOK
<1>6. ASSUME Alone, Solo PROVE Solo'
  <2>1. file = last /\ ~lockFile /\ \A n \in Names : Backed(file[n], n)
    BY <1>1, <1>6, SoloHere DEF InSave, CleansUp
  <2>2. Backed(mine[p], name[p])'
    BY <1>1, <1>2, <1>3 DEF Backed, HasRuntime
  <2>3. Prepared(p)'
    BY <1>1, <1>4, <2>2 DEF Prepared
  <2>4. \A n \in Names : Backed(file[n], n)'
    BY <1>1, <2>1 DEF Backed, HasRuntime
  <2>. QED
    BY <1>1, <1>4, <1>5, <1>6, <2>1, <2>3, <2>4, SoloStep
<1>. QED
  BY <1>5, <1>6, AloneStays DEF SoloInv

LEMMA AwsDeployOK == ASSUME SoloInv, NEW p \in Procs, AwsDeploy(p), UNCHANGED setting PROVE SoloInv'
<1>1. /\ TypeOK /\ pc[p] = "aws" /\ op[p] = "deploy" /\ Goto(p, "load") /\ "load" \in Labels
      /\ mine' = [mine EXCEPT ![p].image = deploys'] /\ deploys' = deploys + 1
      /\ runtimes' = runtimes \cup {Sanitized[name[p]]}
      /\ UNCHANGED <<setting, file, lockFile, defs, op, name, snap, last>>
  BY DEF SoloInv, AwsDeploy, Labels
<1>2. mine[p] \in Record /\ p \in setting.procs /\ name[p] \in Names /\ deploys' \in Nat
  BY <1>1 DEF TypeOK
<1>3. [mine[p] EXCEPT !.image = deploys'] \in Record
  BY <1>2 DEF Record
<1>4. mine' \in [Procs -> Record]
  BY <1>1, <1>3 DEF TypeOK
<1>5. /\ pc' \in [Procs -> Labels] /\ pc'[p] = "load"
      /\ \A q \in Procs \ {p} : pc'[q] = pc[q]
  BY <1>1, Goes
<1>6. TypeOK'
  BY <1>1, <1>2, <1>4, <1>5 DEF TypeOK
<1>7. ASSUME Alone, Solo PROVE Solo'
  <2>1. /\ file = last /\ ~lockFile /\ \A n \in Names : Backed(file[n], n)
        /\ file[name[p]].there
    BY <1>1, <1>7, SoloHere DEF InSave, CleansUp, Prepared
  <2>2. Prepared(p)'
    BY <1>1, <1>5, <2>1 DEF Prepared, HasRuntime
  <2>3. \A n \in Names : Backed(file[n], n)'
    BY <1>1, <2>1 DEF Backed, HasRuntime
  <2>. QED
    BY <1>1, <1>2, <1>5, <1>7, <2>1, <2>2, <2>3, SoloStep
<1>. QED
  BY <1>6, <1>7, AloneStays DEF SoloInv

LEMMA AwsCleanupOK == ASSUME SoloInv, NEW p \in Procs, AwsCleanup(p), UNCHANGED setting PROVE SoloInv'
<1>1. /\ TypeOK /\ pc[p] = "aws" /\ op[p] = "cleanup" /\ Goto(p, "load") /\ "load" \in Labels
      /\ UNCHANGED <<setting, file, lockFile, deploys, op, name, mine, snap, last>>
  BY DEF SoloInv, AwsCleanup, procVars, Labels
<1>2. runtimes \ {Sanitized[name[p]]} \subseteq runtimes' /\ defs \ {name[p]} \subseteq defs'
  BY DEF AwsCleanup
<1>3. p \in setting.procs /\ name[p] \in Names
  BY <1>1 DEF TypeOK
<1>4. /\ pc' \in [Procs -> Labels] /\ pc'[p] = "load"
      /\ \A q \in Procs \ {p} : pc'[q] = pc[q]
  BY <1>1, Goes
<1>5. TypeOK'
  BY <1>1, <1>3, <1>4 DEF TypeOK
<1>6. ASSUME Alone, Solo PROVE Solo'
  <2>1. /\ file = last /\ ~lockFile /\ \A n \in Names : Backed(file[n], n)
        /\ file[name[p]].there
    BY <1>1, <1>6, SoloHere DEF InSave, CleansUp, Prepared
  <2>2. Prepared(p)'
    BY <1>1, <1>4, <2>1 DEF Prepared
  <2>3. \A n \in Names : Backed(file[n], n)' \/ CleansUp(p, n)'
    <3>1. ASSUME NEW n \in Names, n = name[p] PROVE CleansUp(p, n)'
      BY <1>1, <1>4, <3>1 DEF CleansUp
    <3>2. ASSUME NEW n \in Names, n # name[p] PROVE Backed(file[n], n)'
      <4>1. Unshared(n) => Sanitized[n] # Sanitized[name[p]]
        BY <1>3, <3>2 DEF Unshared
      <4>. QED
        BY <1>1, <1>2, <2>1, <3>2, <4>1 DEF Backed, HasRuntime
    <3>. QED
      BY <3>1, <3>2
  <2>. QED
    BY <1>1, <1>3, <1>4, <1>6, <2>1, <2>2, <2>3, SoloStep
<1>. QED
  BY <1>5, <1>6, AloneStays DEF SoloInv

LEMMA LoadOK == ASSUME SoloInv, NEW p \in Procs, Load(p), UNCHANGED setting PROVE SoloInv'
<1>. DEFINE e == file[name[p]]
            saved == op[p] \in {"create", "quick"} \/ e.there
            c == Changed(p, e)
            l == IF saved THEN "lock" ELSE "idle"
<1>1. /\ TypeOK /\ pc[p] = "load" /\ Goto(p, l)
      /\ snap' = IF saved THEN [snap EXCEPT ![p] = [file EXCEPT ![name[p]] = c]] ELSE snap
      /\ UNCHANGED <<setting, file, lockFile, runtimes, defs, deploys, op, name, mine, last>>
  BY DEF SoloInv, Load, Ends, awsVars
<1>2. /\ mine[p] \in Record /\ e \in Record /\ p \in setting.procs /\ name[p] \in Names
      /\ file \in [Names -> Record]
  BY <1>1 DEF TypeOK
<1>3. /\ c \in Record
      /\ op[p] \in {"create", "quick"} => c = mine[p]
      /\ op[p] = "update" => c.image = e.image
      /\ op[p] = "deploy" => c.arn = e.arn
      /\ op[p] \notin {"create", "quick", "update", "deploy"} => c.arn = "none" /\ c.image = 0
  BY <1>2, NoEntryOK DEF Changed, Record, NoEntry, Arns
<1>4. l \in {"lock", "idle"} /\ l \in Labels /\ (l = "lock" <=> saved)
  BY DEF Labels
<1>. HIDE DEF c, l
<1>5. /\ pc' \in [Procs -> Labels] /\ pc'[p] = l
      /\ \A q \in Procs \ {p} : pc'[q] = pc[q]
  BY <1>1, <1>4, Goes
<1>6. /\ snap' \in [Procs -> [Names -> Record]]
      /\ saved => /\ snap'[p][name[p]] = c
                  /\ \A n \in Names \ {name[p]} : snap'[p][n] = file[n]
  <2>. DEFINE s == [file EXCEPT ![name[p]] = c]
  <2>1. /\ s \in [Names -> Record] /\ s[name[p]] = c
        /\ \A n \in Names \ {name[p]} : s[n] = file[n]
    BY <1>2, <1>3
  <2>2. snap' = IF saved THEN [snap EXCEPT ![p] = s] ELSE snap
    BY <1>1
  <2>. HIDE DEF s, saved
  <2>. QED
    BY <1>1, <2>1, <2>2 DEF TypeOK
<1>7. TypeOK'
  BY <1>1, <1>2, <1>5, <1>6 DEF TypeOK
<1>8. ASSUME Alone, Solo PROVE Solo'
  <2>1. /\ file = last /\ ~lockFile /\ Prepared(p)
        /\ \A n \in Names : Backed(file[n], n) \/ CleansUp(p, n)
    BY <1>1, <1>8, SoloHere DEF InSave
  <2>2. saved
    BY <1>1, <2>1 DEF Prepared
  <2>3. (c.image # 0 => HasRuntime(name[p])) /\ (c.arn = "known" => name[p] \in defs)
    <3>1. op[p] # "cleanup" => Backed(e, name[p])
      BY <1>2, <2>1 DEF CleansUp
    <3>2. /\ op[p] \in {"create", "quick"} => Backed(mine[p], name[p])
          /\ op[p] = "update" => name[p] \in defs
          /\ op[p] = "deploy" => HasRuntime(name[p])
      BY <1>1, <2>1 DEF Prepared
    <3>. QED
      BY <1>3, <3>1, <3>2 DEF Backed, HasRuntime
  <2>4. Prepared(p)'
    BY <1>1, <1>4, <1>5, <1>6, <2>2, <2>3 DEF Prepared, Backed, HasRuntime
  <2>5. \A n \in Names : Backed(file[n], n)' \/ CleansUp(p, n)'
    BY <1>1, <1>4, <1>5, <2>1, <2>2 DEF Backed, HasRuntime, CleansUp
  <2>. QED
    BY <1>1, <1>2, <1>5, <1>8, <2>1, <2>4, <2>5, SoloStep
<1>. QED
  BY <1>7, <1>8, AloneStays DEF SoloInv

LEMMA WriteOK == ASSUME SoloInv, NEW p \in Procs, Write(p), UNCHANGED setting PROVE SoloInv'
<1>1. /\ TypeOK /\ pc[p] = "write" /\ Goto(p, "unlock") /\ "unlock" \in Labels
      /\ UNCHANGED <<setting, lockFile, runtimes, defs, deploys, op, name, mine, snap>>
  BY DEF SoloInv, Write, awsVars, procVars, Labels
<1>2. \/ /\ file' = snap[p]
         /\ last' = [last EXCEPT ![name[p]] = snap[p][name[p]]]
      \/ Faults /\ UNCHANGED <<file, last>>
  BY DEF Write
<1>3. /\ p \in setting.procs /\ name[p] \in Names /\ snap[p] \in [Names -> Record]
      /\ file \in [Names -> Record] /\ last \in [Names -> Record]
      /\ snap[p][name[p]] \in Record
  BY <1>1 DEF TypeOK
<1>4. file' \in [Names -> Record] /\ last' \in [Names -> Record]
  BY <1>2, <1>3
<1>5. /\ pc' \in [Procs -> Labels] /\ pc'[p] = "unlock"
      /\ \A q \in Procs \ {p} : pc'[q] = pc[q]
  BY <1>1, Goes
<1>6. TypeOK'
  BY <1>1, <1>3, <1>4, <1>5 DEF TypeOK
<1>7. ASSUME Alone, Solo PROVE Solo'
  <2>1. /\ file = last /\ Prepared(p) /\ ~Faults
        /\ \A n \in Names : Backed(file[n], n) \/ CleansUp(p, n)
    BY <1>1, <1>7, SoloHere
  <2>2. /\ Backed(snap[p][name[p]], name[p])
        /\ \A n \in Names \ {name[p]} : snap[p][n] = file[n]
    BY <1>1, <2>1 DEF Prepared
  <2>3. file' = snap[p] /\ last' = [last EXCEPT ![name[p]] = snap[p][name[p]]]
    BY <1>2, <2>1
  <2>4. file' = last'
    <3>1. \A n \in Names : last'[n] = snap[p][n]
      BY <1>3, <2>1, <2>2, <2>3
    <3>. QED
      BY <1>3, <1>4, <2>3, <3>1
  <2>5. \A n \in Names : Backed(file[n], n)'
    <3>1. \A n \in Names : Backed(file'[n], n)
      BY <1>3, <2>1, <2>2, <2>3 DEF CleansUp
    <3>. QED
      BY <1>1, <3>1 DEF Backed, HasRuntime
  <2>6. Prepared(p)' /\ InSave(p)'
    BY <1>5 DEF Prepared, InSave
  <2>. QED
    BY <1>1, <1>3, <1>5, <1>7, <2>4, <2>5, <2>6, SoloStep
<1>. QED
  BY <1>6, <1>7, AloneStays DEF SoloInv

\* The steps that only move the lock file and the process.
LEMMA RestOK ==
    ASSUME SoloInv, NEW p \in Procs, UNCHANGED setting,
           AwsDeployFails(p) \/ Lock(p) \/ LockTimeout(p) \/ Unlock(p) \/ Crash(p)
    PROVE  SoloInv'
<1>. DEFINE l == IF Lock(p) THEN "write" ELSE "idle"
<1>1. /\ TypeOK /\ pc[p] # "idle" /\ Goto(p, l) /\ l \in Labels
      /\ UNCHANGED <<setting, file, runtimes, defs, deploys, op, name, mine, snap, last>>
  BY DEF SoloInv, AwsDeployFails, Lock, LockTimeout, Unlock, Crash, Ends, awsVars, procVars,
         Labels, Goto
<1>2. p \in setting.procs /\ l \in {"write", "idle"}
  BY <1>1 DEF TypeOK
<1>3. /\ Lock(p) => pc[p] = "lock"
      /\ ~Lock(p) => \/ AwsDeployFails(p) \/ LockTimeout(p) \/ Crash(p)
                     \/ pc[p] = "unlock" /\ ~lockFile'
  BY DEF Lock, Unlock
<1>4. l = "write" <=> Lock(p)
  OBVIOUS
<1>. HIDE DEF l
<1>5. /\ pc' \in [Procs -> Labels] /\ pc'[p] = l
      /\ \A q \in Procs \ {p} : pc'[q] = pc[q]
  BY <1>1, Goes
<1>6. TypeOK'
  BY <1>1, <1>2, <1>5 DEF TypeOK
<1>7. ASSUME Alone, Solo PROVE Solo'
  <2>1. /\ file = last /\ Prepared(p) /\ ~Faults /\ ~Crashes /\ (lockFile => InSave(p))
        /\ \A n \in Names : Backed(file[n], n) \/ CleansUp(p, n)
    BY <1>1, <1>7, SoloHere
  <2>2. ~AwsDeployFails(p) /\ ~LockTimeout(p) /\ ~Crash(p)
    BY <2>1 DEF AwsDeployFails, LockTimeout, Crash, InSave
  <2>3. lockFile' => InSave(p)'
    BY <1>3, <1>4, <1>5, <2>2 DEF InSave
  <2>4. Prepared(p)'
    BY <1>1, <1>2, <1>3, <1>4, <1>5, <2>1 DEF Prepared, Backed, HasRuntime
  <2>5. \A n \in Names : Backed(file[n], n)' \/ CleansUp(p, n)'
    BY <1>1, <1>3, <1>4, <1>5, <2>1, <2>2 DEF Backed, HasRuntime, CleansUp
  <2>. QED
    BY <1>1, <1>2, <1>5, <1>7, <2>1, <2>3, <2>4, <2>5, SoloStep
<1>. QED
  BY <1>6, <1>7, AloneStays DEF SoloInv

\* One command at a time, without failures and kills: what the store rests on.
THEOREM Serial == Spec => []SoloInv
<1>1. Init => SoloInv
  <2>. SUFFICES ASSUME Init PROVE SoloInv
    OBVIOUS
  <2>1. setting \in Setting /\ file \in [Names -> Record] /\ snap \in [Procs -> [Names -> Record]]
    BY WorkflowStoreAssumption, NoEntryOK DEF Init
  <2>2. name \in [Procs -> Names] /\ mine \in [Procs -> Record] /\ op \in [Procs -> Ops]
    BY WorkflowStoreAssumption, NoEntryOK DEF Init, Ops
  <2>3. TypeOK
    BY <2>1, <2>2 DEF Init, TypeOK, Labels
  <2>. QED
    BY <2>3 DEF Init, SoloInv, Solo, Prepared, Backed, HasRuntime, NoEntry
<1>2. SoloInv /\ [Next]_vars => SoloInv'
  <2>1. ASSUME SoloInv, UNCHANGED vars PROVE SoloInv'
    BY <2>1 DEF vars, awsVars, procVars, SoloInv, TypeOK, Alone, Faults, Crashes, Solo, InSave,
                Prepared, Backed, HasRuntime, CleansUp
  <2>2. ASSUME SoloInv, Next PROVE SoloInv'
    BY <2>2, BeginOK, CheckOK, AwsDefineOK, DefineSkippedOK, AwsDeployOK, AwsCleanupOK, LoadOK, WriteOK, RestOK
       DEF Next, Step
  <2>. QED
    BY <2>1, <2>2
<1>. QED
  BY <1>1, <1>2, PTL DEF Spec

\* One command at a time: what a command saved stays until the next command on that
\* workflow.
THEOREM SavesStay == Spec => []NoLostUpdate
<1>1. SoloInv => NoLostUpdate
  BY DEF SoloInv, Solo, NoLostUpdate
<1>. QED
  BY <1>1, Serial, PTL

\* One command at a time: between commands a recorded deployment has its runtime, and
\* an ARN that AWS knew its definition.
THEOREM FileAgreesWithCloud == Spec => []RecordsHaveResources
<1>1. SoloInv => RecordsHaveResources
  BY DEF SoloInv, Solo, CleansUp, Backed, HasRuntime, RecordsHaveResources
<1>. QED
  BY <1>1, Serial, PTL
=============================================================================
