------------------------ MODULE BrowserCommandsProofs ------------------------
(***************************************************************************)
(* The recording of a session only grows, commands act on the tab that is  *)
(* selected, and a success means the work was done: the session's lock     *)
(* excludes as long as its file is there, for any number of processes,     *)
(* commands and tabs.  Then what the CLI's commands rely on:               *)
(* authentication, clicking and typing, the reporting of faults, the       *)
(* network log and qa-plan, for every input.                               *)
(***************************************************************************)
EXTENDS BrowserCommands, CliAlgorithms, FiniteSetTheorems, FunctionTheorems, SequenceTheorems,
        WellFoundedInduction, TLAPS

\* The fields of a command that the invariants are about.
Used == {"pc", "name", "num", "index", "did", "exc", "wrote", "steps", "loaded"}

TypeOK ==
    /\ \E S : manifest \in Seq(S)
    /\ DOMAIN proc = Procs
    /\ \A p \in Procs : Used \subseteq DOMAIN proc[p] /\ proc[p].wrote \in BOOLEAN

\* A command whose lock file was not removed holds the lock and is on its own.
LockOK(p) ==
    Inside(p) /\ p \notin robbed => lock = p /\ \A q \in Procs : Inside(q) => q = p

OwnSteps(entries) ==
    \A i \in DOMAIN entries :
        entries[i].wrote /\ ~entries[i].robbed =>
            entries[i].steps = NoSteps \/ entries[i].steps.num = entries[i].num

\* While it is, the newest trajectory is its own once it has written one, and what
\* its recorder has read is what the file still is.
ProcOK(p) ==
    /\ proc[p].pc = "ran" /\ proc[p].wrote /\ p \notin robbed => trajectory.num = proc[p].num
    /\ proc[p].pc = "recording" =>
           /\ p \notin robbed => proc[p].loaded = manifest
           /\ proc[p].wrote /\ p \notin robbed
                  => proc[p].steps = NoSteps \/ proc[p].steps.num = proc[p].num
           /\ OwnSteps(proc[p].loaded) /\ \E S : proc[p].loaded \in Seq(S)

IInv == TypeOK /\ (\A p \in Procs : LockOK(p) /\ ProcOK(p)) /\ OwnSteps(manifest)

LEMMA InitOK == Init => IInv
<1>. SUFFICES ASSUME Init PROVE IInv
  OBVIOUS
<1>1. manifest \in Seq({}) /\ DOMAIN manifest = {}
  BY DEF Init
<1>2. \A p \in Procs : proc[p].pc = "idle" /\ Used \subseteq DOMAIN proc[p]
  BY DEF Init, Idle, Used
<1>3. \A p \in Procs : proc[p].wrote \in BOOLEAN
  BY DEF Init, Idle
<1>. QED
  BY <1>1, <1>2, <1>3 DEF Init, IInv, TypeOK, LockOK, Inside, ProcOK, OwnSteps

\* A step that leaves the commands and their traces, whatever becomes of the lock file.
LEMMA LocksOnly ==
    ASSUME IInv, UNCHANGED <<proc, manifest, trajectory>>, UNCHANGED lockVars \/ RemoveLock
    PROVE  IInv'
<1>1. TypeOK' /\ OwnSteps(manifest)'
  BY DEF IInv, TypeOK, OwnSteps
<1>2. robbed \subseteq robbed'
  BY DEF lockVars, RemoveLock
<1>3. ASSUME NEW p \in Procs PROVE LockOK(p)'
  BY <1>2, BrowserCommandsAssumption DEF IInv, LockOK, Inside, lockVars, RemoveLock
<1>4. ASSUME NEW p \in Procs PROVE ProcOK(p)'
  BY <1>2 DEF IInv, ProcOK, OwnSteps
<1>. QED
  BY <1>1, <1>3, <1>4 DEF IInv

\* The locks after a step of one command that ends it outside its block, takes the free
\* lock, or goes on inside with the lock where it is.
LEMMA LocksOK ==
    ASSUME IInv, NEW p \in Procs, NEW c, proc' = [proc EXCEPT ![p] = c],
           \/ /\ c.pc \in {"idle", "parsed", "prepared"}
              /\ \/ lock' = (IF lock = p THEN Nobody ELSE lock) /\ robbed' = robbed \ {p}
                 \/ UNCHANGED lockVars
                 \/ RemoveLock
           \/ /\ c.pc = "inside" /\ lock = Nobody /\ lock' = p
              /\ robbed' = IF robbed # {} THEN robbed \cup {p} ELSE robbed
           \/ Inside(p) /\ UNCHANGED lockVars
    PROVE  \A q \in Procs : LockOK(q)'
<1>1. proc'[p] = c /\ \A q \in Procs \ {p} : proc'[q] = proc[q]
  BY DEF IInv, TypeOK
<1>2. CASE c.pc \in {"idle", "parsed", "prepared"} /\ UNCHANGED lockVars
  BY <1>1, <1>2 DEF IInv, LockOK, Inside, lockVars
<1>3. CASE c.pc \in {"idle", "parsed", "prepared"} /\ RemoveLock
  BY <1>1, <1>3, BrowserCommandsAssumption DEF IInv, LockOK, Inside, RemoveLock
<1>4. CASE /\ c.pc \in {"idle", "parsed", "prepared"}
           /\ lock' = (IF lock = p THEN Nobody ELSE lock) /\ robbed' = robbed \ {p}
  BY <1>1, <1>4 DEF IInv, LockOK, Inside
<1>5. CASE /\ c.pc = "inside" /\ lock = Nobody /\ lock' = p
           /\ robbed' = IF robbed # {} THEN robbed \cup {p} ELSE robbed
  <2>1. ASSUME NEW q \in Procs, Inside(q) PROVE q \in robbed
    BY <1>5, <2>1, BrowserCommandsAssumption DEF IInv, LockOK
  <2>2. CASE robbed = {}
    BY <1>1, <1>5, <2>1, <2>2 DEF LockOK, Inside
  <2>3. CASE robbed # {}
    BY <1>1, <1>5, <2>1, <2>3 DEF LockOK, Inside
  <2>. QED
    BY <2>2, <2>3
<1>6. CASE Inside(p) /\ UNCHANGED lockVars
  BY <1>1, <1>6 DEF IInv, LockOK, Inside, lockVars
<1>. QED
  BY <1>2, <1>3, <1>4, <1>5, <1>6

\* A step of one command that does not record.
LEMMA OneCommand ==
    ASSUME IInv, NEW p \in Procs, UNCHANGED manifest, NEW c, proc' = [proc EXCEPT ![p] = c],
           Used \subseteq DOMAIN c, c.wrote \in BOOLEAN,
           \/ /\ c.pc \in {"idle", "parsed", "prepared"} /\ UNCHANGED trajectory
              /\ \/ lock' = (IF lock = p THEN Nobody ELSE lock) /\ robbed' = robbed \ {p}
                 \/ UNCHANGED lockVars
                 \/ RemoveLock
           \/ /\ c.pc = "inside" /\ lock = Nobody /\ lock' = p /\ UNCHANGED trajectory
              /\ robbed' = IF robbed # {} THEN robbed \cup {p} ELSE robbed
           \/ /\ Inside(p) /\ UNCHANGED lockVars
              /\ \/ c.pc = "ran" /\ (c.wrote /\ p \notin robbed => trajectory'.num = c.num)
                 \/ /\ c.pc = "recording" /\ c.loaded = manifest
                    /\ c.wrote /\ p \notin robbed => c.steps = NoSteps \/ c.steps.num = c.num
    PROVE  IInv'
<1>1. proc'[p] = c /\ \A q \in Procs \ {p} : proc'[q] = proc[q]
  BY DEF IInv, TypeOK
<1>2. TypeOK' /\ OwnSteps(manifest)'
  BY <1>1 DEF IInv, TypeOK, OwnSteps
<1>3. \A q \in Procs : LockOK(q)'
  BY LocksOK
<1>4. ProcOK(p)'
  <2>1. OwnSteps(manifest)' /\ \E S : manifest' \in Seq(S)
    BY <1>2 DEF TypeOK
  <2>. QED
    BY <1>1, <2>1 DEF ProcOK, OwnSteps, lockVars
<1>5. ASSUME NEW q \in Procs \ {p} PROVE ProcOK(q)'
  <2>1. q \in robbed => q \in robbed'
    BY DEF lockVars, RemoveLock
  <2>2. ASSUME Inside(q), q \notin robbed PROVE UNCHANGED trajectory
    BY <2>2 DEF IInv, LockOK
  <2>3. proc'[q] = proc[q] /\ ProcOK(q)
    BY <1>1 DEF IInv
  <2>. QED
    BY <2>1, <2>2, <2>3 DEF ProcOK, OwnSteps, Inside
<1>. QED
  BY <1>2, <1>3, <1>4, <1>5 DEF IInv

LEMMA OutsideOK ==
    ASSUME IInv, NEW p \in Procs,
           \/ (\E name \in Names : Start(p, name)) \/ PrepareSession(p) \/ PrepareFails(p)
           \/ EnterSession(p) \/ LockTimeout(p) \/ Fail(p) \/ Interrupt(p)
    PROVE  IInv'
<1>. DEFINE c == proc[p]
<1>1. UNCHANGED traceVars /\ Used \subseteq DOMAIN c /\ c.wrote \in BOOLEAN
  BY DEF IInv, TypeOK, Start, PrepareSession, PrepareFails, EnterSession, LockTimeout, Fail,
         Interrupt
<1>2. CASE UNCHANGED proc /\ UNCHANGED lockVars
  BY <1>1, <1>2, LocksOnly DEF traceVars
<1>i. Idle.pc = "idle" /\ Used \subseteq DOMAIN Idle /\ Idle.wrote = FALSE
  BY DEF Idle, Used
<1>3. CASE End(p)
  BY <1>1, <1>3, <1>i, OneCommand DEF End, traceVars
<1>4. ASSUME NEW name \in Names, Start(p, name) PROVE IInv'
  <2>. DEFINE d == [Idle EXCEPT !.pc = "parsed", !.name = name, !.num = issued']
  <2>1. d.pc = "parsed" /\ Used \subseteq DOMAIN d /\ d.wrote = FALSE
    BY DEF Idle, Used
  <2>2. UNCHANGED lockVars /\ (proc' = [proc EXCEPT ![p] = d] \/ UNCHANGED proc)
    BY <1>4 DEF Start
  <2>. HIDE DEF d
  <2>. QED
    BY <1>1, <1>2, <2>1, <2>2, OneCommand DEF traceVars
<1>5. CASE PrepareSession(p)
  <2>. DEFINE d == [c EXCEPT !.pc = "prepared", !.chrome = chrome', !.index = active']
  <2>1. d.pc = "prepared" /\ Used \subseteq DOMAIN d /\ d.wrote = c.wrote
    BY <1>1 DEF Used
  <2>2. (UNCHANGED lockVars \/ RemoveLock) /\ proc' = [proc EXCEPT ![p] = d]
    BY <1>5 DEF PrepareSession, ClearStale
  <2>. HIDE DEF d
  <2>. QED
    BY <1>1, <2>1, <2>2, OneCommand DEF traceVars
<1>6. CASE PrepareFails(p)
  <2>1. (UNCHANGED lockVars \/ RemoveLock) /\ proc' = [proc EXCEPT ![p] = Idle]
    BY <1>6 DEF PrepareFails, ClearStale
  <2>. QED
    BY <1>1, <1>i, <2>1, OneCommand DEF traceVars
<1>7. CASE EnterSession(p)
  <2>. DEFINE d == [c EXCEPT !.pc = "inside"]
  <2>1. d.pc = "inside" /\ Used \subseteq DOMAIN d /\ d.wrote = c.wrote
    BY <1>1 DEF Used
  <2>2. /\ lock = Nobody /\ lock' = p /\ proc' = [proc EXCEPT ![p] = d]
        /\ robbed' = IF robbed # {} THEN robbed \cup {p} ELSE robbed
    BY <1>7 DEF EnterSession
  <2>. HIDE DEF d
  <2>. QED
    BY <1>1, <2>1, <2>2, OneCommand DEF traceVars
<1>. QED
  BY <1>3, <1>4, <1>5, <1>6, <1>7 DEF LockTimeout, Fail, Interrupt

\* The body of the command's block, whatever it is.
LEMMA BodyOK ==
    ASSUME IInv, NEW p \in Procs,
           \/ RunDisconnected(p) \/ (\E name \in PageCommands : RunCommand(p, name))
           \/ TabNew(p) \/ TabClose(p) \/ TabSelect(p)
    PROVE  IInv'
<1>. DEFINE c == proc[p]
<1>1. /\ UNCHANGED manifest /\ UNCHANGED lockVars
      /\ Used \subseteq DOMAIN c /\ c.pc = "inside" /\ Inside(p)
  BY DEF IInv, TypeOK, Inside, RunDisconnected, RunCommand, TabNew, TabClose, TabSelect, Runs, traceVars
<1>2. ASSUME NEW did, NEW exc, NEW wrote \in BOOLEAN, Ran(p, did, exc, wrote),
             wrote => trajectory'.num = c.num
      PROVE  IInv'
  <2>. DEFINE d == [c EXCEPT !.pc = "ran", !.did = did, !.exc = exc, !.wrote = wrote]
  <2>1. d.pc = "ran" /\ Used \subseteq DOMAIN d /\ d.wrote = wrote /\ d.num = c.num
    BY <1>1 DEF Used
  <2>2. proc' = [proc EXCEPT ![p] = d]
    BY <1>2 DEF Ran
  <2>. HIDE DEF d
  <2>. QED
    BY <1>1, <1>2, <2>1, <2>2, OneCommand
<1>3. ASSUME NEW name \in PageCommands, RunCommand(p, name) PROVE IInv'
  <2>0. PICK o \in Commands[name].outcomes :
            \E wrote \in IF AskedModel(o.did) THEN BOOLEAN ELSE {FALSE},
               k \in Acting(o.did) \cup {Len(o.did)}, change \in {NoChange} \cup TabChanges :
                /\ Ran(p, Located(o.did, c.index, k, change), o.exc, wrote)
                /\ trajectory' = IF wrote THEN [num |-> c.num, by |-> "command"] ELSE trajectory
    BY <1>3 DEF RunCommand
  <2>1. PICK wrote \in IF AskedModel(o.did) THEN BOOLEAN ELSE {FALSE},
             k \in Acting(o.did) \cup {Len(o.did)}, change \in {NoChange} \cup TabChanges :
                /\ Ran(p, Located(o.did, c.index, k, change), o.exc, wrote)
                /\ trajectory' = IF wrote THEN [num |-> c.num, by |-> "command"] ELSE trajectory
    BY <2>0
  <2>2. wrote \in BOOLEAN /\ (wrote => trajectory'.num = c.num)
    BY <2>1
  <2>. QED
    BY <1>2, <2>1, <2>2
<1>4. CASE TabClose(p)
  BY <1>2, <1>4 DEF TabClose
<1>. QED
  BY <1>2, <1>3, <1>4 DEF RunDisconnected, TabNew, TabSelect

LEMMA PostCommandOK == ASSUME IInv, NEW p \in Procs, PostCommand(p) PROVE IInv'
<1>. DEFINE c == proc[p]
<1>1. /\ UNCHANGED manifest /\ UNCHANGED lockVars
      /\ Used \subseteq DOMAIN c /\ c.pc = "ran" /\ Inside(p)
      /\ c.wrote \in BOOLEAN /\ (c.wrote /\ p \notin robbed => trajectory.num = c.num)
  BY DEF IInv, TypeOK, ProcOK, PostCommand, Inside
<1>2. ASSUME UNCHANGED trajectory, NEW exc, proc' = [proc EXCEPT ![p] = [c EXCEPT !.exc = exc]]
      PROVE  IInv'
  <2>. DEFINE d == [c EXCEPT !.exc = exc]
  <2>1. d.pc = "ran" /\ Used \subseteq DOMAIN d /\ d.wrote = c.wrote /\ d.num = c.num
    BY <1>1 DEF Used
  <2>. HIDE DEF d
  <2>. QED
    BY <1>1, <1>2, <2>1, OneCommand DEF d
<1>3. ASSUME NEW written \in BOOLEAN, NEW steps \in {NoSteps, trajectory'},
             written /\ p \notin robbed => trajectory'.num = c.num,
             proc' = [proc EXCEPT ![p] = [c EXCEPT !.pc = "recording", !.did = <<>>,
                           !.wrote = written, !.steps = steps, !.loaded = manifest]]
      PROVE  IInv'
  <2>. DEFINE d == [c EXCEPT !.pc = "recording", !.did = <<>>,
                           !.wrote = written, !.steps = steps, !.loaded = manifest]
  <2>1. /\ d.pc = "recording" /\ d.loaded = manifest /\ Used \subseteq DOMAIN d
        /\ d.wrote = written /\ d.steps = steps /\ d.num = c.num
    BY <1>1 DEF Used
  <2>2. proc' = [proc EXCEPT ![p] = d]
    BY <1>3
  <2>. HIDE DEF d
  <2>. QED
    BY <1>1, <1>3, <2>1, <2>2, OneCommand
<1>4. ASSUME NEW wrote \in BOOLEAN, NEW steps \in {NoSteps, StepsOf(p)}, Observed(p, wrote, steps),
             trajectory' = IF wrote THEN [num |-> c.num, by |-> "observe"] ELSE trajectory
      PROVE  IInv'
  <2>. DEFINE written == c.wrote \/ wrote
  <2>1. written \in BOOLEAN /\ (written /\ p \notin robbed => trajectory'.num = c.num)
    BY <1>1, <1>4
  <2>2. proc' = [proc EXCEPT ![p] = [proc[p] EXCEPT !.pc = "recording", !.did = <<>>,
                           !.wrote = proc[p].wrote \/ wrote, !.steps = steps,
                           !.loaded = manifest]]
    BY <1>4, Zenon DEF Observed
  <2>3. proc' = [proc EXCEPT ![p] = [c EXCEPT !.pc = "recording", !.did = <<>>,
                           !.wrote = written, !.steps = steps, !.loaded = manifest]]
    BY <2>2, Zenon
  <2>. HIDE DEF written
  <2>. QED
    BY <1>3, <1>4, <2>1, <2>3 DEF StepsOf
<1>. QED
  BY <1>2, <1>4 DEF PostCommand

\* The recorder appends to what it read, which is what the file is unless the lock
\* file was removed under the command.
LEMMA RecordStepOK ==
    ASSUME IInv, NEW p \in Procs, RecordStep(p)
    PROVE  IInv' /\ (p \in robbed \/ IsPrefix(manifest, manifest'))
<1>. DEFINE c == proc[p]
<1>1. /\ c.pc = "recording" /\ Inside(p) /\ UNCHANGED trajectory
      /\ lock' = (IF lock = p THEN Nobody ELSE lock) /\ robbed' = robbed \ {p}
      /\ proc' = [proc EXCEPT ![p] = Idle]
      /\ manifest' \in {Append(c.loaded, Entry(p)), manifest}
  BY DEF RecordStep, End, Inside
<1>2. PICK S : manifest \in Seq(S)
  BY DEF IInv, TypeOK
<1>3. PICK T : c.loaded \in Seq(T)
  BY <1>1 DEF IInv, ProcOK
<1>4. OwnSteps(c.loaded) /\ OwnSteps(manifest) /\ (p \notin robbed => c.loaded = manifest)
  BY <1>1 DEF IInv, ProcOK
<1>5. /\ Append(c.loaded, Entry(p)) \in Seq(T \cup {Entry(p)})
      /\ \A i \in DOMAIN Append(c.loaded, Entry(p)) :
            \/ i \in DOMAIN c.loaded /\ Append(c.loaded, Entry(p))[i] = c.loaded[i]
            \/ Append(c.loaded, Entry(p))[i] = Entry(p)
  <2>1. c.loaded \in Seq(T \cup {Entry(p)})
    BY <1>3
  <2>. QED
    BY <2>1
<1>6. p \in robbed \/ IsPrefix(manifest, manifest')
  <2>1. manifest \in Seq(S \cup {Entry(p)})
    BY <1>2
  <2>. QED
    BY <1>1, <1>4, <2>1 DEF IsPrefix
<1>7. TypeOK'
  <2>1. \E U : manifest' \in Seq(U)
    BY <1>1, <1>2, <1>5
  <2>2. Used \subseteq DOMAIN Idle /\ Idle.wrote \in BOOLEAN
    BY DEF Idle, Used
  <2>. QED
    BY <1>1, <2>1, <2>2 DEF IInv, TypeOK
<1>8. OwnSteps(manifest)'
  <2>1. Entry(p).wrote /\ ~Entry(p).robbed => Entry(p).steps = NoSteps \/ Entry(p).steps.num = Entry(p).num
    <3>1. c.wrote /\ p \notin robbed => c.steps = NoSteps \/ c.steps.num = c.num
      BY <1>1 DEF IInv, ProcOK
    <3>. QED
      BY <3>1 DEF Entry
  <2>2. OwnSteps(Append(c.loaded, Entry(p)))
    BY <1>4, <1>5, <2>1 DEF OwnSteps
  <2>. QED
    BY <1>1, <1>4, <2>2 DEF OwnSteps
<1>9. \A q \in Procs : LockOK(q)'
  BY <1>1, LocksOK DEF Idle
<1>10. ASSUME NEW q \in Procs PROVE ProcOK(q)'
  <2>1. CASE q = p
    BY <1>1, <2>1 DEF IInv, TypeOK, ProcOK, Idle
  <2>2. CASE q # p
    <3>1. proc'[q] = proc[q] /\ ProcOK(q) /\ (q \in robbed' <=> q \in robbed)
      BY <1>1, <2>2 DEF IInv, TypeOK
    <3>2. ~(Inside(q) /\ q \notin robbed)
      BY <1>1, <2>2 DEF IInv, LockOK
    <3>. QED
      BY <1>1, <3>1, <3>2 DEF ProcOK, OwnSteps, Inside
  <2>. QED
    BY <2>1, <2>2
<1>. QED
  BY <1>6, <1>7, <1>8, <1>9, <1>10 DEF IInv

\* Every step keeps the invariant and lets the recording grow.
Grows == IsPrefix(manifest, manifest') \/ \E p \in robbed : RecordStep(p)

LEMMA StepOK == IInv /\ [Next]_vars => IInv' /\ [Grows]_vars
<1>. SUFFICES ASSUME IInv, [Next]_vars PROVE IInv' /\ [Grows]_vars
  OBVIOUS
<1>1. CASE UNCHANGED vars
  <2>1. IInv'
    BY <1>1, LocksOnly DEF vars, traceVars, lockVars
  <2>. QED
    BY <1>1, <2>1
<1>2. ASSUME UNCHANGED manifest PROVE IsPrefix(manifest, manifest')
  BY <1>2 DEF IInv, TypeOK, IsPrefix
<1>3. CASE ChromeDies \/ CloseSession \/ TabsChange
  <2>1. UNCHANGED <<proc, manifest, trajectory>> /\ (UNCHANGED lockVars \/ RemoveLock)
    BY <1>3 DEF ChromeDies, CloseSession, TabsChange, traceVars
  <2>. QED
    BY <1>2, <2>1, LocksOnly DEF Grows
<1>4. ASSUME NEW p \in Procs, RecordStep(p)
      PROVE  IInv' /\ Grows
  BY <1>4, RecordStepOK DEF Grows
<1>5. ASSUME NEW p \in Procs,
             \/ (\E name \in Names : Start(p, name)) \/ PrepareSession(p) \/ PrepareFails(p)
             \/ EnterSession(p) \/ LockTimeout(p) \/ Fail(p) \/ Interrupt(p)
      PROVE  IInv' /\ Grows
  <2>1. UNCHANGED manifest
    BY <1>5 DEF Start, PrepareSession, PrepareFails, EnterSession, LockTimeout, Fail, Interrupt,
           traceVars
  <2>. QED
    BY <1>2, <1>5, <2>1, OutsideOK DEF Grows
<1>6. ASSUME NEW p \in Procs,
             \/ RunDisconnected(p) \/ (\E name \in PageCommands : RunCommand(p, name))
             \/ TabNew(p) \/ TabClose(p) \/ TabSelect(p) \/ PostCommand(p)
      PROVE  IInv' /\ Grows
  <2>1. UNCHANGED manifest
    BY <1>6 DEF RunDisconnected, RunCommand, TabNew, TabClose, TabSelect, PostCommand, traceVars
  <2>. QED
    BY <1>2, <1>6, <2>1, BodyOK, PostCommandOK DEF Grows
<1>. QED
  BY <1>1, <1>3, <1>4, <1>5, <1>6 DEF Next, Step

\* No entry of the recording is ever lost but by a command whose lock file was removed
\* under it or under one beside it, whichever processes run commands on the session
\* and wherever they fail or are killed.
THEOREM NoEntryLost == Spec => RecordingGrows
  BY InitOK, StepOK, PTL DEF Spec, RecordingGrows, Grows

\* Commands are in the session one at a time as long as its lock file is not removed.
THEOREM CommandsApart == Spec => []OneInside
<1>1. IInv => OneInside
  BY DEF IInv, LockOK, OneInside
<1>. QED
  BY <1>1, InitOK, StepOK, PTL DEF Spec

\* The steps on record with a command that left a trajectory are its own, although
\* they are taken from whatever trajectory of the session is the newest.
THEOREM RecordedStepsAreOwn == Spec => []StepsAreOwn
<1>1. IInv => StepsAreOwn
  BY DEF IInv, OwnSteps, StepsAreOwn
<1>. QED
  BY <1>1, InitOK, StepOK, PTL DEF Spec
-----------------------------------------------------------------------------
(* The tab that was selected.                                              *)

\* The tab that is selected is the open one of the active index.
TabsOK ==
    /\ \E S : tabs \in Seq(S)
    /\ active \in Nat
    /\ selected # 0 => active < Len(tabs) /\ selected = tabs[active + 1]

TabInv == IInv /\ TabsOK

\* Without the tab of a number, those after it move up.
LEMMA Removed ==
    ASSUME NEW S, NEW s \in Seq(S), NEW i \in 1 .. Len(s)
    PROVE  /\ RemoveAt(s, i) \in Seq(S) /\ Len(RemoveAt(s, i)) = Len(s) - 1
           /\ \A j \in 1 .. (i - 1) : RemoveAt(s, i)[j] = s[j]
           /\ \A j \in i .. (Len(s) - 1) : RemoveAt(s, i)[j] = s[j + 1]
<1>. DEFINE a == SubSeq(s, 1, i - 1)
            b == SubSeq(s, i + 1, Len(s))
<1>1. Len(s) \in Nat /\ i \in Nat /\ 1 <= i /\ i <= Len(s)
  OBVIOUS
<1>2. a \in Seq(S) /\ Len(a) = i - 1 /\ \A j \in 1 .. (i - 1) : a[j] = s[j]
  BY <1>1
<1>3. b \in Seq(S) /\ Len(b) = Len(s) - i /\ \A j \in 1 .. (Len(s) - i) : b[j] = s[j + i]
  BY <1>1
<1>. HIDE DEF a, b
<1>4. /\ a \o b \in Seq(S) /\ Len(a \o b) = Len(a) + Len(b)
      /\ \A j \in 1 .. Len(a) : (a \o b)[j] = a[j]
      /\ \A j \in (Len(a) + 1) .. (Len(a) + Len(b)) : (a \o b)[j] = b[j - Len(a)]
  <2>1. a \in Seq(S) /\ b \in Seq(S)
    BY <1>2, <1>3
  <2>2. a \o b \in Seq(S) /\ Len(a \o b) = Len(a) + Len(b)
    BY <2>1
  <2>3. \A j \in 1 .. Len(a) + Len(b) :
            (a \o b)[j] = IF j <= Len(a) THEN a[j] ELSE b[j - Len(a)]
    BY <2>1, ConcatProperties
  <2>4. Len(a) \in Nat /\ Len(b) \in Nat
    BY <2>1
  <2>. QED
    BY <2>2, <2>3, <2>4
<1>5. ASSUME NEW j \in i .. (Len(s) - 1) PROVE (a \o b)[j] = s[j + 1]
  <2>1. j \in (Len(a) + 1) .. (Len(a) + Len(b)) /\ j - Len(a) \in 1 .. (Len(s) - i)
    BY <1>1, <1>2, <1>3, <1>5
  <2>2. (a \o b)[j] = b[j - Len(a)] /\ b[j - Len(a)] = s[j - Len(a) + i]
    BY <1>3, <1>4, <2>1
  <2>3. j - Len(a) + i = j + 1
    BY <1>1, <1>2, <1>5
  <2>. QED
    BY <2>2, <2>3
<1>6. RemoveAt(s, i) = a \o b
  BY DEF RemoveAt, a, b
<1>7. Len(a \o b) = Len(s) - 1 /\ \A j \in 1 .. (i - 1) : (a \o b)[j] = s[j]
  BY <1>1, <1>2, <1>3, <1>4
<1>. QED
  BY <1>4, <1>5, <1>6, <1>7

\* Tabs that open or are closed behind the CLI's back disturb no selection that is left.
LEMMA ChangeOK ==
    ASSUME TabsOK, tabs # <<>>, NEW change \in {NoChange} \cup TabChanges
    PROVE  /\ \E S : change.tabs \in Seq(S)
           /\ change.selected # 0 =>
                  /\ change.selected = selected /\ active < Len(change.tabs)
                  /\ selected = change.tabs[active + 1]
<1>1. PICK S : tabs \in Seq(S)
  BY DEF TabsOK
<1>2. active \in Nat /\ Len(tabs) \in Nat
  BY <1>1 DEF TabsOK
<1>3. CASE change = NoChange
  BY <1>1, <1>3 DEF NoChange, TabsOK
<1>4. CASE change = [NoChange EXCEPT !.tabs = Append(tabs, NewTab)]
  <2>1. change.tabs = Append(tabs, NewTab) /\ change.selected = selected
    BY <1>4 DEF NoChange
  <2>2. tabs \in Seq(S \cup {NewTab})
    BY <1>1
  <2>3. /\ change.tabs \in Seq(S \cup {NewTab}) /\ Len(change.tabs) = Len(tabs) + 1
        /\ \A j \in 1 .. Len(tabs) : change.tabs[j] = tabs[j]
    BY <2>1, <2>2
  <2>. QED
    BY <1>2, <2>1, <2>3 DEF TabsOK
<1>5. ASSUME NEW i \in DOMAIN tabs,
             change = [tabs |-> RemoveAt(tabs, i),
                       selected |-> IF i <= active + 1 THEN 0 ELSE selected]
      PROVE  /\ \E U : change.tabs \in Seq(U)
             /\ change.selected # 0 =>
                    /\ change.selected = selected /\ active < Len(change.tabs)
                    /\ selected = change.tabs[active + 1]
  <2>1. i \in 1 .. Len(tabs)
    BY <1>1
  <2>2. /\ change.tabs = RemoveAt(tabs, i)
        /\ change.selected = IF i <= active + 1 THEN 0 ELSE selected
    BY <1>5
  <2>3. change.tabs \in Seq(S) /\ Len(change.tabs) = Len(tabs) - 1
    BY <1>1, <2>1, <2>2, Removed
  <2>4. \A j \in 1 .. (i - 1) : change.tabs[j] = tabs[j]
    BY <1>1, <2>1, <2>2, Removed
  <2>. QED
    BY <1>2, <2>1, <2>2, <2>3, <2>4 DEF TabsOK
<1>. QED
  BY <1>3, <1>4, <1>5 DEF TabChanges

\* The tab of an index that is that of an open tab.
LEMMA SameTab ==
    ASSUME NEW pages, active < Len(pages), selected = pages[active + 1]
    PROVE  /\ ActiveTab(pages, active) = selected
           /\ active # 0 => SdkTab(pages, active) = selected
  BY DEF ActiveTab, SdkTab

\* Where a command's calls go that ran since the selection.
There ==
    \A p \in Procs :
        /\ proc[p].pc = "inside" /\ proc'[p].pc = "ran"
        /\ selected # 0 /\ selected' = selected /\ proc[p].index = active
        => \A i \in DOMAIN proc'[p].did :
               proc'[p].did[i].on = "tab" \/ active # 0 => proc'[p].did[i].tab = selected

\* Only the body of a block takes a command there, and only one on a page calls.
LEMMA ThereOK ==
    ASSUME IInv, NEW p \in Procs, NEW c, proc' = [proc EXCEPT ![p] = c],
           \/ proc[p].pc # "inside" \/ c.pc # "ran" \/ c.did = <<>>
           \/ selected # 0 /\ selected' = selected /\ proc[p].index = active =>
                  \A i \in DOMAIN c.did : c.did[i].on = "tab" \/ active # 0 => c.did[i].tab = selected
    PROVE  There
<1>1. proc'[p] = c /\ \A q \in Procs \ {p} : proc'[q] = proc[q]
  BY DEF IInv, TypeOK
<1>2. DOMAIN << >> = {}
  OBVIOUS
<1>. QED
  BY <1>1, <1>2 DEF There

\* A command's calls go to the tab its connection knew as selected.
LEMMA TabRunOK ==
    ASSUME TabInv, NEW p \in Procs, NEW name \in PageCommands, RunCommand(p, name)
    PROVE  TabsOK' /\ There
<1>. DEFINE c == proc[p]
<1>1. c.pc = "inside" /\ tabs # <<>> /\ Used \subseteq DOMAIN c /\ UNCHANGED active
  BY DEF RunCommand, Runs, Connected, TabInv, IInv, TypeOK
<1>o. PICK o \in Commands[name].outcomes :
          \E wrote \in IF AskedModel(o.did) THEN BOOLEAN ELSE {FALSE},
             k \in Acting(o.did) \cup {Len(o.did)}, change \in {NoChange} \cup TabChanges :
              /\ Ran(p, Located(o.did, c.index, k, change), o.exc, wrote)
              /\ tabs' = change.tabs /\ selected' = change.selected
  BY DEF RunCommand
<1>2. PICK wrote \in IF AskedModel(o.did) THEN BOOLEAN ELSE {FALSE},
           k \in Acting(o.did) \cup {Len(o.did)}, change \in {NoChange} \cup TabChanges :
              /\ Ran(p, Located(o.did, c.index, k, change), o.exc, wrote)
              /\ tabs' = change.tabs /\ selected' = change.selected
  BY <1>o
<1>t. TabsOK
  BY DEF TabInv
<1>3. /\ \E S : change.tabs \in Seq(S)
      /\ change.selected # 0 =>
             /\ change.selected = selected /\ active < Len(change.tabs)
             /\ selected = change.tabs[active + 1]
  BY <1>1, <1>t, ChangeOK
<1>4. TabsOK'
  <2>1. active \in Nat
    BY DEF TabInv, TabsOK
  <2>. QED
    BY <1>1, <1>2, <1>3, <2>1 DEF TabsOK
<1>. DEFINE did == Located(o.did, c.index, k, change)
            exc == o.exc
            d == [c EXCEPT !.pc = "ran", !.did = did, !.exc = exc, !.wrote = wrote]
<1>5. proc' = [proc EXCEPT ![p] = d]
  BY <1>2 DEF Ran
<1>. HIDE DEF did, exc
<1>6. d.did = did
  BY <1>1 DEF Used
<1>. HIDE DEF d
<1>7. ASSUME selected # 0, selected' = selected, c.index = active, NEW i \in DOMAIN did,
             did[i].on = "tab" \/ active # 0
      PROVE  did[i].tab = selected
  <2>. DEFINE pages == IF i <= k THEN tabs ELSE change.tabs
  <2>1. /\ did[i].on = o.did[i].on
        /\ did[i].tab = IF o.did[i].on = "sdk" THEN SdkTab(pages, active) ELSE ActiveTab(pages, active)
    BY <1>7 DEF did, Located
  <2>2. active < Len(pages) /\ selected = pages[active + 1]
    BY <1>2, <1>3, <1>7 DEF TabInv, TabsOK
  <2>. HIDE DEF pages
  <2>3. ActiveTab(pages, active) = selected /\ (active # 0 => SdkTab(pages, active) = selected)
    BY <2>2, SameTab
  <2>. QED
    BY <1>7, <2>1, <2>3
<1>8. There
  BY <1>1, <1>5, <1>6, <1>7, ThereOK DEF TabInv
<1>. QED
  BY <1>4, <1>8

\* The commands on tabs leave an open tab selected, or what there was.
LEMMA TabCommandsOK ==
    ASSUME TabInv, NEW p \in Procs, TabNew(p) \/ TabClose(p) \/ TabSelect(p)
    PROVE  TabsOK'
<1>. DEFINE c == proc[p]
<1>1. tabs # <<>>
  BY DEF TabNew, TabClose, TabSelect, Runs, Connected
<1>2. PICK S : tabs \in Seq(S)
  BY DEF TabInv, TabsOK
<1>3. active \in Nat /\ Len(tabs) \in Nat
  BY <1>2 DEF TabInv, TabsOK
<1>4. tabs \in Seq(S \cup {NewTab}) /\ Append(tabs, NewTab) \in Seq(S \cup {NewTab})
  <2>1. tabs \in Seq(S \cup {NewTab})
    BY <1>2
  <2>. QED
    BY <2>1
<1>5. CASE TabNew(p)
  <2>1. /\ Len(Append(tabs, NewTab)) = Len(tabs) + 1
        /\ \A j \in 1 .. Len(tabs) : Append(tabs, NewTab)[j] = tabs[j]
        /\ Append(tabs, NewTab)[Len(tabs) + 1] = NewTab
    BY <1>4
  <2>2. CASE tabs' = Append(tabs, NewTab) /\ active' = Len(tabs) /\ selected' = NewTab
    BY <1>3, <1>4, <2>1, <2>2 DEF TabsOK
  <2>3. CASE tabs' = Append(tabs, NewTab) /\ UNCHANGED <<active, selected>>
    BY <1>3, <1>4, <2>1, <2>3 DEF TabInv, TabsOK
  <2>4. CASE UNCHANGED <<tabs, active, selected>>
    BY <2>4 DEF TabInv, TabsOK
  <2>. QED
    BY <1>5, <2>2, <2>3, <2>4 DEF TabNew
<1>6. CASE TabSelect(p)
  <2>1. PICK index \in 0..MaxTabs :
            IF index < Len(tabs)
            THEN Ran(p, <<>>, "none", FALSE) /\ active' = index /\ selected' = tabs[index + 1]
            ELSE Ran(p, <<>>, "SystemExit", FALSE) /\ UNCHANGED <<active, selected>>
    BY <1>6 DEF TabSelect
  <2>2. index \in Nat /\ UNCHANGED tabs
    BY <1>6 DEF TabSelect
  <2>. QED
    BY <1>2, <1>3, <2>1, <2>2 DEF TabInv, TabsOK
<1>7. CASE TabClose(p)
  <2>1. CASE UNCHANGED <<tabs, active, selected>>
    BY <2>1 DEF TabInv, TabsOK
  <2>2. ASSUME NEW i \in DOMAIN tabs, ~(Len(tabs) <= 1),
               tabs' = RemoveAt(tabs, i), active' = NextActive(i, Len(tabs)),
               selected' = IF i < Len(tabs) THEN tabs[i + 1] ELSE tabs[i - 1]
        PROVE  TabsOK'
    <3>1. i \in 1 .. Len(tabs)
      BY <1>2
    <3>2. tabs' \in Seq(S) /\ Len(tabs') = Len(tabs) - 1
      BY <1>2, <2>2, <3>1, Removed
    <3>3. \A j \in 1 .. (i - 1) : tabs'[j] = tabs[j]
      BY <1>2, <2>2, <3>1, Removed
    <3>4. \A j \in i .. (Len(tabs) - 1) : tabs'[j] = tabs[j + 1]
      BY <1>2, <2>2, <3>1, Removed
    <3>5. CASE i < Len(tabs)
      <4>1. active' = i - 1 /\ tabs'[i] = tabs[i + 1]
        BY <1>3, <2>2, <3>1, <3>4, <3>5 DEF NextActive
      <4>. QED
        BY <1>3, <2>2, <3>1, <3>2, <3>5, <4>1 DEF TabsOK
    <3>6. CASE i = Len(tabs)
      <4>1. active' = i - 2 /\ i - 1 \in 1 .. (i - 1) /\ tabs'[i - 1] = tabs[i - 1]
        BY <1>3, <2>2, <3>1, <3>3, <3>6 DEF NextActive
      <4>. QED
        BY <1>3, <2>2, <3>1, <3>2, <3>6, <4>1 DEF TabsOK
    <3>. QED
      BY <1>3, <3>1, <3>5, <3>6
  <2>. QED
    BY <1>7, <2>1, <2>2 DEF TabClose
<1>. QED
  BY <1>5, <1>6, <1>7

\* The steps of a command that leave the tabs, or make or end the Chrome.
LEMMA TabSessionOK ==
    ASSUME TabInv, NEW p \in Procs,
           \/ (\E name \in Names : Start(p, name)) \/ PrepareSession(p) \/ PrepareFails(p)
           \/ EnterSession(p) \/ LockTimeout(p) \/ Fail(p) \/ Interrupt(p) \/ RecordStep(p)
           \/ RunDisconnected(p) \/ PostCommand(p)
    PROVE  TabsOK'
<1>1. CASE UNCHANGED sessionVars
  BY <1>1 DEF sessionVars, TabInv, TabsOK
<1>2. ASSUME active' \in Nat, selected' = 0, \E S : tabs' \in Seq(S) PROVE TabsOK'
  BY <1>2 DEF TabsOK
<1>3. active \in Nat /\ (\E S : tabs \in Seq(S)) /\ <<>> \in Seq({})
  BY DEF TabInv, TabsOK
<1>4. CASE PrepareSession(p)
  <2>1. ASSUME file # "started" PROVE TabsOK'
    <3>1. PICK n \in 1..MaxTabs : tabs' = [i \in 1..n |-> i]
      BY <1>4, <2>1 DEF PrepareSession
    <3>2. n \in Nat /\ tabs' \in Seq(1..n)
      BY <3>1
    <3>3. active' = 0 /\ selected' = 0
      BY <1>4, <2>1 DEF PrepareSession
    <3>. QED
      BY <1>2, <3>2, <3>3
  <2>. QED
    BY <1>1, <1>4, <2>1 DEF PrepareSession
<1>5. CASE PrepareFails(p)
  <2>1. CASE tabs' = <<>> /\ selected' = 0 /\ (active' = 0 \/ UNCHANGED active)
    <3>1. active' \in Nat /\ \E S : tabs' \in Seq(S)
      BY <1>3, <2>1
    <3>. QED
      BY <1>2, <2>1, <3>1
  <2>. QED
    BY <1>1, <1>5, <2>1 DEF PrepareFails
<1>6. \/ (\E name \in Names : Start(p, name)) \/ EnterSession(p) \/ LockTimeout(p) \/ Fail(p)
      \/ Interrupt(p) \/ RecordStep(p) \/ RunDisconnected(p) \/ PostCommand(p)
      => UNCHANGED sessionVars
  BY DEF Start, EnterSession, LockTimeout, Fail, Interrupt, RecordStep, RunDisconnected, PostCommand
<1>. QED
  BY <1>1, <1>4, <1>5, <1>6
\* The other steps take no command from its block to its end, or one that called nothing.
LEMMA ThereElse ==
    ASSUME IInv, NEW p \in Procs,
           \/ (\E name \in Names : Start(p, name)) \/ PrepareSession(p) \/ PrepareFails(p)
           \/ EnterSession(p) \/ LockTimeout(p) \/ Fail(p) \/ Interrupt(p) \/ RecordStep(p)
           \/ RunDisconnected(p) \/ PostCommand(p) \/ TabNew(p) \/ TabClose(p) \/ TabSelect(p)
    PROVE  There
<1>. DEFINE c == proc[p]
<1>1. Used \subseteq DOMAIN c
  BY DEF IInv, TypeOK
<1>2. ASSUME UNCHANGED proc PROVE There
  BY <1>2 DEF There
<1>3. CASE c.pc # "inside" /\ \E d : proc' = [proc EXCEPT ![p] = d]
  BY <1>3, ThereOK
<1>4. ASSUME proc' = [proc EXCEPT ![p] = Idle] PROVE There
  <2>1. Idle.pc # "ran"
    BY DEF Idle
  <2>. QED
    BY <1>4, <2>1, ThereOK
<1>5. ASSUME NEW exc, Ran(p, <<>>, exc, FALSE) PROVE There
  <2>. DEFINE d == [c EXCEPT !.pc = "ran", !.did = <<>>, !.exc = exc, !.wrote = FALSE]
  <2>1. d.did = <<>>
    BY <1>1 DEF Used
  <2>2. proc' = [proc EXCEPT ![p] = d]
    BY <1>5 DEF Ran
  <2>. HIDE DEF d
  <2>. QED
    BY <2>1, <2>2, ThereOK
<1>6. ASSUME NEW name \in Names, Start(p, name) PROVE There
  BY <1>2, <1>3, <1>6 DEF Start
<1>7. CASE PrepareSession(p) \/ EnterSession(p)
  BY <1>3, <1>7 DEF PrepareSession, EnterSession
<1>8. CASE PostCommand(p)
  BY <1>3, <1>8 DEF PostCommand, Observed
<1>9. CASE PrepareFails(p) \/ LockTimeout(p) \/ Fail(p) \/ Interrupt(p) \/ RecordStep(p)
  BY <1>4, <1>9 DEF PrepareFails, LockTimeout, Fail, Interrupt, RecordStep, End
<1>10. CASE TabClose(p)
  BY <1>5, <1>10 DEF TabClose
<1>11. CASE RunDisconnected(p) \/ TabNew(p) \/ TabSelect(p)
  BY <1>5, <1>11 DEF RunDisconnected, TabNew, TabSelect
<1>. QED
  BY <1>6, <1>7, <1>8, <1>9, <1>10, <1>11

LEMMA TabStep == TabInv /\ [Next]_vars => TabInv' /\ [There]_vars
<1>. SUFFICES ASSUME TabInv, [Next]_vars PROVE TabsOK' /\ [There]_vars
  BY StepOK DEF TabInv
<1>1. IInv
  BY DEF TabInv
<1>2. CASE UNCHANGED vars
  BY <1>2 DEF vars, TabInv, TabsOK
<1>3. CASE ChromeDies \/ CloseSession \/ TabsChange
  <2>1. There
    BY <1>3 DEF ChromeDies, CloseSession, TabsChange, There
  <2>2. (\E S : tabs \in Seq(S)) /\ <<>> \in Seq({}) /\ active \in Nat
    BY DEF TabInv, TabsOK
  <2>3. CASE ChromeDies
    <3>1. tabs' = <<>> /\ selected' = 0 /\ active' = active
      BY <2>3 DEF ChromeDies
    <3>. QED
      BY <2>1, <2>2, <3>1 DEF TabsOK
  <2>4. CASE CloseSession
    <3>1. CASE tabs' = <<>> /\ active' = 0 /\ selected' = 0
      BY <2>1, <2>2, <3>1 DEF TabsOK
    <3>2. CASE UNCHANGED <<tabs, active, selected>>
      BY <2>1, <3>2 DEF TabInv, TabsOK
    <3>. QED
      BY <2>4, <3>1, <3>2 DEF CloseSession
  <2>5. CASE TabsChange
    <3>1. PICK change \in TabChanges : tabs' = change.tabs /\ selected' = change.selected
      BY <2>5 DEF TabsChange
    <3>2. tabs # <<>> /\ active' = active /\ TabsOK
      BY <2>5 DEF TabsChange, TabInv
    <3>3. /\ \E S : change.tabs \in Seq(S)
          /\ change.selected # 0 =>
                 /\ change.selected = selected /\ active < Len(change.tabs)
                 /\ selected = change.tabs[active + 1]
      BY <3>2, ChangeOK
    <3>. QED
      BY <2>1, <2>2, <3>1, <3>2, <3>3 DEF TabsOK
  <2>. QED
    BY <1>3, <2>3, <2>4, <2>5
<1>4. ASSUME NEW p \in Procs, NEW name \in PageCommands, RunCommand(p, name)
      PROVE  TabsOK' /\ There
  BY <1>4, TabRunOK
<1>5. ASSUME NEW p \in Procs, TabNew(p) \/ TabClose(p) \/ TabSelect(p) PROVE TabsOK' /\ There
  BY <1>1, <1>5, TabCommandsOK, ThereElse
<1>6. ASSUME NEW p \in Procs,
             \/ (\E name \in Names : Start(p, name)) \/ PrepareSession(p) \/ PrepareFails(p)
             \/ EnterSession(p) \/ LockTimeout(p) \/ Fail(p) \/ Interrupt(p) \/ RecordStep(p)
             \/ RunDisconnected(p) \/ PostCommand(p)
      PROVE  TabsOK' /\ There
  BY <1>1, <1>6, TabSessionOK, ThereElse
<1>. QED
  BY <1>2, <1>3, <1>4, <1>5, <1>6 DEF Next, Step

LEMMA TabInit == Init => TabInv
<1>. SUFFICES ASSUME Init PROVE TabsOK
  BY InitOK DEF TabInv
<1>1. tabs \in Seq({}) /\ active = 0 /\ selected = 0
  BY DEF Init
<1>. QED
  BY <1>1 DEF TabsOK

\* A command's calls go to the tab that was selected, for any number of tabs and of
\* commands at once, after any opening, closing and selecting of tabs by the CLI, and by
\* pages or the user after the selected one, and whatever happens to the session.
THEOREM CallsReachSelectedTab == Spec => SelectedTabUsed
  BY TabInit, TabStep, PTL DEF Spec, SelectedTabUsed, There
-----------------------------------------------------------------------------
(* The work of a command.                                                  *)

\* The least number of a set: induction on numbers.
LEMMA LeastNumber ==
    ASSUME NEW T \in SUBSET Nat, T # {}
    PROVE  \E n \in T : \A m \in T : n <= m
<1>. DEFINE Less == OpToRel(<, Nat)
<1>1. \A m, n \in Nat : m < n => <<m, n>> \in Less
  BY DEF OpToRel
<1>2. IsWellFoundedOn(Less, Nat)
  BY NatLessThanWellFounded
<1>. HIDE DEF Less
<1>3. PICK n \in T : \A m \in T : ~(<<m, n>> \in Less)
  BY <1>2, WFMin
<1>4. n \in Nat /\ \A m \in T : m \in Nat
  OBVIOUS
<1>5. ASSUME NEW m \in T PROVE n <= m
  <2>1. ~(m < n)
    BY <1>1, <1>3, <1>4
  <2>. QED
    BY <1>4, <2>1
<1>. QED
  BY <1>5

\* Effects in order; none of them submits a form; what they were about.
IsOutcome(o) == (\E S : o.did \in Seq(S)) /\ o = [did |-> o.did, exc |-> o.exc, val |-> o.val]
Quiet(did) == \A i \in DOMAIN did : "submit" \notin did[i].about
About(did) == UNION {did[i].about : i \in DOMAIN did}
Plain(o) == IsOutcome(o) /\ Quiet(o.did)

LEMMA AboutJoined ==
    ASSUME NEW S, NEW f \in Seq(S), NEW n \in Seq(S)
    PROVE  /\ f \o n \in Seq(S)
           /\ About(f \o n) = About(f) \cup About(n)
           /\ Quiet(f) /\ Quiet(n) => Quiet(f \o n)
<1>. DEFINE o == f \o n
            l == Len(f)
            k == Len(n)
<1>1. /\ o \in Seq(S) /\ Len(o) = l + k
      /\ \A i \in 1 .. l + k : o[i] = IF i <= l THEN f[i] ELSE n[i - l]
  BY ConcatProperties
<1>2. l \in Nat /\ k \in Nat /\ DOMAIN f = 1 .. l /\ DOMAIN n = 1 .. k /\ DOMAIN o = 1 .. l + k
  BY <1>1, LenProperties
<1>. HIDE DEF o, l, k
<1>3. \A j \in DOMAIN f : j \in DOMAIN o /\ o[j] = f[j]
  BY <1>1, <1>2
<1>4. ASSUME NEW j \in DOMAIN n PROVE l + j \in DOMAIN o /\ o[l + j] = n[j]
  <2>1. l + j \in 1 .. l + k /\ ~(l + j <= l) /\ (l + j) - l = j
    BY <1>2
  <2>. QED
    BY <1>1, <1>2, <2>1
<1>5. ASSUME NEW i \in DOMAIN o
      PROVE  (i \in DOMAIN f /\ o[i] = f[i]) \/ \E j \in DOMAIN n : o[i] = n[j]
  <2>1. i \in 1 .. l + k
    BY <1>2, <1>5
  <2>2. CASE i <= l
    BY <1>1, <1>2, <2>1, <2>2
  <2>3. CASE ~(i <= l)
    <3>1. i - l \in 1 .. k
      BY <1>2, <2>1, <2>3
    <3>. QED
      BY <1>1, <1>2, <2>1, <2>3, <3>1
  <2>. QED
    BY <2>2, <2>3
<1>6. About(o) = About(f) \cup About(n)
  <2>1. ASSUME NEW x \in About(o) PROVE x \in About(f) \cup About(n)
    BY <1>5 DEF About
  <2>2. ASSUME NEW x \in About(f) PROVE x \in About(o)
    BY <1>3 DEF About
  <2>3. ASSUME NEW x \in About(n) PROVE x \in About(o)
    BY <1>4 DEF About
  <2>. QED
    BY <2>1, <2>2, <2>3
<1>7. Quiet(f) /\ Quiet(n) => Quiet(o)
  BY <1>5 DEF Quiet
<1>. QED
  BY <1>1, <1>6, <1>7 DEF o

\* An outcome that goes on from what another did.
Joins(o, f, n) == o = [n EXCEPT !.did = f.did \o n.did]
LEMMA Joined ==
    ASSUME NEW f, IsOutcome(f), NEW n, IsOutcome(n), NEW o, Joins(o, f, n)
    PROVE  /\ IsOutcome(o) /\ o.exc = n.exc /\ o.val = n.val /\ o.did = f.did \o n.did
           /\ About(o.did) = About(f.did) \cup About(n.did)
           /\ Quiet(f.did) /\ Quiet(n.did) => Quiet(o.did)
<1>1. PICK S, U : f.did \in Seq(S) /\ n.did \in Seq(U)
  BY DEF IsOutcome
<1>2. n = [did |-> n.did, exc |-> n.exc, val |-> n.val]
  BY DEF IsOutcome
<1>3. o.did = f.did \o n.did /\ o.exc = n.exc /\ o.val = n.val
      /\ o = [did |-> o.did, exc |-> o.exc, val |-> o.val]
  BY <1>2 DEF Joins
<1>4. f.did \in Seq(S \cup U) /\ n.did \in Seq(S \cup U)
  BY <1>1
<1>. QED
  BY <1>3, <1>4, AboutJoined DEF IsOutcome

\* Outcomes of one statement.
LEMMA ReturnsOK ==
    ASSUME NEW val, NEW o \in Returns(val)
    PROVE  Plain(o) /\ o.exc = "none" /\ o.val = val /\ o.did = <<>> /\ About(o.did) = {}
<1>1. o = [did |-> <<>>, exc |-> "none", val |-> val]
  BY DEF Returns
<1>2. o.did \in Seq({})
  BY <1>1
<1>. QED
  BY <1>1, <1>2 DEF Plain, IsOutcome, Quiet, About

LEMMA RaisesOK ==
    ASSUME NEW exc, NEW o \in Raises(exc)
    PROVE  Plain(o) /\ o.exc = exc /\ o.did = <<>> /\ About(o.did) = {}
<1>1. o = [did |-> <<>>, exc |-> exc, val |-> "none"]
  BY DEF Raises
<1>2. o.did \in Seq({})
  BY <1>1
<1>. QED
  BY <1>1, <1>2 DEF Plain, IsOutcome, Quiet, About

LEMMA OneEffect ==
    ASSUME NEW op, NEW about, NEW on, NEW o, o.did = <<Effect(op, about, on)>>,
           o = [did |-> o.did, exc |-> o.exc, val |-> o.val]
    PROVE  IsOutcome(o) /\ About(o.did) = about /\ ("submit" \notin about => Quiet(o.did))
<1>1. o.did \in Seq({Effect(op, about, on)}) /\ DOMAIN o.did = {1}
      /\ o.did[1] = Effect(op, about, on) /\ o.did[1].about = about
  BY DEF Effect
<1>. QED
  BY <1>1 DEF IsOutcome, About, Quiet

LEMMA SnapshotOK ==
    ASSUME NEW o \in Snapshot
    PROVE  Plain(o) /\ o.exc \in {"none", "PlaywrightError"} /\ o.did = <<>> /\ About(o.did) = {}
<1>1. o \in Returns("ok") \/ o \in Raises("PlaywrightError")
  BY DEF Snapshot, PageCall, Returns
<1>. QED
  BY <1>1, ReturnsOK, RaisesOK

LEMMA SdkCallOK ==
    ASSUME NEW op, NEW about, "submit" \notin about, NEW o \in SdkCall(op, about)
    PROVE  Plain(o) /\ o.exc \in {"none", "PlaywrightError"} /\ (o.exc = "none" => About(o.did) = about)
<1>1. CASE o = [did |-> <<Effect(op, about, "sdk")>>, exc |-> "none", val |-> "ok"]
  BY <1>1, OneEffect DEF Plain
<1>2. CASE o \in Raises("PlaywrightError")
  BY <1>2, RaisesOK
<1>. QED
  BY <1>1, <1>2 DEF SdkCall, PageCall

LEMMA ActGetOK ==
    ASSUME NEW op, NEW about, NEW answers, NEW o \in ActGet(op, about, answers)
    PROVE  /\ IsOutcome(o) /\ o.exc \in ActErrors \cup {"none"}
           /\ o.exc = "none" => /\ About(o.did) = about /\ o.val \in answers
                                /\ Len(o.did) = 1 /\ o.did[1].about = about
           /\ "submit" \notin about => Plain(o)
<1>. DEFINE done == <<Effect(op, about, "sdk")>>
<1>1. /\ o = [did |-> o.did, exc |-> o.exc, val |-> o.val] /\ o.did \in {done, <<>>}
      /\ o.exc \in ActErrors \cup {"none"}
      /\ o.exc = "none" => o.did = done /\ o.val \in answers
  BY DEF ActGet, ActErrors
<1>2. CASE o.did = done
  <2>1. Len(o.did) = 1 /\ o.did[1].about = about
    BY <1>2 DEF Effect
  <2>. QED
    BY <1>1, <1>2, <2>1, OneEffect DEF Plain
<1>3. CASE o.did = <<>> /\ o.exc # "none"
  <2>1. o.did \in Seq({})
    BY <1>3
  <2>. QED
    BY <1>1, <1>3, <2>1 DEF IsOutcome, Plain, Quiet
<1>. QED
  BY <1>1, <1>2, <1>3

\* The snapshots around a block add nothing but their failure.
LEMMA TrackedOK ==
    ASSUME NEW Block, \A o \in Block : IsOutcome(o), NEW o \in Tracked(Block)
    PROVE  o \in Block \/ o \in Raises("PlaywrightError")
<1>1. PICK f \in Snapshot : o \in IF f.exc # "none" THEN {f}
                                  ELSE {[n EXCEPT !.did = f.did \o n.did] : n \in Block}
  BY DEF Tracked, Then
<1>2. CASE f.exc # "none"
  BY <1>1, <1>2 DEF Snapshot, PageCall, Raises
<1>3. CASE f.exc = "none"
  <2>1. PICK n \in Block : o = [n EXCEPT !.did = f.did \o n.did]
    BY <1>1, <1>3
  <2>2. f.did = <<>>
    BY SnapshotOK
  <2>3. PICK S : n.did \in Seq(S)
    BY DEF IsOutcome
  <2>4. f.did \o n.did = n.did
    BY <2>2, <2>3
  <2>5. n = [did |-> n.did, exc |-> n.exc, val |-> n.val]
    BY DEF IsOutcome
  <2>6. o = n
    BY <2>1, <2>4, <2>5
  <2>. QED
    BY <2>6
<1>. QED
  BY <1>2, <1>3

LEMMA TransitionOK ==
    ASSUME NEW val, NEW o \in Transition(val)
    PROVE  o \in Returns(val) \/ o \in Raises("PlaywrightError")
<1>1. o \in Tracked(Returns(val))
  BY DEF Tracked, Transition
<1>. QED
  BY <1>1, ReturnsOK, TrackedOK DEF Plain

Follows(o, f, Rest) ==
    o \in IF f.exc # "none" THEN {f} ELSE {[n EXCEPT !.did = f.did \o n.did] : n \in Rest}

\* What o is if it goes on from f as n does.
Goes(o, f, n) == /\ o.exc = n.exc /\ o.val = n.val /\ o.did = f.did \o n.did
                 /\ About(o.did) = About(f.did) \cup About(n.did)
                 /\ Quiet(f.did) /\ Quiet(n.did) => Quiet(o.did)

\* First; Rest: of one outcome f of First and the outcomes of what follows it.
LEMMA AfterOK ==
    ASSUME NEW f, IsOutcome(f), NEW Rest, \A n \in Rest : IsOutcome(n),
           NEW o, Follows(o, f, Rest)
    PROVE  /\ IsOutcome(o)
           /\ \/ f.exc # "none" /\ o = f
              \/ f.exc = "none" /\ \E n \in Rest : Goes(o, f, n)
<1>1. CASE f.exc # "none"
  BY <1>1 DEF Follows
<1>2. CASE f.exc = "none"
  <2>1. PICK n \in Rest : Joins(o, f, n)
    BY <1>2 DEF Joins, Follows
  <2>. QED
    BY <1>2, <2>1, Joined DEF Goes
<1>. QED
  BY <1>1, <1>2

\* try ... except: what was done before the exception stays done.
LEMMA ExceptOK ==
    ASSUME NEW Body, \A b \in Body : Plain(b), NEW Excs, NEW Rescue, \A h \in Rescue : Plain(h),
           NEW o \in Except(Body, Excs, Rescue)
    PROVE  /\ Plain(o)
           /\ \/ o \in Body /\ o.exc \notin Excs
              \/ \E h \in Rescue : o.exc = h.exc /\ o.val = h.val
<1>1. PICK b \in Body : o \in IF b.exc \notin Excs THEN {b}
                              ELSE {[n EXCEPT !.did = b.did \o n.did] : n \in Rescue}
  BY DEF Except
<1>2. CASE b.exc \notin Excs
  BY <1>1, <1>2
<1>3. CASE b.exc \in Excs
  <2>1. PICK h \in Rescue : Joins(o, b, h)
    BY <1>1, <1>3 DEF Joins
  <2>. QED
    BY <2>1, Joined DEF Plain
<1>. QED
  BY <1>2, <1>3

\* A direct call, and what follows whatever it returns.
LEMMA CallThenOK ==
    ASSUME NEW op, NEW about, "submit" \notin about, NEW Rest, \A n \in Rest : Plain(n),
           NEW f \in SdkCall(op, about), NEW o, Follows(o, f, Rest)
    PROVE  /\ Plain(o)
           /\ \/ o.exc = "PlaywrightError"
              \/ about \subseteq About(o.did) /\ \E n \in Rest : o.exc = n.exc /\ o.val = n.val
<1>1. Plain(f) /\ f.exc \in {"none", "PlaywrightError"} /\ (f.exc = "none" => About(f.did) = about)
  BY SdkCallOK
<1>2. IsOutcome(f) /\ \A n \in Rest : IsOutcome(n)
  BY <1>1 DEF Plain
<1>3. CASE f.exc # "none"
  BY <1>1, <1>3 DEF Follows
<1>4. CASE f.exc = "none"
  <2>1. IsOutcome(o)
    BY <1>2, AfterOK
  <2>2. PICK n \in Rest : Goes(o, f, n)
    BY <1>2, <1>4, AfterOK
  <2>. QED
    BY <1>1, <1>4, <2>1, <2>2 DEF Plain, Goes
<1>. QED
  BY <1>3, <1>4

\* The agent, and what follows its answer without any effect.
LEMMA ActThenOK ==
    ASSUME NEW op, NEW about, NEW answers, NEW Rest,
           \A n \in Rest : \E val : n \in Returns(val) \/ n \in Raises("PlaywrightError"),
           NEW f \in ActGet(op, about, answers),
           NEW o, Follows(o, f, Rest)
    PROVE  /\ IsOutcome(o)
           /\ o.exc = "none" => /\ About(o.did) = about /\ ("submit" \notin about => Quiet(o.did))
                                /\ Len(o.did) = 1 /\ o.did[1].about = about
<1>1. \A n \in Rest : Plain(n) /\ n.did = <<>> /\ About(n.did) = {}
  BY ReturnsOK, RaisesOK
<1>4. IsOutcome(f) /\ \A n \in Rest : IsOutcome(n)
  BY <1>1, ActGetOK DEF Plain
<1>2. IsOutcome(o)
  BY <1>4, AfterOK
<1>3. ASSUME o.exc = "none"
      PROVE  /\ About(o.did) = about /\ ("submit" \notin about => Quiet(o.did))
             /\ Len(o.did) = 1 /\ o.did[1].about = about
  <2>1. PICK n \in Rest : f.exc = "none" /\ Goes(o, f, n)
    <3>1. f.exc = "none"
      BY <1>3 DEF Follows
    <3>. QED
      BY <1>4, <3>1, AfterOK
  <2>2. /\ IsOutcome(f) /\ About(f.did) = about /\ Len(f.did) = 1 /\ f.did[1].about = about
        /\ "submit" \notin about => Quiet(f.did)
    BY <2>1, ActGetOK DEF Plain
  <2>3. n.did = <<>> /\ Quiet(n.did) /\ About(n.did) = {}
    BY <1>1 DEF Plain
  <2>4. o.did = f.did
    <3>1. PICK S : f.did \in Seq(S)
      BY <2>2 DEF IsOutcome
    <3>. QED
      BY <2>1, <2>3, <3>1, ConcatEmptySeq DEF Goes
  <2>. QED
    BY <2>1, <2>2, <2>3, <2>4 DEF Goes
<1>. QED
  BY <1>2, <1>3
-----------------------------------------------------------------------------
(* The fast paths. *)

LEMMA FastOnOK ==
    ASSUME NEW cmd, NEW op, NEW o \in FastOn(cmd, op)
    PROVE  Plain(o) /\ (o.val = "yes" => "target" \in About(o.did))
<1>. DEFINE Direct == Then(SdkCall(op, {"target"}), LAMBDA a : Transition("yes"))
            Tried(r) == IF r.path = "smart" THEN Returns("no") ELSE Tracked(Direct)
            Tries == UNION {Tried(r) : r \in ResolutionsOf[cmd]}
            Body == Tracked(Tries)
            Good(n) == /\ Plain(n) /\ n.exc \in {"none", "PlaywrightError"}
                       /\ (n.exc = "none" /\ n.val = "yes" => "target" \in About(n.did))
<1>1. \A n \in Transition("yes") : Plain(n) /\ n.exc \in {"none", "PlaywrightError"}
  BY TransitionOK, ReturnsOK, RaisesOK
<1>2. ASSUME NEW n \in Direct PROVE Good(n)
  <2>1. PICK f \in SdkCall(op, {"target"}) : Follows(n, f, Transition("yes"))
    BY DEF Then, Follows
  <2>. QED
    BY <1>1, <2>1, CallThenOK
<1>3. o \in Except(Body, {"PlaywrightError"}, Returns("no"))
  BY DEF FastOn, Tracked
<1>. HIDE DEF Direct
<1>4. \A n \in Tracked(Direct) : Good(n)
  BY <1>2, TrackedOK, RaisesOK DEF Plain
<1>5. \A n \in Returns("no") : Good(n)
  BY ReturnsOK
<1>6. \A n \in Tries : Good(n)
  BY <1>4, <1>5
<1>. HIDE DEF Tries
<1>7. \A n \in Body : Good(n)
  BY <1>6, TrackedOK, RaisesOK DEF Plain
<1>. HIDE DEF Body
<1>8. /\ Plain(o)
      /\ \/ o \in Body /\ o.exc \notin {"PlaywrightError"}
         \/ \E h \in Returns("no") : o.exc = h.exc /\ o.val = h.val
  BY <1>3, <1>5, <1>7, ExceptOK
<1>. QED
  BY <1>7, <1>8, ReturnsOK

\* The form without the model: a field is filled, or is among those that failed.
LEMMA FieldsOK == \A n \in 1 .. Len(Fields) : Fields[n] \in Range(Fields) /\ Fields[n] # "submit"
<1>1. Fields \in Seq(STRING \ {"submit"}) /\ DOMAIN Fields = 1 .. Len(Fields)
  BY BrowserActionsAssumption, LenProperties
<1>. QED
  BY <1>1, ElementOfSeq DEF Range

LEMMA FillFieldOK ==
    ASSUME NEW f, f # "submit", NEW o \in FillField(f)
    PROVE  /\ Plain(o) /\ o.exc = "none"
           /\ o.val = {f} \/ (o.val = {} /\ f \in About(o.did))
<1>. DEFINE Direct == Then(SdkCall("fill", {f}), LAMBDA a : Returns({}))
            Tried(r) == IF r.path = "smart" \/ r.element = <<>> THEN Returns({f}) ELSE Direct
            Tries == UNION {Tried(r) : r \in ResolutionsOf["fill-form"]}
            Body == Tracked(Tries)
            Rescue == Returns({f})
            Good(n) == /\ Plain(n) /\ n.exc \in {"none", "PlaywrightError"}
                       /\ n.exc = "none" => n.val = {f} \/ (n.val = {} /\ f \in About(n.did))
<1>1. ASSUME NEW n \in Direct PROVE Good(n)
  <2>1. PICK c \in SdkCall("fill", {f}) : Follows(n, c, Returns({}))
    BY DEF Then, Follows
  <2>. QED
    BY <2>1, CallThenOK, ReturnsOK
<1>2. o \in Except(Body, {"PlaywrightError"}, Rescue)
  BY DEF FillField, Tracked
<1>. HIDE DEF Direct
<1>3. \A n \in Rescue : Good(n) /\ n.exc = "none" /\ n.val = {f}
  BY ReturnsOK
<1>4. \A n \in Tries : Good(n)
  BY <1>1, <1>3
<1>. HIDE DEF Tries
<1>5. \A n \in Body : Good(n)
  BY <1>4, TrackedOK, RaisesOK DEF Plain
<1>. HIDE DEF Body, Rescue
<1>6. /\ Plain(o)
      /\ \/ o \in Body /\ o.exc \notin {"PlaywrightError"}
         \/ \E h \in Rescue : o.exc = h.exc /\ o.val = h.val
  BY <1>2, <1>3, <1>5, ExceptOK
<1>. QED
  BY <1>3, <1>5, <1>6

\* One field more.
Fill(before, n) ==
    Then(before, LAMBDA failed : Then(FillField(Fields[n]), LAMBDA f : Returns(failed \cup f)))

\* FastFill is what its definition says: such a function exists for any number of fields.
LEMMA FastFillDef ==
    \A n \in 0 .. Len(Fields) :
        FastFill[n] = IF n = 0 THEN Returns({}) ELSE Fill(FastFill[n - 1], n)
<1>. DEFINE Fills(g, m) == g = [n \in 0 .. m |-> IF n = 0 THEN Returns({}) ELSE Fill(g[n - 1], n)]
            T == {m \in Nat : ~ \E g : Fills(g, m)}
<1>0. Len(Fields) \in Nat
  BY BrowserActionsAssumption, LenProperties
<1>1. FastFill = CHOOSE g : Fills(g, Len(Fields))
  BY DEF FastFill, Fill
<1>2. Fills([n \in 0 .. 0 |-> Returns({})], 0)
  OBVIOUS
<1>3. ASSUME NEW m \in Nat, m # 0, NEW g, Fills(g, m - 1) PROVE \E h : Fills(h, m)
  <2>. DEFINE h == [n \in 0 .. m |-> IF n = m THEN Fill(g[m - 1], m) ELSE g[n]]
  <2>1. ASSUME NEW n \in 0 .. m
        PROVE  h[n] = IF n = 0 THEN Returns({}) ELSE Fill(h[n - 1], n)
    <3>1. CASE n = m
      BY <1>3, <2>1, <3>1
    <3>2. CASE n # m
      BY <1>3, <2>1, <3>2
    <3>. QED
      BY <3>1, <3>2
  <2>2. h = [n \in 0 .. m |-> h[n]]
    OBVIOUS
  <2>3. Fills(h, m)
    BY <2>1, <2>2
  <2>. QED
    BY <2>3
<1>4. T = {}
  <2>1. SUFFICES ASSUME T # {} PROVE FALSE
    OBVIOUS
  <2>2. PICK m \in T : \A k \in T : m <= k
    BY <2>1, LeastNumber
  <2>3. m # 0
    BY <1>2
  <2>4. m - 1 \in Nat /\ m - 1 \notin T
    BY <2>2, <2>3
  <2>5. PICK g : Fills(g, m - 1)
    BY <2>4
  <2>. QED
    BY <1>3, <2>3, <2>5
<1>5. \E g : Fills(g, Len(Fields))
  BY <1>0, <1>4
<1>6. Fills(FastFill, Len(Fields))
  BY <1>1, <1>5
<1>. QED
  BY <1>6

Filled(o, n) == /\ Plain(o) /\ o.exc = "none" /\ o.val \subseteq Range(Fields)
                /\ \A i \in 1 .. n : Fields[i] \in About(o.did) \cup o.val

LEMMA FillOK ==
    ASSUME NEW n \in 1 .. Len(Fields), NEW before, \A f \in before : Filled(f, n - 1),
           NEW o \in Fill(before, n)
    PROVE  Filled(o, n)
<1>0. Len(Fields) \in Nat /\ Fields[n] \in Range(Fields) /\ Fields[n] # "submit"
  BY FieldsOK, BrowserActionsAssumption, LenProperties
<1>. DEFINE x == Fields[n]
            Rest(failed) == Then(FillField(x), LAMBDA f : Returns(failed \cup f))
<1>1. PICK f \in before : Follows(o, f, Rest(f.val))
  BY DEF Fill, Then, Follows
<1>2. Filled(f, n - 1)
  OBVIOUS
<1>x. x # "submit"
  BY <1>0
<1>. HIDE DEF x
<1>3. ASSUME NEW m \in Rest(f.val)
      PROVE  /\ Plain(m) /\ m.exc = "none"
             /\ m.val = f.val \cup {x} \/ (m.val = f.val /\ x \in About(m.did))
  <2>1. PICK c \in FillField(x) : Follows(m, c, Returns(f.val \cup c.val))
    BY DEF Then, Follows
  <2>2. Plain(c) /\ c.exc = "none" /\ (c.val = {x} \/ (c.val = {} /\ x \in About(c.did)))
    BY <1>x, FillFieldOK
  <2>3. \A r \in Returns(f.val \cup c.val) :
            Plain(r) /\ r.exc = "none" /\ r.val = f.val \cup c.val
    BY ReturnsOK
  <2>4. PICK r \in Returns(f.val \cup c.val) : Goes(m, c, r) /\ IsOutcome(m)
    BY <2>1, <2>2, <2>3, AfterOK DEF Plain
  <2>. QED
    BY <2>2, <2>3, <2>4 DEF Plain, Goes
<1>. HIDE DEF Rest
<1>4. PICK m \in Rest(f.val) : Goes(o, f, m) /\ IsOutcome(o)
  BY <1>1, <1>2, <1>3, AfterOK DEF Plain, Filled
<1>5. /\ Plain(o) /\ o.exc = "none" /\ About(o.did) = About(f.did) \cup About(m.did)
      /\ o.val = f.val \cup {x} \/ (o.val = f.val /\ x \in About(m.did))
  BY <1>2, <1>3, <1>4 DEF Plain, Goes, Filled
<1>6. o.val \subseteq Range(Fields)
  BY <1>0, <1>2, <1>5 DEF Filled, x
<1>7. ASSUME NEW i \in 1 .. n PROVE Fields[i] \in About(o.did) \cup o.val
  <2>1. CASE i = n
    BY <1>5, <2>1 DEF x
  <2>2. CASE i # n
    <3>1. i \in 1 .. n - 1
      BY <1>0, <2>2
    <3>. QED
      BY <1>2, <1>5, <3>1 DEF Filled
  <2>. QED
    BY <2>1, <2>2
<1>. QED
  BY <1>5, <1>6, <1>7 DEF Filled

LEMMA FastFillOK == \A n \in 0 .. Len(Fields) : \A o \in FastFill[n] : Filled(o, n)
<1>. DEFINE T == {n \in 0 .. Len(Fields) : ~ \A o \in FastFill[n] : Filled(o, n)}
<1>1. SUFFICES ASSUME T # {} PROVE FALSE
  OBVIOUS
<1>2. Len(Fields) \in Nat
  BY BrowserActionsAssumption, LenProperties
<1>0. T \in SUBSET Nat
  BY <1>2
<1>. HIDE DEF T
<1>3. PICK n \in T : \A k \in T : n <= k
  BY <1>0, <1>1, LeastNumber
<1>. USE DEF T
<1>4. CASE n = 0
  <2>1. FastFill[n] = Returns({})
    BY <1>2, <1>4, FastFillDef
  <2>2. \A o \in Returns({}) : Filled(o, 0)
    BY ReturnsOK DEF Filled
  <2>. QED
    BY <1>4, <2>1, <2>2
<1>5. CASE n # 0
  <2>1. n \in 1 .. Len(Fields) /\ n - 1 \in 0 .. Len(Fields) /\ ~(n <= n - 1)
    BY <1>2, <1>5
  <2>2. \A o \in FastFill[n - 1] : Filled(o, n - 1)
    BY <1>3, <2>1
  <2>3. FastFill[n] = Fill(FastFill[n - 1], n)
    BY <2>1, <1>5, FastFillDef
  <2>. QED
    BY <2>1, <2>2, <2>3, FillOK
<1>. QED
  BY <1>4, <1>5

\* A command that reports success has worked on all it was asked to; no form is
\* submitted before every field is filled.
Submitted(did, i) == Range(Fields) \subseteq UNION {did[j].about : j \in 1 .. i}
Worked(did, name) ==
    /\ Work[name] \subseteq About(did)
    /\ \A i \in DOMAIN did : "submit" \in did[i].about => name = "fill_form_submit" /\ Submitted(did, i)
WorksOn(o, work) == IsOutcome(o) /\ (o.exc = "none" => work \subseteq About(o.did) /\ Quiet(o.did))

LEMMA FollowedOK ==
    ASSUME NEW f, Plain(f), NEW work, NEW Rest,
           \A n \in Rest : WorksOn(n, {}), work \subseteq About(f.did) \/ \A n \in Rest : WorksOn(n, work),
           NEW o, Follows(o, f, Rest)
    PROVE  WorksOn(o, work)
<1>1. IsOutcome(f) /\ Quiet(f.did) /\ \A n \in Rest : IsOutcome(n)
  BY DEF Plain, WorksOn
<1>2. IsOutcome(o)
  BY <1>1, AfterOK
<1>3. ASSUME o.exc = "none" PROVE work \subseteq About(o.did) /\ Quiet(o.did)
  <2>1. f.exc = "none"
    BY <1>3 DEF Follows
  <2>2. PICK n \in Rest : Goes(o, f, n)
    BY <1>1, <2>1, AfterOK
  <2>3. n.exc = "none" /\ Quiet(n.did) /\ (work \subseteq About(f.did) \/ work \subseteq About(n.did))
    BY <1>3, <2>2 DEF WorksOn, Goes
  <2>. QED
    BY <1>1, <2>2, <2>3 DEF Goes
<1>. QED
  BY <1>2, <1>3 DEF WorksOn

\* The agent is asked once, within a block or on its own.
AsksOnce(o, about) ==
    /\ IsOutcome(o)
    /\ o.exc = "none" => /\ About(o.did) = about /\ ("submit" \notin about => Quiet(o.did))
                         /\ Len(o.did) = 1 /\ o.did[1].about = about

LEMMA AskedOnce ==
    ASSUME NEW op, NEW about, NEW answers, NEW f \in ActGet(op, about, answers),
           NEW val, NEW o, Follows(o, f, Transition(val)) \/ Follows(o, f, Returns(val))
    PROVE  AsksOnce(o, about)
<1>1. \A n \in Transition(val) : \E v : n \in Returns(v) \/ n \in Raises("PlaywrightError")
  BY TransitionOK
<1>2. \A n \in Returns(val) : \E v : n \in Returns(v) \/ n \in Raises("PlaywrightError")
  OBVIOUS
<1>. QED
  BY <1>1, <1>2, ActThenOK DEF AsksOnce

LEMMA AskedOK ==
    ASSUME NEW op, NEW about, NEW answers, "submit" \notin about, NEW f \in ActGet(op, about, answers),
           NEW val, NEW o, Follows(o, f, Transition(val)) \/ Follows(o, f, Returns(val))
    PROVE  WorksOn(o, about)
<1>1. AsksOnce(o, about)
  BY AskedOnce
<1>. QED
  BY <1>1 DEF AsksOnce, WorksOn

LEMMA BlockOK ==
    ASSUME NEW Block, NEW work, \A n \in Block : WorksOn(n, work), NEW o \in Tracked(Block)
    PROVE  WorksOn(o, work)
<1>1. o \in Block \/ o \in Raises("PlaywrightError")
  BY TrackedOK DEF WorksOn
<1>. QED
  BY <1>1, RaisesOK DEF WorksOn, Plain

LEMMA ReturnedOK == ASSUME NEW val, NEW o \in Returns(val) PROVE WorksOn(o, {})
  BY ReturnsOK DEF WorksOn, Plain

LEMMA AskOK == \A o \in Ask : WorksOn(o, {"question"})
<1>1. TAKE o \in Ask
<1>2. PICK f \in ActGet("look", {"question"}, {"answer"}) : Follows(o, f, Returns(TRUE))
  BY DEF Ask, Then, Follows
<1>. QED
  BY <1>2, AskedOK

LEMMA ExecuteOK == \A o \in Execute : WorksOn(o, {"prompt"})
<1>. DEFINE Block == Then(Act({"prompt"}), LAMBDA a : Transition(TRUE))
<1>1. ASSUME NEW n \in Block PROVE WorksOn(n, {"prompt"})
  <2>1. PICK f \in ActGet("act", {"prompt"}, {"done"}) : Follows(n, f, Transition(TRUE))
    BY DEF Then, Follows, Act
  <2>. QED
    BY <2>1, AskedOK
<1>2. Execute = Tracked(Block)
  BY DEF Execute
<1>. HIDE DEF Block
<1>. QED
  BY <1>1, <1>2, BlockOK

LEMMA ClickOK == \A o \in Click : WorksOn(o, {"target"})
<1>. DEFINE Block == Then(ActGet("act", {"target"}, BOOLEAN), LAMBDA clicked : Transition(clicked))
            Slow == Tracked(Block)
<1>1. ASSUME NEW n \in Block PROVE WorksOn(n, {"target"})
  <2>1. PICK f \in ActGet("act", {"target"}, BOOLEAN) : Follows(n, f, Transition(f.val))
    BY DEF Then, Follows
  <2>. QED
    BY <2>1, AskedOK
<1>2. TAKE o \in Click
<1>3. PICK f \in FastOn("click", "click") :
          Follows(o, f, IF f.val = "yes" THEN Returns(TRUE) ELSE Slow)
  BY DEF Click, TryFastClick, Then, Follows
<1>. HIDE DEF Block
<1>6. \A n \in Slow : WorksOn(n, {"target"})
  BY <1>1, BlockOK
<1>4. \A n \in Slow : WorksOn(n, {"target"}) /\ WorksOn(n, {})
  BY <1>6 DEF WorksOn
<1>. HIDE DEF Slow
<1>5. Plain(f) /\ (f.val = "yes" => "target" \in About(f.did))
  BY FastOnOK
<1>. QED
  BY <1>3, <1>4, <1>5, FollowedOK, ReturnedOK

LEMMA GotoOK == \A o \in GotoCommand.outcomes : WorksOn(o, {"url"})
<1>. DEFINE Page == ThenTrue(TabCall("read"))
<1>1. ASSUME NEW n \in Page PROVE WorksOn(n, {})
  <2>1. PICK f \in TabCall("read") : Follows(n, f, Returns(TRUE))
    BY DEF ThenTrue, Then, Follows
  <2>2. Plain(f)
    <3>1. CASE f = [did |-> <<Effect("read", {"page"}, "tab")>>, exc |-> "none", val |-> "ok"]
      BY <3>1, OneEffect DEF Plain
    <3>. QED
      BY <3>1, RaisesOK DEF TabCall, PageCall
  <2>. QED
    BY <2>1, <2>2, FollowedOK, ReturnedOK
<1>2. TAKE o \in GotoCommand.outcomes
<1>3. PICK f \in SdkCall("goto", {"url"}) : Follows(o, f, Page)
  BY DEF GotoCommand, Command, Goto, Then, Follows
<1>. HIDE DEF Page
<1>4. Plain(f) /\ (f.exc = "none" => {"url"} \subseteq About(f.did))
  BY SdkCallOK
<1>5. CASE f.exc # "none"
  BY <1>3, <1>4, <1>5 DEF Follows, WorksOn, Plain
<1>6. CASE f.exc = "none"
  BY <1>1, <1>3, <1>4, <1>6, FollowedOK
<1>. QED
  BY <1>5, <1>6

\* Typing: directly, if an element is there for it that can be typed into.
LEMMA TypeFastOK ==
    ASSUME NEW target \in BOOLEAN, NEW o \in TypeFast(target)
    PROVE  Plain(o) /\ (o.val = "yes" => "text" \in About(o.did))
<1>. DEFINE Block == Then(SdkCall("type", {"text"}), LAMBDA a : Transition("yes"))
            Tried(r) ==
                IF r.path = "smart" \/ r.element = <<>> THEN Returns("no")
                ELSE IF r.element[1].role \notin FILLABLE_ROLES THEN Returns("no")
                ELSE TypeInto
            into == IF target THEN UNION {Tried(r) : r \in ResolutionsOf["fill-form"]}
                    ELSE TypeInto \cup Returns("no")
            Body == Tracked(into)
            Rescue == Returns("no")
            Good(n) == /\ Plain(n) /\ n.exc \in {"none", "PlaywrightError"}
                       /\ n.exc = "none" /\ n.val = "yes" => "text" \in About(n.did)
<1>1. \A n \in Transition("yes") : Plain(n) /\ n.exc \in {"none", "PlaywrightError"}
  BY TransitionOK, ReturnsOK, RaisesOK
<1>2. ASSUME NEW n \in Block PROVE Good(n)
  <2>1. PICK f \in SdkCall("type", {"text"}) : Follows(n, f, Transition("yes"))
    BY DEF Then, Follows
  <2>. QED
    BY <1>1, <2>1, CallThenOK
<1>3. TypeInto = Tracked(Block)
  BY DEF TypeInto
<1>4. o \in Except(Body, {"PlaywrightError"}, Rescue)
  BY DEF TypeFast, Tracked
<1>. HIDE DEF Block
<1>5. \A n \in TypeInto : Good(n)
  BY <1>2, <1>3, TrackedOK, RaisesOK DEF Plain
<1>6. \A n \in Rescue : Good(n) /\ n.exc = "none" /\ n.val = "no"
  BY ReturnsOK
<1>7. \A n \in into : Good(n)
  BY <1>5, <1>6
<1>. HIDE DEF into
<1>8. \A n \in Body : Good(n)
  BY <1>7, TrackedOK, RaisesOK DEF Plain
<1>. HIDE DEF Body, Rescue
<1>9. /\ Plain(o)
      /\ \/ o \in Body /\ o.exc \notin {"PlaywrightError"}
         \/ \E h \in Rescue : o.exc = h.exc /\ o.val = h.val
  BY <1>4, <1>6, <1>8, ExceptOK
<1>. QED
  BY <1>6, <1>8, <1>9

LEMMA TypeTextOK == ASSUME NEW target \in BOOLEAN, NEW o \in TypeText(target) PROVE WorksOn(o, {"text"})
<1>. DEFINE Slow == Then(Act({"text"}), LAMBDA a : Returns(TRUE))
<1>1. ASSUME NEW n \in Slow PROVE WorksOn(n, {"text"})
  <2>1. PICK f \in ActGet("act", {"text"}, {"done"}) : Follows(n, f, Returns(TRUE))
    BY DEF Then, Follows, Act
  <2>. QED
    BY <2>1, AskedOK
<1>2. PICK f \in TypeFast(target) : Follows(o, f, IF f.val = "yes" THEN Returns(TRUE) ELSE Slow)
  BY DEF TypeText, Then, Follows
<1>. HIDE DEF Slow
<1>3. \A n \in Slow : WorksOn(n, {"text"}) /\ WorksOn(n, {})
  BY <1>1 DEF WorksOn
<1>4. Plain(f) /\ (f.val = "yes" => "text" \in About(f.did))
  BY TypeFastOK
<1>. QED
  BY <1>2, <1>3, <1>4, FollowedOK, ReturnedOK

LEMMA TryFastFillOK ==
    ASSUME NEW o \in TryFastFill
    PROVE  IsOutcome(o) /\ (o.exc = "none" => Filled(o, Len(Fields)))
<1>. DEFINE N == Len(Fields)
            Block == Then(FastFill[N], LAMBDA failed : Transition(failed))
<1>1. N \in 0 .. Len(Fields)
  BY BrowserActionsAssumption, LenProperties
<1>2. ASSUME NEW n \in Block PROVE IsOutcome(n) /\ (n.exc = "none" => Filled(n, N))
  <2>1. PICK f \in FastFill[N] : Follows(n, f, Transition(f.val))
    BY DEF Then, Follows
  <2>. HIDE DEF N
  <2>2. Filled(f, N)
    BY <1>1, FastFillOK
  <2>3. \A m \in Transition(f.val) :
            Plain(m) /\ (m.exc = "none" => m.val = f.val /\ About(m.did) = {})
    BY TransitionOK, ReturnsOK, RaisesOK
  <2>4. PICK m \in Transition(f.val) : Goes(n, f, m) /\ IsOutcome(n)
    BY <2>1, <2>2, <2>3, AfterOK DEF Plain, Filled
  <2>5. n.exc = "none" => Filled(n, N)
    BY <2>2, <2>3, <2>4 DEF Plain, Goes, Filled
  <2>. QED
    BY <2>4, <2>5
<1>3. TryFastFill = Tracked(Block)
  BY DEF TryFastFill
<1>. HIDE DEF Block
<1>. QED
  BY <1>2, <1>3, TrackedOK, RaisesOK DEF Plain

\* A request to the model, as the block of a command.
Request(about) == Tracked(Then(Act(about), LAMBDA a : Transition(TRUE)))

LEMMA RequestOK == ASSUME NEW about, NEW o \in Request(about) PROVE AsksOnce(o, about)
<1>. DEFINE Block == Then(Act(about), LAMBDA a : Transition(TRUE))
<1>1. ASSUME NEW n \in Block PROVE AsksOnce(n, about)
  <2>1. PICK c \in ActGet("act", about, {"done"}) : Follows(n, c, Transition(TRUE))
    BY DEF Then, Follows, Act
  <2>. QED
    BY <2>1, AskedOnce
<1>2. o \in Tracked(Block)
  BY DEF Request
<1>. HIDE DEF Block
<1>3. o \in Block \/ o \in Raises("PlaywrightError")
  BY <1>1, <1>2, TrackedOK DEF AsksOnce
<1>. QED
  BY <1>1, <1>3, RaisesOK DEF Plain, AsksOnce

\* A form: the fields that failed and the submission are one request to the model.
LEMMA FillFormOK ==
    ASSUME NEW submit \in BOOLEAN, NEW o \in FillForm(submit), o.exc = "none"
    PROVE  /\ IsOutcome(o)
           /\ Range(Fields) \cup (IF submit THEN {"submit"} ELSE {}) \subseteq About(o.did)
           /\ \A i \in DOMAIN o.did : "submit" \in o.did[i].about => submit /\ Submitted(o.did, i)
<1>. DEFINE last == IF submit THEN {"submit"} ELSE {}
            Rest(failed) == IF failed = {} /\ ~submit THEN Returns(TRUE) ELSE Request(failed \cup last)
<1>1. PICK f \in TryFastFill : Follows(o, f, Rest(f.val))
  BY DEF FillForm, Then, Follows, Request
<1>3. \A n \in Request(f.val \cup last) : AsksOnce(n, f.val \cup last)
  BY RequestOK
<1>4. \A n \in Rest(f.val) : IsOutcome(n)
  BY <1>3, ReturnsOK DEF Plain, AsksOnce
<1>5. f.exc = "none" /\ IsOutcome(f) /\ Filled(f, Len(Fields))
  BY <1>1, TryFastFillOK DEF Follows
<1>6. PICK n \in Rest(f.val) : Goes(o, f, n) /\ IsOutcome(o)
  BY <1>1, <1>4, <1>5, AfterOK
<1>7. \A x \in Range(Fields) : x \in About(f.did) \cup f.val /\ x # "submit"
  BY <1>5, FieldsOK, BrowserActionsAssumption, LenProperties DEF Filled, Range
<1>8. f.val \subseteq Range(Fields) /\ Quiet(f.did)
  BY <1>5 DEF Filled, Plain
<1>9. CASE f.val = {} /\ ~submit
  <2>1. Quiet(n.did)
    BY <1>6, <1>9, ReturnsOK DEF Plain
  <2>. QED
    BY <1>6, <1>7, <1>8, <1>9, <2>1 DEF Goes, Quiet
<1>10. CASE ~(f.val = {} /\ ~submit)
  <2>1. /\ Len(n.did) = 1 /\ n.did[1].about = f.val \cup last
        /\ About(n.did) = f.val \cup last /\ IsOutcome(n)
    BY <1>3, <1>6, <1>10 DEF Goes, AsksOnce
  <2>2. About(o.did) = About(f.did) \cup f.val \cup last
    BY <1>6, <2>1 DEF Goes
  <2>3. Range(Fields) \cup last \subseteq About(o.did)
    BY <1>7, <2>2
  <2>4. ASSUME NEW i \in DOMAIN o.did, "submit" \in o.did[i].about
        PROVE  submit /\ Submitted(o.did, i)
    <3>1. PICK S : f.did \in Seq(S) /\ n.did \in Seq(S) /\ o.did \in Seq(S)
      <4>1. PICK S, U : f.did \in Seq(S) /\ n.did \in Seq(U)
        BY <1>5, <2>1 DEF IsOutcome
      <4>2. f.did \in Seq(S \cup U) /\ n.did \in Seq(S \cup U)
        BY <4>1
      <4>. QED
        BY <1>6, <4>2, AboutJoined DEF Goes
    <3>. DEFINE l == Len(f.did)
    <3>2. /\ Len(o.did) = l + 1 /\ l \in Nat /\ DOMAIN o.did = 1 .. l + 1 /\ DOMAIN f.did = 1 .. l
          /\ \A j \in 1 .. l + 1 : o.did[j] = IF j <= l THEN f.did[j] ELSE n.did[j - l]
      <4>1. Len(n.did) = 1 /\ o.did = f.did \o n.did
        BY <1>6, <2>1 DEF Goes
      <4>2. /\ Len(f.did \o n.did) = l + Len(n.did)
            /\ \A j \in 1 .. l + Len(n.did) :
                  (f.did \o n.did)[j] = IF j <= l THEN f.did[j] ELSE n.did[j - l]
        BY <3>1, ConcatProperties
      <4>3. DOMAIN f.did = 1 .. l /\ l \in Nat /\ DOMAIN o.did = 1 .. Len(o.did)
        BY <3>1, LenProperties
      <4>. QED
        BY <4>1, <4>2, <4>3
    <3>. HIDE DEF l
    <3>3. ~(i <= l)
      BY <1>8, <2>4, <3>2 DEF Quiet
    <3>4. i = l + 1
      BY <2>4, <3>2, <3>3
    <3>5. "submit" \in f.val \cup last
      BY <2>1, <2>4, <3>2, <3>3, <3>4
    <3>6. submit
      BY <1>7, <1>8, <3>5
    <3>7. UNION {o.did[j].about : j \in 1 .. i} = About(o.did)
      BY <3>2, <3>4 DEF About
    <3>. QED
      BY <2>3, <3>6, <3>7 DEF Submitted
  <2>. QED
    BY <1>6, <2>3, <2>4
<1>. QED
  BY <1>9, <1>10

LEMMA CommandsWork ==
    ASSUME NEW name \in DOMAIN Work, NEW o \in Commands[name].outcomes, o.exc = "none"
    PROVE  IsOutcome(o) /\ Worked(o.did, name)
<1>1. name \in {"click", "type", "goto", "ask", "execute", "fill_form", "fill_form_submit"}
  BY DEF Work
<1>2. ASSUME WorksOn(o, Work[name]) PROVE IsOutcome(o) /\ Worked(o.did, name)
  BY <1>2 DEF WorksOn, Worked, Quiet
<1>3. CASE name = "click"
  <2>1. o \in Click
    BY <1>3 DEF Commands, ClickCommand, Command
  <2>2. Work[name] = {"target"}
    BY <1>3 DEF Work
  <2>. QED
    BY <1>2, <2>1, <2>2, ClickOK
<1>4. CASE name = "type"
  <2>1. o \in TypeText(TRUE) \/ o \in TypeText(FALSE)
    BY <1>4 DEF Commands, TypeCommand, Command
  <2>2. Work[name] = {"text"}
    BY <1>4 DEF Work
  <2>. QED
    BY <1>2, <2>1, <2>2, TypeTextOK
<1>5. CASE name = "goto"
  <2>1. o \in GotoCommand.outcomes
    BY <1>5 DEF Commands
  <2>2. Work[name] = {"url"}
    BY <1>5 DEF Work
  <2>. QED
    BY <1>2, <2>1, <2>2, GotoOK
<1>6. CASE name = "ask"
  <2>1. o \in Ask
    BY <1>6 DEF Commands, AskCommand, Command
  <2>2. Work[name] = {"question"}
    BY <1>6 DEF Work
  <2>. QED
    BY <1>2, <2>1, <2>2, AskOK
<1>7. CASE name = "execute"
  <2>1. o \in Execute
    BY <1>7 DEF Commands, ExecuteCommand, Command
  <2>2. Work[name] = {"prompt"}
    BY <1>7 DEF Work
  <2>. QED
    BY <1>2, <2>1, <2>2, ExecuteOK
<1>8. CASE name = "fill_form"
  <2>1. o \in FillForm(FALSE)
    BY <1>8 DEF Commands, FillFormCommand, Command
  <2>2. Work[name] = Range(Fields)
    BY <1>8 DEF Work
  <2>. QED
    BY <2>1, <2>2, FillFormOK DEF Worked
<1>9. CASE name = "fill_form_submit"
  <2>1. o \in FillForm(TRUE)
    BY <1>9 DEF Commands, FillFormCommand, Command
  <2>2. Work[name] = Range(Fields) \cup {"submit"}
    BY <1>9 DEF Work
  <2>. QED
    BY <1>9, <2>1, <2>2, FillFormOK DEF Worked
<1>. QED
  BY <1>1, <1>3, <1>4, <1>5, <1>6, <1>7, <1>8, <1>9

-----------------------------------------------------------------------------
(* The commands of the processes.                                          *)

DoneOK(c) ==
    c.pc = "ran" /\ c.exc = "none" /\ c.name \in DOMAIN Work =>
        (\E S : c.did \in Seq(S)) /\ Worked(c.did, c.name)

WorkInv == IInv /\ \A p \in Procs : DoneOK(proc[p])

\* Where an effect happened changes nothing about what it was about.
LEMMA LocatedOK ==
    ASSUME NEW did, NEW S, did \in Seq(S), NEW index, NEW k, NEW change,
           NEW name, Worked(did, name)
    PROVE  /\ \E U : Located(did, index, k, change) \in Seq(U)
           /\ Worked(Located(did, index, k, change), name)
<1>. DEFINE there == Located(did, index, k, change)
<1>1. DOMAIN did = 1 .. Len(did) /\ Len(did) \in Nat
  BY LenProperties
<1>2. DOMAIN there = DOMAIN did /\ \A i \in DOMAIN did : there[i].about = did[i].about
  BY DEF Located
<1>3. there \in Seq({there[i] : i \in DOMAIN did})
  <2>1. there = [i \in 1 .. Len(did) |-> there[i]]
    BY <1>1 DEF Located
  <2>. HIDE DEF there
  <2>. QED
    BY <1>1, <2>1
<1>. HIDE DEF there
<1>4. About(there) = About(did)
  BY <1>2 DEF About
<1>5. ASSUME NEW i \in DOMAIN did PROVE Submitted(there, i) <=> Submitted(did, i)
  <2>1. \A j \in 1 .. i : j \in DOMAIN did /\ there[j].about = did[j].about
    BY <1>1, <1>2
  <2>2. UNION {there[j].about : j \in 1 .. i} = UNION {did[j].about : j \in 1 .. i}
    BY <2>1
  <2>. QED
    BY <2>2 DEF Submitted
<1>6. Worked(there, name)
  BY <1>2, <1>4, <1>5 DEF Worked
<1>. QED
  BY <1>3, <1>6 DEF there

LEMMA WorkStep ==
    ASSUME WorkInv, IInv', NEW p \in Procs, NEW c, proc' = [proc EXCEPT ![p] = c], DoneOK(c)
    PROVE  WorkInv'
<1>1. proc'[p] = c /\ \A q \in Procs \ {p} : proc'[q] = proc[q]
  BY DEF WorkInv, IInv, TypeOK
<1>. QED
  BY <1>1 DEF WorkInv

LEMMA WorkOutsideOK ==
    ASSUME WorkInv, IInv', NEW p \in Procs,
           \/ (\E name \in Names : Start(p, name)) \/ PrepareSession(p) \/ PrepareFails(p)
           \/ EnterSession(p) \/ LockTimeout(p) \/ Fail(p) \/ Interrupt(p) \/ RecordStep(p)
    PROVE  WorkInv'
<1>1. Used \subseteq DOMAIN proc[p]
  BY DEF WorkInv, IInv, TypeOK
<1>2. CASE UNCHANGED proc
  BY <1>2 DEF WorkInv
<1>3. CASE End(p)
  <2>1. DoneOK(Idle)
    BY DEF DoneOK, Idle
  <2>. QED
    BY <1>3, <2>1, WorkStep DEF End
<1>4. ASSUME NEW name \in Names, Start(p, name) PROVE WorkInv'
  <2>. DEFINE d == [Idle EXCEPT !.pc = "parsed", !.name = name, !.num = issued']
  <2>1. d.pc = "parsed"
    BY DEF Idle
  <2>. HIDE DEF d
  <2>2. DoneOK(d)
    BY <2>1 DEF DoneOK
  <2>. QED
    BY <1>2, <1>4, <2>2, WorkStep DEF Start, d
<1>5. CASE PrepareSession(p)
  <2>. DEFINE d == [proc[p] EXCEPT !.pc = "prepared", !.chrome = chrome', !.index = active']
  <2>1. d.pc = "prepared"
    BY <1>1 DEF Used
  <2>. HIDE DEF d
  <2>2. DoneOK(d)
    BY <2>1 DEF DoneOK
  <2>. QED
    BY <1>5, <2>2, WorkStep DEF PrepareSession, d
<1>6. CASE EnterSession(p)
  <2>. DEFINE d == [proc[p] EXCEPT !.pc = "inside"]
  <2>1. d.pc = "inside"
    BY <1>1 DEF Used
  <2>2. proc' = [proc EXCEPT ![p] = d]
    BY <1>6 DEF EnterSession
  <2>. HIDE DEF d
  <2>3. DoneOK(d)
    BY <2>1 DEF DoneOK
  <2>. QED
    BY <2>2, <2>3, WorkStep
<1>7. CASE PrepareFails(p)
  <2>1. DoneOK(Idle)
    BY DEF DoneOK, Idle
  <2>. QED
    BY <1>7, <2>1, WorkStep DEF PrepareFails
<1>. QED
  BY <1>3, <1>4, <1>5, <1>6, <1>7 DEF LockTimeout, Fail, Interrupt, RecordStep

LEMMA WorkBodyOK ==
    ASSUME WorkInv, IInv', NEW p \in Procs,
           \/ RunDisconnected(p) \/ (\E name \in PageCommands : RunCommand(p, name))
           \/ TabNew(p) \/ TabClose(p) \/ TabSelect(p)
    PROVE  WorkInv'
<1>1. Used \subseteq DOMAIN proc[p]
  BY DEF WorkInv, IInv, TypeOK
<1>2. ASSUME NEW did, NEW exc, NEW wrote, Ran(p, did, exc, wrote),
             exc = "none" /\ proc[p].name \in DOMAIN Work =>
                 (\E S : did \in Seq(S)) /\ Worked(did, proc[p].name)
      PROVE  WorkInv'
  <2>. DEFINE d == [proc[p] EXCEPT !.pc = "ran", !.did = did, !.exc = exc, !.wrote = wrote]
  <2>1. d.did = did /\ d.exc = exc /\ d.name = proc[p].name
    BY <1>1 DEF Used
  <2>2. proc' = [proc EXCEPT ![p] = d]
    BY <1>2 DEF Ran
  <2>. HIDE DEF d
  <2>3. DoneOK(d)
    BY <1>2, <2>1 DEF DoneOK
  <2>. QED
    BY <2>2, <2>3, WorkStep
<1>3. ASSUME NEW name \in PageCommands, RunCommand(p, name) PROVE WorkInv'
  <2>0. PICK o \in Commands[name].outcomes :
            \E wrote \in IF AskedModel(o.did) THEN BOOLEAN ELSE {FALSE},
               k \in Acting(o.did) \cup {Len(o.did)}, change \in {NoChange} \cup TabChanges :
                Ran(p, Located(o.did, proc[p].index, k, change), o.exc, wrote)
    BY <1>3 DEF RunCommand
  <2>1. PICK wrote \in IF AskedModel(o.did) THEN BOOLEAN ELSE {FALSE},
             k \in Acting(o.did) \cup {Len(o.did)}, change \in {NoChange} \cup TabChanges :
                Ran(p, Located(o.did, proc[p].index, k, change), o.exc, wrote)
    BY <2>0
  <2>2. proc[p].name = name
    BY <1>3 DEF RunCommand, Runs
  <2>3. ASSUME o.exc = "none", name \in DOMAIN Work
        PROVE  /\ \E S : Located(o.did, proc[p].index, k, change) \in Seq(S)
               /\ Worked(Located(o.did, proc[p].index, k, change), name)
    <3>1. IsOutcome(o) /\ Worked(o.did, name)
      BY <2>3, CommandsWork
    <3>. QED
      BY <3>1, LocatedOK DEF IsOutcome
  <2>. QED
    BY <1>2, <2>1, <2>2, <2>3
<1>4. ASSUME proc[p].name \in TabCommands PROVE proc[p].name \notin DOMAIN Work
  BY <1>4 DEF TabCommands, Work
<1>5. CASE TabNew(p)
  <2>1. proc[p].name \in TabCommands /\ \E exc : Ran(p, <<>>, exc, FALSE)
    BY <1>5 DEF TabNew, Runs, TabCommands
  <2>. QED
    BY <1>2, <1>4, <2>1
<1>6. CASE TabClose(p)
  <2>1. proc[p].name \in TabCommands /\ \E exc : Ran(p, <<>>, exc, FALSE)
    BY <1>6 DEF TabClose, Runs, TabCommands
  <2>. QED
    BY <1>2, <1>4, <2>1
<1>7. CASE TabSelect(p)
  <2>1. proc[p].name \in TabCommands /\ \E exc : Ran(p, <<>>, exc, FALSE)
    BY <1>7 DEF TabSelect, Runs, TabCommands
  <2>. QED
    BY <1>2, <1>4, <2>1
<1>. QED
  BY <1>2, <1>3, <1>5, <1>6, <1>7 DEF RunDisconnected

LEMMA WorkPostOK == ASSUME WorkInv, IInv', NEW p \in Procs, PostCommand(p) PROVE WorkInv'
<1>. DEFINE c == proc[p]
<1>1. Used \subseteq DOMAIN c
  BY DEF WorkInv, IInv, TypeOK
<1>2. ASSUME NEW exc, exc # "none", proc' = [proc EXCEPT ![p] = [c EXCEPT !.exc = exc]]
      PROVE  WorkInv'
  <2>. DEFINE d == [c EXCEPT !.exc = exc]
  <2>1. d.exc = exc
    BY <1>1 DEF Used
  <2>. HIDE DEF d
  <2>2. DoneOK(d)
    BY <1>2, <2>1 DEF DoneOK
  <2>. QED
    BY <1>2, <2>2, WorkStep DEF d
<1>3. ASSUME NEW wrote, NEW steps, Observed(p, wrote, steps) PROVE WorkInv'
  <2>. DEFINE d == [c EXCEPT !.pc = "recording", !.did = <<>>, !.wrote = c.wrote \/ wrote,
                             !.steps = steps, !.loaded = manifest]
  <2>1. proc' = [proc EXCEPT ![p] = d]
    BY <1>3, Zenon DEF Observed
  <2>2. d.pc = "recording"
    BY <1>1, Zenon DEF Used
  <2>. HIDE DEF d
  <2>3. DoneOK(d)
    BY <2>2 DEF DoneOK
  <2>. QED
    BY <2>1, <2>3, WorkStep
<1>. QED
  BY <1>2, <1>3 DEF PostCommand

\* What a command that reports success was asked for is done, for forms of any
\* number of fields, on any page, wherever direct calls failed on the way.
THEOREM SuccessMeansDone == Spec => []WorkIsDone
<1>1. Init => WorkInv
  BY InitOK DEF Init, WorkInv, DoneOK, Idle
<1>2. ASSUME WorkInv, [Next]_vars PROVE WorkInv'
  <2>1. IInv'
    BY <1>2, StepOK DEF WorkInv
  <2>2. CASE UNCHANGED vars \/ ChromeDies \/ CloseSession \/ TabsChange
    <3>1. UNCHANGED proc
      BY <2>2 DEF vars, ChromeDies, CloseSession, TabsChange
    <3>. QED
      BY <1>2, <2>1, <3>1 DEF WorkInv
  <2>3. ASSUME NEW p \in Procs,
               \/ (\E name \in Names : Start(p, name)) \/ PrepareFails(p) \/ EnterSession(p)
               \/ LockTimeout(p) \/ Fail(p) \/ Interrupt(p) \/ RecordStep(p) \/ RunDisconnected(p)
               \/ PostCommand(p) \/ PrepareSession(p) \/ TabNew(p) \/ TabClose(p) \/ TabSelect(p)
               \/ \E name \in PageCommands : RunCommand(p, name)
        PROVE  WorkInv'
    BY <1>2, <2>1, <2>3, WorkOutsideOK, WorkBodyOK, WorkPostOK
  <2>. QED
    BY <1>2, <2>2, <2>3 DEF Next, Step
<1>3. WorkInv => WorkIsDone
  <2>1. SUFFICES ASSUME WorkInv, NEW p \in Procs, proc[p].pc = "ran", proc[p].exc = "none",
                        proc[p].name \in DOMAIN Work
        PROVE  /\ Work[proc[p].name] \subseteq UNION {proc[p].did[i].about : i \in 1 .. Len(proc[p].did)}
               /\ \A i \in DOMAIN proc[p].did :
                     "submit" \in proc[p].did[i].about =>
                         /\ proc[p].name = "fill_form_submit"
                         /\ Range(Fields) \subseteq UNION {proc[p].did[j].about : j \in 1 .. i}
    BY DEF WorkIsDone
  <2>. DEFINE did == proc[p].did
              name == proc[p].name
  <2>2. (\E S : did \in Seq(S)) /\ Worked(did, name)
    BY <2>1 DEF WorkInv, DoneOK
  <2>3. DOMAIN did = 1 .. Len(did)
    BY <2>2, LenProperties
  <2>. QED
    BY <2>2, <2>3 DEF Worked, About, Submitted
<1>. QED
  BY <1>1, <1>2, <1>3, PTL DEF Spec
-----------------------------------------------------------------------------
(* The algorithms: authentication, clicking and typing.                    *)

\* Each behaviour of Tasks applies one algorithm to one input.
\* After RunTask it is that algorithm's task.
LEMMA OneTask ==
    ASSUME RunTask
    PROVE  \/ task' = "fault" /\ MeetFault
           \/ task' = "answer" /\ GetAnswer
           \/ task' = "report" /\ LeaveCommand
           \/ task' = "plan" /\ MakePlan
           \/ task' = "click" /\ ClickThenType
           \/ task' = "type" /\ TypeAnything
           \/ task' = "auth" /\ Authenticate
           \/ task' = "network" /\ ShowNetwork
  BY DEF RunTask, MeetFault, GetAnswer, LeaveCommand, MakePlan, ClickThenType, TypeAnything,
         Authenticate, ShowNetwork, Apply

\* Whatever key and credentials a command of the CLI finds (auth.py), after
\* resolving the mode the environment has a key exactly when the mode needs
\* one, and detection fails only when there is nothing to authenticate with.
THEOREM KeyInKeyMode == Tasks => []KeyExactlyInKeyMode
<1>1. NoTask => KeyExactlyInKeyMode
  BY DEF NoTask, KeyExactlyInKeyMode
<1>2. ASSUME RunTask PROVE KeyExactlyInKeyMode'
  <2>1. CASE task' = "auth" /\ Authenticate
    <3>1. PICK s \in Surroundings, mode \in {"api-key", "aws", "auto"} :
              input' = <<s, mode>> /\ output' = ResolveAuthMode(mode, s)
      BY <2>1 DEF Authenticate, Apply
    <3>2. s.env \in BOOLEAN /\ s.file \in BOOLEAN /\ s.aws \in BOOLEAN
      BY DEF Surroundings
    <3>3. CASE mode = "api-key"
      BY <3>1, <3>2, <3>3 DEF KeyExactlyInKeyMode, ResolveAuthMode, ResolveApiKey, Auth
    <3>4. CASE mode = "aws"
      BY <3>1, <3>2, <3>4 DEF KeyExactlyInKeyMode, ResolveAuthMode, ResolveAws, Auth
    <3>5. CASE mode = "auto"
      BY <3>1, <3>2, <3>5 DEF KeyExactlyInKeyMode, ResolveAuthMode, AutoDetect, ResolveApiKey, Auth
    <3>. QED
      BY <3>3, <3>4, <3>5
  <2>2. CASE task' # "auth"
    BY <2>2 DEF KeyExactlyInKeyMode
  <2>. QED
    BY <1>2, <2>1, <2>2, OneTask
<1>3. KeyExactlyInKeyMode /\ UNCHANGED taskVars => KeyExactlyInKeyMode'
  BY DEF KeyExactlyInKeyMode, taskVars
<1>. QED
  BY <1>1, <1>2, <1>3, PTL DEF Tasks

\* An element of the main document that has an id is found by it.
LEMMA FoundById ==
    ASSUME NEW page \in Pages, NEW t \in DOMAIN page
    PROVE  page[t].id # "" /\ page[t].frame = "main" => LocateElement(page, t) = t
<1>. DEFINE Same(i) == IF page[t].id # "" THEN page[i].id = page[t].id
                      ELSE IF page[t].class # "" THEN page[i].class = page[t].class
                      ELSE Tag(page[i]) = Tag(page[t])
            found == {i \in DOMAIN page : page[i].frame = "main" /\ Same(i)}
            InMain == page[t].id # "" /\ page[t].frame = "main"
<1>1. LocateElement(page, t) = IF found = {} THEN 0 ELSE CHOOSE i \in found : \A j \in found : i <= j
  BY Zenon DEF LocateElement
<1>2. page \in Seq([kind : Kind, id : STRING, class : STRING,
                    frame : {"main", "inner", "closed"}, chooser : BOOLEAN])
  BY CliAlgorithmsAssumption
<1>3. DOMAIN page = 1 .. Len(page) /\ Len(page) \in Nat
  BY <1>2, LenProperties
<1>4. t <= t
  BY <1>3
<1>5. InMain => found = {t}
  BY CliAlgorithmsAssumption
<1>. HIDE DEF found, InMain
<1>6. ASSUME InMain PROVE LocateElement(page, t) = t
  <2>1. \E i \in found : \A j \in found : i <= j
    BY <1>4, <1>5, <1>6
  <2>2. (CHOOSE i \in found : \A j \in found : i <= j) \in found
    BY <2>1
  <2>. QED
    BY <1>1, <1>5, <1>6, <2>2
<1>. QED
  BY <1>6 DEF InMain

\* For pages of any size: a redirect of agentClick leads agentType to the
\* element that was clicked (a colour or a range that has an id and lies in the
\* main document), never to keys typed behind a file chooser, and only allowed
\* files are uploaded (agent_click.py, agent_type.py).
THEOREM RedirectsLeadThere == Tasks => []RedirectsLead
<1>1. NoTask => RedirectsLead
  BY DEF NoTask, RedirectsLead
<1>2. ASSUME RunTask PROVE RedirectsLead'
  <2>1. CASE task' = "click" /\ ClickThenType
    <3>0. PICK page \in Pages : \E t \in DOMAIN page, clickType \in ClickType, focus \in 0 .. Len(page) :
              /\ input' = <<page, t>>
              /\ output' = << AgentClick(page, t, clickType),
                              IF AgentClick(page, t, clickType) = "clicked" THEN Done(0, "none")
                              ELSE AgentType(page, t, Asked[AgentClick(page, t, clickType)], focus) >>
      BY <2>1 DEF ClickThenType, Apply
    <3>1. PICK t \in DOMAIN page, clickType \in ClickType, focus \in 0 .. Len(page) :
              /\ input' = <<page, t>>
              /\ output' = << AgentClick(page, t, clickType),
                              IF AgentClick(page, t, clickType) = "clicked" THEN Done(0, "none")
                              ELSE AgentType(page, t, Asked[AgentClick(page, t, clickType)], focus) >>
      BY <3>0
    <3>. DEFINE redirect == AgentClick(page, t, clickType)
    <3>2. CASE redirect = "clicked"
      BY <2>1, <3>1, <3>2 DEF RedirectsLead
    <3>3. CASE redirect \in {"color", "range"} /\ Seen(page, t) /\ page[t].kind = redirect
      <4>1. Asked[redirect] = IF redirect = "color" THEN "color" ELSE "number"
        <5>1. Asked["color"] = "color" /\ Asked["range"] = "number"
          BY DEF Asked
        <5>. QED
          BY <3>3, <5>1
      <4>2. AgentType(page, t, Asked[redirect], focus) = Done(LocateElement(page, t), "set")
        <5>1. ~ IsFile(Asked[redirect])
          BY <3>3, <4>1 DEF IsFile
        <5>2. AgentType(page, t, Asked[redirect], focus)
                  = IF redirect = "color" THEN SetValue(page, t, Asked[redirect] = "color", "set")
                    ELSE SetValue(page, t, Asked[redirect] = "number", "set")
          BY <3>3, <5>1 DEF AgentType, NativeDropdown
        <5>. QED
          BY <3>3, <4>1, <5>2 DEF SetValue
      <4>3. output'[1] = redirect /\ output'[2] = Done(LocateElement(page, t), "set")
        BY <3>1, <3>3, <4>2
      <4>4. output'[2].at = LocateElement(page, t) /\ output'[2].how = "set"
        BY <4>3 DEF Done
      <4>5. input'[1] = page /\ input'[2] = t /\ task' = "click"
        BY <2>1, <3>1
      <4>. HIDE DEF redirect
      <4>. QED
        BY <3>3, <4>3, <4>4, <4>5, FoundById DEF RedirectsLead
    <3>4. CASE redirect = "select" /\ NativeDropdown(page, t)
      BY <2>1, <3>1, <3>4 DEF RedirectsLead, AgentType, Asked, IsFile, NativeDropdown, Done
    <3>5. CASE redirect = "file" /\ page[t].chooser
      BY <2>1, <3>1, <3>5 DEF RedirectsLead, AgentType, Asked, IsFile, Done
    <3>6. \/ redirect = "clicked"
          \/ redirect \in {"color", "range"} /\ Seen(page, t) /\ page[t].kind = redirect
          \/ redirect = "select" /\ NativeDropdown(page, t)
          \/ redirect = "file" /\ page[t].chooser
      BY DEF AgentClick
    <3>. QED
      BY <3>2, <3>3, <3>4, <3>5, <3>6
  <2>2. CASE task' = "type" /\ TypeAnything
    <3>0. PICK page \in Pages : \E t \in DOMAIN page, value \in Value, focus \in 0 .. Len(page) :
              input' = <<page, t, value>> /\ output' = AgentType(page, t, value, focus)
      BY <2>2 DEF TypeAnything, Apply
    <3>1. PICK t \in DOMAIN page, value \in Value, focus \in 0 .. Len(page) :
              input' = <<page, t, value>> /\ output' = AgentType(page, t, value, focus)
      BY <3>0
    <3>2. AgentType(page, t, value, focus).how = "upload" => value = "allowed file"
      BY DEF AgentType, IsFile, Raised, Done, SetValue, TypeKeys, NativeDropdown
    <3>. QED
      BY <2>2, <3>1, <3>2 DEF RedirectsLead
  <2>3. CASE task' \notin {"click", "type"}
    BY <2>3 DEF RedirectsLead
  <2>. QED
    BY <1>2, <2>1, <2>2, <2>3, OneTask
<1>3. RedirectsLead /\ UNCHANGED taskVars => RedirectsLead'
  BY DEF RedirectsLead, taskVars
<1>. QED
  BY <1>1, <1>2, <1>3, PTL DEF Tasks

-----------------------------------------------------------------------------
(* Classes of exceptions.                                                  *)

LEMMA Parents ==
    /\ \A c \in {"Exception", "KeyboardInterrupt"} :
           ParentOf(c) = "BaseException"
    /\ \A c \in {"NovaActError", "NovaActCLIError", "OSError", "BotoCoreError", "ValueError",
               "PlaywrightError", "RuntimeError", "ClickException"} :
           ParentOf(c) = "Exception"
    /\ \A c \in {"ActError", "StartFailed", "AuthError", "IAMAuthError"} :
           ParentOf(c) = "NovaActError"
    /\ ParentOf("SessionError") = "NovaActCLIError"
    /\ \A c \in {"ConnectionError", "TimeoutError", "PermissionError",
               "RequestsConnectionError"} :
           ParentOf(c) = "OSError"
    /\ ParentOf("ClickExit") = "RuntimeError"
    /\ \A c \in {"ActTimeoutError", "ActAgentError", "ActExecutionError", "ActAPIError"} :
           ParentOf(c) = "ActError"
    /\ \A c \in {"SessionLockTimeout", "SessionLimitReached", "BrowserProcessDead"} :
           ParentOf(c) = "SessionError"
    /\ \A c \in {"ActInvalidModelGenerationError", "ActAgentFailed",
               "ActExceededMaxStepsError"} :
           ParentOf(c) = "ActAgentError"
    /\ \A c \in {"ActCanceledError", "ActActuationError", "ActToolError",
               "ActStateGuardrailError"} :
           ParentOf(c) = "ActExecutionError"
    /\ \A c \in {"ActClientError", "ActServerError"} :
           ParentOf(c) = "ActAPIError"
    /\ \A c \in {"ActBadRequestError", "ActGuardrailsError", "ActRateLimitExceededError"} :
           ParentOf(c) = "ActClientError"
    /\ \A c \in {"ActBadResponseError", "ActInternalServerError"} :
           ParentOf(c) = "ActServerError"
    /\ \A c \in {"ActRequestThrottledError", "ActDailyQuotaExceededError"} :
           ParentOf(c) = "ActRateLimitExceededError"
  BY DEF ParentOf, Parent, CliParent, LibraryParent

LEMMA Classes ==
    Class = {"NovaActError", "ActError", "StartFailed", "AuthError", "IAMAuthError",
             "ActTimeoutError", "ActAgentError", "ActInvalidModelGenerationError",
             "ActAgentFailed", "ActExceededMaxStepsError", "ActExecutionError",
             "ActCanceledError", "ActActuationError", "ActToolError",
             "ActStateGuardrailError", "ActAPIError", "ActClientError",
             "ActBadRequestError", "ActGuardrailsError", "ActRateLimitExceededError",
             "ActRequestThrottledError", "ActDailyQuotaExceededError", "ActServerError",
             "ActBadResponseError", "ActInternalServerError", "NovaActCLIError",
             "SessionError", "SessionLockTimeout", "SessionLimitReached",
             "BrowserProcessDead", "Exception", "KeyboardInterrupt", "OSError",
             "ConnectionError", "TimeoutError", "PermissionError",
             "RequestsConnectionError", "BotoCoreError", "ValueError", "PlaywrightError",
             "RuntimeError", "ClickExit", "ClickException"}
  BY DEF Class, Parent, CliParent, LibraryParent

\* The hierarchy has no cycle: seven steps down from the root reach every class,
\* so the recursion of Ancestors ends.
Above(S) == S \cup {c \in Class : ParentOf(c) \in S}

LEMMA HierarchyEnds ==
    Class \subseteq Above(Above(Above(Above(Above(Above(Above({"BaseException"})))))))
<1>. DEFINE S1 == Above({"BaseException"})
            S2 == Above(S1)
            S3 == Above(S2)
            S4 == Above(S3)
            S5 == Above(S4)
            S6 == Above(S5)
            S7 == Above(S6)
<1>0. \A S : \A c \in Class : ParentOf(c) \in S => c \in Above(S)
  BY DEF Above
<1>1. {"Exception", "KeyboardInterrupt"} \subseteq S1
  BY <1>0, Parents, Classes
<1>2. {"NovaActError", "NovaActCLIError", "OSError", "BotoCoreError", "ValueError",
       "PlaywrightError", "RuntimeError", "ClickException"} \subseteq S2
  <2>. HIDE DEF S1
  <2>. QED
    BY <1>0, <1>1, Parents, Classes
<1>3. {"ActError", "StartFailed", "AuthError", "IAMAuthError", "SessionError",
       "ConnectionError", "TimeoutError", "PermissionError", "RequestsConnectionError",
       "ClickExit"} \subseteq S3
  <2>. HIDE DEF S2
  <2>. QED
    BY <1>0, <1>2, Parents, Classes
<1>4. {"ActTimeoutError", "ActAgentError", "ActExecutionError", "ActAPIError",
       "SessionLockTimeout", "SessionLimitReached", "BrowserProcessDead"} \subseteq S4
  <2>. HIDE DEF S3
  <2>. QED
    BY <1>0, <1>3, Parents, Classes
<1>5. {"ActInvalidModelGenerationError", "ActAgentFailed", "ActExceededMaxStepsError",
       "ActCanceledError", "ActActuationError", "ActToolError", "ActStateGuardrailError",
       "ActClientError", "ActServerError"} \subseteq S5
  <2>. HIDE DEF S4
  <2>. QED
    BY <1>0, <1>4, Parents, Classes
<1>6. {"ActBadRequestError", "ActGuardrailsError", "ActRateLimitExceededError",
       "ActBadResponseError", "ActInternalServerError"} \subseteq S6
  <2>. HIDE DEF S5
  <2>. QED
    BY <1>0, <1>5, Parents, Classes
<1>7. {"ActRequestThrottledError", "ActDailyQuotaExceededError"} \subseteq S7
  <2>. HIDE DEF S6
  <2>. QED
    BY <1>0, <1>6, Parents, Classes
<1>8. /\ S1 \subseteq S7 /\ S2 \subseteq S7 /\ S3 \subseteq S7 /\ S4 \subseteq S7
      /\ S5 \subseteq S7 /\ S6 \subseteq S7
  BY DEF Above
<1>. HIDE DEF S1, S2, S3, S4, S5, S6, S7
<1>9. Class \subseteq S7
  BY <1>1, <1>2, <1>3, <1>4, <1>5, <1>6, <1>7, <1>8, Classes
<1>. QED
  BY <1>9 DEF S1, S2, S3, S4, S5, S6, S7

\* A function that is the ancestors on S, of which the parents are in S.
AncestorsOf(f, c) == IF c = "BaseException" THEN {c} ELSE {c} \cup f[ParentOf(c)]
Known(S) == \E f : /\ DOMAIN f = Class \cup {"BaseException"}
                   /\ \A c \in S : /\ f[c] = AncestorsOf(f, c)
                                   /\ c = "BaseException" \/ ParentOf(c) \in S

LEMMA KnownAbove ==
    ASSUME NEW S, "BaseException" \in S, S \subseteq Class \cup {"BaseException"}, Known(S)
    PROVE  /\ Known(Above(S)) /\ "BaseException" \in Above(S)
           /\ Above(S) \subseteq Class \cup {"BaseException"}
<1>1. PICK f : /\ DOMAIN f = Class \cup {"BaseException"}
               /\ \A c \in S : /\ f[c] = AncestorsOf(f, c)
                               /\ c = "BaseException" \/ ParentOf(c) \in S
  BY DEF Known
<1>. DEFINE g == [c \in Class \cup {"BaseException"} |-> IF c \in S THEN f[c] ELSE AncestorsOf(f, c)]
<1>2. \A c \in S : g[c] = f[c]
  OBVIOUS
<1>3. ASSUME NEW c \in Above(S)
      PROVE  /\ g[c] = AncestorsOf(g, c)
             /\ c = "BaseException" \/ ParentOf(c) \in Above(S)
  <2>1. c = "BaseException" \/ ParentOf(c) \in S
    BY <1>1 DEF Above
  <2>2. g[c] = AncestorsOf(f, c)
    BY <1>1 DEF Above
  <2>. QED
    BY <1>2, <2>1, <2>2 DEF AncestorsOf, Above
<1>4. DOMAIN g = Class \cup {"BaseException"}
  OBVIOUS
<1>. QED
  BY <1>3, <1>4 DEF Known, Above

LEMMA AncestorsDef ==
    /\ Ancestors["BaseException"] = {"BaseException"}
    /\ \A c \in Class : Ancestors[c] = {c} \cup Ancestors[ParentOf(c)]
<1>. DEFINE All == Class \cup {"BaseException"}
            S1 == Above({"BaseException"})
            S2 == Above(S1)
            S3 == Above(S2)
            S4 == Above(S3)
            S5 == Above(S4)
            S6 == Above(S5)
            S7 == Above(S6)
            OK(S) == Known(S) /\ "BaseException" \in S /\ S \subseteq All
<1>1. OK({"BaseException"})
  <2>1. [c \in All |-> {c}]["BaseException"] = AncestorsOf([c \in All |-> {c}], "BaseException")
    BY DEF AncestorsOf
  <2>. QED
    BY <2>1 DEF Known
<1>2. ASSUME NEW S, OK(S) PROVE OK(Above(S))
  BY <1>2, KnownAbove
<1>. HIDE DEF OK
<1>3. OK(S4)
  BY <1>1, <1>2
<1>4. OK(S7)
  BY <1>2, <1>3
<1>5. Class \subseteq S7
  BY HierarchyEnds
<1>. HIDE DEF S7
<1>6. PICK f : DOMAIN f = All /\ \A c \in All : f[c] = AncestorsOf(f, c)
  BY <1>4, <1>5 DEF OK, Known
<1>. DEFINE Solves(h) == h = [c \in Class \cup {"BaseException"} |->
                                IF c = "BaseException" THEN {c} ELSE {c} \cup h[ParentOf(c)]]
<1>7. \E h : Solves(h)
  <2>. DEFINE h == [c \in All |-> f[c]]
  <2>1. \A c \in All \ {"BaseException"} : ParentOf(c) \in All
    BY Parents, Classes
  <2>2. \A c \in All : h[c] = IF c = "BaseException" THEN {c} ELSE {c} \cup h[ParentOf(c)]
    BY <1>6, <2>1 DEF AncestorsOf
  <2>3. Solves(h)
    BY <2>2
  <2>. QED
    BY <2>3
<1>8. Ancestors = CHOOSE h : Solves(h)
  BY Zenon DEF Ancestors
<1>9. Solves(Ancestors)
  BY <1>7, <1>8
<1>10. "BaseException" \notin Class
  BY Classes
<1>. QED
  BY <1>9, <1>10

\* The classes the handlers of the CLI are for, and what each extends.
Handled == {"SessionLockTimeout", "SessionLimitReached", "BrowserProcessDead",
            "ConnectionError", "TimeoutError", "PermissionError", "IAMAuthError",
            "AuthError", "ActTimeoutError", "ActExceededMaxStepsError",
            "ActGuardrailsError", "ActRateLimitExceededError"}
Handlers == SessionHandlers \o SdkErrorMap

LEMMA Lineages ==
    /\ Ancestors["Exception"] = {"Exception", "BaseException"}
    /\ Ancestors["OSError"] = {"OSError", "Exception", "BaseException"}
    /\ Ancestors["SessionError"] = {"SessionError", "NovaActCLIError", "Exception", "BaseException"}
    /\ Ancestors["ActError"] = {"ActError", "NovaActError", "Exception", "BaseException"}
    /\ Ancestors["ActAPIError"] = {"ActAPIError"} \cup Ancestors["ActError"]
    /\ Ancestors["ActClientError"] = {"ActClientError"} \cup Ancestors["ActAPIError"]
<1>1. Ancestors["Exception"] = {"Exception", "BaseException"}
  BY AncestorsDef, Parents, Classes
<1>2. Ancestors["OSError"] = {"OSError", "Exception", "BaseException"}
  BY <1>1, AncestorsDef, Parents, Classes
<1>3. Ancestors["NovaActCLIError"] = {"NovaActCLIError", "Exception", "BaseException"}
  BY <1>1, AncestorsDef, Parents, Classes
<1>4. Ancestors["SessionError"] = {"SessionError", "NovaActCLIError", "Exception", "BaseException"}
  BY <1>3, AncestorsDef, Parents, Classes
<1>5. Ancestors["NovaActError"] = {"NovaActError", "Exception", "BaseException"}
  BY <1>1, AncestorsDef, Parents, Classes
<1>6. Ancestors["ActError"] = {"ActError", "NovaActError", "Exception", "BaseException"}
  BY <1>5, AncestorsDef, Parents, Classes
<1>7. /\ Ancestors["ActAPIError"] = {"ActAPIError"} \cup Ancestors["ActError"]
      /\ Ancestors["ActClientError"] = {"ActClientError"} \cup Ancestors["ActAPIError"]
  BY AncestorsDef, Parents, Classes
<1>. QED
  BY <1>1, <1>2, <1>4, <1>6, <1>7

\* No handler's class extends another one's, nor an exception handled before them.
LEMMA HandlersApart ==
    \A c \in Handled, d \in Handled \cup {"ClickExit", "KeyboardInterrupt"} :
        d \in Ancestors[c] => c = d
<1>. SUFFICES ASSUME NEW c \in Handled,
                     NEW d \in Handled \cup {"ClickExit", "KeyboardInterrupt"}, d \in Ancestors[c]
              PROVE  c = d
  OBVIOUS
<1>1. CASE c \in {"SessionLockTimeout", "SessionLimitReached", "BrowserProcessDead"}
  <2>1. Ancestors[c] = {c} \cup Ancestors["SessionError"]
    BY <1>1, AncestorsDef, Parents, Classes
  <2>. QED
    BY <2>1, Lineages DEF Handled
<1>2. CASE c \in {"ConnectionError", "TimeoutError", "PermissionError"}
  <2>1. Ancestors[c] = {c} \cup Ancestors["OSError"]
    BY <1>2, AncestorsDef, Parents, Classes
  <2>. QED
    BY <2>1, Lineages DEF Handled
<1>3. CASE c \in {"IAMAuthError", "AuthError"}
  <2>1. Ancestors[c] = {c} \cup Ancestors["NovaActError"]
    BY <1>3, AncestorsDef, Parents, Classes
  <2>2. Ancestors["NovaActError"] = {"NovaActError"} \cup Ancestors["Exception"]
    BY AncestorsDef, Parents, Classes
  <2>. QED
    BY <2>1, <2>2, Lineages DEF Handled
<1>4. CASE c = "ActTimeoutError"
  <2>1. Ancestors[c] = {c} \cup Ancestors["ActError"]
    BY <1>4, AncestorsDef, Parents, Classes
  <2>. QED
    BY <2>1, Lineages DEF Handled
<1>5. CASE c = "ActExceededMaxStepsError"
  <2>1. /\ Ancestors[c] = {c} \cup Ancestors["ActAgentError"]
        /\ Ancestors["ActAgentError"] = {"ActAgentError"} \cup Ancestors["ActError"]
    BY <1>5, AncestorsDef, Parents, Classes
  <2>. QED
    BY <2>1, Lineages DEF Handled
<1>6. CASE c \in {"ActGuardrailsError", "ActRateLimitExceededError"}
  <2>1. Ancestors[c] = {c} \cup Ancestors["ActClientError"]
    BY <1>6, AncestorsDef, Parents, Classes
  <2>. QED
    BY <2>1, Lineages DEF Handled
<1>. QED
  BY <1>1, <1>2, <1>3, <1>4, <1>5, <1>6 DEF Handled

LEMMA SixAndSix ==
    ASSUME NEW a1, NEW a2, NEW a3, NEW a4, NEW a5, NEW a6,
           NEW b1, NEW b2, NEW b3, NEW b4, NEW b5, NEW b6
    PROVE  \E S : <<a1, a2, a3, a4, a5, a6>> \in Seq(S) /\ <<b1, b2, b3, b4, b5, b6>> \in Seq(S)
<1>. DEFINE S == {a1, a2, a3, a4, a5, a6, b1, b2, b3, b4, b5, b6}
<1>1. <<a1, a2, a3, a4, a5, a6>> \in Seq(S) /\ <<b1, b2, b3, b4, b5, b6>> \in Seq(S)
  OBVIOUS
<1>. QED
  BY <1>1

LEMMA HandlerList ==
    /\ DOMAIN Handlers = 1 .. 12
    /\ \A i \in DOMAIN Handlers : Handlers[i].class \in Handled
    /\ ToSet(Handlers) = {Handlers[i] : i \in DOMAIN Handlers}
<1>1. Len(SessionHandlers) = 6 /\ Len(SdkErrorMap) = 6
  BY DEF SessionHandlers, SdkErrorMap
<1>2. /\ \A i \in 1 .. 6 : SessionHandlers[i].class \in Handled
      /\ \A i \in 1 .. 6 : SdkErrorMap[i].class \in Handled
  BY DEF SessionHandlers, SdkErrorMap, Handler, Handled
<1>3. /\ \A i \in 1 .. 6 : Handlers[i] = SessionHandlers[i]
      /\ \A i \in 7 .. 12 : Handlers[i] = SdkErrorMap[i - 6]
  <2>1. PICK S : SessionHandlers \in Seq(S) /\ SdkErrorMap \in Seq(S)
    BY Zenon, SixAndSix DEF SessionHandlers, SdkErrorMap
  <2>2. \A i \in 1 .. Len(SessionHandlers) + Len(SdkErrorMap) :
            (SessionHandlers \o SdkErrorMap)[i] =
                IF i <= Len(SessionHandlers) THEN SessionHandlers[i]
                ELSE SdkErrorMap[i - Len(SessionHandlers)]
    BY <2>1, ConcatProperties
  <2>3. \A i \in 1 .. 12 : Handlers[i] = IF i <= 6 THEN SessionHandlers[i] ELSE SdkErrorMap[i - 6]
    BY <1>1, <2>2, 6 + 6 = 12 DEF Handlers
  <2>4. /\ \A i \in 1 .. 6 : i \in 1 .. 12 /\ i <= 6
        /\ \A i \in 7 .. 12 : i \in 1 .. 12 /\ ~(i <= 6)
    OBVIOUS
  <2>. QED
    BY <2>3, <2>4
<1>4. DOMAIN Handlers = 1 .. 12
  BY DEF Handlers, SessionHandlers, SdkErrorMap
<1>5. \A i \in 7 .. 12 : i - 6 \in 1 .. 6
  OBVIOUS
<1>6. \A i \in 1 .. 12 : i \in 1 .. 6 \/ i \in 7 .. 12
  OBVIOUS
<1>. QED
  BY <1>2, <1>3, <1>4, <1>5, <1>6 DEF ToSet

\* The first handler of an exception is one that handles it.
LEMMA FirstHandles ==
    ASSUME NEW e, Handling(Handlers, e) # {}
    PROVE  \E i \in Handling(Handlers, e) : First(Handlers, e) = Handlers[i]
<1>. DEFINE handling == Handling(Handlers, e)
<1>1. handling \subseteq Nat
  BY HandlerList DEF Handling
<1>2. handling # {}
  OBVIOUS
<1>. HIDE DEF handling
<1>3. \E i \in handling : \A j \in handling : i <= j
  BY <1>1, <1>2, LeastNumber
<1>4. (CHOOSE i \in handling : \A j \in handling : i <= j) \in handling
  BY <1>3
<1>. QED
  BY <1>4 DEF First, handling

\* What handle_common_errors() reports of e.
LEMMA Reported ==
    ASSUME NEW e, NEW says
    PROVE  /\ Report(e, says).class \in
                  Handled \cup {"ClickExit", "KeyboardInterrupt", "Exception", "RuntimeError"}
           /\ Report(e, says).class \in {"Exception", "RuntimeError"} => Handling(Handlers, e) = {}
<1>1. CASE e = "ClickExit" \/ e = "KeyboardInterrupt"
  BY <1>1 DEF Report, Handler
<1>2. CASE e # "ClickExit" /\ e # "KeyboardInterrupt" /\ Handling(Handlers, e) # {}
  <2>1. PICK i \in DOMAIN Handlers : First(Handlers, e) = Handlers[i]
    BY <1>2, FirstHandles DEF Handling
  <2>2. Report(e, says) = First(Handlers, e)
    BY <1>2 DEF Report, Handlers
  <2>. QED
    BY <2>1, <2>2, HandlerList DEF Handled
<1>3. CASE e # "ClickExit" /\ e # "KeyboardInterrupt" /\ Handling(Handlers, e) = {}
  BY <1>3 DEF Report, Handler, Handlers
<1>. QED
  BY <1>1, <1>2, <1>3

\* A throttled call is reported like an exceeded rate limit.
LEMMA ThrottledAlike == Report("ActRequestThrottledError", "") = Report("ActRateLimitExceededError", "")
<1>1. Ancestors["ActRequestThrottledError"]
          = {"ActRequestThrottledError"} \cup Ancestors["ActRateLimitExceededError"]
  BY AncestorsDef, Parents, Classes
<1>2. "ActRequestThrottledError" \notin Handled
  BY DEF Handled
<1>3. Handling(Handlers, "ActRequestThrottledError") = Handling(Handlers, "ActRateLimitExceededError")
  BY <1>1, <1>2, HandlerList DEF Handling
<1>4. First(Handlers, "ActRequestThrottledError") = First(Handlers, "ActRateLimitExceededError")
  BY <1>3 DEF First
<1>5. "RuntimeError" \in Ancestors["ActRequestThrottledError"]
          <=> "RuntimeError" \in Ancestors["ActRateLimitExceededError"]
  BY <1>1
<1>. QED
  BY <1>3, <1>4, <1>5 DEF Report, Handlers

\* What no rule names is sorted by its status.
LEMMA ByItsReason ==
    ASSUME NEW r, r.body = "object", ByReason(r) # "none"
    PROVE  TranslateResponseError(r) = ByReason(r)
  BY DEF TranslateResponseError

LEMMA ByItsStatus ==
    ASSUME NEW r, r.body = "object", ByReason(r) = "none"
    PROVE  TranslateResponseError(r) =
               IF r.status \in {400, 404} THEN "ActBadRequestError"
               ELSE IF r.status = 429 THEN "ActRequestThrottledError"
               ELSE IF r.status = 500 THEN "ActInternalServerError"
               ELSE ByStatus(r.status)
  BY DEF TranslateResponseError

LEMMA OtherCode ==
    ASSUME NEW e, e.code \in {"ServiceUnavailableException", "ConflictException"}
    PROVE  TranslateServiceError(e) = ByStatus(e.status)
  BY DEF TranslateServiceError

\* Whatever call meets a fault, both clients raise the same class but for a
\* throttled call and for an access denied.
LEMMA BothClients ==
    ASSUME NEW fault \in Fault, NEW call \in Calls, fault # "accessDenied"
    PROVE  \/ SunburstCall(call, SunburstAnswer[fault]) = StarburstCall(StarburstAnswer[fault])
           \/ /\ SunburstCall(call, SunburstAnswer[fault]) = "ActRateLimitExceededError"
              /\ StarburstCall(StarburstAnswer[fault]) = "ActRequestThrottledError"
<1>0. ByStatus(503) = "ActServerError" /\ ByStatus(409) = "ActClientError"
  BY DEF ByStatus
<1>1. \A r : r.status \notin {200, 201} => SunburstCall(call, r) = TranslateResponseError(r)
  BY DEF SunburstCall
<1>. DEFINE Raise(f, c, d) == /\ SunburstCall(call, SunburstAnswer[f]) = c
                             /\ StarburstCall(StarburstAnswer[f]) = d
<1>2. Raise("guardrail", "ActGuardrailsError", "ActGuardrailsError")
  <2>. DEFINE r == SunburstAnswer["guardrail"]
            e == StarburstAnswer["guardrail"]
  <2>0. r.reason = "AGENT_GUARDRAILS_TRIGGERED"
    BY DEF SunburstAnswer, Answer
  <2>1. r.status = 400 /\ r.body = "object"
    BY DEF SunburstAnswer, Answer
  <2>2. e.code = "ValidationException" /\ e.reason = "GuardrailIntervened"
    BY DEF StarburstAnswer, Error
  <2>. HIDE DEF r, e
  <2>3. ByReason(r) = "ActGuardrailsError"
    BY <2>0, <2>1 DEF ByReason, ModelFaults
  <2>4. TranslateResponseError(r) = "ActGuardrailsError"
    BY <2>1, <2>3, ByItsReason
  <2>5. SunburstCall(call, r) = "ActGuardrailsError"
    BY <1>1, <2>1, <2>4
  <2>6. StarburstCall(e) = "ActGuardrailsError"
    BY <2>2 DEF StarburstCall, TranslateServiceError, ModelFaults
  <2>. QED
    BY <2>5, <2>6 DEF r, e
<1>3. Raise("invalidInput", "ActBadRequestError", "ActBadRequestError")
  <2>. DEFINE r == SunburstAnswer["invalidInput"]
            e == StarburstAnswer["invalidInput"]
  <2>0. r.reason = "INVALID_INPUT"
    BY DEF SunburstAnswer, Answer
  <2>1. r.status = 400 /\ r.body = "object"
    BY DEF SunburstAnswer, Answer
  <2>2. e.code = "ValidationException" /\ e.reason = ""
    BY DEF StarburstAnswer, Error
  <2>. HIDE DEF r, e
  <2>3. ByReason(r) = "none"
    BY <2>0, <2>1 DEF ByReason, ModelFaults
  <2>4. TranslateResponseError(r) = "ActBadRequestError"
    BY <2>1, <2>3, ByItsStatus
  <2>5. SunburstCall(call, r) = "ActBadRequestError"
    BY <1>1, <2>1, <2>4
  <2>6. StarburstCall(e) = "ActBadRequestError"
    BY <2>2 DEF StarburstCall, TranslateServiceError, ModelFaults
  <2>. QED
    BY <2>5, <2>6 DEF r, e
<1>4. Raise("notFound", "ActBadRequestError", "ActBadRequestError")
  <2>. DEFINE r == SunburstAnswer["notFound"]
            e == StarburstAnswer["notFound"]
  <2>0. r.reason = ""
    BY DEF SunburstAnswer, Answer
  <2>1. r.status = 404 /\ r.body = "object"
    BY DEF SunburstAnswer, Answer
  <2>2. e.code = "ResourceNotFoundException"
    BY DEF StarburstAnswer, Error
  <2>. HIDE DEF r, e
  <2>3. ByReason(r) = "none"
    BY <2>0, <2>1 DEF ByReason, ModelFaults
  <2>4. TranslateResponseError(r) = "ActBadRequestError"
    BY <2>1, <2>3, ByItsStatus
  <2>5. SunburstCall(call, r) = "ActBadRequestError"
    BY <1>1, <2>1, <2>4
  <2>6. StarburstCall(e) = "ActBadRequestError"
    BY <2>2 DEF StarburstCall, TranslateServiceError, ModelFaults
  <2>. QED
    BY <2>5, <2>6 DEF r, e
<1>5. Raise("throttled", "ActRateLimitExceededError", "ActRequestThrottledError")
  <2>. DEFINE r == SunburstAnswer["throttled"]
            e == StarburstAnswer["throttled"]
  <2>0. r.reason = "RATE_LIMIT_EXCEEDED"
    BY DEF SunburstAnswer, Answer
  <2>1. r.status = 429 /\ r.body = "object"
    BY DEF SunburstAnswer, Answer
  <2>2. e.code = "ThrottlingException"
    BY DEF StarburstAnswer, Error
  <2>. HIDE DEF r, e
  <2>3. ByReason(r) = "ActRateLimitExceededError"
    BY <2>0, <2>1 DEF ByReason, ModelFaults
  <2>4. TranslateResponseError(r) = "ActRateLimitExceededError"
    BY <2>1, <2>3, ByItsReason
  <2>5. SunburstCall(call, r) = "ActRateLimitExceededError"
    BY <1>1, <2>1, <2>4
  <2>6. StarburstCall(e) = "ActRequestThrottledError"
    BY <2>2 DEF StarburstCall, TranslateServiceError, ModelFaults
  <2>. QED
    BY <2>5, <2>6 DEF r, e
<1>6. Raise("dailyQuota", "ActDailyQuotaExceededError", "ActDailyQuotaExceededError")
  <2>. DEFINE r == SunburstAnswer["dailyQuota"]
            e == StarburstAnswer["dailyQuota"]
  <2>0. r.reason = "DAILY_QUOTA_LIMIT_EXCEEDED"
    BY DEF SunburstAnswer, Answer
  <2>1. r.status = 429 /\ r.body = "object"
    BY DEF SunburstAnswer, Answer
  <2>2. e.code = "ServiceQuotaExceededException"
    BY DEF StarburstAnswer, Error
  <2>. HIDE DEF r, e
  <2>3. ByReason(r) = "ActDailyQuotaExceededError"
    BY <2>0, <2>1 DEF ByReason, ModelFaults
  <2>4. TranslateResponseError(r) = "ActDailyQuotaExceededError"
    BY <2>1, <2>3, ByItsReason
  <2>5. SunburstCall(call, r) = "ActDailyQuotaExceededError"
    BY <1>1, <2>1, <2>4
  <2>6. StarburstCall(e) = "ActDailyQuotaExceededError"
    BY <2>2 DEF StarburstCall, TranslateServiceError, ModelFaults
  <2>. QED
    BY <2>5, <2>6 DEF r, e
<1>7. Raise("modelOutput", "ActInvalidModelGenerationError", "ActInvalidModelGenerationError")
  <2>. DEFINE r == SunburstAnswer["modelOutput"]
            e == StarburstAnswer["modelOutput"]
  <2>0. r.reason = "InvalidModelGeneration"
    BY DEF SunburstAnswer, Answer
  <2>1. r.status = 500 /\ r.body = "object"
    BY DEF SunburstAnswer, Answer
  <2>2. e.code = "InternalServerException" /\ e.reason = "InvalidModelGeneration"
    BY DEF StarburstAnswer, Error
  <2>. HIDE DEF r, e
  <2>3. ByReason(r) = "ActInvalidModelGenerationError"
    BY <2>0, <2>1 DEF ByReason, ModelFaults
  <2>4. TranslateResponseError(r) = "ActInvalidModelGenerationError"
    BY <2>1, <2>3, ByItsReason
  <2>5. SunburstCall(call, r) = "ActInvalidModelGenerationError"
    BY <1>1, <2>1, <2>4
  <2>6. StarburstCall(e) = "ActInvalidModelGenerationError"
    BY <2>2 DEF StarburstCall, TranslateServiceError, ModelFaults
  <2>. QED
    BY <2>5, <2>6 DEF r, e
<1>8. Raise("tokenLimit", "ActInvalidModelGenerationError", "ActInvalidModelGenerationError")
  <2>. DEFINE r == SunburstAnswer["tokenLimit"]
            e == StarburstAnswer["tokenLimit"]
  <2>0. r.reason = "RequestTokenLimitExceeded"
    BY DEF SunburstAnswer, Answer
  <2>1. r.status = 500 /\ r.body = "object"
    BY DEF SunburstAnswer, Answer
  <2>2. e.code = "InternalServerException" /\ e.reason = "RequestTokenLimitExceeded"
    BY DEF StarburstAnswer, Error
  <2>. HIDE DEF r, e
  <2>3. ByReason(r) = "ActInvalidModelGenerationError"
    BY <2>0, <2>1 DEF ByReason, ModelFaults
  <2>4. TranslateResponseError(r) = "ActInvalidModelGenerationError"
    BY <2>1, <2>3, ByItsReason
  <2>5. SunburstCall(call, r) = "ActInvalidModelGenerationError"
    BY <1>1, <2>1, <2>4
  <2>6. StarburstCall(e) = "ActInvalidModelGenerationError"
    BY <2>2 DEF StarburstCall, TranslateServiceError, ModelFaults
  <2>. QED
    BY <2>5, <2>6 DEF r, e
<1>9. Raise("internal", "ActInternalServerError", "ActInternalServerError")
  <2>. DEFINE r == SunburstAnswer["internal"]
            e == StarburstAnswer["internal"]
  <2>0. r.reason = ""
    BY DEF SunburstAnswer, Answer
  <2>1. r.status = 500 /\ r.body = "object"
    BY DEF SunburstAnswer, Answer
  <2>2. e.code = "InternalServerException" /\ e.reason = ""
    BY DEF StarburstAnswer, Error
  <2>. HIDE DEF r, e
  <2>3. ByReason(r) = "none"
    BY <2>0, <2>1 DEF ByReason, ModelFaults
  <2>4. TranslateResponseError(r) = "ActInternalServerError"
    BY <2>1, <2>3, ByItsStatus
  <2>5. SunburstCall(call, r) = "ActInternalServerError"
    BY <1>1, <2>1, <2>4
  <2>6. StarburstCall(e) = "ActInternalServerError"
    BY <2>2 DEF StarburstCall, TranslateServiceError, ModelFaults
  <2>. QED
    BY <2>5, <2>6 DEF r, e
<1>10. Raise("unavailable", "ActServerError", "ActServerError")
  <2>. DEFINE r == SunburstAnswer["unavailable"]
            e == StarburstAnswer["unavailable"]
  <2>0. r.reason = ""
    BY DEF SunburstAnswer, Answer
  <2>1. r.status = 503 /\ r.body = "object"
    BY DEF SunburstAnswer, Answer
  <2>2. e.status = 503 /\ e.code = "ServiceUnavailableException"
    BY DEF StarburstAnswer, Error
  <2>. HIDE DEF r, e
  <2>3. ByReason(r) = "none"
    BY <2>0, <2>1 DEF ByReason, ModelFaults
  <2>4. TranslateResponseError(r) = "ActServerError"
    BY <1>0, <2>1, <2>3, ByItsStatus
  <2>5. SunburstCall(call, r) = "ActServerError"
    BY <1>1, <2>1, <2>4
  <2>6. StarburstCall(e) = "ActServerError"
    BY <1>0, <2>2, OtherCode DEF StarburstCall
  <2>. QED
    BY <2>5, <2>6 DEF r, e
<1>11. Raise("conflict", "ActClientError", "ActClientError")
  <2>. DEFINE r == SunburstAnswer["conflict"]
            e == StarburstAnswer["conflict"]
  <2>0. r.reason = ""
    BY DEF SunburstAnswer, Answer
  <2>1. r.status = 409 /\ r.body = "object"
    BY DEF SunburstAnswer, Answer
  <2>2. e.status = 409 /\ e.code = "ConflictException"
    BY DEF StarburstAnswer, Error
  <2>. HIDE DEF r, e
  <2>3. ByReason(r) = "none"
    BY <2>0, <2>1 DEF ByReason, ModelFaults
  <2>4. TranslateResponseError(r) = "ActClientError"
    BY <1>0, <2>1, <2>3, ByItsStatus
  <2>5. SunburstCall(call, r) = "ActClientError"
    BY <1>1, <2>1, <2>4
  <2>6. StarburstCall(e) = "ActClientError"
    BY <1>0, <2>2, OtherCode DEF StarburstCall
  <2>. QED
    BY <2>5, <2>6 DEF r, e
<1>. QED
  BY <1>2, <1>3, <1>4, <1>5, <1>6, <1>7, <1>8, <1>9, <1>10, <1>11 DEF Fault

\* The classes of errors that blame the client, and those that do not.
Blaming == {"ActClientError", "ActBadRequestError", "ActGuardrailsError", "ActRateLimitExceededError",
            "ActRequestThrottledError", "ActDailyQuotaExceededError"}
NotBlaming == {"ActServerError", "ActInternalServerError", "ActInvalidModelGenerationError"}

LEMMA Blames ==
    /\ \A c \in Blaming : IsA(c, "ActClientError")
    /\ \A c \in NotBlaming : ~ IsA(c, "ActClientError")
<1>1. Blaming \subseteq Class /\ NotBlaming \subseteq Class
  BY Classes DEF Blaming, NotBlaming
<1>2. \A c \in {"ActClientError", "ActBadRequestError", "ActGuardrailsError", "ActRateLimitExceededError"} :
          "ActClientError" \in Ancestors[c]
  BY Lineages, AncestorsDef, Parents, Classes
<1>3. \A c \in {"ActRequestThrottledError", "ActDailyQuotaExceededError"} :
          "ActClientError" \in Ancestors[c]
  BY <1>2, AncestorsDef, Parents, Classes
<1>4. "ActClientError" \notin Ancestors["ActError"]
  BY Lineages
<1>5. "ActClientError" \notin Ancestors["ActServerError"]
  BY <1>4, Lineages, AncestorsDef, Parents, Classes
<1>6. "ActClientError" \notin Ancestors["ActInternalServerError"]
  BY <1>5, AncestorsDef, Parents, Classes
<1>7. "ActClientError" \notin Ancestors["ActAgentError"]
  BY <1>4, AncestorsDef, Parents, Classes
<1>8. "ActClientError" \notin Ancestors["ActInvalidModelGenerationError"]
  BY <1>7, AncestorsDef, Parents, Classes
<1>. QED
  BY <1>1, <1>2, <1>3, <1>5, <1>6, <1>8 DEF IsA, Blaming, NotBlaming

\* An answer's blame follows its status.
LEMMA BlameByStatus ==
    ASSUME NEW r, r.status \in Nat, r.body \in {"object", "text"}
    PROVE  /\ r.status \in 400 .. 499 => TranslateResponseError(r) \in Blaming
           /\ r.status \in 500 .. 599 => TranslateResponseError(r) \in NotBlaming
<1>1. CASE r.body = "text"
  <2>1. TranslateResponseError(r) = InvalidJson(r.status)
    BY <1>1 DEF TranslateResponseError, InvalidBody
  <2>2. \A n \in 400 .. 499 : InvalidJson(n) = "ActBadRequestError"
    BY DEF InvalidJson
  <2>3. \A n \in 500 .. 599 : InvalidJson(n) = "ActInternalServerError"
    BY DEF InvalidJson
  <2>. QED
    BY <2>1, <2>2, <2>3 DEF Blaming, NotBlaming
<1>2. CASE r.body = "object"
  <2>1. /\ r.status \in 400 .. 499 => ByReason(r) \in Blaming \cup {"none"}
        /\ r.status \in 500 .. 599 => ByReason(r) \in NotBlaming \cup {"none"}
    BY DEF ByReason, Blaming, NotBlaming
  <2>2. \A n \in 400 .. 499 : ByStatus(n) = "ActClientError"
    BY DEF ByStatus
  <2>3. \A n \in 500 .. 599 : ByStatus(n) = "ActServerError"
    BY DEF ByStatus
  <2>4. CASE ByReason(r) = "none"
    BY <1>2, <2>2, <2>3, <2>4, ByItsStatus DEF Blaming, NotBlaming
  <2>5. CASE ByReason(r) # "none"
    BY <1>2, <2>1, <2>5, ByItsReason
  <2>. QED
    BY <2>4, <2>5
<1>. QED
  BY <1>1, <1>2

\* For every fault, answer and exception: both services lead the CLI to the same
\* code and advice (but for an access denied), an answer's blame follows its
\* status, and no handler of handle_common_errors() hides a later one of a class
\* nearer to the exception.
THEOREM FaultsAlike == Tasks => []FaultsReportedAlike
<1>1. NoTask => FaultsReportedAlike
  BY DEF NoTask, FaultsReportedAlike
<1>2. ASSUME RunTask PROVE FaultsReportedAlike'
  <2>1. CASE task' = "fault" /\ MeetFault
    <3>1. PICK fault \in Fault, call \in Calls :
              /\ input' = <<fault, call>>
              /\ output' = << SunburstCall(call, SunburstAnswer[fault]),
                               StarburstCall(StarburstAnswer[fault]) >>
      BY <2>1 DEF MeetFault, Apply
    <3>2. fault # "accessDenied" => Report(output'[1], "") = Report(output'[2], "")
      BY <3>1, BothClients, ThrottledAlike
    <3>. QED
      BY <2>1, <3>1, <3>2 DEF FaultsReportedAlike
  <2>2. CASE task' = "answer" /\ GetAnswer
    <3>1. PICK status \in Statuses, reason \in Reasons, body \in {"object", "list", "text"}, call \in Calls :
              /\ input' = [status |-> status, reason |-> reason, body |-> body]
              /\ output' = SunburstCall(call, [status |-> status, reason |-> reason, body |-> body])
      BY <2>2 DEF GetAnswer, Apply
    <3>. DEFINE r == [status |-> status, reason |-> reason, body |-> body]
    <3>2. status \in Nat
      BY CliAlgorithmsAssumption
    <3>3. status \in 400 .. 599 => output' = TranslateResponseError(r)
      BY <3>1, <3>2 DEF SunburstCall
    <3>4. body # "list" =>
              /\ status \in 400 .. 499 => TranslateResponseError(r) \in Blaming
              /\ status \in 500 .. 599 => TranslateResponseError(r) \in NotBlaming
      BY <3>2, BlameByStatus
    <3>5. body # "list" =>
              /\ status \in 400 .. 499 => IsA(output', "ActClientError")
              /\ status \in 500 .. 599 => ~ IsA(output', "ActClientError")
      BY <3>2, <3>3, <3>4, Blames
    <3>. QED
      BY <2>2, <3>1, <3>5 DEF FaultsReportedAlike
  <2>3. CASE task' = "report" /\ LeaveCommand
    <3>1. PICK e \in Class \ {"BaseException"}, says \in {"", "chrome not found", "bad profile"} :
              input' = <<e, says>> /\ output' = Report(e, says)
      BY <2>3 DEF LeaveCommand, Apply
    <3>2. ASSUME NEW h \in ToSet(Handlers), IsA(e, h.class), IsA(h.class, output'.class)
          PROVE  h.class = output'.class
      <4>1. PICK i \in DOMAIN Handlers : h = Handlers[i] /\ h.class \in Handled
        BY HandlerList
      <4>2. i \in Handling(Handlers, e)
        BY <3>2, <4>1 DEF Handling, IsA
      <4>. QED
        BY <3>1, <3>2, <4>1, <4>2, Reported, HandlersApart DEF IsA
    <3>. QED
      BY <2>3, <3>1, <3>2 DEF FaultsReportedAlike, Handlers
  <2>4. CASE task' \notin {"fault", "answer", "report"}
    BY <2>4 DEF FaultsReportedAlike
  <2>. QED
    BY <1>2, <2>1, <2>2, <2>3, <2>4, OneTask
<1>3. FaultsReportedAlike /\ UNCHANGED taskVars => FaultsReportedAlike'
  <2>1. SUFFICES ASSUME FaultsReportedAlike, task' = task, input' = input, output' = output
                 PROVE  FaultsReportedAlike'
    BY DEF taskVars
  <2>2. CASE task = "fault"
    BY <2>1, <2>2 DEF FaultsReportedAlike
  <2>3. CASE task = "answer"
    BY <2>1, <2>3 DEF FaultsReportedAlike
  <2>4. CASE task = "report"
    BY <2>1, <2>4 DEF FaultsReportedAlike
  <2>5. CASE task \notin {"fault", "answer", "report"}
    BY <2>1, <2>5 DEF FaultsReportedAlike
  <2>. QED
    BY <2>2, <2>3, <2>4, <2>5
<1>. QED
  BY <1>1, <1>2, <1>3, PTL DEF Tasks

-----------------------------------------------------------------------------
(* Places in a set of numbers.                                             *)

LEMMA Counting ==
    ASSUME NEW n \in Nat, NEW S \in SUBSET (1 .. n)
    PROVE  /\ IsFiniteSet(S) /\ Cardinality(S) \in Nat
           /\ \A T \in SUBSET S : /\ IsFiniteSet(T) /\ Cardinality(T) \in Nat
                                  /\ Cardinality(T) <= Cardinality(S)
                                  /\ Cardinality(T) = Cardinality(S) => T = S
           /\ \A x : x \notin S => Cardinality(S \cup {x}) = Cardinality(S) + 1
<1>1. IsFiniteSet(1 .. n)
  BY FS_Interval
<1>2. IsFiniteSet(S)
  BY <1>1, FS_Subset
<1>3. \A T \in SUBSET S : IsFiniteSet(T) /\ Cardinality(T) <= Cardinality(S)
                          /\ (Cardinality(S) = Cardinality(T) => S = T)
  BY <1>2, FS_Subset
<1>4. \A T \in SUBSET S : Cardinality(T) \in Nat
  BY <1>3, FS_CardinalityType
<1>5. \A x : x \notin S => Cardinality(S \cup {x}) = Cardinality(S) + 1
  BY <1>2, FS_AddElement
<1>. QED
  BY <1>2, <1>3, <1>4, <1>5

\* The place of an element is a number up to the size, and places are in order.
LEMMA Places ==
    ASSUME NEW n \in Nat, NEW S \in SUBSET (1 .. n)
    PROVE  /\ \A i \in S : Place(S, i) \in 1 .. Cardinality(S)
           /\ \A i, j \in S : i < j => Place(S, i) < Place(S, j)
           /\ \A i, j \in S : Place(S, i) = Place(S, j) => i = j
<1>. DEFINE Upto(i) == {j \in S : j <= i}
<1>0. \A i \in S : i \in Nat
  OBVIOUS
<1>1. \A i \in S : Upto(i) \in SUBSET S /\ i \in Upto(i)
  BY <1>0
<1>2. \A i \in S : /\ Cardinality(Upto(i)) \in Nat /\ Cardinality(Upto(i)) <= Cardinality(S)
                   /\ IsFiniteSet(Upto(i))
  BY <1>1, Counting
<1>3. ASSUME NEW i \in S PROVE Cardinality(Upto(i)) # 0
  BY <1>1, <1>2, FS_EmptySet
<1>4. ASSUME NEW i \in S, NEW j \in S, i < j PROVE Cardinality(Upto(i)) < Cardinality(Upto(j))
  <2>1. Upto(i) \in SUBSET Upto(j) /\ j \in Upto(j) /\ j \notin Upto(i)
    <3>1. \A k \in S : k <= i => k <= j
      BY <1>0, <1>4
    <3>2. j <= j /\ ~ (j <= i)
      BY <1>0, <1>4
    <3>. QED
      BY <3>1, <3>2
  <2>2. Upto(j) \in SUBSET (1 .. n)
    OBVIOUS
  <2>. HIDE DEF Upto
  <2>3. Cardinality(Upto(i)) <= Cardinality(Upto(j)) /\ Cardinality(Upto(i)) # Cardinality(Upto(j))
    BY <2>1, <2>2, Counting
  <2>. QED
    BY <1>2, <2>3
<1>. HIDE DEF Upto
<1>5. \A i \in S : i \in Nat /\ Cardinality(Upto(i)) \in 1 .. Cardinality(S)
  BY <1>2, <1>3, Counting
<1>6. \A i, j \in S : Cardinality(Upto(i)) = Cardinality(Upto(j)) => i = j
  BY <1>4, <1>5
<1>7. \A i : Place(S, i) = Cardinality(Upto(i))
  BY DEF Place, Upto
<1>. QED
  BY <1>4, <1>5, <1>6, <1>7

\* Every number up to the size is the place of one element.
LEMMA PlaceTaken ==
    ASSUME NEW n \in Nat, NEW S \in SUBSET (1 .. n), NEW k \in 1 .. Cardinality(S)
    PROVE  /\ \E i \in S : Place(S, i) = k
           /\ (CHOOSE i \in S : Place(S, i) = k) \in S
           /\ Place(S, CHOOSE i \in S : Place(S, i) = k) = k
<1>. DEFINE f == [i \in S |-> Place(S, i)]
            m == Cardinality(S)
<1>0. m \in Nat
  BY Counting
<1>1. f \in Injection(S, 1 .. m)
  <2>1. /\ \A i \in S : Place(S, i) \in 1 .. m
        /\ \A i, j \in S : Place(S, i) = Place(S, j) => i = j
    BY Places
  <2>2. f \in [S -> 1 .. m]
    BY <2>1
  <2>3. \A i, j \in S : f[i] = f[j] => i = j
    BY <2>1
  <2>. HIDE DEF f
  <2>. QED
    BY <2>2, <2>3, Fun_IsInj
<1>2. IsFiniteSet(1 .. m) /\ Cardinality(1 .. m) = m
  <2>1. /\ IsFiniteSet(1 .. m)
        /\ Cardinality(1 .. m) = IF 1 > m THEN 0 ELSE m - 1 + 1
    BY <1>0, FS_Interval
  <2>. QED
    BY <1>0, <2>1
<1>3. f \in Surjection(S, 1 .. m)
  BY <1>1, <1>2, FS_Injection
<1>4. \E i \in S : Place(S, i) = k
  BY <1>3 DEF Surjection
<1>. QED
  BY <1>4

LEMMA DisjointUnion ==
    ASSUME NEW S, NEW T, IsFiniteSet(S), IsFiniteSet(T), S \cap T = {}
    PROVE  Cardinality(S \cup T) = Cardinality(S) + Cardinality(T)
<1>1. Cardinality(S \cup T) = Cardinality(S) + Cardinality(T) - Cardinality(S \cap T)
  BY FS_Union
<1>2. Cardinality(S \cap T) = 0 /\ Cardinality(S) \in Nat /\ Cardinality(T) \in Nat
  BY FS_EmptySet, FS_CardinalityType
<1>. QED
  BY <1>1, <1>2

\* A set that has the last elements of S has their places, but for those left out.
LEMMA PlaceInUpper ==
    ASSUME NEW n \in Nat, NEW S \in SUBSET (1 .. n), NEW T \in SUBSET S,
           \A i \in T, j \in S \ T : j < i
    PROVE  \A i \in T : Place(T, i) = Place(S, i) - (Cardinality(S) - Cardinality(T))
<1>. SUFFICES ASSUME NEW i \in T
              PROVE  Place(T, i) = Place(S, i) - (Cardinality(S) - Cardinality(T))
  OBVIOUS
<1>. DEFINE U == {j \in S : j <= i}
            V == {j \in T : j <= i}
            W == S \ T
<1>0. i \in Nat /\ \A j \in S : j \in Nat
  OBVIOUS
<1>1. U = V \cup W /\ V \cap W = {} /\ S = T \cup W /\ T \cap W = {}
  <2>1. \A j \in W : j <= i
    BY <1>0
  <2>. QED
    BY <2>1
<1>2. U \in SUBSET S /\ V \in SUBSET S /\ W \in SUBSET S
  OBVIOUS
<1>3. Place(S, i) = Cardinality(U) /\ Place(T, i) = Cardinality(V)
  BY DEF Place
<1>. HIDE DEF U, V, W
<1>4. /\ Cardinality(U) \in Nat /\ Cardinality(V) \in Nat /\ Cardinality(W) \in Nat
      /\ IsFiniteSet(V) /\ IsFiniteSet(W) /\ IsFiniteSet(T) /\ Cardinality(T) \in Nat
      /\ Cardinality(S) \in Nat
  BY <1>2, Counting
<1>5. Cardinality(U) = Cardinality(V) + Cardinality(W)
  BY <1>1, <1>4, DisjointUnion
<1>6. Cardinality(S) = Cardinality(T) + Cardinality(W)
  BY <1>1, <1>4, DisjointUnion
<1>. QED
  BY <1>3, <1>4, <1>5, <1>6

\* LastOf(S, m) has the last m elements of S, or all of them.
LEMMA LastOfSet ==
    ASSUME NEW n \in Nat, NEW S \in SUBSET (1 .. n), NEW m \in Nat
    PROVE  /\ LastOf(S, m) \in SUBSET S
           /\ Cardinality(LastOf(S, m)) = IF Cardinality(S) <= m THEN Cardinality(S) ELSE m
           /\ \A i \in LastOf(S, m) :
                  Place(LastOf(S, m), i) = Place(S, i) - (Cardinality(S) - Cardinality(LastOf(S, m)))
           /\ \A i \in S : i \in LastOf(S, m) <=> Place(S, i) > Cardinality(S) - m
<1>. DEFINE T == LastOf(S, m)
            Upto(i) == {j \in S : j <= i}
            From(i) == {j \in S : j >= i}
            c == Cardinality(S)
<1>1. ASSUME NEW i \in S PROVE Cardinality(From(i)) = c - Place(S, i) + 1
  <2>0. i \in Nat /\ \A j \in S : j \in Nat
    OBVIOUS
  <2>1. S = Upto(i) \cup From(i) /\ Upto(i) \cap From(i) = {i}
    <3>1. \A j \in S : j <= i \/ j >= i
      BY <2>0
    <3>2. S = Upto(i) \cup From(i)
      BY <3>1
    <3>3. \A j \in S : (j <= i /\ j >= i) <=> j = i
      BY <2>0
    <3>4. Upto(i) \cap From(i) = {i}
      BY <3>3
    <3>. QED
      BY <3>2, <3>4
  <2>2. Upto(i) \in SUBSET S /\ From(i) \in SUBSET S
    OBVIOUS
  <2>3. Place(S, i) = Cardinality(Upto(i))
    BY DEF Place
  <2>. HIDE DEF Upto, From
  <2>4. /\ IsFiniteSet(Upto(i)) /\ IsFiniteSet(From(i)) /\ c \in Nat
        /\ Cardinality(Upto(i)) \in Nat /\ Cardinality(From(i)) \in Nat
    BY <2>2, Counting
  <2>5. c = Cardinality(Upto(i)) + Cardinality(From(i)) - 1
    <3>1. Cardinality(Upto(i) \cup From(i))
              = Cardinality(Upto(i)) + Cardinality(From(i)) - Cardinality(Upto(i) \cap From(i))
      BY <2>4, FS_Union
    <3>2. Cardinality({i}) = 1
      BY FS_Singleton
    <3>. QED
      BY <2>1, <3>1, <3>2
  <2>. QED
    BY <2>3, <2>4, <2>5
<1>2. c \in Nat /\ \A i \in S : Place(S, i) \in 1 .. c
  BY Counting, Places
<1>3. \A i \in S : i \in T <=> Cardinality(From(i)) <= m
  BY DEF LastOf
<1>4. \A i \in S : i \in T <=> Place(S, i) > c - m
  <2>1. SUFFICES ASSUME NEW i \in S PROVE i \in T <=> Place(S, i) > c - m
    OBVIOUS
  <2>2. Cardinality(From(i)) = c - Place(S, i) + 1 /\ Place(S, i) \in Nat /\ c \in Nat
    BY <1>1, <1>2
  <2>3. i \in T <=> Cardinality(From(i)) <= m
    BY <1>3
  <2>. HIDE DEF T, c, From
  <2>. QED
    BY <2>2, <2>3
<1>5. T \in SUBSET S
  BY DEF LastOf
<1>. HIDE DEF T, c, From
<1>6. \A i \in T, j \in S \ T : j < i
  <2>1. SUFFICES ASSUME NEW i \in T, NEW j \in S \ T PROVE j < i
    OBVIOUS
  <2>2. i \in S /\ j \in S /\ i \in Nat /\ j \in Nat
    BY <1>5
  <2>3. Place(S, i) > c - m /\ ~ (Place(S, j) > c - m)
    BY <1>4, <2>1, <2>2
  <2>4. Place(S, i) > Place(S, j)
    BY <1>2, <2>2, <2>3
  <2>5. ~ (i < j) /\ i # j
    <3>1. Place(S, i) \in Nat /\ Place(S, j) \in Nat
      BY <1>2, <2>2
    <3>2. i < j => Place(S, i) < Place(S, j)
      BY <2>2, Places
    <3>. QED
      BY <2>4, <3>1, <3>2
  <2>. QED
    BY <2>2, <2>5
<1>7. \A i \in T : Place(T, i) = Place(S, i) - (c - Cardinality(T))
  BY <1>5, <1>6, PlaceInUpper DEF c
<1>8. Cardinality(T) = IF c <= m THEN c ELSE m
  <2>1. CASE c <= m
    <3>1. \A i \in S : Place(S, i) > c - m
      BY <1>2, <2>1
    <3>2. T = S
      BY <1>4, <1>5, <3>1
    <3>. QED
      BY <2>1, <3>2 DEF c
  <2>2. CASE ~ (c <= m)
    <3>. DEFINE t == Cardinality(T)
    <3>0. t \in Nat /\ t <= c
      BY <1>5, Counting DEF c
    <3>1. \A i \in T : Place(S, i) - (c - t) \in 1 .. t
      <4>1. T \in SUBSET (1 .. n)
        BY <1>5
      <4>2. \A i \in T : Place(T, i) \in 1 .. t
        BY <4>1, Places
      <4>. QED
        BY <1>7, <4>2
    <3>2. t <= m
      <4>1. CASE T = {}
        BY <4>1, FS_EmptySet
      <4>2. CASE T # {}
        <5>. HIDE DEF t
        <5>1. PICK i \in T : Place(T, i) = 1
          <6>1. T \in SUBSET (1 .. n) /\ Cardinality(T) \in Nat /\ IsFiniteSet(T)
            BY <1>5, Counting
          <6>2. 1 \in 1 .. Cardinality(T)
            BY <4>2, <6>1, FS_EmptySet
          <6>. QED
            BY <6>1, <6>2, PlaceTaken
        <5>2. Place(S, i) = c - t + 1 /\ Place(S, i) > c - m
          BY <1>2, <1>4, <1>5, <1>7, <3>0, <5>1 DEF t
        <5>. QED
          BY <1>2, <3>0, <5>2
      <4>. QED
        BY <4>1, <4>2
    <3>3. t >= m
      <4>1. CASE m = 0
        BY <3>0, <4>1
      <4>2. CASE m # 0
        <5>. HIDE DEF t
        <5>1. c - m + 1 \in 1 .. c
          BY <1>2, <2>2, <4>2
        <5>2. PICK i \in S : Place(S, i) = c - m + 1
          BY <5>1, PlaceTaken DEF c
        <5>3. i \in T
          BY <1>2, <1>4, <5>2
        <5>. QED
          BY <1>2, <3>0, <3>1, <5>2, <5>3
      <4>. QED
        BY <4>1, <4>2
    <3>. QED
      BY <2>2, <3>0, <3>2, <3>3
  <2>. QED
    BY <2>1, <2>2
<1>. QED
  BY <1>4, <1>5, <1>7, <1>8 DEF T, c

-----------------------------------------------------------------------------
(* The network capture, event by event.                                    *)

LEMMA AfterDef ==
    ASSUME NEW events, Len(events) \in Nat
    PROVE  /\ After(events)[0] = Fresh
           /\ \A k \in 1 .. Len(events) :
                  After(events)[k] = Handle(After(events)[k - 1], events[k])
<1>. DEFINE Unfolds(g, m) == g = [i \in 0 .. m |-> IF i = 0 THEN Fresh ELSE Handle(g[i - 1], events[i])]
            T == {m \in Nat : ~ \E g : Unfolds(g, m)}
<1>1. After(events) = CHOOSE g : Unfolds(g, Len(events))
  BY DEF After
<1>2. Unfolds([i \in 0 .. 0 |-> Fresh], 0)
  OBVIOUS
<1>3. ASSUME NEW m \in Nat, m # 0, NEW g, Unfolds(g, m - 1) PROVE \E f : Unfolds(f, m)
  <2>. DEFINE f == [i \in 0 .. m |-> IF i = m THEN Handle(g[m - 1], events[m]) ELSE g[i]]
  <2>1. ASSUME NEW i \in 0 .. m
        PROVE  f[i] = IF i = 0 THEN Fresh ELSE Handle(f[i - 1], events[i])
    <3>1. CASE i = m
      BY <1>3, <2>1, <3>1
    <3>2. CASE i # m
      BY <1>3, <2>1, <3>2
    <3>. QED
      BY <3>1, <3>2
  <2>2. f = [i \in 0 .. m |-> f[i]]
    OBVIOUS
  <2>3. DOMAIN f = 0 .. m
    OBVIOUS
  <2>. HIDE DEF f
  <2>4. f = [i \in 0 .. m |-> IF i = 0 THEN Fresh ELSE Handle(f[i - 1], events[i])]
    BY <2>1, <2>2, <2>3
  <2>. QED
    BY <2>4
<1>4. T = {}
  <2>1. SUFFICES ASSUME T # {} PROVE FALSE
    OBVIOUS
  <2>2. PICK m \in T : \A k \in T : m <= k
    BY <2>1, LeastNumber
  <2>3. m # 0
    BY <1>2
  <2>4. m \in Nat
    OBVIOUS
  <2>5. m - 1 \in Nat /\ m - 1 \notin T
    <3>. HIDE DEF T
    <3>. QED
      BY <2>2, <2>3, <2>4
  <2>6. PICK g : Unfolds(g, m - 1)
    BY <2>5
  <2>. QED
    BY <1>3, <2>3, <2>4, <2>6
<1>5. \E g : Unfolds(g, Len(events))
  BY <1>4
<1>6. Unfolds(After(events), Len(events))
  BY <1>1, <1>5
<1>. QED
  BY <1>6

\* The requests heard up to the k-th event, those of them since the last clear,
\* the answers to one of them, and whether one is still the last with its key.
AnswerKinds == {"response", "failed"}
Req(h, k) == {i \in 1 .. k : Heard(h, i, {"request"})}
Num(h, i) == Cardinality(Req(h, i))
Current(h, k) == {i \in Req(h, k) : \A j \in i .. k : h[j].kind # "clear"}
OwnTo(h, i, k) == {j \in 1 .. k : Heard(h, j, AnswerKinds) /\ h[j].of = i}
Latest(h, i, k) ==
    \A j \in (i + 1) .. k :
        Heard(h, j, AnswerKinds \cup {"request"}) => RequestKey(h[j]) # RequestKey(h[i])

FirstOf(S) == CHOOSE j \in S : \A l \in S : j <= l
ItemOf(h, i, k) ==
    IF OwnTo(h, i, k) = {} THEN Item(h[i]) ELSE Item(h[FirstOf(OwnTo(h, i, k))])

\* The last n numbers up to r, or as many of them as the deque has room for.
LastNumbers(s, r, n) ==
    /\ s \in Seq(Nat)
    /\ Len(s) = IF n <= MaxEntries THEN n ELSE MaxEntries
    /\ \A m \in 1 .. Len(s) : s[m] = r - Len(s) + m

\* The book has the requests in order, each with its own answer; the index
\* leads to the last request of each key that has none; the deque has the last
\* of the current ones.
BookOK(h, k, c) ==
    /\ \E S : c.book \in Seq(S)
    /\ Len(c.book) = Cardinality(Req(h, k))
    /\ \A i \in Current(h, k) : c.book[Num(h, i)] = ItemOf(h, i, k)
IndexOK(h, k, c) ==
    /\ \A key \in DOMAIN c.index : \E i \in Current(h, k) :
           key = RequestKey(h[i]) /\ Latest(h, i, k)
    /\ \A i \in Current(h, k) : Latest(h, i, k) =>
           /\ RequestKey(h[i]) \in DOMAIN c.index \cap c.pending
           /\ c.index[RequestKey(h[i])] = Num(h, i)
KeptOK(h, k, c) == LastNumbers(c.kept, Cardinality(Req(h, k)), Cardinality(Current(h, k)))
LogInv(h, k, c) ==
    /\ {"book", "kept", "index", "pending", "attached"} \subseteq DOMAIN c
    /\ c.attached = Listening(h, k)
    /\ BookOK(h, k, c) /\ IndexOK(h, k, c) /\ KeptOK(h, k, c)

\* Listening starts with the first event and ends with the first detach.
LEMMA Listens ==
    ASSUME NEW h \in Histories, NEW k \in DOMAIN h
    PROVE  /\ Listening(h, k) <=> \A j \in 1 .. k : h[j].kind # "detach"
           /\ \A i \in 1 .. k : Listening(h, k) => Listening(h, i)
           /\ k \in Nat /\ k >= 1 /\ DOMAIN h = 1 .. Len(h) /\ Len(h) \in Nat
           /\ h[k].kind \in Kinds
<1>0. h \in Seq([kind : Kinds, url : STRING, id : Nat, of : Nat, status : Nat])
  BY HistoriesAssumption
<1>1. k \in Nat /\ k >= 1 /\ DOMAIN h = 1 .. Len(h) /\ Len(h) \in Nat
  BY <1>0, LenProperties
<1>2. h[k].kind \in Kinds
  <2>1. h[k] \in [kind : Kinds, url : STRING, id : Nat, of : Nat, status : Nat]
    BY <1>0, <1>1, ElementOfSeq
  <2>. QED
    BY <2>1
<1>3. \A i \in DOMAIN h : h[i].kind = "attach" <=> i = 1
  BY HistoriesAssumption
<1>4. ASSUME NEW i \in 1 .. k
      PROVE  Listening(h, i) <=> \A j \in 1 .. i : h[j].kind # "detach"
  <2>1. h[1].kind = "attach" /\ 1 \in 1 .. i
    BY <1>1, <1>3
  <2>2. \A a \in 1 .. i : h[a].kind = "attach" => a = 1
    BY <1>1, <1>3
  <2>. QED
    BY <2>1, <2>2 DEF Listening
<1>5. \A i \in 1 .. k : Listening(h, k) => Listening(h, i)
  <2>1. \A i \in 1 .. k : \A j \in 1 .. i : j \in 1 .. k
    BY <1>1
  <2>2. k \in 1 .. k
    BY <1>1
  <2>. QED
    BY <1>4, <2>1, <2>2
<1>6. Listening(h, k) <=> \A j \in 1 .. k : h[j].kind # "detach"
  BY <1>1, <1>4
<1>. QED
  BY <1>1, <1>2, <1>5, <1>6

\* One more event: what the sets of requests and answers gain and lose.
LEMMA OneEvent ==
    ASSUME NEW h, NEW k \in Nat
    PROVE  /\ Req(h, k) \in SUBSET (1 .. k) /\ Current(h, k) \in SUBSET Req(h, k)
           /\ Heard(h, k + 1, {"request"}) => Req(h, k + 1) = Req(h, k) \cup {k + 1}
           /\ ~ Heard(h, k + 1, {"request"}) => Req(h, k + 1) = Req(h, k)
           /\ h[k + 1].kind = "clear" => Current(h, k + 1) = {}
           /\ h[k + 1].kind # "clear" =>
                  /\ Heard(h, k + 1, {"request"}) => Current(h, k + 1) = Current(h, k) \cup {k + 1}
                  /\ ~ Heard(h, k + 1, {"request"}) => Current(h, k + 1) = Current(h, k)
           /\ \A i : Heard(h, k + 1, AnswerKinds) /\ h[k + 1].of = i
                      => OwnTo(h, i, k + 1) = OwnTo(h, i, k) \cup {k + 1}
           /\ ~ Heard(h, k + 1, AnswerKinds) => \A i : OwnTo(h, i, k + 1) = OwnTo(h, i, k)
           /\ \A i : h[k + 1].of # i => OwnTo(h, i, k + 1) = OwnTo(h, i, k)
           /\ \A i \in 1 .. k : Latest(h, i, k + 1) <=>
                  /\ Latest(h, i, k)
                  /\ Heard(h, k + 1, AnswerKinds \cup {"request"})
                         => RequestKey(h[k + 1]) # RequestKey(h[i])
           /\ Latest(h, k + 1, k + 1)
           /\ \A i \in Req(h, k) : Num(h, i) = Place(Req(h, k), i)
<1>1. Req(h, k) \in SUBSET (1 .. k) /\ Current(h, k) \in SUBSET Req(h, k)
  BY DEF Req, Current
<1>2. 1 .. (k + 1) = (1 .. k) \cup {k + 1} /\ k + 1 \notin 1 .. k
  OBVIOUS
<1>3. /\ Heard(h, k + 1, {"request"}) => Req(h, k + 1) = Req(h, k) \cup {k + 1}
      /\ ~ Heard(h, k + 1, {"request"}) => Req(h, k + 1) = Req(h, k)
  BY <1>2 DEF Req
<1>4. /\ \A i : Heard(h, k + 1, AnswerKinds) /\ h[k + 1].of = i
                 => OwnTo(h, i, k + 1) = OwnTo(h, i, k) \cup {k + 1}
      /\ ~ Heard(h, k + 1, AnswerKinds) => \A i : OwnTo(h, i, k + 1) = OwnTo(h, i, k)
      /\ \A i : h[k + 1].of # i => OwnTo(h, i, k + 1) = OwnTo(h, i, k)
  BY <1>2 DEF OwnTo
<1>5. \A i \in 1 .. (k + 1) : i .. (k + 1) = (i .. k) \cup {k + 1}
  OBVIOUS
<1>6. Req(h, k + 1) \in SUBSET (1 .. (k + 1)) /\ Req(h, k) \in SUBSET (1 .. (k + 1))
  BY DEF Req
<1>7. ASSUME h[k + 1].kind = "clear" PROVE Current(h, k + 1) = {}
  BY <1>5, <1>6, <1>7 DEF Current
<1>8. ASSUME h[k + 1].kind # "clear"
      PROVE  /\ Heard(h, k + 1, {"request"}) => Current(h, k + 1) = Current(h, k) \cup {k + 1}
             /\ ~ Heard(h, k + 1, {"request"}) => Current(h, k + 1) = Current(h, k)
  <2>1. \A i \in 1 .. (k + 1) : (\A j \in i .. (k + 1) : h[j].kind # "clear")
                                    <=> (\A j \in i .. k : h[j].kind # "clear")
    BY <1>5, <1>8
  <2>2. \A j \in (k + 1) .. k : h[j].kind # "clear"
    OBVIOUS
  <2>3. Current(h, k + 1) = {i \in Req(h, k + 1) : \A j \in i .. k : h[j].kind # "clear"}
    BY <1>6, <2>1 DEF Current
  <2>. QED
    BY <1>3, <2>2, <2>3 DEF Current
<1>9. ASSUME NEW i \in 1 .. k
      PROVE  Latest(h, i, k + 1) <=>
                  /\ Latest(h, i, k)
                  /\ Heard(h, k + 1, AnswerKinds \cup {"request"})
                         => RequestKey(h[k + 1]) # RequestKey(h[i])
  <2>1. (i + 1) .. (k + 1) = ((i + 1) .. k) \cup {k + 1}
    OBVIOUS
  <2>. QED
    BY <2>1 DEF Latest
<1>10. Latest(h, k + 1, k + 1)
  <2>1. (k + 1 + 1) .. (k + 1) = {}
    OBVIOUS
  <2>. QED
    BY <2>1 DEF Latest
<1>11. ASSUME NEW i \in Req(h, k) PROVE Num(h, i) = Place(Req(h, k), i)
  <2>1. i \in 1 .. k
    BY <1>1
  <2>2. \A j : j \in 1 .. i <=> j \in 1 .. k /\ j <= i
    BY <2>1
  <2>3. Req(h, i) = {j \in Req(h, k) : j <= i}
    BY <2>2 DEF Req
  <2>. QED
    BY <2>3 DEF Num, Place
<1>. QED
  BY <1>1, <1>3, <1>4, <1>7, <1>8, <1>9, <1>10, <1>11

\* What a heard answer is to: a request that was heard before; no other request
\* of its key is the last one, and neither is this one when it has an answer.
LEMMA Answering ==
    ASSUME NEW h \in Histories, NEW k \in Nat, k + 1 \in DOMAIN h, Heard(h, k + 1, AnswerKinds)
    PROVE  /\ h[k + 1].of \in Req(h, k)
           /\ RequestKey(h[h[k + 1].of]) = RequestKey(h[k + 1])
           /\ \A i \in Req(h, k) :
                  i # h[k + 1].of /\ RequestKey(h[i]) = RequestKey(h[k + 1]) => ~ Latest(h, i, k)
           /\ Latest(h, h[k + 1].of, k) <=> OwnTo(h, h[k + 1].of, k) = {}
<1>. DEFINE m == h[k + 1].of
<1>1. \A i \in DOMAIN h : h[i].kind \in AnswerKinds =>
          /\ h[i].of \in 1 .. (i - 1) /\ h[h[i].of].kind = "request"
          /\ h[h[i].of].url = h[i].url /\ h[h[i].of].id = h[i].id
          /\ \A j \in (h[i].of + 1) .. (i - 1) : h[j].kind = "request" => h[j].id # h[i].id
  BY HistoriesAssumption DEF AnswerKinds
<1>2. h[k + 1].kind \in AnswerKinds
  BY DEF Heard
<1>3. m \in 1 .. k /\ h[m].kind = "request" /\ h[m].url = h[k + 1].url /\ h[m].id = h[k + 1].id
      /\ \A j \in (m + 1) .. k : h[j].kind = "request" => h[j].id # h[k + 1].id
  <2>1. k + 1 - 1 = k
    OBVIOUS
  <2>. QED
    BY <1>1, <1>2, <2>1
<1>. HIDE DEF m
<1>4. DOMAIN h = 1 .. Len(h) /\ Len(h) \in Nat /\ k + 1 <= Len(h)
  BY Listens
<1>5. \A i \in 1 .. k : i \in DOMAIN h /\ Listening(h, i)
  <2>1. \A i \in 1 .. (k + 1) : Listening(h, k + 1) => Listening(h, i)
    BY Listens
  <2>2. Listening(h, k + 1)
    BY DEF Heard
  <2>. QED
    BY <1>4, <2>1, <2>2
<1>6. m \in Req(h, k)
  BY <1>3, <1>5 DEF Req, Heard
<1>7. RequestKey(h[m]) = RequestKey(h[k + 1])
  BY <1>3 DEF RequestKey
<1>8. ASSUME NEW i \in Req(h, k), i # m, RequestKey(h[i]) = RequestKey(h[k + 1])
      PROVE  ~ Latest(h, i, k)
  <2>1. i \in 1 .. k /\ h[i].kind = "request" /\ h[i].id = h[k + 1].id
    BY <1>8 DEF Req, Heard, RequestKey
  <2>2. m \in (i + 1) .. k
    BY <1>3, <1>8, <2>1
  <2>3. Heard(h, m, AnswerKinds \cup {"request"}) /\ RequestKey(h[m]) = RequestKey(h[i])
    BY <1>3, <1>5, <1>7, <1>8 DEF Heard
  <2>. QED
    BY <2>2, <2>3 DEF Latest
<1>9. ASSUME NEW j \in (m + 1) .. k,
             Heard(h, j, AnswerKinds \cup {"request"}), RequestKey(h[j]) = RequestKey(h[m])
      PROVE  j \in OwnTo(h, m, k)
  <2>1. j \in 1 .. k /\ h[j].id = h[k + 1].id
    <3>1. j \in 1 .. k
      BY <1>3
    <3>2. h[j].id = h[m].id
      BY <1>9 DEF RequestKey
    <3>. QED
      BY <1>3, <3>1, <3>2
  <2>2. h[j].kind \in AnswerKinds /\ Heard(h, j, AnswerKinds)
    BY <1>3, <1>9, <2>1 DEF Heard
  <2>. DEFINE n == h[j].of
  <2>3. n \in 1 .. (j - 1) /\ h[n].kind = "request" /\ h[n].id = h[j].id
        /\ \A l \in (n + 1) .. (j - 1) : h[l].kind = "request" => h[l].id # h[j].id
    BY <1>1, <1>5, <2>1, <2>2
  <2>. HIDE DEF n
  <2>4. ~ (n > m)
    <3>1. SUFFICES ASSUME n > m PROVE FALSE
      OBVIOUS
    <3>2. n \in (m + 1) .. k
      BY <1>3, <2>1, <2>3, <3>1
    <3>. QED
      BY <1>3, <2>1, <2>3, <3>2
  <2>5. ~ (n < m)
    <3>1. SUFFICES ASSUME n < m PROVE FALSE
      OBVIOUS
    <3>2. m \in (n + 1) .. (j - 1)
      BY <1>3, <2>3, <3>1
    <3>. QED
      BY <1>3, <2>1, <2>3, <3>2
  <2>6. n = m
    BY <1>3, <2>1, <2>3, <2>4, <2>5
  <2>. QED
    BY <2>1, <2>2, <2>6 DEF OwnTo, n
<1>10. ASSUME NEW j \in OwnTo(h, m, k)
       PROVE  /\ j \in (m + 1) .. k
              /\ Heard(h, j, AnswerKinds \cup {"request"}) /\ RequestKey(h[j]) = RequestKey(h[m])
  <2>1. j \in 1 .. k /\ Heard(h, j, AnswerKinds) /\ h[j].of = m
    BY DEF OwnTo
  <2>2. h[j].kind \in AnswerKinds /\ j \in DOMAIN h
    BY <1>5, <2>1 DEF Heard
  <2>3. m \in 1 .. (j - 1) /\ h[m].url = h[j].url /\ h[m].id = h[j].id
    BY <1>1, <2>1, <2>2
  <2>. QED
    BY <2>1, <2>3 DEF Heard, RequestKey
<1>11. Latest(h, m, k) <=> OwnTo(h, m, k) = {}
  BY <1>9, <1>10 DEF Latest
<1>. QED
  BY <1>6, <1>7, <1>8, <1>11 DEF m

\* The deque: the last numbers up to r stay the last ones when the next is added.
LEMMA DequeGrows ==
    ASSUME NEW s, NEW r \in Nat, NEW n \in Nat, LastNumbers(s, r, n)
    PROVE  LastNumbers(LastN(Append(s, r + 1), MaxEntries), r + 1, n + 1)
<1>0. MaxEntries \in Nat /\ MaxEntries > 0
  BY NetworkCaptureAssumption
<1>. DEFINE a == Append(s, r + 1)
            l == Len(s)
            t == LastN(Append(s, r + 1), MaxEntries)
<1>s. /\ s \in Seq(Nat) /\ Len(s) = (IF n <= MaxEntries THEN n ELSE MaxEntries)
      /\ \A m \in 1 .. Len(s) : s[m] = r - Len(s) + m
  BY DEF LastNumbers
<1>1. /\ a \in Seq(Nat) /\ Len(a) = l + 1 /\ l \in Nat
      /\ \A m \in 1 .. (l + 1) : a[m] = r + 1 - (l + 1) + m
  <2>1. a \in Seq(Nat) /\ Len(a) = l + 1 /\ l \in Nat
    BY <1>s
  <2>2. ASSUME NEW m \in 1 .. l PROVE a[m] = s[m]
    BY <1>s
  <2>3. a[l + 1] = r + 1
    BY <1>s
  <2>. HIDE DEF a
  <2>4. ASSUME NEW m \in 1 .. (l + 1) PROVE a[m] = r + 1 - (l + 1) + m
    <3>1. CASE m = l + 1
      BY <2>1, <2>3, <3>1
    <3>2. CASE m # l + 1
      <4>1. m \in 1 .. l
        BY <2>1, <3>2
      <4>. QED
        BY <1>s, <2>1, <2>2, <4>1
    <3>. QED
      BY <3>1, <3>2
  <2>. QED
    BY <2>1, <2>4
<1>. HIDE DEF a, l, t
<1>2. l = (IF n <= MaxEntries THEN n ELSE MaxEntries)
  BY <1>s DEF l
<1>3. CASE l + 1 <= MaxEntries
  <2>1. t = a /\ l = n
    BY <1>0, <1>1, <1>2, <1>3 DEF LastN, a, t
  <2>2. n + 1 <= MaxEntries
    BY <1>3, <2>1
  <2>3. t \in Seq(Nat)
    BY <1>1, <2>1
  <2>4. Len(t) = n + 1
    BY <1>1, <2>1
  <2>5. Len(t) = (IF n + 1 <= MaxEntries THEN n + 1 ELSE MaxEntries)
    BY <2>2, <2>4
  <2>6. \A m \in 1 .. Len(t) : t[m] = r + 1 - Len(t) + m
    BY <1>1, <2>1, <2>4
  <2>. QED
    BY <2>3, <2>4, <2>5, <2>6 DEF LastNumbers, t
<1>4. CASE ~ (l + 1 <= MaxEntries)
  <2>1. l = MaxEntries /\ n >= MaxEntries
    BY <1>0, <1>2, <1>4
  <2>2. t = SubSeq(a, 2, l + 1)
    <3>1. t = SubSeq(a, Len(a) - MaxEntries + 1, Len(a))
      BY <1>1, <1>4 DEF LastN, a, t
    <3>2. Len(a) - MaxEntries + 1 = 2
      BY <1>0, <1>1, <2>1
    <3>. QED
      BY <1>1, <3>1, <3>2
  <2>3. t \in Seq(Nat) /\ Len(t) = l /\ \A m \in 1 .. l : t[m] = a[m + 1]
    <3>1. l + 1 \in Nat /\ l + 1 <= Len(a)
      BY <1>1
    <3>2. \A i \in 2 .. (l + 1) : a[i] \in Nat
      BY <1>0, <1>1, <2>1, ElementOfSeq
    <3>3. /\ SubSeq(a, 2, l + 1) \in Seq(Nat)
          /\ Len(SubSeq(a, 2, l + 1)) = (IF 2 <= l + 1 THEN l + 1 - 2 + 1 ELSE 0)
          /\ \A m \in 1 .. (l + 1 - 2 + 1) : SubSeq(a, 2, l + 1)[m] = a[2 + m - 1]
      BY <1>1, <3>1, <3>2, SubSeqProperties
    <3>4. 2 <= l + 1 /\ l + 1 - 2 + 1 = l
      BY <1>0, <1>1, <2>1
    <3>5. Len(t) = l /\ \A m \in 1 .. l : t[m] = a[2 + m - 1]
      BY <2>2, <3>3, <3>4
    <3>6. \A m \in 1 .. l : 2 + m - 1 = m + 1
      BY <1>1
    <3>. QED
      BY <2>2, <3>3, <3>5, <3>6
  <2>4. \A m \in 1 .. l : t[m] = r + 1 - l + m
    <3>1. \A m \in 1 .. l : m + 1 \in 1 .. (l + 1)
      BY <1>1
    <3>2. \A m \in 1 .. l : a[m + 1] = r + 1 - (l + 1) + (m + 1)
      BY <1>1, <3>1
    <3>3. \A m \in 1 .. l : r + 1 - (l + 1) + (m + 1) = r + 1 - l + m
      BY <1>1
    <3>. QED
      BY <2>3, <3>2, <3>3
  <2>5. n + 1 > MaxEntries
    BY <1>0, <2>1
  <2>6. Len(t) = (IF n + 1 <= MaxEntries THEN n + 1 ELSE MaxEntries)
    BY <1>0, <2>1, <2>3, <2>5
  <2>7. \A m \in 1 .. Len(t) : t[m] = r + 1 - Len(t) + m
    BY <2>3, <2>4
  <2>. QED
    BY <2>3, <2>6, <2>7 DEF LastNumbers, t
<1>. QED
  BY <1>3, <1>4

\* The first answer stays the first when a later one is heard.
LEMMA FirstStays ==
    ASSUME NEW k \in Nat, NEW S \in SUBSET (1 .. k), S # {}
    PROVE  FirstOf(S \cup {k + 1}) = FirstOf(S)
<1>0. \A j \in S : j \in Nat /\ j <= k
  OBVIOUS
<1>1. S \in SUBSET Nat
  BY <1>0
<1>2. PICK p \in S : \A l \in S : p <= l
  BY <1>1, LeastNumber
<1>3. p <= k + 1
  BY <1>0
<1>4. \A j \in S : (\A l \in S : j <= l) => j = p
  BY <1>0, <1>2
<1>5. ~ (k + 1 <= p)
  BY <1>0
<1>6. \A j \in S \cup {k + 1} : (\A l \in S \cup {k + 1} : j <= l) <=> j = p
  <2>1. SUFFICES ASSUME NEW j \in S \cup {k + 1}
                 PROVE  (\A l \in S \cup {k + 1} : j <= l) <=> j = p
    OBVIOUS
  <2>2. CASE j = p
    BY <1>2, <1>3, <2>2
  <2>3. CASE j # p
    <3>1. CASE j = k + 1
      BY <1>5, <2>3, <3>1
    <3>2. CASE j \in S
      BY <1>4, <2>3, <3>2
    <3>. QED
      BY <3>1, <3>2
  <2>. QED
    BY <2>2, <2>3
<1>7. \A j \in S : (\A l \in S : j <= l) <=> j = p
  BY <1>2, <1>4
<1>8. FirstOf(S \cup {k + 1}) = p
  BY <1>6 DEF FirstOf
<1>9. FirstOf(S) = p
  BY <1>2, <1>7 DEF FirstOf
<1>. QED
  BY <1>8, <1>9

\* An event that is not heard and clears nothing.
LEMMA QuietEvent ==
    ASSUME NEW h, NEW k \in Nat, NEW c, LogInv(h, k, c), NEW d,
           DOMAIN d = DOMAIN c, d.book = c.book, d.kept = c.kept, d.index = c.index,
           d.pending = c.pending, d.attached = Listening(h, k + 1),
           ~ Heard(h, k + 1, AnswerKinds \cup {"request"}), h[k + 1].kind # "clear"
    PROVE  LogInv(h, k + 1, d)
<1>1. ~ Heard(h, k + 1, AnswerKinds) /\ ~ Heard(h, k + 1, {"request"})
  BY DEF Heard
<1>2. /\ {"book", "kept", "index", "pending", "attached"} \subseteq DOMAIN d
      /\ d.book = c.book /\ d.kept = c.kept /\ d.index = c.index /\ d.pending = c.pending
      /\ d.attached = Listening(h, k + 1)
  BY DEF LogInv
<1>3. /\ Req(h, k + 1) = Req(h, k) /\ Current(h, k + 1) = Current(h, k)
      /\ \A i : OwnTo(h, i, k + 1) = OwnTo(h, i, k)
      /\ \A i \in 1 .. k : Latest(h, i, k + 1) <=> Latest(h, i, k)
      /\ \A i \in Current(h, k) : i \in 1 .. k
  <2>1. Req(h, k + 1) = Req(h, k)
    BY <1>1, OneEvent
  <2>2. Current(h, k + 1) = Current(h, k)
    BY <1>1, OneEvent
  <2>3. \A i : OwnTo(h, i, k + 1) = OwnTo(h, i, k)
    BY <1>1, OneEvent
  <2>4. \A i \in 1 .. k : Latest(h, i, k + 1) <=> Latest(h, i, k)
    BY OneEvent
  <2>5. \A i \in Current(h, k) : i \in 1 .. k
    BY OneEvent
  <2>. QED
    BY <2>1, <2>2, <2>3, <2>4, <2>5
<1>4. \A i \in Current(h, k) : ItemOf(h, i, k + 1) = ItemOf(h, i, k)
  BY <1>3 DEF ItemOf
<1>5. BookOK(h, k + 1, d)
  BY <1>2, <1>3, <1>4 DEF LogInv, BookOK
<1>6. IndexOK(h, k + 1, d)
  BY <1>2, <1>3 DEF LogInv, IndexOK
<1>7. KeptOK(h, k + 1, d)
  BY <1>2, <1>3 DEF LogInv, KeptOK
<1>. QED
  BY <1>2, <1>5, <1>6, <1>7 DEF LogInv

LEMMA ClearEvent ==
    ASSUME NEW h, NEW k \in Nat, NEW c, LogInv(h, k, c), h[k + 1].kind = "clear",
           Listening(h, k + 1) = Listening(h, k)
    PROVE  LogInv(h, k + 1, Clear(c))
<1>. DEFINE d == Clear(c)
<1>1. /\ {"book", "kept", "index", "pending", "attached"} \subseteq DOMAIN d
      /\ d.book = c.book /\ d.kept = <<>> /\ d.index = <<>> /\ d.attached = Listening(h, k + 1)
  BY DEF LogInv, Clear
<1>. HIDE DEF d
<1>2. ~ Heard(h, k + 1, {"request"})
  BY DEF Heard
<1>3. Req(h, k + 1) = Req(h, k) /\ Current(h, k + 1) = {}
  <2>1. Req(h, k + 1) = Req(h, k)
    BY <1>2, OneEvent
  <2>2. Current(h, k + 1) = {}
    BY OneEvent
  <2>. QED
    BY <2>1, <2>2
<1>4. BookOK(h, k + 1, d)
  BY <1>1, <1>3 DEF LogInv, BookOK
<1>5. IndexOK(h, k + 1, d)
  <2>1. DOMAIN d.index = {}
    BY <1>1
  <2>. QED
    BY <1>3, <2>1 DEF IndexOK
<1>6. KeptOK(h, k + 1, d)
  <2>1. Cardinality(Current(h, k + 1)) = 0
    BY <1>3, FS_EmptySet
  <2>2. d.kept \in Seq(Nat) /\ Len(d.kept) = 0 /\ 0 <= MaxEntries
    BY <1>1, NetworkCaptureAssumption
  <2>3. 1 .. 0 = {}
    OBVIOUS
  <2>. QED
    BY <2>1, <2>2, <2>3 DEF KeptOK, LastNumbers
<1>. QED
  BY <1>1, <1>4, <1>5, <1>6 DEF LogInv, d

LEMMA RequestEvent ==
    ASSUME NEW h \in Histories, NEW k \in Nat, k + 1 \in DOMAIN h, NEW c, LogInv(h, k, c),
           Heard(h, k + 1, {"request"}), Listening(h, k + 1) = Listening(h, k)
    PROVE  LogInv(h, k + 1, OnRequest(c, h[k + 1]))
<1>. DEFINE d == OnRequest(c, h[k + 1])
            n == Len(c.book) + 1
            key == RequestKey(h[k + 1])
            r == Cardinality(Req(h, k))
            b == [status |-> NoStatus, failed |-> FALSE, timed |-> FALSE]
<1>1. /\ {"book", "kept", "index", "pending", "attached"} \subseteq DOMAIN d
      /\ d.book = Append(c.book, b)
      /\ d.kept = LastN(Append(c.kept, n), MaxEntries)
      /\ d.index = [i \in DOMAIN c.index \cup {key} |-> IF i = key THEN n ELSE c.index[i]]
      /\ d.pending = c.pending \cup {key}
      /\ d.attached = Listening(h, k + 1)
  <2>. HIDE DEF key, n, b
  <2>. QED
    BY DEF LogInv, OnRequest, key, n, b
<1>. HIDE DEF d
<1>2. /\ h[k + 1].kind = "request" /\ ~ Heard(h, k + 1, AnswerKinds)
      /\ Heard(h, k + 1, AnswerKinds \cup {"request"})
  BY DEF Heard, AnswerKinds
<1>3. /\ Req(h, k + 1) = Req(h, k) \cup {k + 1} /\ k + 1 \notin Req(h, k)
      /\ Current(h, k + 1) = Current(h, k) \cup {k + 1} /\ k + 1 \notin Current(h, k)
      /\ \A i : OwnTo(h, i, k + 1) = OwnTo(h, i, k)
      /\ \A i \in 1 .. k : Latest(h, i, k + 1) <=> Latest(h, i, k) /\ key # RequestKey(h[i])
      /\ Latest(h, k + 1, k + 1)
      /\ \A i \in Current(h, k) : i \in 1 .. k /\ i \in Req(h, k)
      /\ Req(h, k) \in SUBSET (1 .. k) /\ Current(h, k) \in SUBSET (1 .. k)
      /\ \A i \in Req(h, k) : Num(h, i) = Place(Req(h, k), i)
  <2>1. Req(h, k) \in SUBSET (1 .. k) /\ Current(h, k) \in SUBSET Req(h, k)
    BY OneEvent
  <2>2. k + 1 \notin 1 .. k
    OBVIOUS
  <2>3. Req(h, k + 1) = Req(h, k) \cup {k + 1}
    BY OneEvent
  <2>4. Current(h, k + 1) = Current(h, k) \cup {k + 1}
    BY <1>2, OneEvent
  <2>5. \A i : OwnTo(h, i, k + 1) = OwnTo(h, i, k)
    BY <1>2, OneEvent
  <2>6. \A i \in 1 .. k : Latest(h, i, k + 1) <=> Latest(h, i, k) /\ key # RequestKey(h[i])
    BY <1>2, OneEvent
  <2>7. Latest(h, k + 1, k + 1) /\ \A i \in Req(h, k) : Num(h, i) = Place(Req(h, k), i)
    BY OneEvent
  <2>. HIDE DEF key
  <2>. QED
    BY <2>1, <2>2, <2>3, <2>4, <2>5, <2>6, <2>7
<1>4. /\ r \in Nat /\ Cardinality(Current(h, k)) \in Nat
      /\ Cardinality(Req(h, k + 1)) = r + 1
      /\ Cardinality(Current(h, k + 1)) = Cardinality(Current(h, k)) + 1
  BY <1>3, Counting
<1>5. Len(c.book) = r /\ n = r + 1
  BY <1>4 DEF LogInv, BookOK
<1>6. Num(h, k + 1) = n
  BY <1>4, <1>5 DEF Num
<1>7. \A i \in Current(h, k) : Num(h, i) \in 1 .. r
  BY <1>3, Places
<1>8. OwnTo(h, k + 1, k) = {}
  <2>1. SUFFICES ASSUME NEW j \in OwnTo(h, k + 1, k) PROVE FALSE
    OBVIOUS
  <2>2. j \in 1 .. k /\ h[j].kind \in AnswerKinds /\ h[j].of = k + 1
    BY DEF OwnTo, Heard
  <2>3. k + 1 <= Len(h) /\ Len(h) \in Nat /\ DOMAIN h = 1 .. Len(h)
    BY Listens
  <2>4. j \in DOMAIN h
    BY <2>2, <2>3
  <2>5. h[j].of \in 1 .. (j - 1)
    BY <2>2, <2>4, HistoriesAssumption DEF AnswerKinds
  <2>. QED
    BY <2>2, <2>5
<1>9. PICK S : c.book \in Seq(S)
  BY DEF LogInv, BookOK
<1>10. /\ d.book \in Seq(S \cup {b}) /\ Len(d.book) = r + 1 /\ d.book[r + 1] = b
       /\ \A i \in 1 .. r : d.book[i] = c.book[i]
  <2>1. c.book \in Seq(S \cup {b}) /\ b \in S \cup {b}
    BY <1>9
  <2>2. d.book = Append(c.book, b) /\ Len(c.book) = r
    BY <1>1, <1>5
  <2>. DEFINE B == c.book
              S1 == S \cup {b}
  <2>. HIDE DEF b, B, S1
  <2>3. /\ Append(B, b) \in Seq(S1) /\ Len(Append(B, b)) = Len(B) + 1
        /\ \A i \in 1 .. Len(B) : Append(B, b)[i] = B[i]
        /\ Append(B, b)[Len(B) + 1] = b
    BY <2>1, AppendProperties DEF B, S1
  <2>. QED
    BY <2>2, <2>3 DEF B, S1
<1>11. BookOK(h, k + 1, d)
  <2>1. \A i \in Current(h, k) : /\ d.book[Num(h, i)] = c.book[Num(h, i)]
                                 /\ ItemOf(h, i, k + 1) = ItemOf(h, i, k)
    BY <1>3, <1>7, <1>10 DEF ItemOf
  <2>2. \A i \in Current(h, k) : c.book[Num(h, i)] = ItemOf(h, i, k)
    BY DEF LogInv, BookOK
  <2>3. ItemOf(h, k + 1, k + 1) = b
    BY <1>2, <1>3, <1>8 DEF ItemOf, Item
  <2>4. \A i \in Current(h, k + 1) : d.book[Num(h, i)] = ItemOf(h, i, k + 1)
    BY <1>3, <1>5, <1>6, <1>10, <2>1, <2>2, <2>3
  <2>. QED
    BY <1>4, <1>10, <2>4 DEF BookOK
<1>12. IndexOK(h, k + 1, d)
  <2>1. /\ \A i \in DOMAIN c.index : \E j \in Current(h, k) : i = RequestKey(h[j]) /\ Latest(h, j, k)
        /\ \A j \in Current(h, k) : Latest(h, j, k) =>
               /\ RequestKey(h[j]) \in DOMAIN c.index \cap c.pending
               /\ c.index[RequestKey(h[j])] = Num(h, j)
    BY DEF LogInv, IndexOK
  <2>2. DOMAIN d.index = DOMAIN c.index \cup {key} /\ d.index[key] = n
        /\ \A i \in DOMAIN c.index : i # key => d.index[i] = c.index[i]
    BY <1>1
  <2>. HIDE DEF key, n
  <2>3. ASSUME NEW i \in DOMAIN d.index
        PROVE  \E j \in Current(h, k + 1) : i = RequestKey(h[j]) /\ Latest(h, j, k + 1)
    <3>1. CASE i = key
      BY <1>3, <3>1 DEF key
    <3>2. CASE i # key
      BY <1>3, <2>1, <2>2, <3>2
    <3>. QED
      BY <3>1, <3>2
  <2>4. ASSUME NEW j \in Current(h, k + 1), Latest(h, j, k + 1)
        PROVE  /\ RequestKey(h[j]) \in DOMAIN d.index \cap d.pending
               /\ d.index[RequestKey(h[j])] = Num(h, j)
    <3>1. CASE j = k + 1
      BY <1>1, <1>6, <2>2, <3>1 DEF key
    <3>2. CASE j # k + 1
      BY <1>1, <1>3, <2>1, <2>2, <2>4, <3>2
    <3>. QED
      BY <3>1, <3>2
  <2>. QED
    BY <2>3, <2>4 DEF IndexOK
<1>13. KeptOK(h, k + 1, d)
  <2>. DEFINE m == Cardinality(Current(h, k))
  <2>1. LastNumbers(c.kept, r, m)
    BY DEF LogInv, KeptOK
  <2>2. m \in Nat /\ r \in Nat /\ d.kept = LastN(Append(c.kept, r + 1), MaxEntries)
    BY <1>1, <1>4, <1>5
  <2>3. Cardinality(Req(h, k + 1)) = r + 1 /\ Cardinality(Current(h, k + 1)) = m + 1
    BY <1>4
  <2>. HIDE DEF m, r, n
  <2>4. LastNumbers(d.kept, r + 1, m + 1)
    BY <2>1, <2>2, DequeGrows
  <2>. QED
    BY <2>3, <2>4 DEF KeptOK
<1>. QED
  BY <1>1, <1>11, <1>12, <1>13 DEF LogInv, d

\* An answer is written to the entry of its request, which is found when it is the
\* last of its key: when it is logged and was not answered.
LEMMA AnswerEvent ==
    ASSUME NEW h \in Histories, NEW k \in Nat, k + 1 \in DOMAIN h, NEW c, LogInv(h, k, c),
           Heard(h, k + 1, AnswerKinds), Listening(h, k + 1) = Listening(h, k),
           NEW entry, RequestKey(h[k + 1]) \in c.pending => entry = Item(h[k + 1])
    PROVE  LogInv(h, k + 1, Answered(c, h[k + 1], entry))
<1>. DEFINE d == Answered(c, h[k + 1], entry)
            key == RequestKey(h[k + 1])
            m == h[k + 1].of
            book == IF key \in DOMAIN c.index THEN [c.book EXCEPT ![c.index[key]] = entry] ELSE c.book
            found == m \in Current(h, k) /\ Latest(h, m, k)
            r == Cardinality(Req(h, k))
<1>1. /\ {"book", "kept", "index", "pending", "attached"} \subseteq DOMAIN d
      /\ d.book = book /\ d.kept = c.kept
      /\ d.index = [i \in DOMAIN c.index \ {key} |-> c.index[i]]
      /\ d.pending = c.pending \ {key}
      /\ d.attached = Listening(h, k + 1)
  <2>. HIDE DEF key, book
  <2>. QED
    BY DEF LogInv, Answered, Without, key, book
<1>. HIDE DEF d
<1>2. /\ ~ Heard(h, k + 1, {"request"}) /\ h[k + 1].kind # "clear"
      /\ Heard(h, k + 1, AnswerKinds \cup {"request"})
  BY DEF Heard, AnswerKinds
<1>3. /\ Req(h, k + 1) = Req(h, k) /\ Current(h, k + 1) = Current(h, k)
      /\ OwnTo(h, m, k + 1) = OwnTo(h, m, k) \cup {k + 1}
      /\ \A i : i # m => OwnTo(h, i, k + 1) = OwnTo(h, i, k)
      /\ \A i \in 1 .. k : Latest(h, i, k + 1) <=> Latest(h, i, k) /\ key # RequestKey(h[i])
      /\ \A i \in Current(h, k) : i \in 1 .. k /\ i \in Req(h, k)
      /\ Req(h, k) \in SUBSET (1 .. k) /\ OwnTo(h, m, k) \in SUBSET (1 .. k)
      /\ \A i \in Req(h, k) : Num(h, i) = Place(Req(h, k), i)
  <2>1. Req(h, k) \in SUBSET (1 .. k) /\ Current(h, k) \in SUBSET Req(h, k)
    BY OneEvent
  <2>2. Req(h, k + 1) = Req(h, k)
    BY <1>2, OneEvent
  <2>3. Current(h, k + 1) = Current(h, k)
    BY <1>2, OneEvent
  <2>4. OwnTo(h, m, k + 1) = OwnTo(h, m, k) \cup {k + 1}
    BY OneEvent
  <2>5. ASSUME NEW i, i # m PROVE OwnTo(h, i, k + 1) = OwnTo(h, i, k)
    BY <2>5, OneEvent
  <2>6. \A i \in 1 .. k : Latest(h, i, k + 1) <=> Latest(h, i, k) /\ key # RequestKey(h[i])
    BY <1>2, OneEvent
  <2>7. \A i \in Req(h, k) : Num(h, i) = Place(Req(h, k), i)
    BY OneEvent
  <2>8. OwnTo(h, m, k) \in SUBSET (1 .. k)
    BY DEF OwnTo
  <2>. HIDE DEF key, m
  <2>. QED
    BY <2>1, <2>2, <2>3, <2>4, <2>5, <2>6, <2>7, <2>8
<1>4. /\ m \in Req(h, k) /\ RequestKey(h[m]) = key
      /\ \A i \in Req(h, k) : i # m /\ RequestKey(h[i]) = key => ~ Latest(h, i, k)
      /\ Latest(h, m, k) <=> OwnTo(h, m, k) = {}
  BY Answering
<1>5. /\ \A i \in DOMAIN c.index : \E j \in Current(h, k) : i = RequestKey(h[j]) /\ Latest(h, j, k)
      /\ \A j \in Current(h, k) : Latest(h, j, k) =>
             /\ RequestKey(h[j]) \in DOMAIN c.index /\ RequestKey(h[j]) \in c.pending
             /\ c.index[RequestKey(h[j])] = Num(h, j)
  BY DEF LogInv, IndexOK
<1>. HIDE DEF key, m
<1>6. /\ found => key \in DOMAIN c.index /\ key \in c.pending /\ c.index[key] = Num(h, m)
      /\ ~ found => key \notin DOMAIN c.index
  BY <1>3, <1>4, <1>5
<1>7. r \in Nat /\ \A i \in Current(h, k) : Num(h, i) \in 1 .. r
  <2>1. r \in Nat
    BY <1>3, Counting
  <2>2. \A i \in Req(h, k) : Place(Req(h, k), i) \in 1 .. r
    BY <1>3, Places
  <2>. QED
    BY <1>3, <2>1, <2>2
<1>8. \A i, j \in Current(h, k) : Num(h, i) = Num(h, j) => i = j
  BY <1>3, Places
<1>9. PICK S : c.book \in Seq(S)
  BY DEF LogInv, BookOK
<1>10. /\ Len(c.book) = r
       /\ \A i \in Current(h, k) : c.book[Num(h, i)] = ItemOf(h, i, k)
  BY DEF LogInv, BookOK
<1>11. /\ d.book \in Seq(S \cup {entry}) /\ Len(d.book) = r
       /\ found => d.book[Num(h, m)] = entry
       /\ \A i \in Current(h, k) : ~ found \/ i # m => d.book[Num(h, i)] = c.book[Num(h, i)]
  <2>1. c.book \in Seq(S \cup {entry})
    BY <1>9
  <2>2. CASE found
    <3>. DEFINE n == Num(h, m)
                B == c.book
                S1 == S \cup {entry}
    <3>1. n \in 1 .. r /\ d.book = [B EXCEPT ![n] = entry]
      BY <1>1, <1>6, <1>7, <2>2
    <3>2. \A i \in Current(h, k) : i # m => Num(h, i) # n /\ Num(h, i) \in 1 .. r
      BY <1>7, <1>8, <2>2
    <3>3. B \in Seq(S1) /\ entry \in S1 /\ Len(B) = r
      BY <1>10, <2>1
    <3>. HIDE DEF n, B, S1, found
    <3>4. /\ [B EXCEPT ![n] = entry] \in Seq(S1) /\ Len([B EXCEPT ![n] = entry]) = r
          /\ [B EXCEPT ![n] = entry][n] = entry
          /\ \A i \in 1 .. r : i # n => [B EXCEPT ![n] = entry][i] = B[i]
      BY <3>1, <3>3, ExceptSeq
    <3>. QED
      BY <2>2, <3>1, <3>2, <3>4 DEF n, B, S1
  <2>3. CASE ~ found
    <3>1. d.book = c.book
      BY <1>1, <1>6, <2>3
    <3>. HIDE DEF found
    <3>. QED
      BY <1>10, <2>1, <2>3, <3>1
  <2>. QED
    BY <2>2, <2>3
<1>12. BookOK(h, k + 1, d)
  <2>1. ASSUME NEW i \in Current(h, k), i # m
        PROVE  d.book[Num(h, i)] = ItemOf(h, i, k + 1)
    BY <1>3, <1>10, <1>11, <2>1 DEF ItemOf
  <2>2. ASSUME m \in Current(h, k), Latest(h, m, k)
        PROVE  d.book[Num(h, m)] = ItemOf(h, m, k + 1)
    <3>1. OwnTo(h, m, k + 1) = {k + 1}
      BY <1>3, <1>4, <2>2
    <3>2. FirstOf({k + 1}) = k + 1
      BY DEF FirstOf
    <3>3. entry = Item(h[k + 1])
      BY <1>6, <2>2 DEF key
    <3>. QED
      BY <1>11, <2>2, <3>1, <3>2, <3>3 DEF ItemOf
  <2>3. ASSUME m \in Current(h, k), ~ Latest(h, m, k)
        PROVE  d.book[Num(h, m)] = ItemOf(h, m, k + 1)
    <3>1. OwnTo(h, m, k) # {}
      BY <1>4, <2>3
    <3>2. FirstOf(OwnTo(h, m, k + 1)) = FirstOf(OwnTo(h, m, k))
      BY <1>3, <3>1, FirstStays
    <3>3. OwnTo(h, m, k + 1) # {}
      BY <1>3
    <3>4. d.book[Num(h, m)] = ItemOf(h, m, k)
      BY <1>10, <1>11, <2>3
    <3>. QED
      BY <3>1, <3>2, <3>3, <3>4 DEF ItemOf
  <2>. QED
    BY <1>3, <1>11, <2>1, <2>2, <2>3 DEF BookOK
<1>13. IndexOK(h, k + 1, d)
  <2>1. /\ DOMAIN d.index = DOMAIN c.index \ {key}
        /\ \A i \in DOMAIN c.index \ {key} : d.index[i] = c.index[i]
    BY <1>1
  <2>2. ASSUME NEW i \in DOMAIN d.index
        PROVE  \E j \in Current(h, k + 1) : i = RequestKey(h[j]) /\ Latest(h, j, k + 1)
    BY <1>3, <1>5, <2>1
  <2>3. ASSUME NEW j \in Current(h, k + 1), Latest(h, j, k + 1)
        PROVE  /\ RequestKey(h[j]) \in DOMAIN d.index \cap d.pending
               /\ d.index[RequestKey(h[j])] = Num(h, j)
    BY <1>1, <1>3, <1>5, <2>1, <2>3
  <2>. QED
    BY <2>2, <2>3 DEF IndexOK
<1>14. KeptOK(h, k + 1, d)
  BY <1>1, <1>3 DEF LogInv, KeptOK
<1>. QED
  BY <1>1, <1>12, <1>13, <1>14 DEF LogInv, d

LEMMA LogStep ==
    ASSUME NEW h \in Histories, NEW k \in Nat, k + 1 \in DOMAIN h, NEW c, LogInv(h, k, c)
    PROVE  LogInv(h, k + 1, Handle(c, h[k + 1]))
<1>. DEFINE e == h[k + 1]
<1>1. /\ e.kind \in Kinds
      /\ Listening(h, k + 1) <=> \A j \in 1 .. (k + 1) : h[j].kind # "detach"
  BY Listens
<1>2. e.kind = "attach" <=> k = 0
  BY HistoriesAssumption
<1>3. Listening(h, k) <=> k # 0 /\ \A j \in 1 .. k : h[j].kind # "detach"
  <2>1. CASE k = 0
    BY <2>1 DEF Listening
  <2>2. CASE k # 0
    <3>1. k \in DOMAIN h
      <4>1. DOMAIN h = 1 .. Len(h) /\ Len(h) \in Nat
        BY Listens
      <4>. QED
        BY <2>2, <4>1
    <3>. QED
      BY <2>2, <3>1, Listens
  <2>. QED
    BY <2>1, <2>2
<1>4. 1 .. (k + 1) = (1 .. k) \cup {k + 1}
  OBVIOUS
<1>5. c.attached = Listening(h, k) /\ {"attached"} \subseteq DOMAIN c
  BY DEF LogInv
<1>6. CASE e.kind = "attach"
  <2>1. k = 0
    BY <1>2, <1>6
  <2>2. Listening(h, k + 1)
    BY <1>1, <1>4, <1>6, <2>1
  <2>3. Handle(c, e) = [c EXCEPT !.attached = TRUE]
    BY <1>6 DEF Handle
  <2>4. ~ Heard(h, k + 1, AnswerKinds \cup {"request"}) /\ e.kind # "clear"
    BY <1>6 DEF Heard, AnswerKinds
  <2>5. Listening(h, k + 1) = TRUE
    BY <2>2 DEF Listening
  <2>. DEFINE d == [c EXCEPT !.attached = TRUE]
  <2>6. /\ DOMAIN d = DOMAIN c /\ d.book = c.book /\ d.kept = c.kept /\ d.index = c.index
        /\ d.pending = c.pending /\ d.attached = TRUE
    BY <1>5
  <2>. HIDE DEF d
  <2>7. LogInv(h, k + 1, d)
    BY <2>4, <2>5, <2>6, QuietEvent
  <2>. QED
    BY <2>3, <2>7 DEF d
<1>7. CASE e.kind = "detach"
  <2>1. Listening(h, k + 1) = FALSE
    <3>1. ~ Listening(h, k + 1)
      BY <1>1, <1>4, <1>7
    <3>. QED
      BY <3>1 DEF Listening
  <2>2. Handle(c, e) = [c EXCEPT !.attached = FALSE]
    BY <1>7 DEF Handle
  <2>3. ~ Heard(h, k + 1, AnswerKinds \cup {"request"}) /\ e.kind # "clear"
    BY <1>7 DEF Heard, AnswerKinds
  <2>. DEFINE d == [c EXCEPT !.attached = FALSE]
  <2>4. /\ DOMAIN d = DOMAIN c /\ d.book = c.book /\ d.kept = c.kept /\ d.index = c.index
        /\ d.pending = c.pending /\ d.attached = FALSE
    BY <1>5
  <2>. HIDE DEF d
  <2>5. LogInv(h, k + 1, d)
    BY <2>1, <2>3, <2>4, QuietEvent
  <2>. QED
    BY <2>2, <2>5 DEF d
<1>8. CASE e.kind \notin {"attach", "detach"}
  <2>1. Listening(h, k + 1) <=> Listening(h, k)
    BY <1>1, <1>2, <1>3, <1>4, <1>8
  <2>2. Listening(h, k + 1) = Listening(h, k)
    BY <2>1 DEF Listening
  <2>3. CASE e.kind = "clear"
    <3>1. Handle(c, e) = Clear(c)
      BY <2>3 DEF Handle
    <3>. QED
      BY <2>2, <2>3, <3>1, ClearEvent
  <2>4. CASE e.kind # "clear" /\ c.attached
    <3>1. CASE e.kind = "request"
      <4>1. Handle(c, e) = OnRequest(c, e)
        BY <2>4, <3>1 DEF Handle
      <4>2. Heard(h, k + 1, {"request"})
        BY <1>5, <2>1, <2>4, <3>1 DEF Heard
      <4>. QED
        BY <2>2, <4>1, <4>2, RequestEvent
    <3>2. CASE e.kind \in AnswerKinds
      <4>1. Heard(h, k + 1, AnswerKinds)
        BY <1>5, <2>1, <2>4, <3>2 DEF Heard
      <4>2. CASE e.kind = "response"
        <5>. DEFINE entry == [status |-> e.status, failed |-> FALSE, timed |-> RequestKey(e) \in c.pending]
        <5>1. Handle(c, e) = Answered(c, e, entry)
          BY <2>4, <4>2 DEF Handle, OnResponse
        <5>2. RequestKey(e) \in c.pending => entry = Item(e)
          BY <4>2 DEF Item
        <5>. HIDE DEF entry
        <5>. QED
          BY <2>2, <4>1, <5>1, <5>2, AnswerEvent
      <4>3. CASE e.kind = "failed"
        <5>. DEFINE entry == [status |-> NoStatus, failed |-> TRUE, timed |-> FALSE]
        <5>1. Handle(c, e) = Answered(c, e, entry)
          BY <2>4, <4>3 DEF Handle, OnRequestFailed
        <5>2. entry = Item(e)
          BY <4>3 DEF Item
        <5>. HIDE DEF entry
        <5>. QED
          BY <2>2, <4>1, <5>1, <5>2, AnswerEvent
      <4>. QED
        BY <3>2, <4>2, <4>3 DEF AnswerKinds
    <3>. QED
      BY <1>1, <1>8, <2>4, <3>1, <3>2 DEF Kinds, AnswerKinds
  <2>5. CASE e.kind # "clear" /\ ~ c.attached
    <3>1. Handle(c, e) = c
      BY <1>1, <1>8, <2>5 DEF Handle, Kinds
    <3>2. Listening(h, k + 1) = FALSE
      BY <1>5, <2>2, <2>5 DEF Listening
    <3>3. ~ Heard(h, k + 1, AnswerKinds \cup {"request"})
      BY <3>2 DEF Heard
    <3>4. LogInv(h, k + 1, c)
      BY <1>5, <2>2, <2>5, <3>3, QuietEvent
    <3>. QED
      BY <3>1, <3>4
  <2>. QED
    BY <2>3, <2>4, <2>5
<1>. QED
  BY <1>6, <1>7, <1>8

\* The capture after all of a history.
LEMMA LogEnds == ASSUME NEW h \in Histories PROVE LogInv(h, Len(h), After(h)[Len(h)])
<1>. DEFINE Broken == {k \in Nat : k <= Len(h) /\ ~ LogInv(h, k, After(h)[k])}
<1>1. Len(h) \in Nat /\ DOMAIN h = 1 .. Len(h)
  BY HistoriesAssumption
<1>2. LogInv(h, 0, Fresh)
  <2>1. 1 .. 0 = {}
    OBVIOUS
  <2>2. Req(h, 0) = {} /\ Current(h, 0) = {}
    BY <2>1 DEF Req, Current
  <2>3. Cardinality({}) = 0
    BY FS_EmptySet
  <2>4. Listening(h, 0) = FALSE
    BY <2>1 DEF Listening
  <2>5. /\ {"book", "kept", "index", "pending", "attached"} \subseteq DOMAIN Fresh
        /\ Fresh.book = <<>> /\ Fresh.kept = <<>> /\ Fresh.index = <<>> /\ Fresh.attached = FALSE
    BY DEF Fresh
  <2>6. BookOK(h, 0, Fresh)
    <3>1. <<>> \in Seq({}) /\ Len(<<>>) = 0
      OBVIOUS
    <3>. QED
      BY <2>2, <2>3, <2>5, <3>1 DEF BookOK
  <2>7. IndexOK(h, 0, Fresh)
    <3>1. DOMAIN Fresh.index = {}
      BY <2>5
    <3>. QED
      BY <2>2, <3>1 DEF IndexOK
  <2>8. KeptOK(h, 0, Fresh)
    <3>1. Fresh.kept \in Seq(Nat) /\ Len(Fresh.kept) = 0
      BY <2>5
    <3>2. 0 <= MaxEntries
      BY NetworkCaptureAssumption
    <3>3. LastNumbers(Fresh.kept, 0, 0)
      BY <3>1, <3>2 DEF LastNumbers
    <3>. QED
      BY <2>2, <2>3, <3>3 DEF KeptOK
  <2>. QED
    BY <2>4, <2>5, <2>6, <2>7, <2>8 DEF LogInv
<1>3. /\ After(h)[0] = Fresh
      /\ \A k \in 1 .. Len(h) : After(h)[k] = Handle(After(h)[k - 1], h[k])
  BY <1>1, AfterDef
<1>4. ASSUME NEW k \in Broken, \A l \in Broken : k <= l PROVE FALSE
  <2>1. k \in Nat /\ k <= Len(h) /\ ~ LogInv(h, k, After(h)[k])
    OBVIOUS
  <2>2. k # 0
    BY <1>2, <1>3, <2>1
  <2>3. k - 1 \in Nat /\ k - 1 <= Len(h) /\ ~ (k <= k - 1)
    BY <1>1, <2>1, <2>2
  <2>4. LogInv(h, k - 1, After(h)[k - 1])
    BY <1>4, <2>3
  <2>. DEFINE n == k - 1
  <2>5. n \in Nat /\ n + 1 = k /\ n + 1 \in DOMAIN h /\ k \in 1 .. Len(h)
    BY <1>1, <2>1, <2>2
  <2>6. LogInv(h, n, After(h)[n])
    BY <2>4
  <2>. HIDE DEF n
  <2>7. LogInv(h, n + 1, Handle(After(h)[n], h[n + 1]))
    BY <2>5, <2>6, LogStep
  <2>8. After(h)[k] = Handle(After(h)[k - 1], h[k]) /\ k - 1 = n
    BY <1>3, <2>5
  <2>. QED
    BY <2>1, <2>5, <2>7, <2>8
<1>5. Broken = {}
  <2>1. Broken \in SUBSET Nat
    OBVIOUS
  <2>. HIDE DEF Broken
  <2>. QED
    BY <1>4, <2>1, LeastNumber
<1>. QED
  BY <1>1, <1>5

-----------------------------------------------------------------------------
(* The entries that are shown.                                             *)

PlacesOf(L, M) == {Place(L, i) : i \in M}

\* Places in a set are kept by going through the places of a larger one.
LEMMA PlaceThrough ==
    ASSUME NEW n \in Nat, NEW L \in SUBSET (1 .. n), NEW M \in SUBSET L,
           NEW P, P = PlacesOf(L, M)
    PROVE  /\ P \in SUBSET (1 .. Cardinality(L)) /\ Cardinality(P) = Cardinality(M)
           /\ \A i \in M : Place(P, Place(L, i)) = Place(M, i)
<1>. DEFINE Image(N) == {Place(L, i) : i \in N}
<1>1. ASSUME NEW N \in SUBSET L PROVE Cardinality(Image(N)) = Cardinality(N)
  <2>. DEFINE f == [i \in N |-> Place(L, i)]
  <2>1. \A i, j \in N : Place(L, i) = Place(L, j) => i = j
    BY Places
  <2>2. f \in [N -> Image(N)]
    OBVIOUS
  <2>3. \A i, j \in N : f[i] = f[j] => i = j
    BY <2>1
  <2>4. \A p \in Image(N) : \E i \in N : f[i] = p
    OBVIOUS
  <2>5. IsFiniteSet(N)
    BY Counting
  <2>. HIDE DEF f, Image
  <2>6. f \in Bijection(N, Image(N))
    BY <2>2, <2>3, <2>4, Fun_IsBij
  <2>. QED
    BY <2>5, <2>6, FS_Bijection DEF ExistsBijection
<1>2. \A i \in L : Place(L, i) \in 1 .. Cardinality(L)
  BY Places
<1>3. ASSUME NEW i \in M PROVE Place(P, Place(L, i)) = Place(M, i)
  <2>. DEFINE V == {j \in M : j <= i}
              U == {p \in P : p <= Place(L, i)}
  <2>1. \A j \in M : j \in L /\ j \in Nat /\ i \in Nat /\ i \in L
    OBVIOUS
  <2>2. \A j \in M : Place(L, j) <= Place(L, i) <=> j <= i
    <3>1. SUFFICES ASSUME NEW j \in M PROVE Place(L, j) <= Place(L, i) <=> j <= i
      OBVIOUS
    <3>2. Place(L, i) \in Nat /\ Place(L, j) \in Nat /\ Cardinality(L) \in Nat
      <4>1. Cardinality(L) \in Nat
        BY Counting
      <4>. QED
        BY <1>2, <2>1, <4>1
    <3>3. /\ j < i => Place(L, j) < Place(L, i)
          /\ i < j => Place(L, i) < Place(L, j)
      BY <2>1, Places
    <3>. QED
      BY <2>1, <3>2, <3>3
  <2>3. U = Image(V)
    BY <2>2 DEF PlacesOf
  <2>4. V \in SUBSET L
    OBVIOUS
  <2>5. Place(P, Place(L, i)) = Cardinality(U) /\ Place(M, i) = Cardinality(V)
    BY DEF Place
  <2>. HIDE DEF U, V, Image
  <2>. QED
    BY <1>1, <2>3, <2>4, <2>5
<1>4. P = Image(M)
  BY DEF PlacesOf
<1>5. P \in SUBSET (1 .. Cardinality(L))
  BY <1>2 DEF PlacesOf
<1>. HIDE DEF Image
<1>. QED
  BY <1>1, <1>3, <1>4, <1>5

\* What is picked of a sequence: as many as places, in their order.
LEMMA PickedOnes ==
    ASSUME NEW n \in Nat, NEW P \in SUBSET (1 .. n), NEW s
    PROVE  /\ Picked(s, P) \in Seq({s[i] : i \in P})
           /\ Len(Picked(s, P)) = Cardinality(P)
           /\ \A i \in P : Picked(s, P)[Place(P, i)] = s[i]
<1>. DEFINE At(m) == CHOOSE i \in P : Place(P, i) = m
            c == Cardinality(P)
<1>1. c \in Nat
  BY Counting
<1>2. \A m \in 1 .. c : At(m) \in P /\ Place(P, At(m)) = m
  BY PlaceTaken
<1>3. Picked(s, P) = [m \in 1 .. c |-> s[At(m)]]
  BY DEF Picked
<1>. HIDE DEF At, c
<1>4. Picked(s, P) \in Seq({s[i] : i \in P}) /\ Len(Picked(s, P)) = c
  BY <1>1, <1>2, <1>3
<1>5. ASSUME NEW i \in P PROVE Picked(s, P)[Place(P, i)] = s[i]
  <2>1. Place(P, i) \in 1 .. c
    BY Places DEF c
  <2>2. At(Place(P, i)) = i
    <3>1. \A j, l \in P : Place(P, j) = Place(P, l) => j = l
      BY Places
    <3>. QED
      BY <1>2, <2>1, <3>1
  <2>. QED
    BY <1>3, <2>1, <2>2
<1>. QED
  BY <1>4, <1>5 DEF c

\* The last elements of a sequence are those at the last places of a set.
LEMMA LastOnes ==
    ASSUME NEW n \in Nat, NEW M \in SUBSET (1 .. n), NEW S, NEW s \in Seq(S), Len(s) = Cardinality(M),
           NEW m \in Nat, m > 0
    PROVE  /\ Len(LastN(s, m)) = Cardinality(LastOf(M, m))
           /\ \A i \in LastOf(M, m) : LastN(s, m)[Place(LastOf(M, m), i)] = s[Place(M, i)]
<1>. DEFINE T == LastOf(M, m)
            c == Cardinality(M)
            t == Cardinality(T)
<1>1. /\ T \in SUBSET M /\ t = (IF c <= m THEN c ELSE m)
      /\ \A i \in T : Place(T, i) = Place(M, i) - (c - t)
  BY LastOfSet
<1>2. c \in Nat /\ Len(s) = c
  BY Counting
<1>3. \A i \in T : Place(T, i) \in 1 .. t
  <2>1. T \in SUBSET (1 .. n)
    BY <1>1
  <2>. HIDE DEF T
  <2>. QED
    BY <2>1, Places
<1>4. \A i \in M : Place(M, i) \in 1 .. c
  BY Places
<1>. HIDE DEF T, c, t
<1>5. CASE c <= m
  <2>1. LastN(s, m) = s
    BY <1>2, <1>5 DEF LastN
  <2>2. \A i \in T : Place(T, i) = Place(M, i)
    BY <1>1, <1>2, <1>4, <1>5
  <2>. QED
    BY <1>1, <1>2, <1>5, <2>1, <2>2 DEF T, t
<1>6. CASE ~ (c <= m)
  <2>. DEFINE l == c - m + 1
              u == LastN(s, m)
  <2>0. l \in 1 .. c /\ t = m /\ c - l + 1 = m
    BY <1>1, <1>2, <1>6
  <2>1. u = SubSeq(s, l, c)
    BY <1>2, <1>6 DEF LastN
  <2>2. \A i \in l .. c : s[i] \in S
    BY <1>2, <2>0, ElementOfSeq
  <2>. HIDE DEF l, u
  <2>3. /\ Len(SubSeq(s, l, c)) = (IF l <= c THEN c - l + 1 ELSE 0)
        /\ \A i \in 1 .. (c - l + 1) : SubSeq(s, l, c)[i] = s[l + i - 1]
    BY <1>2, <2>0, <2>2, SubSeqProperties
  <2>4. Len(u) = t /\ \A i \in 1 .. t : u[i] = s[l + i - 1]
    BY <1>2, <2>0, <2>1, <2>3
  <2>5. \A i \in T : l + Place(T, i) - 1 = Place(M, i)
    BY <1>1, <1>2, <1>3, <1>4, <1>6, <2>0 DEF l
  <2>. QED
    BY <1>3, <2>4, <2>5 DEF T, t, u
<1>. QED
  BY <1>5, <1>6

\* What is captured: the last requests, each at its place and with its answer.
LEMMA Logged ==
    ASSUME NEW h \in Histories, NEW L, L = LastOf(Requests(h), MaxEntries)
    PROVE  /\ Len(h) \in Nat /\ L \in SUBSET (1 .. Len(h))
           /\ DOMAIN Captured(h) = 1 .. Cardinality(L) /\ Len(Captured(h)) = Cardinality(L)
           /\ \A i \in L : Captured(h)[Place(L, i)] = EntryOf(h, i)
<1>. DEFINE k == Len(h)
            K == Requests(h)
            R == Req(h, k)
            c == After(h)[k]
            l == Cardinality(L)
<1>1. k \in Nat /\ DOMAIN h = 1 .. k
  BY HistoriesAssumption
<1>2. K = Current(h, k)
  BY <1>1 DEF Requests, Current, Req
<1>3. LogInv(h, k, c)
  BY LogEnds
<1>4. \A i : EntryOf(h, i) = ItemOf(h, i, k)
  <2>1. \A i : Own(h, i) = OwnTo(h, i, k)
    BY <1>1 DEF Own, OwnTo, AnswerKinds
  <2>2. \A i : EntryOf(h, i) = IF Own(h, i) = {} THEN Item(h[i]) ELSE Item(h[FirstOf(Own(h, i))])
    BY DEF EntryOf, FirstOf
  <2>. HIDE DEF k
  <2>. QED
    BY <2>1, <2>2 DEF ItemOf
<1>5. Captured(h) = [i \in DOMAIN c.kept |-> c.book[c.kept[i]]]
  BY DEF Captured
<1>. HIDE DEF k, K, c
<1>6. /\ R \in SUBSET (1 .. k) /\ K \in SUBSET R /\ K \in SUBSET (1 .. k)
      /\ \A i \in R : Num(h, i) = Place(R, i)
  BY <1>1, <1>2, OneEvent
<1>7. \A i \in K, j \in R \ K : j < i
  <2>1. SUFFICES ASSUME NEW i \in K, NEW j \in R \ K PROVE j < i
    OBVIOUS
  <2>2. i \in 1 .. k /\ j \in 1 .. k /\ \A n \in i .. k : h[n].kind # "clear"
    BY <1>2, <1>6 DEF Current
  <2>3. PICK n \in j .. k : h[n].kind = "clear"
    BY <1>2 DEF Current
  <2>4. ~ (n >= i)
    BY <1>1, <2>2, <2>3
  <2>. QED
    BY <1>1, <2>2, <2>3, <2>4
<1>. HIDE DEF R
<1>8. \A i \in K : Place(K, i) = Place(R, i) - (Cardinality(R) - Cardinality(K))
  BY <1>1, <1>6, <1>7, PlaceInUpper
<1>9. /\ MaxEntries \in Nat /\ L = LastOf(K, MaxEntries)
  BY NetworkCaptureAssumption DEF K
<1>10. /\ L \in SUBSET K
       /\ l = (IF Cardinality(K) <= MaxEntries THEN Cardinality(K) ELSE MaxEntries)
       /\ \A i \in L : Place(L, i) = Place(K, i) - (Cardinality(K) - l)
  <2>1. /\ LastOf(K, MaxEntries) \in SUBSET K
        /\ Cardinality(LastOf(K, MaxEntries))
               = (IF Cardinality(K) <= MaxEntries THEN Cardinality(K) ELSE MaxEntries)
        /\ \A i \in LastOf(K, MaxEntries) :
               Place(LastOf(K, MaxEntries), i)
                   = Place(K, i) - (Cardinality(K) - Cardinality(LastOf(K, MaxEntries)))
    BY <1>1, <1>6, <1>9, LastOfSet
  <2>. QED
    BY <1>9, <2>1
<1>11. L \in SUBSET (1 .. k)
  BY <1>6, <1>10
<1>12. /\ Cardinality(R) \in Nat /\ Cardinality(K) \in Nat /\ l \in Nat
       /\ \A i \in R : Place(R, i) \in 1 .. Cardinality(R)
       /\ \A i \in L : Place(L, i) \in 1 .. l
  <2>1. Cardinality(R) \in Nat /\ Cardinality(K) \in Nat
    BY <1>1, <1>6, Counting
  <2>2. l \in Nat
    BY <1>1, <1>11, Counting
  <2>3. \A i \in R : Place(R, i) \in 1 .. Cardinality(R)
    BY <1>1, <1>6, Places
  <2>4. \A i \in L : Place(L, i) \in 1 .. l
    BY <1>1, <1>11, Places
  <2>. QED
    BY <2>1, <2>2, <2>3, <2>4
<1>13. /\ c.kept \in Seq(Nat) /\ Len(c.kept) = l
       /\ \A m \in 1 .. l : c.kept[m] = Cardinality(R) - l + m
  <2>1. LastNumbers(c.kept, Cardinality(R), Cardinality(K))
    BY <1>2, <1>3 DEF LogInv, KeptOK, R
  <2>. HIDE DEF l
  <2>2. Len(c.kept) = l
    BY <1>10, <2>1 DEF LastNumbers
  <2>. QED
    BY <2>1, <2>2 DEF LastNumbers
<1>14. ASSUME NEW i \in L PROVE Captured(h)[Place(L, i)] = EntryOf(h, i)
  <2>1. i \in K /\ i \in R /\ Place(L, i) \in 1 .. l
    BY <1>6, <1>10, <1>12
  <2>2. c.book[Num(h, i)] = ItemOf(h, i, k)
    BY <1>2, <1>3, <2>1 DEF LogInv, BookOK
  <2>3. c.kept[Place(L, i)] = Num(h, i)
    <3>1. Place(L, i) = Place(K, i) - (Cardinality(K) - l)
      BY <1>10
    <3>2. Place(K, i) = Place(R, i) - (Cardinality(R) - Cardinality(K))
      BY <1>8, <2>1
    <3>3. c.kept[Place(L, i)] = Cardinality(R) - l + Place(L, i)
      BY <1>13, <2>1
    <3>4. Place(R, i) \in Nat /\ Num(h, i) = Place(R, i)
      BY <1>6, <1>12, <2>1
    <3>. HIDE DEF l
    <3>5. Cardinality(R) - l + Place(L, i) = Place(R, i)
      BY <1>12, <3>1, <3>2, <3>4
    <3>. QED
      BY <3>3, <3>4, <3>5
  <2>4. Captured(h)[Place(L, i)] = c.book[c.kept[Place(L, i)]]
    BY <1>5, <1>13, <2>1
  <2>. QED
    BY <1>4, <2>2, <2>3, <2>4
<1>15. DOMAIN Captured(h) = 1 .. l /\ Len(Captured(h)) = l
  <2>1. Captured(h) = [q \in 1 .. l |-> c.book[c.kept[q]]]
    BY <1>5, <1>13
  <2>. HIDE DEF l
  <2>. QED
    BY <1>12, <2>1
<1>. QED
  BY <1>1, <1>11, <1>14, <1>15 DEF k

\* s lists what e gives for the elements of M, in order.
Lists(s, M, e) == Len(s) = Cardinality(M) /\ \A i \in M : s[Place(M, i)] = e[i]

LEMMA PickedLists ==
    ASSUME NEW k \in Nat, NEW L \in SUBSET (1 .. k), NEW M \in SUBSET L, NEW s, NEW e, Lists(s, L, e)
    PROVE  /\ \E S : Picked(s, PlacesOf(L, M)) \in Seq(S)
           /\ Lists(Picked(s, PlacesOf(L, M)), M, e)
<1>. DEFINE P == PlacesOf(L, M)
            t == Picked(s, P)
            n == Cardinality(L)
            S == {s[q] : q \in P}
<1>1. n \in Nat
  BY Counting
<1>2. /\ P \in SUBSET (1 .. n) /\ Cardinality(P) = Cardinality(M)
      /\ \A i \in M : Place(P, Place(L, i)) = Place(M, i)
  <2>. HIDE DEF P
  <2>1. P = PlacesOf(L, M)
    BY DEF P
  <2>. QED
    BY <2>1, PlaceThrough
<1>3. /\ t \in Seq(S) /\ Len(t) = Cardinality(P)
      /\ \A q \in P : t[Place(P, q)] = s[q]
  <2>. HIDE DEF n, P
  <2>. QED
    BY <1>1, <1>2, PickedOnes
<1>4. ASSUME NEW i \in M PROVE t[Place(M, i)] = e[i]
  <2>1. Place(L, i) \in P
    BY DEF PlacesOf
  <2>2. t[Place(P, Place(L, i))] = s[Place(L, i)]
    BY <1>3, <2>1
  <2>3. s[Place(L, i)] = e[i]
    BY DEF Lists
  <2>. HIDE DEF t
  <2>. QED
    BY <1>2, <2>2, <2>3
<1>5. Len(t) = Cardinality(M)
  BY <1>2, <1>3
<1>. HIDE DEF t, S
<1>. QED
  BY <1>3, <1>4, <1>5 DEF Lists, t

LEMMA LastLists ==
    ASSUME NEW k \in Nat, NEW M \in SUBSET (1 .. k), NEW e, NEW S, NEW s \in Seq(S), Lists(s, M, e),
           NEW m \in Nat, m > 0
    PROVE  Lists(LastN(s, m), LastOf(M, m), e)
<1>1. Len(s) = Cardinality(M) /\ \A i \in M : s[Place(M, i)] = e[i]
  BY DEF Lists
<1>2. /\ Len(LastN(s, m)) = Cardinality(LastOf(M, m))
      /\ \A i \in LastOf(M, m) : LastN(s, m)[Place(LastOf(M, m), i)] = s[Place(M, i)]
  BY <1>1, LastOnes
<1>3. LastOf(M, m) \in SUBSET M
  BY DEF LastOf
<1>. QED
  BY <1>1, <1>2, <1>3 DEF Lists

\* What is shown of it: the last of what matches.
LEMMA Shown ==
    ASSUME NEW h \in Histories, NEW pattern, NEW limit \in Nat
    PROVE  LET L == LastOf(Requests(h), MaxEntries)
               M == {i \in L : Matches(EntryOf(h, i).status, pattern)}
               last == IF limit = 0 THEN M ELSE LastOf(M, limit)
               shown == GetEntries(Captured(h), pattern, limit)
           IN  Len(shown) = Cardinality(last) /\ \A i \in last : shown[Place(last, i)] = EntryOf(h, i)
<1>. DEFINE L == LastOf(Requests(h), MaxEntries)
            M == {i \in L : Matches(EntryOf(h, i).status, pattern)}
            last == IF limit = 0 THEN M ELSE LastOf(M, limit)
            shown == GetEntries(Captured(h), pattern, limit)
            s == Captured(h)
            P == {q \in DOMAIN s : Matches(s[q].status, pattern)}
            t == Picked(s, P)
            e == [i \in L |-> EntryOf(h, i)]
            k == Len(h)
<1>1. shown = IF limit > 0 THEN LastN(t, limit) ELSE t
  BY DEF GetEntries
<1>2. /\ k \in Nat /\ L \in SUBSET (1 .. k)
      /\ DOMAIN s = 1 .. Cardinality(L) /\ Len(s) = Cardinality(L)
      /\ \A i \in L : s[Place(L, i)] = EntryOf(h, i)
  <2>. HIDE DEF L, s
  <2>. QED
    BY Logged DEF L, s
<1>. HIDE DEF L, s, k, shown
<1>3. \A i \in L : Place(L, i) \in 1 .. Cardinality(L)
  BY <1>2, Places
<1>4. \A q \in 1 .. Cardinality(L) : \E i \in L : Place(L, i) = q
  BY <1>2, PlaceTaken
<1>5. P = PlacesOf(L, M)
  BY <1>2, <1>3, <1>4 DEF PlacesOf
<1>6. M \in SUBSET L /\ M \in SUBSET (1 .. k)
  BY <1>2
<1>7. /\ \A i \in M : e[i] = EntryOf(h, i)
      /\ LastOf(M, limit) \in SUBSET M
      /\ last = IF limit = 0 THEN M ELSE LastOf(M, limit)
  BY DEF LastOf
<1>8. Lists(s, L, e)
  BY <1>2 DEF Lists
<1>. HIDE DEF M, P, e, last
<1>9. (\E S : t \in Seq(S)) /\ Lists(t, M, e)
  BY <1>2, <1>5, <1>6, <1>8, PickedLists
<1>. HIDE DEF t
<1>10. PICK S : t \in Seq(S)
  BY <1>9
<1>11. ASSUME limit > 0 PROVE Lists(LastN(t, limit), LastOf(M, limit), e)
  BY <1>2, <1>6, <1>9, <1>10, <1>11, LastLists
<1>12. Lists(shown, last, e) /\ last \in SUBSET M
  <2>1. CASE limit = 0
    BY <1>1, <1>7, <1>9, <2>1
  <2>2. CASE limit # 0
    BY <1>1, <1>7, <1>11, <2>2
  <2>. QED
    BY <2>1, <2>2
<1>13. Len(shown) = Cardinality(last) /\ \A i \in last : shown[Place(last, i)] = EntryOf(h, i)
  BY <1>7, <1>12 DEF Lists
<1>. QED
  BY <1>13 DEF shown, last, M, L

\* For any history of requests and answers, any size of the deque, any filter
\* and any limit, the log that is shown is true: the last requests since the
\* last clear, in order, each with the first answer it got itself.
THEOREM LogShowsWhatHappened == Tasks => []LogIsTrue
<1>1. ASSUME NoTask PROVE LogIsTrue
  BY <1>1 DEF NoTask, LogIsTrue
<1>2. ASSUME RunTask PROVE LogIsTrue'
  <2>1. CASE task' # "network"
    BY <2>1 DEF LogIsTrue
  <2>2. CASE task' = "network"
    <3>1. ShowNetwork
      BY <1>2, <2>2, OneTask
    <3>2. PICK h \in Histories, pattern \in Patterns, limit \in Limits :
              /\ input' = <<h, pattern, limit>>
              /\ output' = GetEntries(Captured(h), pattern, limit)
      BY <3>1 DEF ShowNetwork, Apply
    <3>. DEFINE L == LastOf(Requests(h), MaxEntries)
                M == {i \in L : Matches(EntryOf(h, i).status, pattern)}
                last == IF limit = 0 THEN M ELSE LastOf(M, limit)
    <3>3. limit \in Nat
      BY HistoriesAssumption
    <3>4. /\ Len(GetEntries(Captured(h), pattern, limit)) = Cardinality(last)
          /\ \A i \in last :
                 GetEntries(Captured(h), pattern, limit)[Place(last, i)] = EntryOf(h, i)
      BY <3>3, Shown
    <3>5. input'[1] = h /\ input'[2] = pattern /\ input'[3] = limit
      BY <3>2
    <3>. QED
      BY <3>2, <3>4, <3>5 DEF LogIsTrue
  <2>. QED
    BY <2>1, <2>2
<1>3. LogIsTrue /\ UNCHANGED taskVars => LogIsTrue'
  <2>1. SUFFICES ASSUME LogIsTrue, task' = task, input' = input, output' = output PROVE LogIsTrue'
    BY DEF taskVars
  <2>. QED
    BY <2>1 DEF LogIsTrue
<1>. QED
  BY <1>1, <1>2, <1>3, PTL DEF Tasks

-----------------------------------------------------------------------------
(* Plans: the groups of the steps, and the children of a feature.          *)

LEMMA GroupsDef ==
    ASSUME NEW r, Len(r) \in Nat
    PROVE  /\ GroupConsecutive(r)[0] = <<>>
           /\ \A k \in 1 .. Len(r) :
                  GroupConsecutive(r)[k] = Grouped(GroupConsecutive(r)[k - 1], r[k])
<1>. DEFINE Unfolds(g, m) == g = [i \in 0 .. m |-> IF i = 0 THEN <<>> ELSE Grouped(g[i - 1], r[i])]
            T == {m \in Nat : ~ \E g : Unfolds(g, m)}
<1>1. GroupConsecutive(r) = CHOOSE g : Unfolds(g, Len(r))
  BY DEF GroupConsecutive
<1>2. Unfolds([i \in 0 .. 0 |-> <<>>], 0)
  OBVIOUS
<1>3. ASSUME NEW m \in Nat, m # 0, NEW g, Unfolds(g, m - 1) PROVE \E f : Unfolds(f, m)
  <2>. DEFINE f == [i \in 0 .. m |-> IF i = m THEN Grouped(g[m - 1], r[m]) ELSE g[i]]
  <2>1. ASSUME NEW i \in 0 .. m
        PROVE  f[i] = IF i = 0 THEN <<>> ELSE Grouped(f[i - 1], r[i])
    <3>1. CASE i = m
      BY <1>3, <2>1, <3>1
    <3>2. CASE i # m
      BY <1>3, <2>1, <3>2
    <3>. QED
      BY <3>1, <3>2
  <2>2. f = [i \in 0 .. m |-> f[i]]
    OBVIOUS
  <2>3. DOMAIN f = 0 .. m
    OBVIOUS
  <2>. HIDE DEF f
  <2>4. f = [i \in 0 .. m |-> IF i = 0 THEN <<>> ELSE Grouped(f[i - 1], r[i])]
    BY <2>1, <2>2, <2>3
  <2>. QED
    BY <2>4
<1>4. T = {}
  <2>1. SUFFICES ASSUME T # {} PROVE FALSE
    OBVIOUS
  <2>2. PICK m \in T : \A k \in T : m <= k
    BY <2>1, LeastNumber
  <2>3. m # 0
    BY <1>2
  <2>4. m \in Nat
    OBVIOUS
  <2>5. m - 1 \in Nat /\ m - 1 \notin T
    <3>. HIDE DEF T
    <3>. QED
      BY <2>2, <2>3, <2>4
  <2>6. PICK g : Unfolds(g, m - 1)
    BY <2>5
  <2>. QED
    BY <1>3, <2>3, <2>4, <2>6
<1>5. \E g : Unfolds(g, Len(r))
  BY <1>4
<1>6. Unfolds(GroupConsecutive(r), Len(r))
  BY <1>1, <1>5
<1>. QED
  BY <1>6

\* The plans of the i-th child, when its scenario is selected.
Chosen(feature, strategy, tags, i) ==
    IF Selected(feature, feature.children[i], tags) THEN Plans(feature.children[i], strategy) ELSE <<>>
Extended(plans, feature, strategy, tags, i) == plans \o Chosen(feature, strategy, tags, i)

LEMMA CompiledDef ==
    ASSUME NEW feature, NEW strategy, NEW tags, Len(feature.children) \in Nat
    PROVE  /\ CompileFeature(feature, strategy, tags)[0] = <<>>
           /\ \A k \in 1 .. Len(feature.children) :
                  CompileFeature(feature, strategy, tags)[k] =
                      Extended(CompileFeature(feature, strategy, tags)[k - 1], feature, strategy, tags, k)
<1>. DEFINE Unfolds(g, m) ==
                g = [i \in 0 .. m |-> IF i = 0 THEN <<>> ELSE Extended(g[i - 1], feature, strategy, tags, i)]
            T == {m \in Nat : ~ \E g : Unfolds(g, m)}
<1>1. CompileFeature(feature, strategy, tags) = CHOOSE g : Unfolds(g, Len(feature.children))
  BY DEF CompileFeature, Extended, Chosen
<1>2. Unfolds([i \in 0 .. 0 |-> <<>>], 0)
  OBVIOUS
<1>3. ASSUME NEW m \in Nat, m # 0, NEW g, Unfolds(g, m - 1) PROVE \E f : Unfolds(f, m)
  <2>. DEFINE f == [i \in 0 .. m |-> IF i = m THEN Extended(g[m - 1], feature, strategy, tags, m) ELSE g[i]]
  <2>1. ASSUME NEW i \in 0 .. m
        PROVE  f[i] = IF i = 0 THEN <<>> ELSE Extended(f[i - 1], feature, strategy, tags, i)
    <3>1. CASE i = m
      BY <1>3, <2>1, <3>1
    <3>2. CASE i # m
      BY <1>3, <2>1, <3>2
    <3>. QED
      BY <3>1, <3>2
  <2>2. f = [i \in 0 .. m |-> f[i]]
    OBVIOUS
  <2>3. DOMAIN f = 0 .. m
    OBVIOUS
  <2>. HIDE DEF f
  <2>4. f = [i \in 0 .. m |-> IF i = 0 THEN <<>> ELSE Extended(f[i - 1], feature, strategy, tags, i)]
    BY <2>1, <2>2, <2>3
  <2>. QED
    BY <2>4
<1>4. T = {}
  <2>1. SUFFICES ASSUME T # {} PROVE FALSE
    OBVIOUS
  <2>2. PICK m \in T : \A k \in T : m <= k
    BY <2>1, LeastNumber
  <2>3. m # 0
    BY <1>2
  <2>4. m \in Nat
    OBVIOUS
  <2>5. m - 1 \in Nat /\ m - 1 \notin T
    <3>. HIDE DEF T
    <3>. QED
      BY <2>2, <2>3, <2>4
  <2>6. PICK g : Unfolds(g, m - 1)
    BY <2>5
  <2>. QED
    BY <1>3, <2>3, <2>4, <2>6
<1>5. \E g : Unfolds(g, Len(feature.children))
  BY <1>4
<1>6. Unfolds(CompileFeature(feature, strategy, tags), Len(feature.children))
  BY <1>1, <1>5
<1>. QED
  BY <1>6

\* The groups of the first k steps of r: all of these and no other, in order; those
\* of a group have one keyword, and one that navigates is alone.
Listed(r) == {r[j] : j \in 1 .. Len(r)}
LastAt(g, i) == IF i = 0 THEN 0 ELSE g[i][Len(g[i])].at
GroupOK(r, group, before) ==
    /\ Len(group) > 0
    /\ \A m \in 1 .. Len(group) :
           /\ group[m].at = before + m
           /\ group[m].kw = group[1].kw
           /\ DetectNavigate(group[m]) => Len(group) = 1
GroupsOK(r, k, g) ==
    /\ g \in Seq(Seq(Listed(r)))
    /\ \A i \in 1 .. Len(g) : GroupOK(r, g[i], LastAt(g, i - 1))
    /\ LastAt(g, Len(g)) = k
Numbered(r) ==
    /\ Len(r) \in Nat
    /\ \A j \in 1 .. Len(r) : r[j].at = j

\* One more step keeps it so.
LEMMA GroupsStep ==
    ASSUME NEW r, Numbered(r), NEW k \in 1 .. Len(r), NEW g, GroupsOK(r, k - 1, g)
    PROVE  GroupsOK(r, k, Grouped(g, r[k]))
<1>. DEFINE S == Listed(r)
            n == Len(g)
            step == r[k]
<1>1. /\ g \in Seq(Seq(S)) /\ n \in Nat /\ step \in S /\ step.at = k /\ k \in Nat
      /\ DOMAIN g = 1 .. n
  BY DEF GroupsOK, Numbered, Listed
<1>2. \A i \in 1 .. n : g[i] \in Seq(S) /\ Len(g[i]) \in Nat /\ GroupOK(r, g[i], LastAt(g, i - 1))
  BY <1>1 DEF GroupsOK
<1>3. LastAt(g, n) = k - 1
  BY DEF GroupsOK
<1>4. n = 0 <=> g = <<>>
  BY <1>1
<1>. HIDE DEF S, n, step
<1>5. CASE Grouped(g, step) = Append(g, <<step>>)
  <2>. DEFINE f == Append(g, <<step>>)
  <2>1. /\ f \in Seq(Seq(S)) /\ Len(f) = n + 1 /\ f[n + 1] = <<step>>
        /\ \A i \in 1 .. n : f[i] = g[i]
    <3>1. <<step>> \in Seq(S)
      BY <1>1
    <3>. QED
      BY <1>1, <3>1, AppendProperties DEF n
  <2>. HIDE DEF f
  <2>2. \A i \in 0 .. n : LastAt(f, i) = LastAt(g, i)
    BY <2>1 DEF LastAt
  <2>3. GroupOK(r, <<step>>, k - 1)
    BY <1>1 DEF GroupOK
  <2>4. LastAt(f, n + 1) = k
    BY <1>1, <2>1 DEF LastAt
  <2>5. ASSUME NEW i \in 1 .. Len(f) PROVE GroupOK(r, f[i], LastAt(f, i - 1))
    <3>1. CASE i = n + 1
      <4>1. i - 1 = n /\ n \in 0 .. n
        BY <1>1, <3>1
      <4>. QED
        BY <1>3, <2>1, <2>2, <2>3, <3>1, <4>1
    <3>2. CASE i # n + 1
      <4>1. i \in 1 .. n /\ i - 1 \in 0 .. n
        BY <1>1, <2>1, <3>2
      <4>. QED
        BY <1>2, <2>1, <2>2, <4>1
    <3>. QED
      BY <3>1, <3>2
  <2>6. GroupsOK(r, k, f)
    BY <2>1, <2>4, <2>5 DEF GroupsOK, S
  <2>. QED
    BY <1>5, <2>6 DEF f, step
<1>6. CASE ~ (Grouped(g, step) = Append(g, <<step>>))
  <2>1. /\ g # <<>> /\ ~ DetectNavigate(step) /\ ~ DetectNavigate(g[n][1]) /\ step.kw = g[n][1].kw
        /\ Grouped(g, step) = [g EXCEPT ![n] = Append(g[n], step)]
    BY <1>1, <1>4, <1>6 DEF Grouped, n
  <2>2. n \in 1 .. n
    BY <1>1, <1>4, <2>1
  <2>. DEFINE new == Append(g[n], step)
              f == [g EXCEPT ![n] = new]
              l == Len(g[n])
  <2>3. /\ new \in Seq(S) /\ Len(new) = l + 1 /\ new[l + 1] = step /\ l \in Nat
        /\ \A m \in 1 .. l : new[m] = g[n][m]
    BY <1>1, <1>2, <2>2, AppendProperties
  <2>. HIDE DEF new, l
  <2>4. /\ f \in Seq(Seq(S)) /\ Len(f) = n
        /\ \A i \in 1 .. n : f[i] = IF i = n THEN new ELSE g[i]
    BY <1>1, <2>2, <2>3, ExceptSeq DEF n
  <2>. HIDE DEF f
  <2>5. \A i \in 0 .. (n - 1) : LastAt(f, i) = LastAt(g, i)
    BY <1>1, <2>4 DEF LastAt
  <2>6. LastAt(f, n) = k
    BY <1>1, <2>2, <2>3, <2>4 DEF LastAt
  <2>7. /\ l > 0
        /\ \A m \in 1 .. l : /\ g[n][m].at = LastAt(g, n - 1) + m
                             /\ g[n][m].kw = g[n][1].kw
                             /\ DetectNavigate(g[n][m]) => l = 1
    BY <1>2, <2>2 DEF GroupOK, l
  <2>8. g[n][l].at = k - 1
    BY <1>1, <1>3, <2>2 DEF LastAt, l
  <2>9. GroupOK(r, new, LastAt(g, n - 1))
    <3>1. Len(new) > 0
      BY <2>3
    <3>2. ASSUME NEW m \in 1 .. Len(new) PROVE new[m].at = LastAt(g, n - 1) + m
      <4>0. l \in 1 .. l
        BY <2>3, <2>7
      <4>1. k - 1 = LastAt(g, n - 1) + l
        BY <2>7, <2>8, <4>0
      <4>2. CASE m = l + 1
        <5>1. LastAt(g, n - 1) \in Int
          <6>1. CASE n = 1
            BY <6>1 DEF LastAt
          <6>2. CASE n # 1
            <7>1. n - 1 \in 1 .. n
              BY <1>1, <2>2, <6>2
            <7>2. g[n - 1] \in Seq(S) /\ Len(g[n - 1]) > 0
              BY <1>2, <7>1 DEF GroupOK
            <7>3. g[n - 1][Len(g[n - 1])] \in S
              BY <7>2
            <7>4. \A s \in S : s.at \in Int
              BY DEF S, Listed, Numbered
            <7>. QED
              BY <7>1, <7>3, <7>4 DEF LastAt
          <6>. QED
            BY <6>1, <6>2
        <5>. QED
          <6>. DEFINE z == LastAt(g, n - 1)
          <6>1. k - 1 = z + l /\ z \in Int /\ m = l + 1 /\ k \in Nat /\ l \in Nat
            BY <1>1, <2>3, <4>1, <4>2, <5>1
          <6>2. new[m].at = k
            BY <1>1, <2>3, <4>2
          <6>. HIDE DEF z
          <6>3. k = z + m
            BY <6>1
          <6>. QED
            BY <6>2, <6>3 DEF z
      <4>3. CASE m # l + 1
        <5>1. m \in 1 .. l
          BY <2>3, <4>3
        <5>. QED
          BY <2>3, <2>7, <5>1
      <4>. QED
        BY <4>2, <4>3
    <3>3. 1 \in 1 .. l /\ new[1] = g[n][1]
      BY <2>3, <2>7
    <3>4. \A m \in 1 .. Len(new) : new[m].kw = new[1].kw
      <4>1. SUFFICES ASSUME NEW m \in 1 .. Len(new) PROVE new[m].kw = new[1].kw
        OBVIOUS
      <4>2. m \in 1 .. l \/ m = l + 1
        BY <2>3
      <4>. QED
        BY <2>1, <2>3, <2>7, <3>3, <4>2
    <3>5. ASSUME NEW m \in 1 .. Len(new) PROVE ~ DetectNavigate(new[m])
      <4>2. m \in 1 .. l \/ m = l + 1
        BY <2>3
      <4>3. CASE m \in 1 .. l /\ l = 1
        <5>1. m = 1
          BY <4>3
        <5>. QED
          BY <2>1, <3>3, <5>1
      <4>4. CASE m \in 1 .. l /\ l # 1
        BY <2>3, <2>7, <4>4
      <4>5. CASE m = l + 1
        BY <2>1, <2>3, <4>5
      <4>. QED
        BY <4>2, <4>3, <4>4, <4>5
    <3>. QED
      BY <3>1, <3>2, <3>4, <3>5 DEF GroupOK
  <2>10. ASSUME NEW i \in 1 .. Len(f) PROVE GroupOK(r, f[i], LastAt(f, i - 1))
    <3>1. i - 1 \in 0 .. (n - 1) /\ i \in 1 .. n
      BY <1>1, <2>4
    <3>2. CASE i = n
      BY <2>4, <2>5, <2>9, <3>1, <3>2
    <3>3. CASE i # n
      BY <1>2, <2>4, <2>5, <3>1, <3>3
    <3>. QED
      BY <3>2, <3>3
  <2>11. GroupsOK(r, k, f)
    BY <2>4, <2>6, <2>10 DEF GroupsOK, S
  <2>. QED
    BY <2>1, <2>11 DEF f, new, step
<1>. QED
  BY <1>5, <1>6

LEMMA GroupsEnd ==
    ASSUME NEW r, Numbered(r)
    PROVE  GroupsOK(r, Len(r), GroupConsecutive(r)[Len(r)])
<1>. DEFINE G(k) == GroupConsecutive(r)[k]
            T == {k \in 0 .. Len(r) : ~ GroupsOK(r, k, G(k))}
<1>1. Len(r) \in Nat
  BY DEF Numbered
<1>2. G(0) = <<>> /\ \A k \in 1 .. Len(r) : G(k) = Grouped(G(k - 1), r[k])
  BY <1>1, GroupsDef
<1>. HIDE DEF G
<1>3. GroupsOK(r, 0, G(0))
  <2>1. G(0) \in Seq(Seq(Listed(r))) /\ Len(G(0)) = 0
    BY <1>2, EmptySeq
  <2>. QED
    BY <2>1 DEF GroupsOK, LastAt
<1>4. SUFFICES ASSUME T # {} PROVE FALSE
  BY <1>1 DEF G
<1>5. PICK k \in T : \A l \in T : k <= l
  <2>1. T \in SUBSET Nat
    BY <1>1
  <2>. HIDE DEF T
  <2>. QED
    BY <1>4, <2>1, LeastNumber
<1>6. k \in 1 .. Len(r) /\ k - 1 \in 0 .. Len(r)
  BY <1>1, <1>3
<1>7. k - 1 \notin T
  BY <1>5, <1>6
<1>8. GroupsOK(r, k - 1, G(k - 1))
  BY <1>6, <1>7
<1>9. GroupsOK(r, k, Grouped(G(k - 1), r[k]))
  BY <1>6, <1>8, GroupsStep
<1>. QED
  BY <1>2, <1>6, <1>9

LEMMA ResolvedSteps ==
    ASSUME NEW steps, Len(steps) \in Nat, DOMAIN steps = 1 .. Len(steps)
    PROVE  Numbered(Resolved(steps)) /\ Len(Resolved(steps)) = Len(steps)
<1>. DEFINE kw[i \in 0 .. Len(steps)] ==
                IF i = 0 THEN "" ELSE ResolveKeyword(steps[i].kw, kw[i - 1])
<1>1. Resolved(steps) = [i \in DOMAIN steps |-> [kw |-> kw[i], text |-> steps[i].text, at |-> i]]
  BY DEF Resolved
<1>. HIDE DEF kw
<1>2. Len(Resolved(steps)) = Len(steps)
  BY <1>1
<1>3. \A j \in 1 .. Len(steps) : Resolved(steps)[j].at = j
  BY <1>1
<1>. QED
  BY <1>2, <1>3 DEF Numbered

\* The two plans of the same steps.
LEMMA StepsCollapse ==
    ASSUME NEW steps, Len(steps) \in Nat, DOMAIN steps = 1 .. Len(steps)
    PROVE  /\ Collapses(CompileSteps("aggressive", steps), CompileSteps("conservative", steps))
           /\ Len(CompileSteps("conservative", steps)) = Len(steps)
<1>. DEFINE r == Resolved(steps)
            k == Len(steps)
            g == GroupConsecutive(r)[k]
            n == Len(g)
            plan == CompileSteps("aggressive", steps)
            single == CompileSteps("conservative", steps)
            S == Listed(r)
<1>1. Numbered(r) /\ Len(r) = k
  BY ResolvedSteps
<1>2. GroupsOK(r, k, g)
  BY <1>1, GroupsEnd
<1>3. plan = [i \in DOMAIN g |-> PlanStep(g[i])]
  BY DEF CompileSteps
<1>4. single = [i \in 1 .. k |-> PlanStep(<<r[i]>>)]
  BY DEF CompileSteps
<1>. HIDE DEF plan, single, g, r
<1>5. /\ g \in Seq(Seq(S)) /\ n \in Nat /\ DOMAIN g = 1 .. n
      /\ LastAt(g, n) = k
  BY <1>2 DEF GroupsOK
<1>6. ASSUME NEW i \in 1 .. n
      PROVE  /\ g[i] \in Seq(S) /\ Len(g[i]) \in Nat /\ DOMAIN g[i] = 1 .. Len(g[i])
             /\ GroupOK(r, g[i], LastAt(g, i - 1))
  BY <1>2, <1>5 DEF GroupsOK
<1>7. \A s \in S : s.at \in 1 .. k /\ s = r[s.at]
  BY <1>1 DEF Listed, Numbered
<1>. HIDE DEF n, S, k
<1>8. k \in Nat
  BY DEF k
<1>9. DOMAIN plan = 1 .. n /\ Len(plan) = n /\ DOMAIN single = 1 .. k /\ Len(single) = k
  BY <1>3, <1>4, <1>5, <1>8
<1>10. ASSUME NEW i \in 1 .. n
       PROVE  /\ plan[i].type = StepType(g[i][1])
              /\ plan[i].sources = [m \in 1 .. Len(g[i]) |-> g[i][m].at]
              /\ plan[i].requiresHuman = \E m \in 1 .. Len(g[i]) : DetectAuth(g[i][m].text)
  BY <1>3, <1>5, <1>6 DEF PlanStep
<1>11. ASSUME NEW j \in 1 .. k
       PROVE  single[j].type = StepType(r[j]) /\ single[j].requiresHuman = DetectAuth(r[j].text)
  <2>1. single[j] = PlanStep(<<r[j]>>)
    BY <1>4
  <2>2. \A x : DOMAIN <<x>> = {1} /\ <<x>>[1] = x
    OBVIOUS
  <2>3. PlanStep(<<r[j]>>).type = StepType(r[j])
    BY DEF PlanStep
  <2>4. PlanStep(<<r[j]>>).requiresHuman = \E m \in DOMAIN <<r[j]>> : DetectAuth(<<r[j]>>[m].text)
    BY DEF PlanStep
  <2>5. (\E m \in DOMAIN <<r[j]>> : DetectAuth(<<r[j]>>[m].text)) <=> DetectAuth(r[j].text)
    <3>. DEFINE x == r[j]
                s == <<x>>
    <3>1. DOMAIN s = {1} /\ s[1] = x
      BY <2>2
    <3>. HIDE DEF x, s
    <3>2. (\E m \in DOMAIN s : DetectAuth(s[m].text)) <=> DetectAuth(x.text)
      BY <3>1
    <3>. QED
      BY <3>2 DEF s, x
  <2>6. DetectAuth(r[j].text) \in BOOLEAN
    BY DEF DetectAuth
  <2>. QED
    BY <2>1, <2>3, <2>4, <2>5, <2>6
<1>12. plan = <<>> <=> single = <<>>
  <2>1. plan = <<>> <=> n = 0
    <3>1. plan = [i \in 1 .. n |-> PlanStep(g[i])]
      BY <1>3, <1>5
    <3>2. ASSUME n = 0 PROVE plan = <<>>
      <4>1. 1 .. n = {}
        BY <3>2
      <4>2. plan = [i \in {} |-> PlanStep(g[i])]
        BY <3>1, <4>1
      <4>3. [i \in {} |-> PlanStep(g[i])] = <<>>
        OBVIOUS
      <4>. QED
        BY <4>2, <4>3
    <3>3. ASSUME n # 0 PROVE plan # <<>>
      <4>1. 1 \in DOMAIN plan
        BY <1>5, <1>9, <3>3
      <4>2. DOMAIN <<>> = {}
        OBVIOUS
      <4>. QED
        BY <4>1, <4>2
    <3>. QED
      BY <3>2, <3>3
  <2>2. single = <<>> <=> k = 0
    BY <1>4, <1>8
  <2>3. n = 0 => k = 0
    BY <1>5 DEF LastAt
  <2>4. n # 0 => k # 0
    <3>1. SUFFICES ASSUME n # 0 PROVE k # 0
      OBVIOUS
    <3>2. n \in 1 .. n
      BY <1>5, <3>1
    <3>3. g[n][Len(g[n])] \in S /\ g[n][Len(g[n])].at = k
      BY <1>5, <1>6, <3>2 DEF GroupOK, LastAt
    <3>. QED
      BY <1>7, <1>8, <3>3
  <2>. QED
    BY <2>1, <2>2, <2>3, <2>4
<1>13. ASSUME NEW i \in DOMAIN plan
       PROVE  LET sources == plan[i].sources
                  before == IF i = 1 THEN 0 ELSE plan[i - 1].sources[Len(plan[i - 1].sources)]
              IN  /\ Len(sources) > 0
                  /\ \A m \in DOMAIN sources : /\ sources[m] = before + m /\ sources[m] \in DOMAIN single
                                               /\ single[sources[m]].type = plan[i].type
                  /\ i = Len(plan) => sources[Len(sources)] = Len(single)
                  /\ plan[i].requiresHuman
                         = (\E m \in DOMAIN sources : single[sources[m]].requiresHuman)
                  /\ plan[i].type = "navigate" => Len(sources) = 1
  <2>. DEFINE group == g[i]
              l == Len(group)
              sources == plan[i].sources
              before == IF i = 1 THEN 0 ELSE plan[i - 1].sources[Len(plan[i - 1].sources)]
  <2>1. i \in 1 .. n
    BY <1>9
  <2>2. sources = [m \in 1 .. l |-> group[m].at] /\ l \in Nat
    BY <1>6, <1>10, <2>1
  <2>3. GroupOK(r, group, LastAt(g, i - 1))
    BY <1>6, <2>1
  <2>4. before = LastAt(g, i - 1)
    <3>1. CASE i = 1
      BY <3>1 DEF LastAt
    <3>2. CASE i # 1
      <4>. DEFINE p == i - 1
      <4>1. p \in 1 .. n /\ p # 0
        BY <1>5, <2>1, <3>2
      <4>. HIDE DEF p
      <4>2. plan[p].sources = [m \in 1 .. Len(g[p]) |-> g[p][m].at] /\ Len(g[p]) \in Nat /\ Len(g[p]) > 0
        BY <1>6, <1>10, <4>1 DEF GroupOK
      <4>3. Len(plan[p].sources) = Len(g[p]) /\ Len(g[p]) \in 1 .. Len(g[p])
        BY <4>2
      <4>4. plan[p].sources[Len(plan[p].sources)] = LastAt(g, p)
        BY <4>1, <4>2, <4>3 DEF LastAt
      <4>. QED
        BY <3>2, <4>4 DEF p
    <3>. QED
      BY <3>1, <3>2
  <2>5. \A m \in 1 .. l : group[m] \in S
    BY <1>6, <2>1
  <2>6. plan[i].type = StepType(group[1])
    BY <1>10, <2>1
  <2>7. plan[i].requiresHuman = \E m \in 1 .. l : DetectAuth(group[m].text)
    BY <1>10, <2>1
  <2>8. l > 0 /\ \A m \in 1 .. l : /\ group[m].at = before + m /\ group[m].kw = group[1].kw
                                   /\ DetectNavigate(group[m]) => l = 1
    BY <2>3, <2>4 DEF GroupOK
  <2>9. i = n => group[l].at = k
    BY <1>5, <2>1 DEF LastAt
  <2>. HIDE DEF before, group, l, sources
  <2>10. Len(sources) = l /\ DOMAIN sources = 1 .. l /\ \A m \in 1 .. l : sources[m] = group[m].at
    BY <2>2
  <2>11. ASSUME NEW m \in 1 .. l
         PROVE  /\ sources[m] = before + m /\ sources[m] \in 1 .. k
                /\ r[sources[m]] = group[m]
    BY <1>7, <2>5, <2>8, <2>10
  <2>12. 1 \in 1 .. l /\ l \in 1 .. l
    BY <2>2, <2>8
  <2>13. ASSUME NEW m \in 1 .. l PROVE StepType(group[m]) = StepType(group[1])
    <3>1. CASE l = 1
      BY <2>13, <3>1
    <3>2. CASE l # 1
      <4>1. ~ DetectNavigate(group[m]) /\ ~ DetectNavigate(group[1]) /\ group[m].kw = group[1].kw
        BY <2>8, <2>12, <3>2
      <4>. QED
        BY <4>1 DEF StepType
    <3>. QED
      BY <3>1, <3>2
  <2>14. \A m \in 1 .. l : single[sources[m]].type = plan[i].type
    BY <1>11, <2>6, <2>11, <2>13
  <2>15. plan[i].requiresHuman = (\E m \in 1 .. l : single[sources[m]].requiresHuman)
    <3>1. \A m \in 1 .. l : single[sources[m]].requiresHuman = DetectAuth(group[m].text)
      BY <1>11, <2>11
    <3>. QED
      BY <2>7, <3>1
  <2>16. i = n => sources[l] = k
    BY <2>9, <2>10, <2>12
  <2>17. plan[i].type = "navigate" => l = 1
    <3>1. StepType(group[1]) = "navigate" => DetectNavigate(group[1])
      BY DEF StepType
    <3>. QED
      BY <2>6, <2>8, <2>12, <3>1
  <2>. QED
    BY <1>9, <2>8, <2>10, <2>11, <2>14, <2>15, <2>16, <2>17 DEF before, sources
<1>14. Collapses(plan, single)
  BY <1>12, <1>13 DEF Collapses
<1>. QED
  BY <1>9, <1>14 DEF plan, single, k

\* What a child's scenario is: lists of steps and of rows.
ChildOK(child) ==
    /\ Len(child.steps) \in Nat /\ DOMAIN child.steps = 1 .. Len(child.steps)
    /\ Len(child.rows) \in Nat /\ DOMAIN child.rows = 1 .. Len(child.rows)
FeatureOK(feature) ==
    /\ Len(feature.children) \in Nat /\ DOMAIN feature.children = 1 .. Len(feature.children)
    /\ \A i \in 1 .. Len(feature.children) : ChildOK(feature.children[i])

LEMMA FeaturesOK == ASSUME NEW feature \in Features PROVE FeatureOK(feature)
<1>. DEFINE Child == [ kind : {"scenario", "background", "rule"}, tags : SUBSET STRING,
                       steps : Seq([kw : Keyword, text : Text]), rows : Seq(STRING) ]
<1>1. feature \in [tags : SUBSET STRING, children : Seq(Child)]
  BY FeaturesAssumption
<1>2. feature.children \in Seq(Child)
  BY <1>1
<1>3. ASSUME NEW child \in Child PROVE ChildOK(child)
  <2>1. child.steps \in Seq([kw : Keyword, text : Text]) /\ child.rows \in Seq(STRING)
    OBVIOUS
  <2>. QED
    BY <2>1, LenProperties DEF ChildOK
<1>. HIDE DEF Child
<1>4. /\ Len(feature.children) \in Nat /\ DOMAIN feature.children = 1 .. Len(feature.children)
      /\ \A i \in 1 .. Len(feature.children) : feature.children[i] \in Child
  BY <1>2
<1>. QED
  BY <1>3, <1>4 DEF FeatureOK

\* The plans of a child: one for each row, with all its steps.
LEMMA ChildPlans ==
    ASSUME NEW child, ChildOK(child)
    PROVE  LET a == Plans(child, "aggressive")
               c == Plans(child, "conservative")
           IN  /\ Rows(child) \in Nat
               /\ \E S : a \in Seq(S)
               /\ \E S : c \in Seq(S)
               /\ Len(a) = Rows(child) /\ Len(c) = Rows(child)
               /\ \A r \in 1 .. Rows(child) :
                      Collapses(a[r], c[r]) /\ Len(c[r]) = Len(child.steps)
<1>. DEFINE x == ExpandOutline(child)
            n == Rows(child)
            a == Plans(child, "aggressive")
            c == Plans(child, "conservative")
<1>1. n \in Nat
  BY DEF ChildOK, Rows
<1>2. /\ DOMAIN x = 1 .. n
      /\ \A r \in 1 .. n : /\ Len(x[r]) = Len(child.steps)
                           /\ DOMAIN x[r] = 1 .. Len(child.steps)
  <2>1. CASE child.rows = NoExamples
    <3>1. x = <<child.steps>> /\ n = 1
      BY <2>1 DEF ExpandOutline, Rows
    <3>. QED
      BY <3>1 DEF ChildOK
  <2>2. CASE child.rows # NoExamples
    <3>1. x = [i \in 1 .. n |-> Substitute(child.steps, child.rows[i])] /\ n = Len(child.rows)
      BY <2>2 DEF ExpandOutline, Rows, ChildOK
    <3>2. ASSUME NEW value
          PROVE  /\ Len(Substitute(child.steps, value)) = Len(child.steps)
                 /\ DOMAIN Substitute(child.steps, value) = 1 .. Len(child.steps)
      <4>. DEFINE s == Substitute(child.steps, value)
      <4>1. s = [i \in 1 .. Len(child.steps) |->
                    [child.steps[i] EXCEPT !.text = IF @ = "parameter" THEN value ELSE @]]
        BY DEF Substitute, ChildOK
      <4>. HIDE DEF s
      <4>2. DOMAIN s = 1 .. Len(child.steps) /\ Len(s) = Len(child.steps)
        BY <4>1 DEF ChildOK
      <4>. QED
        BY <4>2 DEF s
    <3>. QED
      BY <3>1, <3>2
  <2>. QED
    BY <2>1, <2>2
<1>3. /\ a = [i \in 1 .. n |-> CompileSteps("aggressive", x[i])]
      /\ c = [i \in 1 .. n |-> CompileSteps("conservative", x[i])]
  BY <1>2 DEF Plans
<1>4. Len(child.steps) \in Nat
  BY DEF ChildOK
<1>. HIDE DEF x, n, a, c
<1>5. \A r \in 1 .. n : Collapses(a[r], c[r]) /\ Len(c[r]) = Len(child.steps)
  <2>1. SUFFICES ASSUME NEW r \in 1 .. n PROVE Collapses(a[r], c[r]) /\ Len(c[r]) = Len(child.steps)
    OBVIOUS
  <2>2. a[r] = CompileSteps("aggressive", x[r]) /\ c[r] = CompileSteps("conservative", x[r])
    BY <1>3
  <2>. DEFINE s == x[r]
  <2>3. Len(s) \in Nat /\ DOMAIN s = 1 .. Len(s) /\ Len(s) = Len(child.steps)
    BY <1>2, <1>4
  <2>. HIDE DEF s
  <2>4. /\ Collapses(CompileSteps("aggressive", s), CompileSteps("conservative", s))
        /\ Len(CompileSteps("conservative", s)) = Len(s)
    BY <2>3, StepsCollapse
  <2>. QED
    BY <2>2, <2>3, <2>4 DEF s
<1>6. Len(a) = n /\ Len(c) = n /\ DOMAIN a = 1 .. n /\ DOMAIN c = 1 .. n
  BY <1>1, <1>3
<1>7. a \in Seq({a[i] : i \in 1 .. n}) /\ c \in Seq({c[i] : i \in 1 .. n})
  <2>1. a = [i \in 1 .. n |-> a[i]] /\ c = [i \in 1 .. n |-> c[i]]
    BY <1>3
  <2>. QED
    BY <1>1, <2>1
<1>. QED
  BY <1>1, <1>5, <1>6, <1>7 DEF n, a, c

\* Two sequences joined.
LEMMA PlansJoined ==
    ASSUME NEW S, NEW s \in Seq(S), NEW T, NEW t \in Seq(T)
    PROVE  /\ \E U : s \o t \in Seq(U)
           /\ Len(s \o t) = Len(s) + Len(t)
           /\ \A i \in 1 .. Len(s) : (s \o t)[i] = s[i]
           /\ \A i \in 1 .. Len(t) : (s \o t)[Len(s) + i] = t[i]
<1>1. s \in Seq(S \cup T) /\ t \in Seq(S \cup T)
  OBVIOUS
<1>2. /\ s \o t \in Seq(S \cup T)
      /\ Len(s \o t) = Len(s) + Len(t)
      /\ \A i \in 1 .. Len(s) + Len(t) :
             (s \o t)[i] = IF i <= Len(s) THEN s[i] ELSE t[i - Len(s)]
  BY <1>1, ConcatProperties
<1>3. Len(s) \in Nat /\ Len(t) \in Nat
  OBVIOUS
<1>4. ASSUME NEW i \in 1 .. Len(s) PROVE (s \o t)[i] = s[i]
  <2>1. i \in 1 .. Len(s) + Len(t) /\ i <= Len(s)
    BY <1>3
  <2>. QED
    BY <1>2, <2>1
<1>5. ASSUME NEW i \in 1 .. Len(t) PROVE (s \o t)[Len(s) + i] = t[i]
  <2>1. Len(s) + i \in 1 .. Len(s) + Len(t) /\ ~ (Len(s) + i <= Len(s)) /\ Len(s) + i - Len(s) = i
    BY <1>3
  <2>. QED
    BY <1>2, <2>1
<1>. QED
  BY <1>2, <1>4, <1>5

\* How many plans the first children have.
Before(feature, tags, i) == Cardinality(WantedUpTo(feature, tags, i))

LEMMA WantedGrow ==
    ASSUME NEW feature, FeatureOK(feature), NEW tags, NEW i \in 1 .. Len(feature.children),
           IsFiniteSet(WantedUpTo(feature, tags, i - 1))
    PROVE  /\ IsFiniteSet(WantedUpTo(feature, tags, i))
           /\ Wanted(feature.children[i], feature, tags) =>
                  Before(feature, tags, i) = Before(feature, tags, i - 1) + Rows(feature.children[i])
           /\ ~ Wanted(feature.children[i], feature, tags) =>
                  Before(feature, tags, i) = Before(feature, tags, i - 1)
<1>. DEFINE W(j) == Wanted(feature.children[j], feature, tags)
            R(j) == Rows(feature.children[j])
            U == WantedUpTo(feature, tags, i - 1)
            V == WantedUpTo(feature, tags, i)
            New == {i} \X (1 .. R(i))
<1>1. Len(feature.children) \in Nat /\ i \in Nat
  BY DEF FeatureOK
<1>2. R(i) \in Nat
  <2>1. ChildOK(feature.children[i])
    BY DEF FeatureOK
  <2>. QED
    BY <2>1, ChildPlans
<1>3. \A j : j \in 1 .. i <=> j \in 1 .. (i - 1) \/ j = i
  BY <1>1
<1>4. /\ U = UNION {{j} \X (1 .. R(j)) : j \in {l \in 1 .. (i - 1) : W(l)}}
      /\ V = UNION {{j} \X (1 .. R(j)) : j \in {l \in 1 .. i : W(l)}}
  BY DEF WantedUpTo
<1>. HIDE DEF W, R, U, V
<1>5. CASE W(i)
  <2>1. V = U \cup New
    <3>1. {l \in 1 .. i : W(l)} = {l \in 1 .. (i - 1) : W(l)} \cup {i}
      BY <1>3, <1>5
    <3>. QED
      BY <1>4, <3>1
  <2>2. U \cap New = {}
    <3>1. \A p \in U : p[1] \in 1 .. (i - 1)
      BY <1>4
    <3>2. \A p \in New : p[1] = i
      OBVIOUS
    <3>3. i \notin 1 .. (i - 1)
      BY <1>1
    <3>. QED
      BY <3>1, <3>2, <3>3
  <2>3. IsFiniteSet(New) /\ Cardinality(New) = R(i)
    <3>1. IsFiniteSet(1 .. R(i)) /\ Cardinality(1 .. R(i)) = R(i)
      BY <1>2, FS_Interval
    <3>2. IsFiniteSet({i}) /\ Cardinality({i}) = 1
      BY FS_Singleton
    <3>3. IsFiniteSet(New) /\ Cardinality(New) = 1 * R(i)
      BY <3>1, <3>2, FS_Product
    <3>. QED
      BY <1>2, <3>3
  <2>. HIDE DEF New
  <2>4. IsFiniteSet(U)
    BY DEF U
  <2>5. IsFiniteSet(U \cup New)
    BY <2>3, <2>4, FS_Union
  <2>6. Cardinality(U \cup New) = Cardinality(U) + Cardinality(New)
    BY <2>2, <2>3, <2>4, DisjointUnion
  <2>. QED
    BY <1>5, <2>1, <2>3, <2>5, <2>6 DEF Before, U, V, W, R
<1>6. CASE ~ W(i)
  <2>1. V = U
    <3>1. {l \in 1 .. i : W(l)} = {l \in 1 .. (i - 1) : W(l)}
      BY <1>3, <1>6
    <3>. QED
      BY <1>4, <3>1
  <2>. QED
    BY <1>6, <2>1 DEF Before, U, V, W
<1>. QED
  BY <1>5, <1>6

\* The two plans of the first i children.
Same(a, c) ==
    /\ \E S : a \in Seq(S)
    /\ \E S : c \in Seq(S)
    /\ Len(a) = Len(c)
    /\ \A m \in 1 .. Len(a) : Collapses(a[m], c[m])
PlansOK(feature, tags, i, a, c) ==
    /\ Same(a, c)
    /\ IsFiniteSet(WantedUpTo(feature, tags, i))
    /\ Len(c) = Before(feature, tags, i)
    /\ \A j \in 1 .. i : Wanted(feature.children[j], feature, tags) =>
           \A r \in 1 .. Rows(feature.children[j]) :
               /\ Before(feature, tags, j - 1) + r \in 1 .. Len(c)
               /\ Len(c[Before(feature, tags, j - 1) + r]) = Len(feature.children[j].steps)

LEMMA SelectedWanted ==
    ASSUME NEW child, NEW feature, NEW tags
    PROVE  Selected(feature, child, tags) <=> Wanted(child, feature, tags)
BY DEF Selected, Wanted

LEMMA PlansStep ==
    ASSUME NEW feature, FeatureOK(feature), NEW tags, NEW i \in 1 .. Len(feature.children),
           NEW a, NEW c, PlansOK(feature, tags, i - 1, a, c)
    PROVE  PlansOK(feature, tags, i, Extended(a, feature, "aggressive", tags, i),
                                     Extended(c, feature, "conservative", tags, i))
<1>. DEFINE child == feature.children[i]
            B(j) == Before(feature, tags, j)
            W(j) == Wanted(feature.children[j], feature, tags)
            R(j) == Rows(feature.children[j])
            L(j) == Len(feature.children[j].steps)
            Fin(j) == IsFiniteSet(WantedUpTo(feature, tags, j))
            p == Plans(child, "aggressive")
            q == Plans(child, "conservative")
<1>1. ChildOK(child) /\ i \in Nat
  BY DEF FeatureOK
<1>2. /\ R(i) \in Nat
      /\ \E S : p \in Seq(S)
      /\ \E S : q \in Seq(S)
      /\ Len(p) = R(i) /\ Len(q) = R(i)
      /\ \A r \in 1 .. R(i) : Collapses(p[r], q[r]) /\ Len(q[r]) = L(i)
  BY <1>1, ChildPlans
<1>3. Fin(i - 1)
  BY DEF PlansOK
<1>4. Fin(i) /\ (W(i) => B(i) = B(i - 1) + R(i)) /\ (~ W(i) => B(i) = B(i - 1))
  BY <1>3, WantedGrow
<1>5. /\ Same(a, c) /\ Len(c) = B(i - 1)
      /\ \A j \in 1 .. (i - 1) : W(j) => \A r \in 1 .. R(j) :
             B(j - 1) + r \in 1 .. Len(c) /\ Len(c[B(j - 1) + r]) = L(j)
  BY DEF PlansOK
<1>6. Selected(feature, child, tags) <=> W(i)
  BY SelectedWanted
<1>7. Len(a) = Len(c) /\ Len(c) \in Nat
  BY <1>5 DEF Same
<1>8. \A x, y :
          /\ Same(x, y) /\ Len(y) = B(i)
          /\ \A j \in 1 .. i : W(j) => \A r \in 1 .. R(j) :
                 B(j - 1) + r \in 1 .. Len(y) /\ Len(y[B(j - 1) + r]) = L(j)
          => PlansOK(feature, tags, i, x, y)
  BY <1>4 DEF PlansOK
<1>9. CASE W(i)
  <2>. DEFINE x == a \o p
              y == c \o q
  <2>1. PICK S1 : a \in Seq(S1)
    BY <1>5 DEF Same
  <2>2. PICK S2 : c \in Seq(S2)
    BY <1>5 DEF Same
  <2>3. PICK S3 : p \in Seq(S3)
    BY <1>2
  <2>4. PICK S4 : q \in Seq(S4)
    BY <1>2
  <2>. HIDE DEF p, q, B, W, R, L, child
  <2>5. /\ \E U : x \in Seq(U)
        /\ Len(x) = Len(a) + Len(p)
        /\ \A m \in 1 .. Len(a) : x[m] = a[m]
        /\ \A m \in 1 .. Len(p) : x[Len(a) + m] = p[m]
    BY <2>1, <2>3, PlansJoined
  <2>6. /\ \E U : y \in Seq(U)
        /\ Len(y) = Len(c) + Len(q)
        /\ \A m \in 1 .. Len(c) : y[m] = c[m]
        /\ \A m \in 1 .. Len(q) : y[Len(c) + m] = q[m]
    BY <2>2, <2>4, PlansJoined
  <2>. HIDE DEF x, y
  <2>7. ASSUME NEW m \in 1 .. Len(x) PROVE Collapses(x[m], y[m])
    <3>1. CASE m \in 1 .. Len(a)
      <4>1. Collapses(a[m], c[m])
        BY <1>5, <3>1 DEF Same
      <4>. QED
        BY <1>7, <2>5, <2>6, <3>1, <4>1
    <3>2. CASE m \notin 1 .. Len(a)
      <4>. DEFINE r == m - Len(a)
      <4>1. r \in 1 .. R(i) /\ m = Len(a) + r
        BY <1>2, <1>7, <2>5, <3>2
      <4>. HIDE DEF r
      <4>2. x[Len(a) + r] = p[r] /\ y[Len(c) + r] = q[r]
        BY <1>2, <2>5, <2>6, <4>1
      <4>. QED
        BY <1>2, <1>7, <4>1, <4>2
    <3>. QED
      BY <3>1, <3>2
  <2>8. Same(x, y)
    BY <1>2, <1>7, <2>5, <2>6, <2>7 DEF Same
  <2>9. Len(y) = B(i)
    BY <1>2, <1>4, <1>5, <1>9, <2>6
  <2>10. ASSUME NEW j \in 1 .. i, W(j), NEW r \in 1 .. R(j)
         PROVE  B(j - 1) + r \in 1 .. Len(y) /\ Len(y[B(j - 1) + r]) = L(j)
    <3>1. CASE j = i
      <4>1. B(j - 1) + r = Len(c) + r /\ r \in 1 .. Len(q)
        BY <1>2, <1>5, <2>10, <3>1
      <4>2. y[Len(c) + r] = q[r]
        BY <2>6, <4>1
      <4>3. Len(c) + r \in 1 .. Len(y)
        BY <1>2, <1>7, <2>6, <4>1
      <4>. QED
        BY <1>2, <2>10, <3>1, <4>1, <4>2, <4>3
    <3>2. CASE j # i
      <4>1. j \in 1 .. (i - 1)
        BY <1>1, <3>2
      <4>2. B(j - 1) + r \in 1 .. Len(c) /\ Len(c[B(j - 1) + r]) = L(j)
        BY <1>5, <2>10, <4>1
      <4>3. Len(c) <= Len(y) /\ Len(y) \in Nat
        BY <1>2, <1>7, <2>6
      <4>. QED
        BY <1>7, <2>6, <4>2, <4>3
    <3>. QED
      BY <3>1, <3>2
  <2>11. PlansOK(feature, tags, i, x, y)
    BY <1>8, <2>8, <2>9, <2>10
  <2>. QED
    BY <1>6, <1>9, <2>11 DEF Extended, Chosen, x, y, p, q, child
<1>10. CASE ~ W(i)
  <2>1. Extended(a, feature, "aggressive", tags, i) = a /\ Extended(c, feature, "conservative", tags, i) = c
    <3>1. PICK S1 : a \in Seq(S1)
      BY <1>5 DEF Same
    <3>2. PICK S2 : c \in Seq(S2)
      BY <1>5 DEF Same
    <3>3. a \o <<>> = a /\ c \o <<>> = c
      BY <3>1, <3>2, ConcatEmptySeq
    <3>. QED
      BY <1>6, <1>10, <3>3 DEF Extended, Chosen
  <2>2. ASSUME NEW j \in 1 .. i, W(j) PROVE j \in 1 .. (i - 1)
    BY <1>1, <1>10, <2>2
  <2>3. Len(c) = B(i)
    BY <1>4, <1>5, <1>10
  <2>. HIDE DEF B, W, R, L
  <2>4. PlansOK(feature, tags, i, a, c)
    BY <1>5, <1>8, <2>2, <2>3
  <2>. QED
    BY <2>1, <2>4
<1>. QED
  BY <1>9, <1>10

LEMMA PlansEnd ==
    ASSUME NEW feature \in Features, NEW tags
    PROVE  PlansOK(feature, tags, Len(feature.children),
               CompileFeature(feature, "aggressive", tags)[Len(feature.children)],
               CompileFeature(feature, "conservative", tags)[Len(feature.children)])
<1>. DEFINE n == Len(feature.children)
            A(i) == CompileFeature(feature, "aggressive", tags)[i]
            C(i) == CompileFeature(feature, "conservative", tags)[i]
            T == {i \in 0 .. n : ~ PlansOK(feature, tags, i, A(i), C(i))}
<1>1. FeatureOK(feature) /\ n \in Nat
  BY FeaturesOK DEF FeatureOK
<1>2. /\ A(0) = <<>> /\ \A i \in 1 .. n : A(i) = Extended(A(i - 1), feature, "aggressive", tags, i)
      /\ C(0) = <<>> /\ \A i \in 1 .. n : C(i) = Extended(C(i - 1), feature, "conservative", tags, i)
  BY <1>1, CompiledDef
<1>. HIDE DEF A, C
<1>3. PlansOK(feature, tags, 0, A(0), C(0))
  <2>1. WantedUpTo(feature, tags, 0) = {}
    <3>1. 1 .. 0 = {}
      OBVIOUS
    <3>. QED
      BY <3>1 DEF WantedUpTo
  <2>2. IsFiniteSet(WantedUpTo(feature, tags, 0)) /\ Before(feature, tags, 0) = 0
    BY <2>1, FS_EmptySet DEF Before
  <2>3. Len(<<>>) = 0 /\ <<>> \in Seq({})
    BY EmptySeq
  <2>4. Same(<<>>, <<>>)
    BY <2>3 DEF Same
  <2>. QED
    BY <1>2, <2>2, <2>3, <2>4 DEF PlansOK
<1>4. SUFFICES ASSUME T # {} PROVE FALSE
  BY <1>1 DEF A, C
<1>5. PICK i \in T : \A l \in T : i <= l
  <2>1. T \in SUBSET Nat
    BY <1>1
  <2>. HIDE DEF T
  <2>. QED
    BY <1>4, <2>1, LeastNumber
<1>6. i \in 1 .. n /\ i - 1 \in 0 .. n
  BY <1>1, <1>3
<1>7. i - 1 \notin T
  BY <1>5, <1>6
<1>8. PlansOK(feature, tags, i - 1, A(i - 1), C(i - 1))
  BY <1>6, <1>7
<1>9. PlansOK(feature, tags, i, Extended(A(i - 1), feature, "aggressive", tags, i),
                                Extended(C(i - 1), feature, "conservative", tags, i))
  BY <1>1, <1>6, <1>8, PlansStep
<1>. QED
  BY <1>2, <1>6, <1>9

\* The plan of one feature is the plan of its children.
LEMMA OneFeature ==
    ASSUME NEW feature, NEW strategy, NEW tags
    PROVE  PlanOfOne(feature, strategy, tags)
               = CompileFeature(feature, strategy, tags)[Len(feature.children)]
<1>. DEFINE fs == <<feature>>
            plan == CompileFeature(feature, strategy, tags)[Len(feature.children)]
            compiled == [i \in DOMAIN fs |-> CompileFeature(fs[i], strategy, tags)[Len(fs[i].children)]]
            P == {i \in DOMAIN compiled : compiled[i] # <<>>}
<1>1. DOMAIN fs = {1} /\ fs[1] = feature
  OBVIOUS
<1>2. DOMAIN compiled = {1} /\ compiled[1] = plan
  BY <1>1
<1>3. PlanOfOne(feature, strategy, tags)
          = IF Picked(compiled, P) = <<>> THEN <<>> ELSE Picked(compiled, P)[1]
  BY DEF PlanOfOne, PlanOf
<1>. HIDE DEF fs, compiled, plan
<1>4. P \in SUBSET (1 .. 1)
  BY <1>2
<1>5. /\ Len(Picked(compiled, P)) = Cardinality(P)
      /\ \A i \in P : Picked(compiled, P)[Place(P, i)] = compiled[i]
      /\ Picked(compiled, P) \in Seq({compiled[i] : i \in P})
  BY <1>4, PickedOnes
<1>6. CASE plan = <<>>
  <2>1. P = {}
    BY <1>2, <1>6
  <2>2. Len(Picked(compiled, P)) = 0
    BY <1>5, <2>1, FS_EmptySet
  <2>3. Picked(compiled, P) = <<>>
    BY <1>5, <2>2, EmptySeq
  <2>. QED
    BY <1>3, <1>6, <2>3 DEF plan
<1>7. CASE plan # <<>>
  <2>1. P = {1}
    BY <1>2, <1>7
  <2>. HIDE DEF P
  <2>2. Cardinality(P) = 1
    BY <2>1, FS_Singleton
  <2>3. Place(P, 1) = 1
    <3>1. {j \in P : j <= 1} = P
      BY <2>1
    <3>. QED
      BY <2>2, <3>1 DEF Place
  <2>4. Picked(compiled, P)[1] = plan
    BY <1>2, <1>5, <2>1, <2>3
  <2>5. Picked(compiled, P) # <<>>
    BY <1>5, <2>2, EmptySeq
  <2>. QED
    BY <1>3, <2>4, <2>5 DEF plan
<1>. QED
  BY <1>6, <1>7

\* Collapsing loses, repeats and reorders nothing, whatever the features: every
\* scenario asked for has its plans in order, and the aggressive ones have the
\* steps of the conservative ones (gherkin_compiler.py).
THEOREM PlansKeepSteps == Tasks => []PlanKeepsSteps
<1>1. NoTask => PlanKeepsSteps
  BY DEF NoTask, PlanKeepsSteps
<1>2. ASSUME NEW feature \in Features, NEW tags \in Filters,
             Apply("plan", <<feature, tags>>,
                 << PlanOfOne(feature, "aggressive", tags), PlanOfOne(feature, "conservative", tags) >>)
      PROVE  PlanKeepsSteps'
  <2>. DEFINE n == Len(feature.children)
              a == CompileFeature(feature, "aggressive", tags)[n]
              c == CompileFeature(feature, "conservative", tags)[n]
  <2>1. input' = <<feature, tags>> /\ output' = <<a, c>>
    BY <1>2, OneFeature DEF Apply
  <2>2. PlansOK(feature, tags, n, a, c)
    BY PlansEnd
  <2>3. Same(a, c) /\ Len(c) = Before(feature, tags, n)
    BY <2>2 DEF PlansOK
  <2>4. DOMAIN feature.children = 1 .. n
    BY FeaturesOK DEF FeatureOK
  <2>5. \A j \in 1 .. n : Wanted(feature.children[j], feature, tags) =>
            \A r \in 1 .. Rows(feature.children[j]) :
                Len(c[Before(feature, tags, j - 1) + r]) = Len(feature.children[j].steps)
    BY <2>2 DEF PlansOK
  <2>. HIDE DEF a, c, n
  <2>6. Len(a) = Len(c) /\ \A m \in DOMAIN a : Collapses(a[m], c[m])
    BY <2>3 DEF Same
  <2>7. /\ input'[1] = feature /\ input'[2] = tags /\ output'[1] = a /\ output'[2] = c
    BY <2>1
  <2>. QED
    BY <2>3, <2>4, <2>5, <2>6, <2>7 DEF PlanKeepsSteps, Before, n
<1>3. RunTask => PlanKeepsSteps'
  <2>1. SUFFICES ASSUME RunTask, task' = "plan" PROVE PlanKeepsSteps'
    BY DEF PlanKeepsSteps
  <2>2. MakePlan
    BY <2>1, OneTask
  <2>. QED
    BY <1>2, <2>2 DEF MakePlan
<1>4. UNCHANGED taskVars /\ PlanKeepsSteps => PlanKeepsSteps'
  BY DEF taskVars, PlanKeepsSteps
<1>. QED
  BY <1>1, <1>3, <1>4, PTL DEF Tasks
=============================================================================
