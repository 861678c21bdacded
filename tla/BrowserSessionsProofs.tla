----------------------- MODULE BrowserSessionsProofs -----------------------
(***************************************************************************)
(* The safety of the CLI's browser sessions for any number of processes,   *)
(* sessions, ports and commands: first what holds whoever runs and whatever*)
(* is killed, then what holds as long as one command runs at a time.       *)
(***************************************************************************)
EXTENDS BrowserSessions, FiniteSetTheorems, TLAPS

Labels == {"idle", "available", "get", "reconnect", "clear", "tryLock", "kill", "clean", "list",
           "batch", "prune", "pruning", "count", "init", "probe", "launch", "poll", "connect",
           "lock", "work", "stop", "remove"}
Launching == {"probe", "launch", "poll", "connect"}
Locking == {"kill", "clean", "work"}

Info == [state : States, pid : Nat, port : Nat, endpoint : Nat, tab : Nat]
Chrome == [id : Ids, port : Nat, runs : BOOLEAN]

TypeOK ==
    /\ setting \in Setting
    /\ record \in [Ids -> Info]
    /\ lock \in [Ids -> Procs \cup {Nobody}]
    /\ profile \in [Ids -> Nat]
    /\ chromes \in Seq(Chrome)
    /\ pc \in [Procs -> Labels]
    /\ op \in [Procs -> Commands \cup {"none"}] /\ id \in [Procs -> Ids]
    /\ mem \in [Procs -> [Ids -> Info]]
    /\ doomed \in [Procs -> SUBSET Ids] /\ port \in [Procs -> Nat]
    /\ selected \in [Ids -> Nat]

\* The process named by what is known of a session is one the session started, and
\* a session thought stopped has none that runs.
Known(info, i, cs) ==
    /\ info.pid # 0 => info.pid \in 1 .. Len(cs) /\ cs[info.pid].id = i
    /\ info.state = "stopped" /\ info.pid # 0 => ~cs[info.pid].runs

ProcOK(p) ==
    /\ pc[p] # "idle" => p \in setting.procs
    /\ op[p] = "prune" => pc[p] \in {"idle", "prune", "pruning"}
    /\ op[p] = "list" => pc[p] \in {"idle", "list"}
    /\ pc[p] \in Launching => Mine(p).state = "starting"
    /\ pc[p] = "pruning" => \A i \in doomed[p] : mem[p][i].state = "stopped"

\* Whoever holds a session's lock works with that session or closes it by force.
LocksHeld == \A i \in Ids, p \in Procs : lock[i] = p => id[p] = i /\ pc[p] \in Locking

IInv ==
    /\ TypeOK
    /\ \A i \in Ids : Known(record[i], i, chromes)
    /\ \A p \in Procs, i \in Ids : Known(mem[p][i], i, chromes)
    /\ \A p \in Procs : ProcOK(p)
    /\ LocksHeld

LEMMA NoInfoOK == NoInfo \in Info /\ \A i, cs : Known(NoInfo, i, cs)
BY DEF NoInfo, Info, States, Known

LEMMA InitOK == Init => IInv
<1>. SUFFICES ASSUME Init PROVE IInv
  OBVIOUS
<1>1. TypeOK
  <2>1. setting \in Setting /\ record \in [Ids -> Info] /\ mem \in [Procs -> [Ids -> Info]]
    BY NoInfoOK, BrowserSessionsAssumption DEF Init
  <2>2. id \in [Procs -> Ids] /\ pc \in [Procs -> Labels] /\ op \in [Procs -> Commands \cup {"none"}]
    BY BrowserSessionsAssumption DEF Init, Labels
  <2>3. /\ lock \in [Ids -> Procs \cup {Nobody}] /\ profile \in [Ids -> Nat]
        /\ chromes \in Seq(Chrome) /\ doomed \in [Procs -> SUBSET Ids]
        /\ port \in [Procs -> Nat] /\ selected \in [Ids -> Nat]
    BY DEF Init
  <2>. QED
    BY <2>1, <2>2, <2>3 DEF TypeOK
<1>2. LocksHeld
  BY BrowserSessionsAssumption DEF Init, LocksHeld
<1>. QED
  BY <1>1, <1>2, NoInfoOK DEF Init, IInv, ProcOK, Launching

-----------------------------------------------------------------------------
(* The Chromes.                                                            *)

\* Chromes are added and end; none comes back, none changes its session or port.
ChromesGoOn ==
    /\ chromes' \in Seq(Chrome) /\ Len(chromes) <= Len(chromes')
    /\ \A k \in 1 .. Len(chromes) :
           /\ chromes'[k].id = chromes[k].id /\ chromes'[k].port = chromes[k].port
           /\ chromes'[k].runs => chromes[k].runs

LEMMA TerminatedOK ==
    ASSUME TypeOK, NEW k, chromes' = Terminated(k)
    PROVE  /\ ChromesGoOn /\ Len(chromes') = Len(chromes)
           /\ k \in 1 .. Len(chromes) => ~chromes'[k].runs
           /\ \A j \in 1 .. Len(chromes) : j # k => chromes'[j] = chromes[j]
<1>. DEFINE ended(j) == IF j = k THEN [chromes[j] EXCEPT !.runs = FALSE] ELSE chromes[j]
<1>1. /\ chromes \in Seq(Chrome) /\ DOMAIN chromes = 1 .. Len(chromes) /\ Len(chromes) \in Nat
      /\ \A j \in 1 .. Len(chromes) : chromes[j] \in Chrome
  BY DEF TypeOK
<1>2. ASSUME NEW j \in 1 .. Len(chromes)
      PROVE  /\ ended(j) \in Chrome /\ ended(j).id = chromes[j].id
             /\ ended(j).port = chromes[j].port /\ (ended(j).runs => chromes[j].runs)
             /\ j = k => ~ended(j).runs
             /\ j # k => ended(j) = chromes[j]
  <2>1. chromes[j] \in Chrome
    BY <1>1
  <2>. QED
    BY <2>1 DEF Chrome
<1>3. chromes' = [j \in 1 .. Len(chromes) |-> ended(j)]
  BY <1>1 DEF Terminated
<1>. HIDE DEF ended
<1>4. /\ chromes' \in Seq(Chrome) /\ Len(chromes') = Len(chromes)
      /\ DOMAIN chromes' = 1 .. Len(chromes)
      /\ \A j \in 1 .. Len(chromes) : chromes'[j] = ended(j)
  BY <1>1, <1>2, <1>3
<1>5. k \in 1 .. Len(chromes) => ~chromes'[k].runs
  BY <1>2, <1>4
<1>6. ChromesGoOn
  BY <1>1, <1>2, <1>4 DEF ChromesGoOn
<1>. QED
  BY <1>2, <1>4, <1>5, <1>6

LEMMA LaunchedOK ==
    ASSUME TypeOK, NEW c \in Chrome, chromes' = Append(chromes, c)
    PROVE  /\ ChromesGoOn /\ Len(chromes') = Len(chromes) + 1 /\ chromes'[Len(chromes')] = c
           /\ \A j \in 1 .. Len(chromes) : chromes'[j] = chromes[j]
BY DEF TypeOK, ChromesGoOn

LEMMA KnownGoesOn ==
    ASSUME TypeOK, ChromesGoOn, NEW info \in Info, NEW i, Known(info, i, chromes)
    PROVE  Known(info, i, chromes')
BY DEF TypeOK, ChromesGoOn, Known, Info

LEMMA LoadedOK ==
    ASSUME IInv, NEW i \in Ids
    PROVE  /\ Known(Loaded(i), i, chromes) /\ Loaded(i) \in Info
           /\ Loaded(i).state \in {"none", "started", "stopped"}
<1>1. record[i] \in Info /\ Known(record[i], i, chromes)
  BY DEF IInv, TypeOK
<1>2. CASE ~There(record[i])
  BY <1>2, NoInfoOK DEF Loaded, NoInfo
<1>3. CASE There(record[i])
  <2>. DEFINE s == IF Alive(record[i].pid) THEN "started" ELSE "stopped"
  <2>1. Loaded(i) = [record[i] EXCEPT !.state = s]
    BY <1>3 DEF Loaded
  <2>2. /\ s \in States /\ s \in {"started", "stopped"}
        /\ s = "stopped" /\ record[i].pid \in 1 .. Len(chromes) => ~chromes[record[i].pid].runs
    BY DEF States, Alive, IInv, TypeOK
  <2>. HIDE DEF s
  <2>. QED
    BY <1>1, <2>1, <2>2 DEF Known, Info
<1>. QED
  BY <1>2, <1>3

-----------------------------------------------------------------------------
(* The steps of a command on its own session.                              *)

\* Process p goes on to l, and what it knows of its session becomes info.
Moves(p, l, info) ==
    /\ Goto(p, l) /\ Keeps(p, info) /\ (Saves(p, info) \/ UNCHANGED record)
    /\ UNCHANGED <<setting, op, id, doomed, port>>

\* What it may do with the locks on the way.
Locks(p, l) ==
    \A i \in Ids :
        \/ lock'[i] \in {lock[i], Nobody} \ {p}
        \/ lock'[i] = p /\ i = id[p] /\ l \in Locking

LEMMA MovesForm ==
    ASSUME TypeOK, NEW p \in Procs, NEW l \in Labels, NEW info \in Info, Moves(p, l, info)
    PROVE  /\ pc' \in [Procs -> Labels] /\ mem' \in [Procs -> [Ids -> Info]]
           /\ record' \in [Ids -> Info]
           /\ pc'[p] = l /\ \A q \in Procs \ {p} : pc'[q] = pc[q] /\ mem'[q] = mem[q]
           /\ mem'[p][id[p]] = info /\ \A i \in Ids \ {id[p]} : mem'[p][i] = mem[p][i]
           /\ record'[id[p]] \in {info, record[id[p]]}
           /\ \A i \in Ids \ {id[p]} : record'[i] = record[i]
           /\ id'[p] = id[p] /\ id[p] \in Ids
<1>1. /\ id[p] \in Ids /\ pc \in [Procs -> Labels] /\ record \in [Ids -> Info]
      /\ mem \in [Procs -> [Ids -> Info]] /\ mem[p] \in [Ids -> Info]
  BY DEF TypeOK
<1>. DEFINE m == [mem[p] EXCEPT ![id[p]] = info]
<1>2. /\ m \in [Ids -> Info] /\ m[id[p]] = info
      /\ \A i \in Ids \ {id[p]} : m[i] = mem[p][i]
  BY <1>1
<1>3. mem' = [mem EXCEPT ![p] = m]
  BY DEF Moves, Keeps
<1>. HIDE DEF m
<1>4. /\ mem' \in [Procs -> [Ids -> Info]] /\ mem'[p] = m
      /\ \A q \in Procs \ {p} : mem'[q] = mem[q]
  BY <1>1, <1>2, <1>3
<1>5. pc' \in [Procs -> Labels] /\ pc'[p] = l /\ \A q \in Procs \ {p} : pc'[q] = pc[q]
  BY <1>1 DEF Moves, Goto
<1>6. /\ record' \in [Ids -> Info] /\ record'[id[p]] \in {info, record[id[p]]}
      /\ \A i \in Ids \ {id[p]} : record'[i] = record[i]
  BY <1>1 DEF Moves, Saves
<1>. QED
  BY <1>1, <1>2, <1>4, <1>5, <1>6 DEF Moves

LEMMA StaysKnown ==
    ASSUME TypeOK, NEW p \in Procs, NEW info \in Info, info = Mine(p)
    PROVE  UNCHANGED mem => Keeps(p, info)
BY DEF TypeOK, Mine, Keeps

LEMMA MovesOK ==
    ASSUME IInv, NEW p \in Procs, NEW l \in Labels, NEW info \in Info, Moves(p, l, info),
           ChromesGoOn, Known(info, id[p], chromes'), Locks(p, l),
           lock' \in [Ids -> Procs \cup {Nobody}],
           profile' \in [Ids -> Nat], selected' \in [Ids -> Nat],
           pc[p] # "idle", l # "pruning", l = "idle" \/ op[p] \notin {"prune", "list"},
           l \in Launching => info.state = "starting"
    PROVE  IInv'
<1>1. TypeOK /\ TypeOK'
  BY MovesForm DEF IInv, TypeOK, ChromesGoOn, Moves
<1>2. /\ \A i \in Ids : Known(record[i], i, chromes)'
      /\ \A q \in Procs, i \in Ids : Known(mem[q][i], i, chromes)'
  <2>1. \A i \in Ids : /\ record[i] \in Info /\ Known(record[i], i, chromes')
                        /\ \A q \in Procs : mem[q][i] \in Info /\ Known(mem[q][i], i, chromes')
    BY <1>1, KnownGoesOn DEF IInv, TypeOK
  <2>2. \A i \in Ids : Known(record'[i], i, chromes')
    BY <1>1, <2>1, MovesForm
  <2>3. \A q \in Procs, i \in Ids :
           \/ mem'[q][i] = mem[q][i]
           \/ i = id[p] /\ mem'[q][i] = info
    BY <1>1, MovesForm
  <2>4. \A q \in Procs, i \in Ids : Known(mem'[q][i], i, chromes')
    BY <2>1, <2>3
  <2>. QED
    BY <2>2, <2>4
<1>3. /\ pc'[p] = l /\ mem'[p][id[p]] = info /\ id'[p] = id[p] /\ id[p] \in Ids
      /\ op' = op /\ doomed' = doomed /\ setting' = setting
      /\ \A q \in Procs \ {p} : pc'[q] = pc[q] /\ mem'[q] = mem[q] /\ id'[q] = id[q]
  BY <1>1, MovesForm DEF Moves
<1>4. ASSUME NEW q \in Procs PROVE ProcOK(q)'
  <2>1. ProcOK(q) /\ ProcOK(p)
    BY DEF IInv
  <2>2. CASE q = p
    BY <1>3, <2>1, <2>2 DEF ProcOK, Mine
  <2>3. CASE q # p
    BY <1>3, <2>1, <2>3 DEF ProcOK, Mine
  <2>. QED
    BY <2>2, <2>3
<1>5. LocksHeld'
  <2>. SUFFICES ASSUME NEW i \in Ids, NEW q \in Procs, lock'[i] = q
                PROVE  id'[q] = i /\ pc'[q] \in Locking
    BY DEF LocksHeld
  <2>1. q # p => lock[i] = q
    BY BrowserSessionsAssumption DEF Locks
  <2>2. q = p => i = id[p] /\ l \in Locking
    BY BrowserSessionsAssumption DEF Locks
  <2>. QED
    BY <1>3, <2>1, <2>2 DEF IInv, LocksHeld, Locking
<1>. QED
  BY <1>1, <1>2, <1>4, <1>5 DEF IInv

-----------------------------------------------------------------------------
(* One command at a time: what a session's file, the command's memory and  *)
(* the Chromes have to do with each other.                                 *)

Early == {"available", "get", "clear", "tryLock", "kill", "clean"}
Present == {"reconnect", "tryLock", "kill", "clean", "lock", "work", "stop", "remove"} \cup Launching

\* A session's file r is true of it; what a command knows of it, info, agrees
\* with the file, but that the file may not know the Chrome yet.
OnFile(r, tab, prof) ==
    /\ There(r) \/ r = NoInfo
    /\ r.endpoint \in {0, r.pid} /\ r.tab = tab /\ prof \in {0, r.pid}
InMemory(info, r, tab) ==
    There(info) =>
        /\ There(r) /\ r.pid \in {0, info.pid}
        /\ info.endpoint \in {0, info.pid} /\ info.tab = tab

\* What a command at l has established about its own session.
Phase(l, info, r, cs) ==
    /\ l \in Present => There(info)
    /\ l \in {"lock", "work"} => r.pid = info.pid
    /\ l \in {"clean", "remove"} /\ info.pid # 0 => ~cs[info.pid].runs
    /\ l = "init" => ~There(r)
    /\ l \in Launching => r.pid = 0 /\ info.tab = 0
    /\ l \in {"probe", "launch"} => info.pid = 0 /\ info.endpoint = 0

\* What it has established about the other sessions and the ports.
Others(p) ==
    /\ pc[p] = "batch" => All(p)
    /\ pc[p] \in Early /\ ~All(p) => \A i \in Ids \ {id[p]} : ~There(mem[p][i])
    /\ pc[p] = "prune" => \A i \in Ids : ~There(mem[p][i])
    /\ pc[p] = "pruning" =>
           \A i \in Ids \ doomed[p] : mem[p][i].state \in {"none", "started"}
    /\ pc[p] = "count" => \A i \in Ids : mem[p][i].state \in {"none", "started"}
    /\ pc[p] \in {"pruning", "count"} => \A i \in Ids : There(record[i]) => There(mem[p][i])

Running == {k \in DOMAIN chromes : Alive(k)}

Room(p) ==
    /\ pc[p] \in {"init", "probe", "launch"} => Cardinality(Running) < Limit
    /\ pc[p] = "launch" => port[p] # 0 /\ ~Bound(port[p])
    /\ pc[p] = "poll" => port[p] # 0 /\ \A k \in DOMAIN chromes : Listens(k, port[p]) => k = Mine(p).pid

\* Every Chrome that runs is on file, or about to be.
Named(k) ==
    \/ record[chromes[k].id].pid = k
    \/ \E p \in Procs : pc[p] \in {"poll", "connect"} /\ Mine(p).pid = k

Solo ==
    /\ \A i \in Ids : OnFile(record[i], selected[i], profile[i])
    /\ \A p \in Procs : pc[p] # "idle" =>
           /\ \A i \in Ids : InMemory(mem[p][i], record[i], selected[i])
           /\ Phase(pc[p], Mine(p), record[id[p]], chromes)
           /\ Others(p) /\ Room(p)
    /\ \A k \in DOMAIN chromes : Alive(k) => Named(k)
    /\ Cardinality(Running) <= Limit

SoloInv == Alone => Solo
Both == IInv /\ SoloInv

LEMMA OthersIdle ==
    ASSUME IInv, Alone, NEW p \in setting.procs
    PROVE  p \in Procs /\ \A q \in Procs \ {p} : pc[q] = "idle"
BY DEF IInv, ProcOK, Alone

LEMMA RunningFinite ==
    ASSUME TypeOK
    PROVE  IsFiniteSet(Running) /\ Cardinality(Running) \in Nat
<1>1. Len(chromes) \in Nat /\ Running \subseteq 1 .. Len(chromes)
  BY DEF TypeOK, Running
<1>2. IsFiniteSet(1 .. Len(chromes))
  BY <1>1, FS_Interval
<1>3. IsFiniteSet(Running)
  BY <1>1, <1>2, FS_Subset
<1>. QED
  BY <1>3, FS_CardinalityType

LEMMA RunningGoesOn ==
    ASSUME TypeOK, ChromesGoOn, Len(chromes') = Len(chromes)
    PROVE  /\ Running' \subseteq Running /\ Cardinality(Running)' <= Cardinality(Running)
           /\ Cardinality(Running)' \in Nat /\ Cardinality(Running) \in Nat
<1>1. Running' \subseteq Running
  BY DEF TypeOK, ChromesGoOn, Running, Alive
<1>. QED
  BY <1>1, RunningFinite, FS_Subset, FS_CardinalityType

\* A Chrome of the command's session that runs.
LEMMA OwnRunning ==
    ASSUME IInv, Solo, Alone, NEW p \in Procs, pc[p] # "idle",
           NEW k \in 1 .. Len(chromes), chromes[k].runs, chromes[k].id = id[p]
    PROVE  \/ k = record[id[p]].pid
           \/ pc[p] \in {"poll", "connect"} /\ k = Mine(p).pid
<1>1. Named(k)
  BY DEF Solo, Alive, IInv, TypeOK
<1>2. \A q \in Procs \ {p} : pc[q] = "idle"
  BY OthersIdle DEF IInv, ProcOK
<1>. QED
  BY <1>1, <1>2 DEF Named

\* Of another session.
LEMMA OtherRunning ==
    ASSUME IInv, Solo, Alone, NEW p \in Procs, pc[p] # "idle",
           NEW k \in 1 .. Len(chromes), chromes[k].runs, chromes[k].id # id[p]
    PROVE  k = record[chromes[k].id].pid
<1>1. Named(k)
  BY DEF Solo, Alive, IInv, TypeOK
<1>2. \A q \in Procs \ {p} : pc[q] = "idle"
  BY OthersIdle DEF IInv, ProcOK
<1>3. Mine(p).pid # k
  <2>1. id[p] \in Ids
    BY DEF IInv, TypeOK
  <2>2. Known(mem[p][id[p]], id[p], chromes)
    BY <2>1 DEF IInv
  <2>. QED
    BY <2>2 DEF Known, Mine
<1>. QED
  BY <1>1, <1>2, <1>3 DEF Named

\* What is left to show of a command's step.
LEMMA SoloStep ==
    ASSUME IInv, Alone, NEW p \in setting.procs,
           \A q \in Procs \ {p} : pc'[q] = pc[q],
           \A i \in Ids : OnFile(record[i], selected[i], profile[i])',
           pc'[p] # "idle" =>
               /\ \A i \in Ids : InMemory(mem[p][i], record[i], selected[i])'
               /\ Phase(pc[p], Mine(p), record[id[p]], chromes)'
               /\ Others(p)' /\ Room(p)',
           \A k \in DOMAIN chromes' : Alive(k)' => Named(k)',
           Cardinality(Running)' <= Limit
    PROVE  Solo'
BY OthersIdle DEF Solo

LEMMA SoloMoves ==
    ASSUME IInv, Solo, Alone, NEW p \in Procs, NEW l \in Labels, NEW info \in Info, Moves(p, l, info),
           pc[p] # "idle", ChromesGoOn,
           \A i \in Ids \ {id[p]} : selected'[i] = selected[i] /\ profile'[i] = profile[i],
           OnFile(record'[id[p]], selected'[id[p]], profile'[id[p]]),
           l = "idle" \/ /\ InMemory(info, record'[id[p]], selected'[id[p]])
                         /\ Phase(l, info, record'[id[p]], chromes')
                         /\ Others(p)' /\ Room(p)',
           \A k \in 1 .. Len(chromes') :
               chromes'[k].runs /\ (k \in 1 .. Len(chromes) => chromes[k].id = id[p])
                   => /\ chromes'[k].id = id[p]
                      /\ record'[id[p]].pid = k \/ (l \in {"poll", "connect"} /\ info.pid = k),
           Cardinality(Running)' <= Limit
    PROVE  Solo'
<1>1. /\ pc'[p] = l /\ mem'[p][id[p]] = info /\ id'[p] = id[p] /\ id[p] \in Ids
      /\ \A i \in Ids \ {id[p]} : mem'[p][i] = mem[p][i] /\ record'[i] = record[i]
      /\ \A q \in Procs \ {p} : pc'[q] = pc[q]
  BY MovesForm DEF IInv
<1>2. \A i \in Ids : OnFile(record'[i], selected'[i], profile'[i])
  BY <1>1 DEF Solo
<1>3. l # "idle" => \A i \in Ids : InMemory(mem'[p][i], record'[i], selected'[i])
  BY <1>1 DEF Solo
<1>4. ASSUME NEW k \in DOMAIN chromes', Alive(k)' PROVE Named(k)'
  <2>1. k \in 1 .. Len(chromes') /\ chromes'[k].runs
    BY <1>4 DEF Alive, ChromesGoOn
  <2>2. CASE k \in 1 .. Len(chromes) => chromes[k].id = id[p]
    BY <1>1, <2>1, <2>2 DEF Named, Mine
  <2>3. CASE k \in 1 .. Len(chromes) /\ chromes[k].id # id[p]
    <3>1. chromes[k].runs /\ chromes'[k].id = chromes[k].id
      BY <2>1, <2>3 DEF ChromesGoOn
    <3>2. chromes[k] \in Chrome
      BY <2>3 DEF IInv, TypeOK
    <3>3. record[chromes[k].id].pid = k /\ chromes[k].id \in Ids
      BY <2>3, <3>1, <3>2, OtherRunning DEF Chrome
    <3>. QED
      BY <1>1, <2>3, <3>1, <3>3 DEF Named
  <2>. QED
    BY <2>2, <2>3
<1>5. p \in setting.procs
  BY DEF IInv, ProcOK
<1>6. l # "idle" => Phase(pc'[p], Mine(p)', record'[id'[p]], chromes')
  BY <1>1 DEF Mine
<1>. QED
  BY <1>1, <1>2, <1>3, <1>4, <1>5, <1>6, SoloStep

\* The steps that leave the other sessions, the ports and the number of Chromes alone.
LEMMA PlainMoves ==
    ASSUME IInv, Solo, NEW p \in Procs, NEW l \in Labels, NEW info \in Info, Moves(p, l, info),
           pc[p] # "idle", l # "idle", ChromesGoOn, Len(chromes') = Len(chromes),
           l \notin {"pruning", "count", "init", "launch", "poll"},
           l = "batch" => All(p),
           l \in Early => pc[p] \in Early,
           l = "prune" => pc[p] \in Early /\ ~All(p) /\ ~There(info),
           l = "probe" => pc[p] = "init"
    PROVE  Others(p)' /\ Room(p)'
<1>1. /\ pc'[p] = l /\ mem'[p][id[p]] = info /\ id'[p] = id[p] /\ id[p] \in Ids
      /\ \A i \in Ids \ {id[p]} : mem'[p][i] = mem[p][i] /\ (All(p) <=> All(p)')
  BY MovesForm DEF IInv, Moves, All
<1>2. Others(p) /\ Room(p)
  BY DEF Solo
<1>3. Others(p)'
  <2>1. All(p) <=> All(p)'
    BY DEF Moves, All
  <2>2. l \in Early /\ ~All(p) => \A i \in Ids \ {id[p]} : ~There(mem'[p][i])
    BY <1>1, <1>2 DEF Others
  <2>3. l = "prune" => \A i \in Ids : ~There(mem'[p][i])
    BY <1>1, <1>2 DEF Others
  <2>. QED
    BY <1>1, <2>1, <2>2, <2>3 DEF Others
<1>4. Room(p)'
  <2>1. Cardinality(Running)' <= Cardinality(Running) /\ Cardinality(Running)' \in Nat
        /\ Cardinality(Running) \in Nat /\ Limit \in Nat
    BY RunningGoesOn, BrowserSessionsAssumption DEF IInv
  <2>. HIDE DEF Running
  <2>. QED
    BY <1>1, <1>2, <2>1 DEF Room
<1>. QED
  BY <1>3, <1>4

-----------------------------------------------------------------------------
(* The steps one by one.                                                   *)

LEMMA Here ==
    ASSUME Both, NEW p \in Procs
    PROVE  /\ IInv /\ TypeOK /\ id[p] \in Ids /\ ProcOK(p)
           /\ Mine(p) \in Info /\ Known(Mine(p), id[p], chromes)
           /\ record[id[p]] \in Info
           /\ UNCHANGED mem => Keeps(p, Mine(p))
           /\ Alone /\ pc[p] # "idle" =>
                  /\ OnFile(record[id[p]], selected[id[p]], profile[id[p]])
                  /\ InMemory(Mine(p), record[id[p]], selected[id[p]])
                  /\ Phase(pc[p], Mine(p), record[id[p]], chromes)
                  /\ \A k \in 1 .. Len(chromes) : chromes[k].runs /\ chromes[k].id = id[p]
                        => k = record[id[p]].pid \/ (pc[p] \in {"poll", "connect"} /\ k = Mine(p).pid)
<1>1. TypeOK /\ id[p] \in Ids /\ ProcOK(p) /\ mem[p][id[p]] \in Info /\ record[id[p]] \in Info
  BY DEF Both, IInv, TypeOK
<1>2. Known(mem[p][id[p]], id[p], chromes)
  BY <1>1 DEF Both, IInv
<1>3. UNCHANGED mem => Keeps(p, Mine(p))
  BY <1>1, StaysKnown DEF Mine
<1>4. ASSUME Alone, pc[p] # "idle"
      PROVE  /\ OnFile(record[id[p]], selected[id[p]], profile[id[p]])
             /\ InMemory(Mine(p), record[id[p]], selected[id[p]])
             /\ Phase(pc[p], Mine(p), record[id[p]], chromes)
  BY <1>1, <1>4 DEF Both, SoloInv, Solo, Mine
<1>5. ASSUME Alone, pc[p] # "idle", NEW k \in 1 .. Len(chromes), chromes[k].runs,
             chromes[k].id = id[p]
      PROVE  k = record[id[p]].pid \/ (pc[p] \in {"poll", "connect"} /\ k = Mine(p).pid)
  <2>1. IInv /\ Solo
    BY <1>5 DEF Both, SoloInv
  <2>. QED
    BY <1>5, <2>1, OwnRunning
<1>. QED
  BY <1>1, <1>2, <1>3, <1>4, <1>5 DEF Both, Mine

LEMMA PlainStep ==
    ASSUME Both, NEW p \in Procs, NEW l \in Labels, NEW info \in Info, Moves(p, l, info),
           chromes' = chromes \/ \E k : chromes' = Terminated(k),
           Known(info, id[p], chromes), Locks(p, l),
           lock' \in [Ids -> Procs \cup {Nobody}],
           profile' \in [Ids -> Nat], selected' \in [Ids -> Nat],
           pc[p] # "idle", l # "idle" => op[p] \notin {"prune", "list"},
           l \in Launching => info.state = "starting",
           l \notin {"pruning", "count", "init", "launch", "poll"},
           Alone =>
               /\ \A i \in Ids \ {id[p]} : selected'[i] = selected[i] /\ profile'[i] = profile[i]
               /\ OnFile(record'[id[p]], selected'[id[p]], profile'[id[p]])
               /\ \A k \in 1 .. Len(chromes) : chromes'[k].runs /\ chromes[k].id = id[p]
                      => record'[id[p]].pid = k \/ (l \in {"poll", "connect"} /\ info.pid = k)
               /\ l # "idle" => /\ InMemory(info, record'[id[p]], selected'[id[p]])
                                /\ Phase(l, info, record'[id[p]], chromes')
                                /\ l = "batch" => All(p)
                                /\ l \in Early => pc[p] \in Early
                                /\ l = "prune" => pc[p] \in Early /\ ~All(p) /\ ~There(info)
                                /\ l = "probe" => pc[p] = "init"
    PROVE  Both'
<1>1. IInv /\ TypeOK
  BY DEF Both, IInv
<1>2. ChromesGoOn /\ Len(chromes') = Len(chromes)
  <2>1. CASE chromes' = chromes
    BY <1>1, <2>1 DEF ChromesGoOn, TypeOK
  <2>2. CASE \E k : chromes' = Terminated(k)
    BY <1>1, <2>2, TerminatedOK
  <2>. QED
    BY <2>1, <2>2
<1>3. Known(info, id[p], chromes')
  BY <1>1, <1>2, KnownGoesOn
<1>4. IInv'
  BY <1>1, <1>2, <1>3, MovesOK
<1>5. ASSUME Alone' PROVE Solo'
  <2>1. Alone /\ Solo
    BY <1>5 DEF Alone, Crashes, Moves, Both, SoloInv
  <2>2. Cardinality(Running)' <= Limit
    <3>1. /\ Cardinality(Running)' <= Cardinality(Running) /\ Cardinality(Running)' \in Nat
          /\ Cardinality(Running) \in Nat /\ Cardinality(Running) <= Limit /\ Limit \in Nat
      BY <1>1, <1>2, <2>1, RunningGoesOn, BrowserSessionsAssumption DEF Solo
    <3>. HIDE DEF Running
    <3>. QED
      BY <3>1
  <2>3. l # "idle" => Others(p)' /\ Room(p)'
    BY <1>1, <1>2, <2>1, PlainMoves
  <2>4. \A k \in 1 .. Len(chromes) : chromes'[k].id = chromes[k].id
    BY <1>2 DEF ChromesGoOn
  <2>. QED
    BY <1>1, <1>2, <2>1, <2>2, <2>3, <2>4, SoloMoves
<1>. QED
  BY <1>4, <1>5 DEF Both, SoloInv

\* A step that changes nothing outside the memory and the file of its session.
Quiet == UNCHANGED <<setting, lock, profile, chromes, op, id, doomed, port, selected>>

LEMMA QuietLocks ==
    ASSUME IInv, NEW p \in Procs, pc[p] \notin Locking, UNCHANGED lock, NEW l
    PROVE  Locks(p, l) /\ lock' \in [Ids -> Procs \cup {Nobody}]
BY DEF IInv, TypeOK, Locks, LocksHeld, Locking

LEMMA QuietStep ==
    ASSUME Both, NEW p \in Procs, NEW l \in Labels, NEW info \in Info, Quiet,
           Goto(p, l), Keeps(p, info), Saves(p, info) \/ UNCHANGED record,
           Known(info, id[p], chromes), pc[p] \notin Locking \cup {"idle"},
           l # "idle" => op[p] \notin {"prune", "list"},
           l \in Launching => info.state = "starting",
           l \notin {"pruning", "count", "init", "launch", "poll"},
           Alone =>
               /\ OnFile(record'[id[p]], selected[id[p]], profile[id[p]])
               /\ record'[id[p]].pid = record[id[p]].pid \/ record[id[p]].pid = 0
               /\ pc[p] \in {"poll", "connect"} =>
                      info.pid = Mine(p).pid /\ (l = "connect" \/ record'[id[p]].pid = info.pid)
               /\ l # "idle" => /\ InMemory(info, record'[id[p]], selected[id[p]])
                                /\ Phase(l, info, record'[id[p]], chromes)
                                /\ l = "batch" => All(p)
                                /\ l \in Early => pc[p] \in Early
                                /\ l = "prune" => pc[p] \in Early /\ ~All(p) /\ ~There(info)
                                /\ l = "probe" => pc[p] = "init"
    PROVE  Both'
<1>1. IInv /\ TypeOK /\ Moves(p, l, info)
  BY DEF Both, IInv, Quiet, Moves
<1>2. Locks(p, l) /\ lock' \in [Ids -> Procs \cup {Nobody}]
  BY <1>1, QuietLocks DEF Quiet
<1>3. /\ chromes' = chromes /\ profile' = profile /\ selected' = selected
      /\ profile' \in [Ids -> Nat] /\ selected' \in [Ids -> Nat]
  BY <1>1 DEF TypeOK, Quiet
<1>4. ASSUME Alone, NEW k \in 1 .. Len(chromes), chromes[k].runs, chromes[k].id = id[p]
      PROVE  record'[id[p]].pid = k \/ (l \in {"poll", "connect"} /\ info.pid = k)
  <2>1. /\ k = record[id[p]].pid \/ (pc[p] \in {"poll", "connect"} /\ k = Mine(p).pid)
        /\ pc[p] \in Launching => record[id[p]].pid = 0
    BY <1>4, Here DEF Phase
  <2>2. /\ record'[id[p]].pid = record[id[p]].pid \/ record[id[p]].pid = 0
        /\ pc[p] \in {"poll", "connect"} =>
               info.pid = Mine(p).pid /\ (l = "connect" \/ record'[id[p]].pid = info.pid)
    BY <1>4
  <2>3. k # 0 /\ {"poll", "connect"} \subseteq Launching
    BY <1>4 DEF Launching
  <2>4. CASE pc[p] \in {"poll", "connect"}
    BY <2>1, <2>2, <2>3, <2>4
  <2>5. CASE pc[p] \notin {"poll", "connect"}
    BY <2>1, <2>2, <2>3, <2>5
  <2>. QED
    BY <2>4, <2>5
<1>. QED
  BY <1>1, <1>2, <1>3, <1>4, PlainStep

LEMMA AvailableOK == ASSUME Both, NEW p \in Procs, Available(p), UNCHANGED setting PROVE Both'
<1>. DEFINE u == Mine(p)
            l == IF There(record[id[p]]) THEN "idle" ELSE "get"
<1>1. /\ Quiet /\ pc[p] = "available" /\ Goto(p, l) /\ Keeps(p, u) /\ UNCHANGED record
      /\ l \in {"idle", "get"}
  BY Here DEF Available, Quiet, procVars, Ends
<1>2. ProcOK(p) /\ u \in Info /\ Known(u, id[p], chromes)
  BY Here
<1>. HIDE DEF l
<1>3. op[p] \notin {"prune", "list"} /\ l \in Labels
  BY <1>1, <1>2 DEF ProcOK, Labels
<1>4. Alone => /\ OnFile(record[id[p]], selected[id[p]], profile[id[p]])
               /\ InMemory(u, record[id[p]], selected[id[p]])
  BY <1>1, Here
<1>5. Phase("get", u, record[id[p]], chromes)
  BY DEF Phase, Present, Launching
<1>. HIDE DEF u
<1>. QED
  BY <1>1, <1>2, <1>3, <1>4, <1>5, QuietStep DEF Early, Locking, Launching

\* What is loaded agrees with the file.
LEMMA LoadedAgrees ==
    ASSUME NEW i \in Ids, OnFile(record[i], selected[i], profile[i]), record[i] \in Info
    PROVE  /\ InMemory(Loaded(i), record[i], selected[i])
           /\ There(record[i]) <=> There(Loaded(i))
           /\ Loaded(i).pid = record[i].pid /\ Loaded(i).endpoint = record[i].endpoint
<1>1. CASE ~There(record[i])
  BY <1>1 DEF Loaded, OnFile, InMemory, There, NoInfo
<1>2. CASE There(record[i])
  <2>. DEFINE s == IF Alive(record[i].pid) THEN "started" ELSE "stopped"
  <2>1. Loaded(i) = [record[i] EXCEPT !.state = s] /\ s # "none"
    BY <1>2 DEF Loaded
  <2>. HIDE DEF s
  <2>. QED
    BY <1>2, <2>1 DEF OnFile, InMemory, There, Info
<1>. QED
  BY <1>1, <1>2

LEMMA GetSessionOK == ASSUME Both, NEW p \in Procs, GetSession(p), UNCHANGED setting PROVE Both'
<1>. DEFINE u == Mine(p)
            info == IF There(u) THEN u ELSE Loaded(id[p])
            closing == op[p] \in {"close", "closeAll"}
            l == IF ~There(info) \/ info.endpoint = 0
                 THEN IF closing /\ ~There(info) THEN IF All(p) THEN "batch" ELSE "idle"
                      ELSE IF closing THEN "stop" ELSE "clear"
                 ELSE IF Alive(info.pid) THEN "reconnect" ELSE IF All(p) THEN "batch" ELSE "idle"
<1>1. Quiet /\ pc[p] = "get" /\ Goto(p, l) /\ Keeps(p, info) /\ UNCHANGED record
  BY DEF GetSession, Quiet, Returns
<1>2. IInv /\ ProcOK(p) /\ info \in Info /\ Known(info, id[p], chromes)
  BY Here, LoadedOK
<1>3. /\ l \in {"batch", "idle", "stop", "clear", "reconnect"}
      /\ l = "batch" => All(p)
      /\ l \in {"stop", "reconnect"} => There(info)
  OBVIOUS
<1>4. Alone => /\ OnFile(record[id[p]], selected[id[p]], profile[id[p]])
               /\ InMemory(info, record[id[p]], selected[id[p]])
  BY <1>1, Here, LoadedAgrees
<1>. HIDE DEF l, info
<1>5. op[p] \notin {"prune", "list"} /\ l \in Labels
  BY <1>1, <1>2, <1>3 DEF ProcOK, Labels
<1>6. l # "idle" => Phase(l, info, record[id[p]], chromes)
  BY <1>3 DEF Phase, Present, Launching
<1>. QED
  BY <1>1, <1>2, <1>3, <1>4, <1>5, <1>6, QuietStep DEF Early, Locking, Launching

LEMMA ReconnectOK == ASSUME Both, NEW p \in Procs, Reconnect(p), UNCHANGED setting PROVE Both'
<1>. DEFINE u == Mine(p)
            info == [u EXCEPT !.state = "started"]
            l == CASE op[p] = "use" -> "lock" [] op[p] = "create" -> "idle" [] OTHER -> "stop"
<1>1. Quiet /\ pc[p] = "reconnect" /\ Goto(p, l) /\ Keeps(p, info) /\ Saves(p, info)
  BY DEF Reconnect, Quiet, Writes
<1>2. /\ IInv /\ ProcOK(p) /\ u \in Info /\ Known(u, id[p], chromes)
      /\ id[p] \in Ids /\ record \in [Ids -> Info]
  BY Here DEF TypeOK
<1>3. l \in {"lock", "idle", "stop"}
  OBVIOUS
<1>4. /\ info \in Info /\ Known(info, id[p], chromes) /\ There(info)
      /\ info.pid = u.pid /\ info.endpoint = u.endpoint /\ info.tab = u.tab
  BY <1>2 DEF Info, States, Known, There
<1>5. Alone => /\ OnFile(record[id[p]], selected[id[p]], profile[id[p]])
               /\ InMemory(u, record[id[p]], selected[id[p]]) /\ There(u)
  BY <1>1, Here DEF Phase, Present
<1>. HIDE DEF l, info, u
<1>6. record'[id[p]] = info
  BY <1>1, <1>2 DEF Saves
<1>7. Alone => OnFile(info, selected[id[p]], profile[id[p]]) /\ InMemory(info, info, selected[id[p]])
                  /\ (info.pid = record[id[p]].pid \/ record[id[p]].pid = 0)
  BY <1>4, <1>5 DEF OnFile, InMemory
<1>8. op[p] \notin {"prune", "list"} /\ l \in Labels
  BY <1>1, <1>2, <1>3 DEF ProcOK, Labels
<1>9. l # "idle" => Phase(l, info, info, chromes)
  BY <1>3, <1>4 DEF Phase, Present, Launching
<1>. QED
  BY <1>1, <1>2, <1>3, <1>4, <1>6, <1>7, <1>8, <1>9, QuietStep DEF Early, Locking, Launching

LEMMA ClearOK == ASSUME Both, NEW p \in Procs, Clear(p), UNCHANGED setting PROVE Both'
<1>. DEFINE u == Mine(p)
            loaded == LoadedAll(p)[id[p]]
            info == IF There(loaded) THEN loaded ELSE u
            l == IF There(loaded) THEN "tryLock"
                 ELSE IF op[p] = "force" \/ All(p) THEN IF All(p) THEN "batch" ELSE "idle"
                      ELSE "prune"
<1>1. id[p] \in Ids /\ loaded = IF There(u) THEN u ELSE Loaded(id[p])
  BY Here DEF LoadedAll, Mine
<1>2. IInv /\ ProcOK(p) /\ u \in Info /\ Known(u, id[p], chromes)
  BY Here
<1>3. loaded \in Info /\ Known(loaded, id[p], chromes)
  BY <1>1, <1>2, LoadedOK
<1>4. Alone /\ pc[p] = "clear" =>
          /\ OnFile(record[id[p]], selected[id[p]], profile[id[p]])
          /\ InMemory(loaded, record[id[p]], selected[id[p]])
          /\ InMemory(u, record[id[p]], selected[id[p]])
  BY <1>1, Here, LoadedAgrees
<1>5. There(u) => There(loaded)
  BY <1>1
<1>. HIDE DEF loaded
<1>6. /\ Quiet /\ pc[p] = "clear" /\ Goto(p, l) /\ Keeps(p, info) /\ UNCHANGED record
  BY Here DEF Clear, Quiet, Returns, AfterClear, loaded
<1>7. /\ l \in {"batch", "idle", "tryLock", "prune"}
      /\ l = "batch" => All(p)
      /\ l = "prune" => ~All(p) /\ ~There(info)
      /\ l = "tryLock" => There(info)
      /\ info \in {loaded, u}
  BY <1>5
<1>. HIDE DEF l, info, u
<1>8. op[p] \notin {"prune", "list"} /\ l \in Labels
  BY <1>6, <1>2, <1>7 DEF ProcOK, Labels
<1>9. l # "idle" => Phase(l, info, record[id[p]], chromes)
  BY <1>7 DEF Phase, Present, Launching
<1>10. info \in Info /\ Known(info, id[p], chromes)
  BY <1>2, <1>3, <1>7
<1>11. Alone => InMemory(info, record[id[p]], selected[id[p]])
  BY <1>4, <1>6, <1>7
<1>. QED
  BY <1>4, <1>6, <1>7, <1>8, <1>9, <1>10, <1>11, QuietStep DEF Early, Locking, Launching

LEMMA InitializeOK == ASSUME Both, NEW p \in Procs, Initialize(p), UNCHANGED setting PROVE Both'
<1>. DEFINE info == [NoInfo EXCEPT !.state = "starting"]
<1>1. Quiet /\ pc[p] = "init" /\ Goto(p, "probe") /\ Keeps(p, info) /\ Saves(p, info)
  BY DEF Initialize, Quiet, Writes
<1>2. IInv /\ ProcOK(p) /\ id[p] \in Ids /\ record \in [Ids -> Info]
  BY Here DEF TypeOK
<1>3. /\ info \in Info /\ Known(info, id[p], chromes) /\ There(info) /\ info.state = "starting"
      /\ info.pid = 0 /\ info.endpoint = 0 /\ info.tab = 0
  BY DEF Info, States, Known, There, NoInfo
<1>4. Alone => /\ OnFile(record[id[p]], selected[id[p]], profile[id[p]])
               /\ ~There(record[id[p]])
  BY <1>1, Here DEF Phase
<1>. HIDE DEF info
<1>5. record'[id[p]] = info
  BY <1>1, <1>2 DEF Saves
<1>6. Alone => OnFile(info, selected[id[p]], profile[id[p]]) /\ InMemory(info, info, selected[id[p]])
                  /\ info.pid = record[id[p]].pid
  BY <1>3, <1>4 DEF OnFile, InMemory, NoInfo
<1>7. op[p] \notin {"prune", "list"} /\ "probe" \in Labels
  BY <1>1, <1>2 DEF ProcOK, Labels
<1>8. Phase("probe", info, info, chromes)
  BY <1>3 DEF Phase, Present, Launching
<1>. QED
  BY <1>1, <1>2, <1>3, <1>5, <1>6, <1>7, <1>8, QuietStep DEF Early, Locking, Launching

LEMMA FailedOK ==
    ASSUME Both, NEW p \in Procs, pc[p] \in {"probe", "launch", "poll"}, UNCHANGED setting,
           NEW info, info = [NoInfo EXCEPT !.state = "failed"],
           record' = [record EXCEPT ![id[p]] = info]
    PROVE  /\ info \in Info /\ Known(info, id[p], chromes) /\ record'[id[p]] = info
           /\ op[p] \notin {"prune", "list"}
           /\ Alone => OnFile(info, selected[id[p]], profile[id[p]]) /\ record[id[p]].pid = 0
<1>1. ProcOK(p) /\ id[p] \in Ids /\ record \in [Ids -> Info]
  BY Here DEF TypeOK
<1>2. /\ info \in Info /\ Known(info, id[p], chromes) /\ There(info)
      /\ info.pid = 0 /\ info.endpoint = 0 /\ info.tab = 0
  BY DEF Info, States, Known, There, NoInfo
<1>3. Alone => /\ OnFile(record[id[p]], selected[id[p]], profile[id[p]])
               /\ InMemory(Mine(p), record[id[p]], selected[id[p]])
               /\ There(Mine(p)) /\ Mine(p).tab = 0 /\ record[id[p]].pid = 0
  BY Here DEF Phase, Present, Launching
<1>4. Alone => OnFile(info, selected[id[p]], profile[id[p]])
  BY <1>2, <1>3 DEF OnFile, InMemory
<1>. QED
  BY <1>1, <1>2, <1>3, <1>4 DEF ProcOK

LEMMA SetupFailsOK == ASSUME Both, NEW p \in Procs, SetupFails(p), UNCHANGED setting PROVE Both'
<1>. DEFINE info == [NoInfo EXCEPT !.state = "failed"]
<1>1. Quiet /\ pc[p] = "probe" /\ Goto(p, "idle") /\ Keeps(p, info) /\ Saves(p, info)
  BY DEF SetupFails, Quiet, Writes, Ends
<1>2. /\ info \in Info /\ Known(info, id[p], chromes) /\ record'[id[p]] = info
      /\ Alone => OnFile(info, selected[id[p]], profile[id[p]]) /\ record[id[p]].pid = 0
      /\ "idle" \in Labels
  BY <1>1, FailedOK DEF Saves, Labels
<1>. HIDE DEF info
<1>. QED
  BY <1>1, <1>2, QuietStep DEF Locking, Launching

LEMMA PollOK == ASSUME Both, NEW p \in Procs, Poll(p), UNCHANGED setting PROVE Both'
<1>. DEFINE u == Mine(p)
<1>1. PICK k \in DOMAIN chromes : Listens(k, port[p]) /\ Keeps(p, [u EXCEPT !.endpoint = k, !.port = port[p]])
  BY DEF Poll
<1>. DEFINE info == [u EXCEPT !.endpoint = k, !.port = port[p]]
<1>2. Quiet /\ pc[p] = "poll" /\ Goto(p, "connect") /\ Keeps(p, info) /\ UNCHANGED record
  BY <1>1 DEF Poll, Quiet
<1>3. /\ IInv /\ TypeOK /\ ProcOK(p) /\ u \in Info /\ Known(u, id[p], chromes)
      /\ port[p] \in Nat /\ k \in Nat
  BY <1>1, Here DEF TypeOK
<1>4. /\ info \in Info /\ Known(info, id[p], chromes) /\ info.state = u.state
      /\ info.pid = u.pid /\ info.endpoint = k /\ info.tab = u.tab
  BY <1>3 DEF Info, Known
<1>5. Alone => /\ OnFile(record[id[p]], selected[id[p]], profile[id[p]])
               /\ InMemory(u, record[id[p]], selected[id[p]])
               /\ Phase("poll", u, record[id[p]], chromes)
  BY <1>2, Here
<1>6. Alone => k = u.pid
  <2>1. Alone => Room(p)
    BY <1>2 DEF Both, SoloInv, Solo
  <2>. QED
    BY <1>1, <1>2, <2>1 DEF Room
<1>7. /\ op[p] \notin {"prune", "list"} /\ "connect" \in Labels
      /\ u.state = "starting"
  BY <1>2, <1>3 DEF ProcOK, Labels, Launching
<1>. HIDE DEF info, u
<1>8. Alone => InMemory(info, record[id[p]], selected[id[p]])
  BY <1>4, <1>5, <1>6 DEF InMemory, There
<1>9. Alone => Phase("connect", info, record[id[p]], chromes)
  BY <1>4, <1>5 DEF Phase, Present, Launching, There
<1>. QED
  BY <1>2, <1>3, <1>4, <1>5, <1>7, <1>8, <1>9, QuietStep DEF Early, Locking, Launching, u

LEMMA ConnectOK == ASSUME Both, NEW p \in Procs, Connect(p), UNCHANGED setting PROVE Both'
<1>. DEFINE u == Mine(p)
            info == [u EXCEPT !.state = "started"]
            l == IF op[p] = "use" THEN "lock" ELSE "idle"
<1>1. Quiet /\ pc[p] = "connect" /\ Goto(p, l) /\ Keeps(p, info) /\ Saves(p, info)
  BY DEF Connect, Quiet, Writes
<1>2. /\ IInv /\ ProcOK(p) /\ u \in Info /\ Known(u, id[p], chromes)
      /\ id[p] \in Ids /\ record \in [Ids -> Info]
  BY Here DEF TypeOK
<1>3. l \in {"lock", "idle"}
  OBVIOUS
<1>4. /\ info \in Info /\ Known(info, id[p], chromes) /\ There(info)
      /\ info.pid = u.pid /\ info.endpoint = u.endpoint /\ info.tab = u.tab
  BY <1>2 DEF Info, States, Known, There
<1>5. Alone => /\ OnFile(record[id[p]], selected[id[p]], profile[id[p]])
               /\ InMemory(u, record[id[p]], selected[id[p]]) /\ There(u)
               /\ record[id[p]].pid = 0
  BY <1>1, Here DEF Phase, Present, Launching
<1>6. op[p] \notin {"prune", "list"} /\ l \in Labels
  BY <1>1, <1>2, <1>3 DEF ProcOK, Labels
<1>. HIDE DEF l, info, u
<1>7. record'[id[p]] = info
  BY <1>1, <1>2 DEF Saves
<1>8. Alone => OnFile(info, selected[id[p]], profile[id[p]]) /\ InMemory(info, info, selected[id[p]])
  BY <1>4, <1>5 DEF OnFile, InMemory
<1>9. l # "idle" => Phase(l, info, info, chromes)
  BY <1>3, <1>4 DEF Phase, Present, Launching
<1>. QED
  BY <1>1, <1>2, <1>3, <1>4, <1>5, <1>6, <1>7, <1>8, <1>9, QuietStep DEF Early, Locking, Launching, u

LEMMA LockTimeoutOK == ASSUME Both, NEW p \in Procs, LockTimeout(p), UNCHANGED setting PROVE Both'
<1>. DEFINE u == Mine(p)
<1>1. Quiet /\ pc[p] = "lock" /\ Goto(p, "idle") /\ Keeps(p, u) /\ UNCHANGED record
  BY Here DEF LockTimeout, Quiet, procVars, Ends
<1>2. /\ u \in Info /\ Known(u, id[p], chromes) /\ "idle" \in Labels
      /\ Alone => OnFile(record[id[p]], selected[id[p]], profile[id[p]])
  BY <1>1, Here DEF Labels
<1>. HIDE DEF u
<1>. QED
  BY <1>1, <1>2, QuietStep DEF Locking, Launching

\* After a command has terminated the Chrome it knows none of its session runs.
LEMMA KilledOK ==
    ASSUME Both, NEW p \in Procs, pc[p] # "idle", pc[p] \in Present, Alone,
           chromes' = Terminated(Mine(p).pid)
    PROVE  \A k \in 1 .. Len(chromes) : ~(chromes'[k].runs /\ chromes[k].id = id[p])
<1>1. TypeOK /\ Mine(p) \in Info
  BY Here
<1>2. /\ InMemory(Mine(p), record[id[p]], selected[id[p]]) /\ There(Mine(p))
      /\ \A k \in 1 .. Len(chromes) : chromes[k].runs /\ chromes[k].id = id[p]
            => k = record[id[p]].pid \/ k = Mine(p).pid
  BY Here DEF Phase
<1>3. ChromesGoOn /\ (Mine(p).pid \in 1 .. Len(chromes) => ~chromes'[Mine(p).pid].runs)
  BY <1>1, TerminatedOK
<1>. SUFFICES ASSUME NEW k \in 1 .. Len(chromes), chromes'[k].runs, chromes[k].id = id[p] PROVE FALSE
  OBVIOUS
<1>4. chromes[k].runs /\ k # Mine(p).pid
  BY <1>3 DEF ChromesGoOn
<1>. QED
  BY <1>2, <1>4 DEF InMemory

LEMMA CleanedOK ==
    ASSUME Both, NEW p \in Procs, pc[p] \in {"clean", "remove"}, Alone
    PROVE  /\ \A k \in 1 .. Len(chromes) : ~(chromes[k].runs /\ chromes[k].id = id[p])
           /\ Mine(p).pid = 0 => profile[id[p]] = 0
<1>1. /\ InMemory(Mine(p), record[id[p]], selected[id[p]]) /\ There(Mine(p))
      /\ Mine(p).pid # 0 => ~chromes[Mine(p).pid].runs
      /\ OnFile(record[id[p]], selected[id[p]], profile[id[p]])
      /\ \A k \in 1 .. Len(chromes) : chromes[k].runs /\ chromes[k].id = id[p]
            => k = record[id[p]].pid
  BY Here DEF Phase, Present
<1>. QED
  BY <1>1 DEF InMemory, OnFile

LEMMA ReleasedOK ==
    ASSUME IInv, NEW p \in Procs, NEW l
    PROVE  /\ lock' = Released(p) => Locks(p, l) /\ lock' \in [Ids -> Procs \cup {Nobody}]
           /\ lock' = [lock EXCEPT ![id[p]] = Nobody] =>
                  Locks(p, l) /\ lock' \in [Ids -> Procs \cup {Nobody}]
<1>1. /\ lock \in [Ids -> Procs \cup {Nobody}] /\ p # Nobody
      /\ \A i \in Ids : lock[i] = p => i = id[p]
  BY BrowserSessionsAssumption DEF IInv, TypeOK, LocksHeld
<1>2. CASE lock' = Released(p)
  BY <1>1, <1>2 DEF Locks, Released
<1>3. CASE lock' = [lock EXCEPT ![id[p]] = Nobody]
  BY <1>1, <1>3 DEF Locks
<1>. QED
  BY <1>2, <1>3

LEMMA FilesUnchanged ==
    ASSUME TypeOK
    PROVE  /\ profile \in [Ids -> Nat] /\ selected \in [Ids -> Nat]
           /\ lock \in [Ids -> Procs \cup {Nobody}] /\ record \in [Ids -> Info]
BY DEF TypeOK

LEMMA ConnectFailsOK == ASSUME Both, NEW p \in Procs, ConnectFails(p), UNCHANGED setting PROVE Both'
<1>. DEFINE u == Mine(p)
            info == [u EXCEPT !.state = "failed"]
            l == IF All(p) THEN "batch" ELSE "idle"
<1>1. /\ pc[p] \in {"reconnect", "connect"} /\ Moves(p, l, info) /\ Saves(p, info)
      /\ UNCHANGED <<lock, profile, selected>> /\ chromes' = Terminated(u.pid)
  BY DEF ConnectFails, Moves, Writes, Returns
<1>2. /\ IInv /\ TypeOK /\ ProcOK(p) /\ u \in Info /\ Known(u, id[p], chromes)
      /\ id[p] \in Ids /\ record \in [Ids -> Info]
  BY Here DEF TypeOK
<1>3. l \in {"batch", "idle"} /\ (l = "batch" => All(p))
  OBVIOUS
<1>4. /\ info \in Info /\ Known(info, id[p], chromes) /\ There(info)
      /\ info.pid = u.pid /\ info.endpoint = u.endpoint /\ info.tab = u.tab
  BY <1>2 DEF Info, States, Known, There
<1>5. Alone => /\ OnFile(record[id[p]], selected[id[p]], profile[id[p]])
               /\ InMemory(u, record[id[p]], selected[id[p]]) /\ There(u)
               /\ \A k \in 1 .. Len(chromes) : ~(chromes'[k].runs /\ chromes[k].id = id[p])
  BY <1>1, Here, KilledOK DEF Phase, Present, Launching
<1>6. op[p] \notin {"prune", "list"} /\ l \in Labels
  BY <1>1, <1>2, <1>3 DEF ProcOK, Labels
<1>7. Locks(p, l) /\ lock' \in [Ids -> Procs \cup {Nobody}]
  BY <1>1, <1>2, QuietLocks DEF Locking
<1>. HIDE DEF l, info, u
<1>8. record'[id[p]] = info
  BY <1>1, <1>2 DEF Saves
<1>9. Alone => OnFile(info, selected[id[p]], profile[id[p]]) /\ InMemory(info, info, selected[id[p]])
  BY <1>4, <1>5 DEF OnFile, InMemory
<1>10. l # "idle" => Phase(l, info, info, chromes')
  BY <1>3 DEF Phase, Present, Launching
<1>. QED
  BY <1>1, <1>2, <1>3, <1>4, <1>5, <1>6, <1>7, <1>8, <1>9, <1>10, FilesUnchanged, PlainStep
     DEF Early, Launching

LEMMA TryLockOK == ASSUME Both, NEW p \in Procs, TryLock(p), UNCHANGED setting PROVE Both'
<1>. DEFINE u == Mine(p)
<1>1. /\ pc[p] = "tryLock" /\ Moves(p, "kill", u)
      /\ UNCHANGED <<profile, selected, record>> /\ chromes' = chromes
  BY Here DEF TryLock, Moves, procVars
<1>2. /\ IInv /\ TypeOK /\ ProcOK(p) /\ u \in Info /\ Known(u, id[p], chromes)
  BY Here
<1>3. Locks(p, "kill") /\ lock' \in [Ids -> Procs \cup {Nobody}]
  BY <1>2 DEF IInv, TypeOK, TryLock, Locks, LocksHeld, Locking
<1>4. op[p] \notin {"prune", "list"} /\ "kill" \in Labels
  BY <1>1, <1>2 DEF ProcOK, Labels
<1>5. Alone => /\ OnFile(record[id[p]], selected[id[p]], profile[id[p]])
               /\ InMemory(u, record[id[p]], selected[id[p]])
               /\ Phase("kill", u, record[id[p]], chromes)
               /\ \A k \in 1 .. Len(chromes) : chromes[k].runs /\ chromes[k].id = id[p]
                     => record[id[p]].pid = k
  BY <1>1, Here DEF Phase, Present, Launching
<1>. HIDE DEF u
<1>. QED
  BY <1>1, <1>2, <1>3, <1>4, <1>5, FilesUnchanged, PlainStep DEF Early, Launching

LEMMA KillStepOK ==
    ASSUME Both, NEW p \in Procs, UNCHANGED setting, ForceKill(p) \/ Stop(p)
    PROVE  Both'
<1>. DEFINE u == Mine(p)
            l == IF pc[p] = "kill" THEN "clean" ELSE "remove"
<1>1. /\ pc[p] \in {"kill", "stop"} /\ Moves(p, l, u) /\ chromes' = Terminated(u.pid)
      /\ UNCHANGED <<lock, profile, selected, record>>
  BY Here DEF ForceKill, Stop, Moves, procVars
<1>2. /\ IInv /\ TypeOK /\ ProcOK(p) /\ u \in Info /\ Known(u, id[p], chromes)
  BY Here
<1>3. Locks(p, l) /\ lock' \in [Ids -> Procs \cup {Nobody}]
  BY <1>1, <1>2 DEF IInv, TypeOK, Locks, LocksHeld, Locking
<1>4. op[p] \notin {"prune", "list"} /\ l \in Labels
  BY <1>1, <1>2 DEF ProcOK, Labels
<1>5. u.pid # 0 => ~chromes'[u.pid].runs
  BY <1>1, <1>2, TerminatedOK DEF Known
<1>6. Alone => /\ OnFile(record[id[p]], selected[id[p]], profile[id[p]])
               /\ InMemory(u, record[id[p]], selected[id[p]]) /\ There(u)
               /\ \A k \in 1 .. Len(chromes) : ~(chromes'[k].runs /\ chromes[k].id = id[p])
  BY <1>1, Here, KilledOK DEF Phase, Present
<1>7. Alone => Phase(l, u, record[id[p]], chromes')
  BY <1>5, <1>6 DEF Phase, Present, Launching
<1>8. l \in {"clean", "remove"} /\ (l = "clean" => pc[p] = "kill")
  OBVIOUS
<1>. HIDE DEF u, l
<1>. QED
  BY <1>1, <1>2, <1>3, <1>4, <1>6, <1>7, <1>8, FilesUnchanged, PlainStep DEF Early, Launching

LEMMA CleanStepOK ==
    ASSUME Both, NEW p \in Procs, UNCHANGED setting, ForceClean(p) \/ Remove(p)
    PROVE  Both'
<1>. DEFINE u == Mine(p)
            l == IF pc[p] = "clean" /\ op[p] # "force" /\ ~All(p) THEN "prune"
                 ELSE IF All(p) THEN "batch" ELSE "idle"
<1>1. /\ pc[p] \in {"clean", "remove"} /\ Moves(p, l, NoInfo) /\ UNCHANGED chromes
      /\ Saves(p, NoInfo) /\ profile' = Cleaned(id[p], u)
      /\ selected' = [selected EXCEPT ![id[p]] = 0] /\ lock' = [lock EXCEPT ![id[p]] = Nobody]
  BY DEF ForceClean, Remove, Moves, AfterClear, Returns, Writes
<1>2. /\ IInv /\ TypeOK /\ ProcOK(p) /\ id[p] \in Ids
  BY Here
<1>3. Locks(p, l) /\ lock' \in [Ids -> Procs \cup {Nobody}]
  BY <1>1, <1>2, ReleasedOK
<1>4. /\ l \in {"prune", "batch", "idle"}
      /\ l = "batch" => All(p)
      /\ l = "prune" => pc[p] = "clean" /\ ~All(p)
  OBVIOUS
<1>. HIDE DEF l
<1>5. op[p] \notin {"prune", "list"} /\ l \in Labels
  BY <1>1, <1>2, <1>4 DEF ProcOK, Labels
<1>6. /\ profile' \in [Ids -> Nat] /\ selected' \in [Ids -> Nat]
      /\ \A i \in Ids \ {id[p]} : selected'[i] = selected[i] /\ profile'[i] = profile[i]
      /\ selected'[id[p]] = 0 /\ record'[id[p]] = NoInfo
      /\ profile'[id[p]] = IF u.pid # 0 THEN 0 ELSE profile[id[p]]
  BY <1>1, <1>2 DEF TypeOK, Cleaned, Saves
<1>7. Alone => /\ \A k \in 1 .. Len(chromes) : ~(chromes[k].runs /\ chromes[k].id = id[p])
               /\ profile'[id[p]] = 0
  BY <1>1, <1>6, CleanedOK
<1>8. /\ OnFile(NoInfo, 0, 0) /\ InMemory(NoInfo, NoInfo, 0) /\ ~There(NoInfo)
      /\ NoInfo \in Info /\ Known(NoInfo, id[p], chromes)
      /\ l # "idle" => Phase(l, NoInfo, NoInfo, chromes)
  BY <1>4, NoInfoOK DEF OnFile, InMemory, There, NoInfo, Phase, Present, Launching
<1>. HIDE DEF u
<1>. QED
  BY <1>1, <1>2, <1>3, <1>4, <1>5, <1>6, <1>7, <1>8, PlainStep DEF Early, Launching

LEMMA LockOK == ASSUME Both, NEW p \in Procs, Lock(p), UNCHANGED setting PROVE Both'
<1>. DEFINE u == Mine(p)
<1>1. /\ pc[p] = "lock" /\ Moves(p, "work", u)
      /\ UNCHANGED <<profile, selected, record>> /\ chromes' = chromes
  BY Here DEF Lock, Moves, procVars
<1>2. /\ IInv /\ TypeOK /\ ProcOK(p) /\ u \in Info /\ Known(u, id[p], chromes)
  BY Here
<1>3. Locks(p, "work") /\ lock' \in [Ids -> Procs \cup {Nobody}]
  BY <1>2 DEF IInv, TypeOK, Lock, Locks, LocksHeld, Locking
<1>4. op[p] \notin {"prune", "list"} /\ "work" \in Labels
  BY <1>1, <1>2 DEF ProcOK, Labels
<1>5. Alone => /\ OnFile(record[id[p]], selected[id[p]], profile[id[p]])
               /\ InMemory(u, record[id[p]], selected[id[p]])
               /\ Phase("work", u, record[id[p]], chromes)
               /\ \A k \in 1 .. Len(chromes) : chromes[k].runs /\ chromes[k].id = id[p]
                     => record[id[p]].pid = k
  BY <1>1, Here DEF Phase, Present, Launching
<1>. HIDE DEF u
<1>. QED
  BY <1>1, <1>2, <1>3, <1>4, <1>5, FilesUnchanged, PlainStep DEF Early, Launching

LEMMA WorkOK == ASSUME Both, NEW p \in Procs, Work(p), UNCHANGED setting PROVE Both'
<1>. DEFINE u == Mine(p)
            e == u.endpoint
<1>1. PICK tab \in {0, 1} :
          \/ /\ Writes(p, [u EXCEPT !.tab = tab])
             /\ selected' = [selected EXCEPT ![id[p]] = tab]
          \/ UNCHANGED <<mem, record, selected>>
  BY DEF Work
<1>. DEFINE info == IF UNCHANGED <<mem, record, selected>> THEN u ELSE [u EXCEPT !.tab = tab]
<1>2. /\ pc[p] = "work" /\ Moves(p, "idle", info) /\ chromes' = chromes /\ lock' = Released(p)
      /\ profile' = IF Alive(e) THEN [profile EXCEPT ![chromes[e].id] = e] ELSE profile
  BY <1>1, Here DEF Work, Moves, Writes, Ends
<1>3. /\ IInv /\ TypeOK /\ ProcOK(p) /\ u \in Info /\ Known(u, id[p], chromes)
      /\ id[p] \in Ids /\ "idle" \in Labels /\ record \in [Ids -> Info]
  BY Here DEF Labels, TypeOK
<1>4. /\ info \in Info /\ Known(info, id[p], chromes) /\ info.state = u.state
      /\ info.pid = u.pid /\ info.endpoint = u.endpoint
  BY <1>3 DEF Info, Known
<1>5. Locks(p, "idle") /\ lock' \in [Ids -> Procs \cup {Nobody}]
  BY <1>2, <1>3, ReleasedOK
<1>6. selected' \in [Ids -> Nat] /\ \A i \in Ids \ {id[p]} : selected'[i] = selected[i]
  <2>1. selected \in [Ids -> Nat] /\ id[p] \in Ids /\ tab \in Nat
    BY <1>1, <1>3 DEF TypeOK
  <2>2. selected' = selected \/ selected' = [selected EXCEPT ![id[p]] = tab]
    BY <1>1
  <2>. QED
    BY <2>1, <2>2
<1>7. profile' \in [Ids -> Nat]
  BY <1>2, <1>3 DEF TypeOK, Info
<1>8. /\ record'[id[p]].pid \in {u.pid, record[id[p]].pid}
      /\ \/ record'[id[p]] = info /\ info.tab = selected'[id[p]]
         \/ record'[id[p]] = record[id[p]] /\ selected'[id[p]] = selected[id[p]]
  <2>1. CASE UNCHANGED <<mem, record, selected>>
    BY <2>1
  <2>2. CASE ~UNCHANGED <<mem, record, selected>>
    BY <1>1, <1>3, <2>2 DEF TypeOK, Writes, Saves, Info
  <2>. QED
    BY <2>1, <2>2
<1>9. ASSUME Alone
      PROVE  /\ \A i \in Ids \ {id[p]} : profile'[i] = profile[i]
             /\ OnFile(record'[id[p]], selected'[id[p]], profile'[id[p]])
             /\ \A k \in 1 .. Len(chromes) : chromes[k].runs /\ chromes[k].id = id[p]
                   => record'[id[p]].pid = k
  <2>1. /\ OnFile(record[id[p]], selected[id[p]], profile[id[p]])
        /\ InMemory(u, record[id[p]], selected[id[p]]) /\ There(u) /\ record[id[p]].pid = u.pid
        /\ \A k \in 1 .. Len(chromes) : chromes[k].runs /\ chromes[k].id = id[p]
              => record[id[p]].pid = k
    BY <1>2, <1>9, Here DEF Phase, Present
  <2>2. Alive(e) => e = u.pid /\ chromes[e].id = id[p]
    BY <1>3, <2>1 DEF InMemory, Known, Alive, TypeOK
  <2>3. /\ \A i \in Ids \ {id[p]} : profile'[i] = profile[i]
        /\ profile'[id[p]] \in {profile[id[p]], u.pid}
    BY <1>2, <1>3, <2>2 DEF TypeOK
  <2>. HIDE DEF info, u
  <2>4. OnFile(record'[id[p]], selected'[id[p]], profile'[id[p]])
    BY <1>4, <1>8, <2>1, <2>3 DEF OnFile, InMemory, There
  <2>. QED
    BY <1>8, <2>1, <2>3, <2>4
<1>. HIDE DEF info, u
<1>. QED
  BY <1>2, <1>3, <1>4, <1>5, <1>6, <1>7, <1>9, PlainStep DEF Launching

LEMMA StopFailsOK == ASSUME Both, NEW p \in Procs, StopFails(p), UNCHANGED setting PROVE Both'
<1>. DEFINE u == Mine(p)
            info == [u EXCEPT !.state = "stopping"]
            l == IF All(p) THEN "batch" ELSE "idle"
<1>1. /\ pc[p] = "stop" /\ Moves(p, l, info) /\ Saves(p, info) /\ chromes' = chromes
      /\ UNCHANGED <<profile, selected>> /\ lock' = [lock EXCEPT ![id[p]] = Nobody]
  BY DEF StopFails, Moves, Writes, Returns
<1>2. /\ IInv /\ TypeOK /\ ProcOK(p) /\ u \in Info /\ Known(u, id[p], chromes)
      /\ id[p] \in Ids /\ record \in [Ids -> Info]
  BY Here DEF TypeOK
<1>3. l \in {"batch", "idle"} /\ (l = "batch" => All(p))
  OBVIOUS
<1>4. /\ info \in Info /\ Known(info, id[p], chromes) /\ There(info)
      /\ info.pid = u.pid /\ info.endpoint = u.endpoint /\ info.tab = u.tab
  BY <1>2 DEF Info, States, Known, There
<1>5. Alone => /\ OnFile(record[id[p]], selected[id[p]], profile[id[p]])
               /\ InMemory(u, record[id[p]], selected[id[p]]) /\ There(u)
               /\ \A k \in 1 .. Len(chromes) : chromes[k].runs /\ chromes[k].id = id[p]
                     => record[id[p]].pid = k
  BY <1>1, Here DEF Phase, Present
<1>6. op[p] \notin {"prune", "list"} /\ l \in Labels
  BY <1>1, <1>2, <1>3 DEF ProcOK, Labels
<1>7. Locks(p, l) /\ lock' \in [Ids -> Procs \cup {Nobody}]
  BY <1>1, <1>2, ReleasedOK
<1>. HIDE DEF l, info, u
<1>8. record'[id[p]] = info
  BY <1>1, <1>2 DEF Saves
<1>9. Alone => /\ OnFile(info, selected[id[p]], profile[id[p]])
               /\ InMemory(info, info, selected[id[p]])
               /\ \A k \in 1 .. Len(chromes) : chromes[k].runs /\ chromes[k].id = id[p]
                     => info.pid = k
  BY <1>4, <1>5 DEF OnFile, InMemory
<1>10. l # "idle" => Phase(l, info, info, chromes)
  BY <1>3 DEF Phase, Present, Launching
<1>. QED
  BY <1>1, <1>2, <1>3, <1>4, <1>6, <1>7, <1>8, <1>9, <1>10, FilesUnchanged, PlainStep
     DEF Early, Launching

LEMMA LaunchFailsOK == ASSUME Both, NEW p \in Procs, LaunchFails(p), UNCHANGED setting PROVE Both'
<1>. DEFINE info == [NoInfo EXCEPT !.state = "failed"]
<1>1. /\ pc[p] \in {"probe", "launch", "poll"} /\ Moves(p, "idle", info) /\ Saves(p, info)
      /\ UNCHANGED <<lock, profile, selected>> /\ chromes' = Terminated(Mine(p).pid)
  BY DEF LaunchFails, Moves, Writes, Ends
<1>2. /\ info \in Info /\ Known(info, id[p], chromes) /\ record'[id[p]] = info
      /\ Alone => OnFile(info, selected[id[p]], profile[id[p]])
      /\ "idle" \in Labels
  BY <1>1, FailedOK DEF Saves, Labels
<1>3. IInv /\ TypeOK /\ id[p] \in Ids
  BY Here
<1>4. Locks(p, "idle") /\ lock' \in [Ids -> Procs \cup {Nobody}]
  BY <1>1, <1>3, QuietLocks DEF Locking
<1>5. Alone => \A k \in 1 .. Len(chromes) : ~(chromes'[k].runs /\ chromes[k].id = id[p])
  BY <1>1, KilledOK DEF Present, Launching
<1>. HIDE DEF info
<1>. QED
  BY <1>1, <1>2, <1>3, <1>4, <1>5, FilesUnchanged, PlainStep DEF Launching

LEMMA InterruptOK == ASSUME Both, NEW p \in Procs, Interrupt(p), UNCHANGED setting PROVE Both'
<1>. DEFINE u == Mine(p)
            info == IF pc[p] = "connect" THEN [u EXCEPT !.state = "failed"] ELSE u
<1>1. /\ pc[p] \in {"poll", "connect", "reconnect", "lock", "work"} /\ Moves(p, "idle", info)
      /\ UNCHANGED <<profile, selected>> /\ lock' = Released(p)
      /\ IF pc[p] \in {"poll", "connect"} THEN chromes' = Terminated(u.pid) ELSE chromes' = chromes
      /\ IF pc[p] = "connect" THEN Saves(p, info) ELSE record' = record
  BY Here DEF Interrupt, Moves, Writes, Ends
<1>2. /\ IInv /\ TypeOK /\ ProcOK(p) /\ u \in Info /\ Known(u, id[p], chromes)
      /\ id[p] \in Ids /\ record \in [Ids -> Info] /\ "idle" \in Labels
  BY Here DEF TypeOK, Labels
<1>3. /\ info \in Info /\ Known(info, id[p], chromes)
      /\ There(u) => There(info)
  BY <1>2 DEF Info, States, Known, There
<1>4. info.pid = u.pid /\ info.endpoint = u.endpoint /\ info.tab = u.tab
  BY <1>2 DEF Info
<1>5. Alone => /\ OnFile(record[id[p]], selected[id[p]], profile[id[p]])
               /\ InMemory(u, record[id[p]], selected[id[p]])
               /\ pc[p] = "connect" => There(u) /\ There(info)
               /\ pc[p] \in {"poll", "connect"} =>
                      \A k \in 1 .. Len(chromes) : ~(chromes'[k].runs /\ chromes[k].id = id[p])
               /\ pc[p] \notin {"poll", "connect"} =>
                      \A k \in 1 .. Len(chromes) : chromes[k].runs /\ chromes[k].id = id[p]
                            => record[id[p]].pid = k
  BY <1>1, <1>3, Here, KilledOK DEF Phase, Present, Launching
<1>6. Locks(p, "idle") /\ lock' \in [Ids -> Procs \cup {Nobody}]
  BY <1>1, <1>2, ReleasedOK
<1>. HIDE DEF info, u
<1>7. record'[id[p]] = IF pc[p] = "connect" THEN info ELSE record[id[p]]
  BY <1>1, <1>2 DEF Saves
<1>8. Alone => OnFile(record'[id[p]], selected[id[p]], profile[id[p]])
  BY <1>3, <1>4, <1>5, <1>7 DEF OnFile, InMemory
<1>9. Alone => \A k \in 1 .. Len(chromes) : chromes'[k].runs /\ chromes[k].id = id[p]
                  => record'[id[p]].pid = k
  BY <1>1, <1>5, <1>7
<1>10. chromes' = chromes \/ \E k : chromes' = Terminated(k)
  BY <1>1
<1>. QED
  BY <1>1, <1>2, <1>3, <1>6, <1>8, <1>9, <1>10, FilesUnchanged, PlainStep DEF Launching

LEMMA CrashOK == ASSUME Both, NEW p \in Procs, Crash(p), UNCHANGED setting PROVE Both'
<1>. DEFINE u == Mine(p)
<1>1. /\ pc[p] # "idle" /\ Moves(p, "idle", u) /\ ~Alone
      /\ UNCHANGED <<profile, selected, record>> /\ chromes' = chromes /\ lock' = Released(p)
  BY Here DEF Crash, Moves, procVars, Ends, Alone
<1>2. /\ IInv /\ TypeOK /\ u \in Info /\ Known(u, id[p], chromes) /\ "idle" \in Labels
  BY Here DEF Labels
<1>3. Locks(p, "idle") /\ lock' \in [Ids -> Procs \cup {Nobody}]
  BY <1>1, <1>2, ReleasedOK
<1>. HIDE DEF u
<1>. QED
  BY <1>1, <1>2, <1>3, FilesUnchanged, PlainStep DEF Launching

-----------------------------------------------------------------------------
(* The steps that concern other sessions, the ports or the number of       *)
(* Chromes.                                                                *)

LEMMA RestOK ==
    ASSUME IInv, NEW p \in Procs, TypeOK', ChromesGoOn, UNCHANGED setting,
           \A q \in Procs \ {p} : /\ pc'[q] = pc[q] /\ op'[q] = op[q] /\ id'[q] = id[q]
                                 /\ mem'[q] = mem[q] /\ doomed'[q] = doomed[q],
           \A i \in Ids : Known(record'[i], i, chromes') /\ Known(mem'[p][i], i, chromes'),
           ProcOK(p)', pc[p] \notin Locking,
           \A i \in Ids : lock'[i] \in {lock[i], Nobody}
    PROVE  IInv'
<1>1. \A q \in Procs, i \in Ids : Known(mem'[q][i], i, chromes')
  <2>. SUFFICES ASSUME NEW q \in Procs \ {p}, NEW i \in Ids PROVE Known(mem'[q][i], i, chromes')
    OBVIOUS
  <2>1. mem[q][i] \in Info /\ Known(mem[q][i], i, chromes)
    BY DEF IInv, TypeOK
  <2>. QED
    BY <2>1, KnownGoesOn DEF IInv
<1>2. ASSUME NEW q \in Procs \ {p} PROVE ProcOK(q)'
  BY DEF IInv, ProcOK, Mine
<1>3. LocksHeld'
  BY BrowserSessionsAssumption DEF IInv, LocksHeld, Locking
<1>. QED
  BY <1>1, <1>2, <1>3 DEF IInv

LEMMA NamedOnFile ==
    ASSUME IInv, Solo, Alone, NEW p \in setting.procs, pc[p] \notin {"poll", "connect"},
           NEW k \in DOMAIN chromes, Alive(k)
    PROVE  record[chromes[k].id].pid = k /\ chromes[k].id \in Ids
<1>1. chromes[k] \in Chrome /\ Named(k)
  BY DEF IInv, TypeOK, Solo
<1>. QED
  BY <1>1, OthersIdle DEF Named, Chrome

\* No Chrome is added.
LEMMA FewerRun ==
    ASSUME IInv, Solo, ChromesGoOn, Len(chromes') = Len(chromes)
    PROVE  /\ Cardinality(Running)' <= Limit
           /\ Cardinality(Running) < Limit => Cardinality(Running)' < Limit
<1>1. /\ Cardinality(Running)' <= Cardinality(Running) /\ Cardinality(Running)' \in Nat
      /\ Cardinality(Running) \in Nat /\ Cardinality(Running) <= Limit /\ Limit \in Nat
  BY RunningGoesOn, BrowserSessionsAssumption DEF IInv, Solo
<1>. HIDE DEF Running
<1>. QED
  BY <1>1

LEMMA SoloHere ==
    ASSUME Both, NEW p \in Procs, pc[p] # "idle"
    PROVE  /\ p \in setting.procs
           /\ Alone => /\ Solo /\ Others(p) /\ Room(p)
                       /\ \A i \in Ids : /\ OnFile(record[i], selected[i], profile[i])
                                          /\ InMemory(mem[p][i], record[i], selected[i])
                       /\ Phase(pc[p], Mine(p), record[id[p]], chromes)
BY DEF Both, IInv, ProcOK, SoloInv, Solo

LEMMA AloneStays == ASSUME UNCHANGED setting PROVE Alone' <=> Alone
BY DEF Alone, Crashes

LEMMA SameChromes == ASSUME TypeOK, UNCHANGED chromes PROVE ChromesGoOn /\ Len(chromes') = Len(chromes)
BY DEF TypeOK, ChromesGoOn

LEMMA LoadedAllOK ==
    ASSUME IInv, NEW p \in Procs
    PROVE  /\ LoadedAll(p) \in [Ids -> Info]
           /\ \A i \in Ids :
                  /\ Known(LoadedAll(p)[i], i, chromes)
                  /\ LoadedAll(p)[i] = IF There(mem[p][i]) THEN mem[p][i] ELSE Loaded(i)
                  /\ OnFile(record[i], selected[i], profile[i])
                     /\ InMemory(mem[p][i], record[i], selected[i]) =>
                        /\ InMemory(LoadedAll(p)[i], record[i], selected[i])
                        /\ There(record[i]) => There(LoadedAll(p)[i])
<1>1. ASSUME NEW i \in Ids
      PROVE  /\ mem[p][i] \in Info /\ Known(mem[p][i], i, chromes) /\ record[i] \in Info
             /\ Loaded(i) \in Info /\ Known(Loaded(i), i, chromes)
             /\ LoadedAll(p)[i] = IF There(mem[p][i]) THEN mem[p][i] ELSE Loaded(i)
  BY LoadedOK DEF IInv, TypeOK, LoadedAll
<1>2. LoadedAll(p) \in [Ids -> Info]
  BY <1>1 DEF LoadedAll
<1>3. ASSUME NEW i \in Ids, OnFile(record[i], selected[i], profile[i]),
             InMemory(mem[p][i], record[i], selected[i])
      PROVE  /\ InMemory(LoadedAll(p)[i], record[i], selected[i])
             /\ There(record[i]) => There(LoadedAll(p)[i])
  BY <1>1, <1>3, LoadedAgrees
<1>. QED
  BY <1>1, <1>2, <1>3

LEMMA PrunedOK == ASSUME Both, NEW p \in Procs, Pruned(p), UNCHANGED setting PROVE Both'
<1>. DEFINE u == Mine(p)
            l == IF op[p] = "prune" THEN "idle" ELSE "count"
<1>1. /\ pc[p] = "pruning" /\ doomed[p] = {} /\ Moves(p, l, u) /\ mem' = mem
      /\ UNCHANGED <<profile, selected, record, chromes, lock>>
  BY Here DEF Pruned, Moves, procVars
<1>2. /\ IInv /\ TypeOK /\ ProcOK(p) /\ u \in Info /\ Known(u, id[p], chromes) /\ id[p] \in Ids
  BY Here
<1>3. l \in Labels /\ (l = "idle" \/ op[p] \notin {"prune", "list"})
  BY <1>1, <1>2 DEF ProcOK, Labels
<1>4. Locks(p, l) /\ lock' \in [Ids -> Procs \cup {Nobody}]
  BY <1>1, <1>2, QuietLocks DEF Locking
<1>5. ChromesGoOn /\ Len(chromes') = Len(chromes)
  BY <1>1, <1>2, SameChromes
<1>6. l \in {"idle", "count"}
  OBVIOUS
<1>7. u = mem[p][id[p]]
  BY DEF Mine
<1>. HIDE DEF u, l
<1>8. IInv'
  BY <1>1, <1>2, <1>3, <1>4, <1>5, <1>6, FilesUnchanged, MovesOK DEF Launching
<1>9. ASSUME Alone PROVE Solo'
  <2>1. /\ Solo /\ Others(p) /\ \A i \in Ids : /\ OnFile(record[i], selected[i], profile[i])
                                             /\ InMemory(mem[p][i], record[i], selected[i])
    BY <1>1, <1>9, SoloHere
  <2>2. Phase(l, u, record[id[p]], chromes)
    BY <1>6 DEF Phase, Present, Launching
  <2>3. pc'[p] = l
    BY <1>1, <1>2, <1>3, MovesForm
  <2>4. l # "idle" => Others(p)' /\ Room(p)'
    BY <1>1, <1>6, <2>1, <2>3 DEF Others, Room, Early
  <2>5. \A k \in 1 .. Len(chromes) : chromes[k].runs /\ chromes[k].id = id[p] => record[id[p]].pid = k
    BY <1>1, <1>9, Here
  <2>6. Cardinality(Running)' <= Limit
    BY <1>2, <1>5, <2>1, FewerRun
  <2>. QED
    BY <1>1, <1>2, <1>3, <1>5, <1>7, <1>9, <2>1, <2>2, <2>4, <2>5, <2>6, SoloMoves
<1>. QED
  BY <1>8, <1>9, AloneStays DEF Both, SoloInv

LEMMA LaunchOK == ASSUME Both, NEW p \in Procs, Launch(p), UNCHANGED setting PROVE Both'
<1>. DEFINE u == Mine(p)
            n == Len(chromes) + 1
            c == [id |-> id[p], runs |-> TRUE, port |-> IF Bound(port[p]) THEN 0 ELSE port[p]]
            info == [u EXCEPT !.pid = n]
<1>1. /\ IInv /\ TypeOK /\ ProcOK(p) /\ u \in Info /\ Known(u, id[p], chromes) /\ id[p] \in Ids
      /\ port[p] \in Nat /\ chromes \in Seq(Chrome) /\ n \in Nat \ {0}
      /\ mem \in [Procs -> [Ids -> Info]]
  BY Here DEF TypeOK
<1>2. c \in Chrome
  BY <1>1 DEF Chrome
<1>3. pc[p] = "launch" /\ chromes' = Append(chromes, c)
  BY DEF Launch
<1>4. /\ ChromesGoOn /\ Len(chromes') = n /\ chromes'[n] = c
      /\ \A k \in 1 .. Len(chromes) : chromes'[k] = chromes[k]
  BY <1>1, <1>2, <1>3, LaunchedOK
<1>5. Moves(p, "poll", info) /\ UNCHANGED <<lock, profile, selected, record>>
  BY <1>1, <1>4 DEF Launch, Moves, Keeps, Mine
<1>6. /\ info \in Info /\ Known(info, id[p], chromes') /\ info.pid = n /\ info.state = u.state
      /\ info.endpoint = u.endpoint /\ info.tab = u.tab /\ u.state = "starting"
  <2>1. u.state = "starting"
    BY <1>1, <1>3 DEF ProcOK, Launching
  <2>2. /\ info \in Info /\ info.pid = n /\ info.state = u.state
        /\ info.endpoint = u.endpoint /\ info.tab = u.tab
    BY <1>1 DEF Info
  <2>3. n \in 1 .. Len(chromes') /\ chromes'[n].id = id[p]
    BY <1>1, <1>4
  <2>. HIDE DEF info
  <2>. QED
    BY <2>1, <2>2, <2>3 DEF Known
<1>7. op[p] \notin {"prune", "list"} /\ "poll" \in Labels
  BY <1>1, <1>3 DEF ProcOK, Labels
<1>8. Locks(p, "poll") /\ lock' \in [Ids -> Procs \cup {Nobody}]
  BY <1>1, <1>3, <1>5, QuietLocks DEF Locking
<1>9. /\ c.id = id[p] /\ c.runs /\ c.port = IF Bound(port[p]) THEN 0 ELSE port[p]
  OBVIOUS
<1>. HIDE DEF info, u, c
<1>10. IInv'
  BY <1>1, <1>3, <1>4, <1>5, <1>6, <1>7, <1>8, FilesUnchanged, MovesOK
<1>11. ASSUME Alone PROVE Solo'
  <2>1. /\ Solo /\ Others(p) /\ Room(p) /\ OnFile(record[id[p]], selected[id[p]], profile[id[p]])
        /\ InMemory(u, record[id[p]], selected[id[p]])
        /\ There(u) /\ record[id[p]].pid = 0 /\ u.pid = 0 /\ u.endpoint = 0 /\ u.tab = 0
        /\ \A k \in 1 .. Len(chromes) : ~(chromes[k].runs /\ chromes[k].id = id[p])
    BY <1>1, <1>3, <1>11, Here, SoloHere DEF Phase, Present, Launching, u
  <2>2. Phase("poll", info, record[id[p]], chromes') /\ InMemory(info, record[id[p]], selected[id[p]])
    BY <1>6, <2>1 DEF Phase, Present, Launching, InMemory, There
  <2>3. /\ pc'[p] = "poll" /\ mem'[p][id[p]] = info /\ id'[p] = id[p] /\ port' = port
        /\ DOMAIN chromes' = 1 .. n /\ DOMAIN chromes = 1 .. Len(chromes)
    BY <1>1, <1>4, <1>5, <1>6, <1>7, MovesForm DEF Moves, ChromesGoOn
  <2>4. Others(p)'
    BY <2>3 DEF Others, Early
  <2>5. Room(p)'
    <3>1. port[p] # 0 /\ \A k \in 1 .. Len(chromes) : ~Listens(k, port[p])
      BY <1>3, <2>1, <2>3 DEF Room, Bound
    <3>2. ASSUME NEW k \in 1 .. n, chromes'[k].runs, chromes'[k].port = port[p] PROVE k = n
      BY <1>1, <1>4, <2>3, <3>1, <3>2 DEF Listens, Alive
    <3>. QED
      BY <1>6, <2>3, <3>1, <3>2 DEF Room, Listens, Alive, Mine
  <2>6. Cardinality(Running)' <= Limit
    <3>1. Running' = Running \cup {n}
      BY <1>1, <1>4, <1>9, <2>3 DEF Running, Alive
    <3>2. /\ n \notin Running /\ IsFiniteSet(Running) /\ Cardinality(Running) \in Nat
          /\ Cardinality(Running) < Limit /\ Limit \in Nat
      BY <1>1, <1>3, <2>1, <2>3, RunningFinite, BrowserSessionsAssumption DEF Running, Room
    <3>3. Cardinality(Running \cup {n}) = Cardinality(Running) + 1
      BY <3>2, FS_AddElement
    <3>. HIDE DEF Running
    <3>. QED
      BY <3>1, <3>2, <3>3
  <2>7. ASSUME NEW k \in 1 .. Len(chromes'), chromes'[k].runs,
               k \in 1 .. Len(chromes) => chromes[k].id = id[p]
        PROVE  k = n /\ chromes'[k].id = id[p]
    BY <1>1, <1>4, <1>9, <2>1, <2>7
  <2>. QED
    BY <1>1, <1>3, <1>4, <1>5, <1>6, <1>7, <1>11, <2>1, <2>2, <2>4, <2>5, <2>6, <2>7, SoloMoves
<1>. QED
  BY <1>10, <1>11, AloneStays DEF Both, SoloInv

LEMMA ProbeOK == ASSUME Both, NEW p \in Procs, Probe(p), UNCHANGED setting PROVE Both'
<1>1. /\ IInv /\ TypeOK /\ ProcOK(p) /\ pc[p] = "probe" /\ pc' = [pc EXCEPT ![p] = "launch"]
      /\ UNCHANGED <<record, lock, profile, chromes, op, id, mem, doomed, selected>>
  BY Here DEF Probe, Goto
<1>2. PICK n \in 1 .. Ports :
          ~Bound(n) /\ port' = [port EXCEPT ![p] = n]
  BY DEF Probe
<1>3. n \in Nat \ {0} /\ port'[p] = n /\ port' \in [Procs -> Nat]
  BY <1>1, <1>2, BrowserSessionsAssumption DEF TypeOK
<1>4. /\ pc' \in [Procs -> Labels] /\ pc'[p] = "launch" /\ \A q \in Procs \ {p} : pc'[q] = pc[q]
  BY <1>1 DEF TypeOK, Labels
<1>5. TypeOK'
  BY <1>1, <1>3, <1>4 DEF TypeOK
<1>6. ChromesGoOn /\ Len(chromes') = Len(chromes)
  BY <1>1, SameChromes
<1>7. ProcOK(p)'
  BY <1>1, <1>4 DEF ProcOK, Mine, Launching
<1>8. IInv'
  BY <1>1, <1>4, <1>5, <1>6, <1>7, RestOK DEF IInv, Locking
<1>9. ASSUME Alone PROVE Solo'
  <2>1. /\ p \in setting.procs /\ Solo /\ Room(p)
        /\ \A i \in Ids : /\ OnFile(record[i], selected[i], profile[i])
                          /\ InMemory(mem[p][i], record[i], selected[i])
        /\ Phase("probe", Mine(p), record[id[p]], chromes)
    BY <1>1, <1>9, SoloHere
  <2>2. Phase("launch", Mine(p), record[id[p]], chromes)
    BY <2>1 DEF Phase, Present, Launching
  <2>3. Others(p)'
    BY <1>4 DEF Others, Early
  <2>4. Cardinality(Running)' <= Limit /\ Cardinality(Running)' < Limit
    BY <1>1, <1>6, <2>1, FewerRun DEF Room
  <2>5. Room(p)'
    BY <1>1, <1>2, <1>3, <1>4, <2>4 DEF Room, Bound, Listens, Alive
  <2>6. ASSUME NEW k \in DOMAIN chromes', Alive(k)' PROVE Named(k)'
    BY <1>1, <1>9, <2>1, <2>6, NamedOnFile DEF Named, Alive
  <2>. QED
    BY <1>1, <1>4, <1>9, <2>1, <2>2, <2>3, <2>4, <2>5, <2>6, SoloStep DEF Mine
<1>. QED
  BY <1>8, <1>9, AloneStays DEF Both, SoloInv

\* Chromes that are all on file are no more than the sessions.
LEMMA FewAsSessions ==
    ASSUME TypeOK, NEW S, IsFiniteSet(S),
           \A k \in Running : chromes[k].id \in S /\ record[chromes[k].id].pid = k
    PROVE  Cardinality(Running) <= Cardinality(S)
<1>. DEFINE f == [k \in Running |-> chromes[k].id]
<1>1. f \in [Running -> S] /\ \A j, k \in Running : f[j] = f[k] => j = k
  OBVIOUS
<1>. HIDE DEF f
<1>2. f \in Injection(Running, S)
  BY <1>1 DEF Injection, IsInjective
<1>. QED
  BY <1>2, FS_Injection

LEMMA MemRow ==
    ASSUME TypeOK, NEW p \in Procs, NEW m \in [Ids -> Info], mem' = [mem EXCEPT ![p] = m]
    PROVE  mem' \in [Procs -> [Ids -> Info]] /\ mem'[p] = m /\ \A q \in Procs \ {p} : mem'[q] = mem[q]
BY DEF TypeOK

LEMMA CountOK == ASSUME Both, NEW p \in Procs, Count(p), UNCHANGED setting PROVE Both'
<1>. DEFINE m == IF There(Mine(p)) THEN mem[p] ELSE LoadedAll(p)
            l == IF There(Mine(p)) \/ Cardinality(Active(m)) >= Limit THEN "idle" ELSE "init"
<1>1. IInv /\ TypeOK /\ ProcOK(p) /\ pc[p] = "count" /\ mem[p] \in [Ids -> Info] /\ id[p] \in Ids
  BY Here DEF Count, TypeOK
<1>2. /\ m \in [Ids -> Info]
      /\ \A i \in Ids : /\ Known(m[i], i, chromes)
                        /\ m[i] = mem[p][i] \/ (~There(mem[p][i]) /\ m[i] = Loaded(i))
      /\ ~There(Mine(p)) => m = LoadedAll(p)
  BY <1>1, LoadedAllOK DEF IInv
<1>3. mem' = [mem EXCEPT ![p] = m] /\ pc' = [pc EXCEPT ![p] = l]
  <2>1. CASE There(Mine(p))
    BY <1>1, <2>1 DEF Count, Ends, Goto, TypeOK
  <2>2. CASE ~There(Mine(p))
    <3>1. mem' = [mem EXCEPT ![p] = LoadedAll(p)]
      BY <2>2 DEF Count
    <3>2. mem'[p] = LoadedAll(p)
      BY <1>1, <3>1 DEF TypeOK
    <3>. QED
      BY <2>2, <3>1, <3>2 DEF Count, Goto
  <2>. QED
    BY <2>1, <2>2
<1>4. UNCHANGED <<setting, record, lock, profile, chromes, op, id, doomed, port, selected>>
  BY DEF Count
<1>5. /\ l \in {"idle", "init"}
      /\ l = "init" => ~There(Mine(p)) /\ ~(Cardinality(Active(m)) >= Limit)
  OBVIOUS
<1>. HIDE DEF m, l
<1>6. /\ mem' \in [Procs -> [Ids -> Info]] /\ mem'[p] = m
      /\ \A q \in Procs \ {p} : mem'[q] = mem[q]
  BY <1>1, <1>2, <1>3, MemRow
<1>7. /\ pc' \in [Procs -> Labels] /\ pc'[p] = l /\ \A q \in Procs \ {p} : pc'[q] = pc[q]
  BY <1>1, <1>3, <1>5 DEF TypeOK, Labels
<1>8. TypeOK'
  BY <1>1, <1>4, <1>6, <1>7 DEF TypeOK
<1>9. ChromesGoOn /\ Len(chromes') = Len(chromes)
  BY <1>1, <1>4, SameChromes
<1>10. ProcOK(p)'
  BY <1>1, <1>4, <1>5, <1>7 DEF ProcOK, Launching
<1>11. IInv'
  BY <1>1, <1>2, <1>4, <1>6, <1>7, <1>8, <1>9, <1>10, RestOK DEF IInv, Locking
<1>12. ASSUME Alone PROVE Solo'
  <2>1. /\ p \in setting.procs /\ Solo /\ Others(p)
        /\ \A i \in Ids : /\ OnFile(record[i], selected[i], profile[i])
                          /\ InMemory(mem[p][i], record[i], selected[i])
    BY <1>1, <1>12, SoloHere
  <2>2. \A i \in Ids : InMemory(m[i], record[i], selected[i])
    BY <1>1, <1>2, <2>1, LoadedAgrees DEF IInv, TypeOK
  <2>3. l = "init" => ~There(record[id[p]])
    BY <1>1, <1>5, <2>1 DEF Others, Mine
  <2>4. l # "idle" => Phase(l, m[id[p]], record[id[p]], chromes)
    BY <1>5, <2>3 DEF Phase, Present, Launching
  <2>5. l # "idle" => Others(p)'
    BY <1>5, <1>7 DEF Others, Early
  <2>6. ASSUME NEW k \in DOMAIN chromes, Alive(k)
        PROVE  record[chromes[k].id].pid = k /\ chromes[k].id \in Ids
    BY <1>1, <1>12, <2>1, <2>6, NamedOnFile
  <2>7. ASSUME l = "init" PROVE Cardinality(Running) < Limit
    <3>. DEFINE A == Active(m)
    <3>1. \A i \in Ids : There(record[i]) => i \in A
      BY <1>1, <1>2, <2>1 DEF Active, Others, There
    <3>2. A \subseteq Ids
      BY DEF Active
    <3>. HIDE DEF A
    <3>3. IsFiniteSet(A) /\ Cardinality(A) \in Nat
      BY <3>2, FS_Subset, FS_CardinalityType, BrowserSessionsAssumption
    <3>4. \A k \in Running : chromes[k].id \in A /\ record[chromes[k].id].pid = k
      <4>. SUFFICES ASSUME NEW k \in Running
                    PROVE  chromes[k].id \in A /\ record[chromes[k].id].pid = k
        OBVIOUS
      <4>1. k \in DOMAIN chromes /\ Alive(k) /\ k # 0
        BY <1>1 DEF Running, TypeOK
      <4>2. record[chromes[k].id].pid # 0 /\ chromes[k].id \in Ids
        BY <2>6, <4>1
      <4>3. There(record[chromes[k].id])
        BY <2>1, <4>2 DEF OnFile, NoInfo
      <4>. QED
        BY <2>6, <3>1, <4>1, <4>2, <4>3
    <3>5. Cardinality(Running) <= Cardinality(A)
      BY <1>1, <3>3, <3>4, FewAsSessions
    <3>6. Cardinality(Running) \in Nat /\ Limit \in Nat /\ ~(Cardinality(A) >= Limit)
      BY <1>1, <1>5, <2>7, RunningFinite, BrowserSessionsAssumption DEF A
    <3>. HIDE DEF Running
    <3>. QED
      BY <3>3, <3>5, <3>6
  <2>8. Cardinality(Running)' <= Limit /\ (l = "init" => Cardinality(Running)' < Limit)
    BY <1>1, <1>9, <2>1, <2>7, FewerRun
  <2>9. l # "idle" => Room(p)'
    BY <1>5, <1>7, <2>8 DEF Room
  <2>10. ASSUME NEW k \in DOMAIN chromes', Alive(k)' PROVE Named(k)'
    BY <1>4, <2>6, <2>10 DEF Named, Alive
  <2>. QED
    BY <1>1, <1>4, <1>6, <1>7, <1>12, <2>1, <2>2, <2>4, <2>5, <2>8, <2>9, <2>10, SoloStep DEF Mine
<1>. QED
  BY <1>11, <1>12, AloneStays DEF Both, SoloInv

\* Everything is loaded: by list and prune.
LEMMA LoadsAllOK ==
    ASSUME Both, NEW p \in Procs, NEW l \in Labels, l \notin Launching \cup {"idle", "init"} \cup Early,
           pc[p] \in {"list", "prune"}, mem' = [mem EXCEPT ![p] = LoadedAll(p)],
           pc' = [pc EXCEPT ![p] = l] \/ pc' = [pc EXCEPT ![p] = "idle"],
           NEW D \in SUBSET Ids, doomed' = [doomed EXCEPT ![p] = D],
           lock' \in [Ids -> Procs \cup {Nobody}], \A i \in Ids : lock'[i] \in {lock[i], Nobody},
           UNCHANGED <<setting, record, profile, chromes, op, id, port, selected>>,
           ProcOK(p)', Alone /\ pc'[p] # "idle" => l \notin Present /\ Others(p)'
    PROVE  Both'
<1>1. IInv /\ TypeOK /\ ProcOK(p) /\ id[p] \in Ids
  BY Here
<1>2. /\ LoadedAll(p) \in [Ids -> Info]
      /\ \A i \in Ids : Known(LoadedAll(p)[i], i, chromes)
  BY <1>1, LoadedAllOK
<1>3. /\ mem' \in [Procs -> [Ids -> Info]] /\ mem'[p] = LoadedAll(p)
      /\ \A q \in Procs \ {p} : mem'[q] = mem[q]
  BY <1>1, <1>2, MemRow
<1>4. /\ pc' \in [Procs -> Labels] /\ pc'[p] \in {l, "idle"}
      /\ \A q \in Procs \ {p} : pc'[q] = pc[q]
  <2>1. pc \in [Procs -> Labels] /\ "idle" \in Labels
    BY <1>1 DEF TypeOK, Labels
  <2>. QED
    BY <2>1
<1>5. doomed' \in [Procs -> SUBSET Ids] /\ \A q \in Procs \ {p} : doomed'[q] = doomed[q]
  BY <1>1 DEF TypeOK
<1>6. TypeOK'
  BY <1>1, <1>3, <1>4, <1>5 DEF TypeOK
<1>7. ChromesGoOn /\ Len(chromes') = Len(chromes)
  BY <1>1, SameChromes
<1>8. IInv'
  BY <1>1, <1>2, <1>3, <1>4, <1>5, <1>6, <1>7, RestOK DEF IInv, Locking
<1>9. ASSUME Alone PROVE Solo'
  <2>1. /\ p \in setting.procs /\ Solo
        /\ \A i \in Ids : /\ OnFile(record[i], selected[i], profile[i])
                          /\ InMemory(mem[p][i], record[i], selected[i])
    BY <1>9, SoloHere
  <2>2. \A i \in Ids : InMemory(LoadedAll(p)[i], record[i], selected[i])
    BY <1>1, <2>1, LoadedAllOK
  <2>3. pc'[p] # "idle" => Phase(pc'[p], Mine(p)', record'[id'[p]], chromes')
    BY <1>4, <1>9 DEF Phase, Present, Launching, Early
  <2>4. Cardinality(Running)' <= Limit
    BY <1>1, <1>7, <2>1, FewerRun
  <2>5. pc'[p] # "idle" => Room(p)'
    BY <1>4 DEF Room, Launching
  <2>6. ASSUME NEW k \in DOMAIN chromes', Alive(k)' PROVE Named(k)'
    BY <1>1, <1>9, <2>1, <2>6, NamedOnFile DEF Named, Alive
  <2>. QED
    BY <1>1, <1>3, <1>4, <1>9, <2>1, <2>2, <2>3, <2>4, <2>5, <2>6, SoloStep
<1>. QED
  BY <1>8, <1>9, AloneStays DEF Both, SoloInv

LEMMA ListOK == ASSUME Both, NEW p \in Procs, List(p), UNCHANGED setting PROVE Both'
<1>1. /\ IInv /\ TypeOK /\ ProcOK(p) /\ pc[p] = "list" /\ mem' = [mem EXCEPT ![p] = LoadedAll(p)]
      /\ UNCHANGED <<setting, record, profile, chromes, op, id, port, selected>>
  BY Here DEF List
<1>2. pc' = [pc EXCEPT ![p] = IF All(p) THEN "batch" ELSE "idle"]
  BY DEF List, Returns, Goto
<1>. DEFINE D == IF All(p) THEN {i \in Ids : There(mem'[p][i])} ELSE {}
<1>3. D \in SUBSET Ids /\ doomed' = [doomed EXCEPT ![p] = D]
  BY DEF List
<1>4. lock' \in [Ids -> Procs \cup {Nobody}] /\ \A i \in Ids : lock'[i] \in {lock[i], Nobody}
  BY <1>1 DEF List, TypeOK
<1>5. pc'[p] = IF All(p) THEN "batch" ELSE "idle"
  BY <1>1, <1>2 DEF TypeOK
<1>. HIDE DEF D
<1>6. ProcOK(p)'
  BY <1>1, <1>5 DEF ProcOK, Launching, All
<1>7. Others(p)'
  BY <1>1, <1>5 DEF Others, Early, All
<1>8. "batch" \in Labels \ (Launching \cup {"idle", "init"} \cup Early \cup Present)
  BY DEF Labels, Launching, Early, Present
<1>9. pc' = [pc EXCEPT ![p] = "batch"] \/ pc' = [pc EXCEPT ![p] = "idle"]
  BY <1>2
<1>. QED
  BY <1>1, <1>3, <1>4, <1>6, <1>7, <1>8, <1>9, LoadsAllOK

LEMMA PruneOK == ASSUME Both, NEW p \in Procs, Prune(p), UNCHANGED setting PROVE Both'
<1>1. /\ IInv /\ TypeOK /\ ProcOK(p) /\ pc[p] = "prune" /\ mem' = [mem EXCEPT ![p] = LoadedAll(p)]
      /\ pc' = [pc EXCEPT ![p] = "pruning"]
      /\ UNCHANGED <<setting, record, lock, profile, chromes, op, id, port, selected>>
  BY Here DEF Prune, Goto
<1>2. /\ LoadedAll(p) \in [Ids -> Info]
      /\ \A i \in Ids : LoadedAll(p)[i] = IF There(mem[p][i]) THEN mem[p][i] ELSE Loaded(i)
  BY <1>1, LoadedAllOK
<1>3. mem'[p] = LoadedAll(p) /\ pc'[p] = "pruning"
  BY <1>1, <1>2, MemRow DEF TypeOK
<1>. DEFINE D == {i \in Ids : LoadedAll(p)[i].state = "stopped"}
<1>4. /\ D \in SUBSET Ids /\ doomed' = [doomed EXCEPT ![p] = D]
      /\ \A i \in Ids : i \in D <=> LoadedAll(p)[i].state = "stopped"
  BY <1>3 DEF Prune
<1>5. doomed'[p] = D
  BY <1>1, <1>4 DEF TypeOK
<1>. HIDE DEF D
<1>6. ProcOK(p)'
  BY <1>1, <1>3, <1>4, <1>5 DEF ProcOK, Launching
<1>7. ASSUME Alone PROVE Others(p)'
  <2>1. /\ Others(p)
        /\ \A i \in Ids : /\ OnFile(record[i], selected[i], profile[i])
                          /\ InMemory(mem[p][i], record[i], selected[i])
    BY <1>1, <1>7, SoloHere
  <2>2. \A i \in Ids : LoadedAll(p)[i].state \in {"none", "started", "stopped"}
    BY <1>1, <1>2, <2>1, LoadedOK DEF Others
  <2>3. \A i \in Ids : There(record[i]) => There(LoadedAll(p)[i])
    BY <1>1, <2>1, LoadedAllOK
  <2>. QED
    BY <1>1, <1>3, <1>4, <1>5, <2>2, <2>3 DEF Others, Early
<1>8. "pruning" \in Labels \ (Launching \cup {"idle", "init"} \cup Early \cup Present)
  BY DEF Labels, Launching, Early, Present
<1>9. lock' \in [Ids -> Procs \cup {Nobody}]
  BY <1>1 DEF TypeOK
<1>. QED
  BY <1>1, <1>4, <1>6, <1>7, <1>8, <1>9, LoadsAllOK

LEMMA CloseNextOK == ASSUME Both, NEW p \in Procs, CloseNext(p), UNCHANGED setting PROVE Both'
<1>1. /\ IInv /\ TypeOK /\ ProcOK(p) /\ pc[p] = "batch"
      /\ UNCHANGED <<setting, record, lock, profile, chromes, op, mem, port, selected>>
  BY Here DEF CloseNext
<1>2. PICK l \in {"idle", "get", "clear"}, i \in Ids, D \in SUBSET Ids :
          /\ pc' = [pc EXCEPT ![p] = l] /\ id' = [id EXCEPT ![p] = i]
          /\ doomed' = [doomed EXCEPT ![p] = D]
  <2>1. CASE doomed[p] = {}
    <3>1. /\ pc' = [pc EXCEPT ![p] = "idle"] /\ id' = [id EXCEPT ![p] = id[p]]
          /\ doomed' = [doomed EXCEPT ![p] = doomed[p]] /\ id[p] \in Ids /\ doomed[p] \in SUBSET Ids
      BY <1>1, <2>1 DEF CloseNext, Ends, Goto, TypeOK
    <3>. QED
      BY <3>1
  <2>2. CASE doomed[p] # {}
    <3>1. PICK i \in doomed[p] :
              /\ doomed' = [doomed EXCEPT ![p] = @ \ {i}] /\ id' = [id EXCEPT ![p] = i]
              /\ Goto(p, IF op[p] = "forceAll" THEN "clear" ELSE "get")
      BY <2>2 DEF CloseNext
    <3>2. doomed[p] \ {i} \in SUBSET Ids /\ i \in Ids
      BY <1>1 DEF TypeOK
    <3>. QED
      BY <3>1, <3>2 DEF Goto
  <2>. QED
    BY <2>1, <2>2
<1>3. /\ pc' \in [Procs -> Labels] /\ id' \in [Procs -> Ids] /\ doomed' \in [Procs -> SUBSET Ids]
      /\ pc'[p] = l
      /\ \A q \in Procs \ {p} : pc'[q] = pc[q] /\ id'[q] = id[q] /\ doomed'[q] = doomed[q]
  BY <1>1, <1>2 DEF TypeOK, Labels
<1>4. TypeOK'
  BY <1>1, <1>3 DEF TypeOK
<1>5. ChromesGoOn /\ Len(chromes') = Len(chromes)
  BY <1>1, SameChromes
<1>6. ProcOK(p)'
  BY <1>1, <1>2, <1>3 DEF ProcOK, Launching
<1>7. IInv'
  BY <1>1, <1>3, <1>4, <1>5, <1>6, RestOK DEF IInv, Locking
<1>8. ASSUME Alone PROVE Solo'
  <2>1. /\ p \in setting.procs /\ Solo /\ Others(p)
        /\ \A j \in Ids : /\ OnFile(record[j], selected[j], profile[j])
                          /\ InMemory(mem[p][j], record[j], selected[j])
    BY <1>1, <1>8, SoloHere
  <2>2. l # "idle" => Phase(l, Mine(p)', record'[id'[p]], chromes')
    BY DEF Phase, Present, Launching
  <2>3. l # "idle" => Others(p)' /\ Room(p)'
    BY <1>1, <1>3, <2>1 DEF Others, Room, All
  <2>4. Cardinality(Running)' <= Limit
    BY <1>1, <1>5, <2>1, FewerRun
  <2>5. ASSUME NEW k \in DOMAIN chromes', Alive(k)' PROVE Named(k)'
    BY <1>1, <1>8, <2>1, <2>5, NamedOnFile DEF Named, Alive
  <2>. QED
    BY <1>1, <1>3, <1>8, <2>1, <2>2, <2>3, <2>4, <2>5, SoloStep
<1>. QED
  BY <1>7, <1>8, AloneStays DEF Both, SoloInv

LEMMA PruneOneOK == ASSUME Both, NEW p \in Procs, PruneOne(p), UNCHANGED setting PROVE Both'
<1>1. /\ IInv /\ TypeOK /\ ProcOK(p) /\ pc[p] = "pruning" /\ id[p] \in Ids
      /\ UNCHANGED <<setting, pc, op, id, port>>
  BY Here DEF PruneOne
<1>2. PICK i \in doomed[p] :
          /\ doomed' = [doomed EXCEPT ![p] = @ \ {i}]
          /\ chromes' = Terminated(mem[p][i].pid)
          /\ record' = [record EXCEPT ![i] = NoInfo]
          /\ mem' = [mem EXCEPT ![p][i] = NoInfo]
          /\ profile' = Cleaned(i, mem[p][i])
          /\ lock' = [lock EXCEPT ![i] = Nobody]
          /\ selected' = [selected EXCEPT ![i] = 0]
  BY DEF PruneOne
<1>. DEFINE u == mem[p][i]
            m == [mem[p] EXCEPT ![i] = NoInfo]
<1>3. /\ i \in Ids /\ u \in Info /\ u.state = "stopped" /\ Known(u, i, chromes)
      /\ mem[p] \in [Ids -> Info] /\ doomed[p] \in SUBSET Ids
  BY <1>1, <1>2 DEF IInv, TypeOK, ProcOK
<1>4. /\ m \in [Ids -> Info] /\ m[i] = NoInfo
      /\ \A j \in Ids \ {i} : m[j] = mem[p][j]
  BY <1>3, NoInfoOK
<1>5. mem' = [mem EXCEPT ![p] = m]
  BY <1>2
<1>. HIDE DEF m
<1>6. /\ mem' \in [Procs -> [Ids -> Info]] /\ mem'[p] = m
      /\ \A q \in Procs \ {p} : mem'[q] = mem[q]
  BY <1>1, <1>4, <1>5, MemRow
<1>7. /\ ChromesGoOn /\ Len(chromes') = Len(chromes) /\ chromes' \in Seq(Chrome)
      /\ \A k \in 1 .. Len(chromes) : k # u.pid => chromes'[k] = chromes[k]
  BY <1>1, <1>2, TerminatedOK DEF ChromesGoOn
<1>8. /\ record' \in [Ids -> Info] /\ record'[i] = NoInfo
      /\ \A j \in Ids \ {i} : record'[j] = record[j]
      /\ lock' \in [Ids -> Procs \cup {Nobody}] /\ \A j \in Ids : lock'[j] \in {lock[j], Nobody}
  BY <1>1, <1>2, <1>3, NoInfoOK DEF TypeOK
<1>9. /\ profile' \in [Ids -> Nat] /\ selected' \in [Ids -> Nat] /\ selected'[i] = 0
      /\ profile'[i] = IF u.pid # 0 THEN 0 ELSE profile[i]
      /\ \A j \in Ids \ {i} : profile'[j] = profile[j] /\ selected'[j] = selected[j]
  BY <1>1, <1>2, <1>3 DEF TypeOK, Cleaned
<1>10. /\ doomed' \in [Procs -> SUBSET Ids] /\ doomed'[p] = doomed[p] \ {i}
       /\ \A q \in Procs \ {p} : doomed'[q] = doomed[q]
  BY <1>1, <1>2, <1>3 DEF TypeOK
<1>. HIDE DEF u
<1>11. TypeOK'
  BY <1>1, <1>6, <1>7, <1>8, <1>9, <1>10 DEF TypeOK
<1>12. ProcOK(p)'
  BY <1>1, <1>4, <1>6, <1>10 DEF ProcOK, Launching
<1>13. \A j \in Ids : Known(record'[j], j, chromes') /\ Known(mem'[p][j], j, chromes')
  <2>. SUFFICES ASSUME NEW j \in Ids
                PROVE  Known(record'[j], j, chromes') /\ Known(mem'[p][j], j, chromes')
    OBVIOUS
  <2>1. CASE j = i
    BY <1>4, <1>6, <1>8, <2>1, NoInfoOK
  <2>2. CASE j # i
    <3>1. /\ record[j] \in Info /\ Known(record[j], j, chromes)
          /\ mem[p][j] \in Info /\ Known(mem[p][j], j, chromes)
      BY <1>1 DEF IInv, TypeOK
    <3>. QED
      BY <1>1, <1>4, <1>6, <1>7, <1>8, <2>2, <3>1, KnownGoesOn
  <2>. QED
    BY <2>1, <2>2
<1>14. IInv'
  BY <1>1, <1>6, <1>7, <1>8, <1>10, <1>11, <1>12, <1>13, RestOK DEF Locking
<1>15. ASSUME Alone PROVE Solo'
  <2>1. /\ p \in setting.procs /\ Solo /\ Others(p)
        /\ \A j \in Ids : /\ OnFile(record[j], selected[j], profile[j])
                          /\ InMemory(mem[p][j], record[j], selected[j])
    BY <1>1, <1>15, SoloHere
  <2>2. u.pid = 0 => profile[i] = 0
    BY <1>3, <2>1 DEF OnFile, InMemory, There, u
  <2>3. OnFile(NoInfo, 0, 0) /\ ~There(NoInfo) /\ \A t : InMemory(NoInfo, NoInfo, t)
    BY DEF OnFile, InMemory, There, NoInfo
  <2>4. \A j \in Ids : /\ OnFile(record'[j], selected'[j], profile'[j])
                       /\ InMemory(m[j], record'[j], selected'[j])
    BY <1>4, <1>8, <1>9, <2>1, <2>2, <2>3
  <2>5. Phase("pruning", Mine(p)', record'[id'[p]], chromes')
    BY DEF Phase, Present, Launching
  <2>6. Others(p)'
    <3>1. /\ \A j \in Ids \ (doomed[p] \ {i}) : m[j].state \in {"none", "started"}
          /\ \A j \in Ids : There(record'[j]) => There(m[j])
      BY <1>1, <1>4, <1>8, <2>1, <2>3 DEF Others, NoInfo
    <3>. QED
      BY <1>1, <1>6, <1>10, <3>1 DEF Others, Early
  <2>7. Room(p)'
    BY <1>1 DEF Room
  <2>8. Cardinality(Running)' <= Limit
    BY <1>1, <1>7, <2>1, FewerRun
  <2>9. ASSUME NEW k \in DOMAIN chromes', Alive(k)' PROVE Named(k)'
    <3>1. /\ k \in 1 .. Len(chromes) /\ chromes'[k].runs /\ chromes[k].runs
          /\ chromes'[k].id = chromes[k].id /\ k \in DOMAIN chromes
      BY <1>1, <1>7, <2>9 DEF Alive, ChromesGoOn, TypeOK
    <3>2. record[chromes[k].id].pid = k /\ chromes[k].id \in Ids
      BY <1>1, <1>15, <2>1, <3>1, NamedOnFile DEF Alive
    <3>3. chromes[k].id # i
      <4>1. SUFFICES ASSUME chromes[k].id = i PROVE FALSE
        OBVIOUS
      <4>2. There(u) /\ InMemory(u, record[i], selected[i])
        BY <1>3, <2>1 DEF There, u
      <4>3. u.pid = k
        BY <3>1, <3>2, <4>1, <4>2 DEF InMemory
      <4>. QED
        BY <1>3, <3>1, <4>3 DEF Known
    <3>. QED
      BY <1>8, <3>1, <3>2, <3>3 DEF Named
  <2>. QED
    BY <1>1, <1>6, <1>15, <2>1, <2>4, <2>5, <2>6, <2>7, <2>8, <2>9, SoloStep
<1>. QED
  BY <1>14, <1>15, AloneStays DEF Both, SoloInv

LEMMA BeginOK == ASSUME Both, NEW p \in Procs, Begin(p), UNCHANGED setting PROVE Both'
<1>1. /\ IInv /\ TypeOK /\ pc[p] = "idle" /\ p \in setting.procs /\ setting \in Setting
      /\ UNCHANGED <<setting, record, lock, profile, chromes, port, selected>>
      /\ doomed' = [doomed EXCEPT ![p] = {}]
  BY Here DEF Begin, TypeOK
<1>. DEFINE m == [i \in Ids |-> NoInfo]
<1>2. mem' = [mem EXCEPT ![p] = m]
  BY DEF Begin
<1>3. m \in [Ids -> Info] /\ \A i \in Ids : m[i] = NoInfo
  BY NoInfoOK
<1>. HIDE DEF m
<1>4. /\ mem' \in [Procs -> [Ids -> Info]] /\ mem'[p] = m
      /\ \A q \in Procs \ {p} : mem'[q] = mem[q]
  BY <1>1, <1>2, <1>3, MemRow
<1>5. PICK o \in setting.ops, i \in setting.ids :
          op' = [op EXCEPT ![p] = o] /\ id' = [id EXCEPT ![p] = i]
  BY DEF Begin
<1>6. o \in Commands /\ i \in Ids
  BY <1>1 DEF Setting
<1>7. /\ op' \in [Procs -> Commands \cup {"none"}] /\ id' \in [Procs -> Ids]
      /\ op'[p] = o /\ id'[p] = i /\ doomed' \in [Procs -> SUBSET Ids]
      /\ \A q \in Procs \ {p} : op'[q] = op[q] /\ id'[q] = id[q] /\ doomed'[q] = doomed[q]
  BY <1>1, <1>5, <1>6 DEF TypeOK
<1>. DEFINE l == CASE o = "create" -> "available"
                   [] o = "force"  -> "clear"
                   [] o = "prune"  -> "prune"
                   [] o \in {"list", "closeAll", "forceAll"} -> "list"
                   [] OTHER        -> "get"
<1>8. pc' = [pc EXCEPT ![p] = l]
  BY <1>7 DEF Begin, Goto
<1>9. /\ l \in {"available", "clear", "prune", "list", "get"}
      /\ o = "prune" => l = "prune"
      /\ o = "list" => l = "list"
  OBVIOUS
<1>. HIDE DEF l
<1>10. /\ pc' \in [Procs -> Labels] /\ pc'[p] = l
       /\ \A q \in Procs \ {p} : pc'[q] = pc[q]
  <2>1. pc \in [Procs -> Labels] /\ l \in Labels
    BY <1>1, <1>9 DEF TypeOK, Labels
  <2>. QED
    BY <1>8, <2>1
<1>11. TypeOK'
  BY <1>1, <1>4, <1>7, <1>10 DEF TypeOK
<1>12. ChromesGoOn /\ Len(chromes') = Len(chromes)
  BY <1>1, SameChromes
<1>13. ProcOK(p)'
  BY <1>1, <1>7, <1>9, <1>10 DEF ProcOK, Launching
<1>14. IInv'
  BY <1>1, <1>3, <1>4, <1>7, <1>10, <1>11, <1>12, <1>13, NoInfoOK, RestOK DEF IInv, Locking
<1>15. ASSUME Alone PROVE Solo'
  <2>1. Solo
    BY <1>15 DEF Both, SoloInv
  <2>2. ~There(NoInfo) /\ \A r, t : InMemory(NoInfo, r, t)
    BY DEF InMemory, There, NoInfo
  <2>3. Phase(l, Mine(p)', record'[id'[p]], chromes')
    BY <1>9 DEF Phase, Present, Launching
  <2>4. Others(p)' /\ Room(p)'
    BY <1>3, <1>4, <1>7, <1>9, <1>10, <2>2 DEF Others, Room
  <2>5. Cardinality(Running)' <= Limit
    BY <1>1, <1>12, <2>1, FewerRun
  <2>6. ASSUME NEW k \in DOMAIN chromes', Alive(k)' PROVE Named(k)'
    BY <1>1, <1>15, <2>1, <2>6, NamedOnFile DEF Named, Alive
  <2>7. \A j \in Ids : /\ OnFile(record[j], selected[j], profile[j])'
                       /\ InMemory(mem[p][j], record[j], selected[j])'
    BY <1>1, <1>3, <1>4, <2>1, <2>2 DEF Solo
  <2>. QED
    BY <1>1, <1>10, <1>15, <2>3, <2>4, <2>5, <2>6, <2>7, SoloStep
<1>. QED
  BY <1>14, <1>15, AloneStays DEF Both, SoloInv

LEMMA ChromeDiesOK == ASSUME Both, ChromeDies, UNCHANGED setting PROVE Both'
<1>1. /\ IInv /\ TypeOK
      /\ UNCHANGED <<setting, record, lock, profile, pc, op, id, mem, doomed, port, selected>>
  BY DEF Both, IInv, ChromeDies, procVars
<1>2. PICK k : chromes' = Terminated(k)
  BY DEF ChromeDies
<1>3. ChromesGoOn /\ Len(chromes') = Len(chromes) /\ chromes' \in Seq(Chrome)
  BY <1>1, <1>2, TerminatedOK DEF ChromesGoOn
<1>4. TypeOK'
  BY <1>1, <1>3 DEF TypeOK
<1>5. /\ \A i \in Ids : Known(record'[i], i, chromes')
      /\ \A p \in Procs, i \in Ids : Known(mem'[p][i], i, chromes')
  BY <1>1, <1>3, KnownGoesOn DEF IInv, TypeOK
<1>6. IInv'
  BY <1>1, <1>4, <1>5 DEF IInv, ProcOK, Mine, LocksHeld
<1>7. ASSUME Alone PROVE Solo'
  <2>1. Solo
    BY <1>7 DEF Both, SoloInv
  <2>2. \A j : Alive(j)' => Alive(j) /\ j \in 1 .. Len(chromes) /\ chromes'[j].id = chromes[j].id
                         /\ chromes'[j].port = chromes[j].port
    BY <1>1, <1>3 DEF Alive, ChromesGoOn, TypeOK
  <2>3. /\ Cardinality(Running)' <= Limit
        /\ Cardinality(Running) < Limit => Cardinality(Running)' < Limit
    BY <1>1, <1>3, <2>1, FewerRun
  <2>4. ASSUME NEW p \in Procs, pc'[p] # "idle"
        PROVE  /\ Phase(pc'[p], Mine(p)', record'[id'[p]], chromes')
               /\ Others(p)' /\ Room(p)'
    <3>1. Phase(pc[p], Mine(p), record[id[p]], chromes) /\ Others(p) /\ Room(p)
      BY <1>1, <2>1, <2>4 DEF Solo
    <3>2. Mine(p)' = Mine(p) /\ Mine(p) \in Info /\ Known(Mine(p), id[p], chromes)
      BY <1>1, Here DEF Mine
    <3>3. Phase(pc[p], Mine(p), record[id[p]], chromes')
      BY <1>3, <3>1, <3>2 DEF Phase, Known, ChromesGoOn, Info
    <3>4. Others(p)'
      BY <1>1, <3>1 DEF Others, All
    <3>5. Room(p)'
      <4>1. (\A j \in DOMAIN chromes : Listens(j, port[p]) => j = Mine(p).pid) =>
               \A j \in DOMAIN chromes' : Listens(j, port[p])' => j = Mine(p).pid
        BY <1>1, <2>2 DEF Listens, Alive
      <4>2. Bound(port[p])' => Bound(port[p])
        BY <1>1, <2>2 DEF Bound, Listens, Alive
      <4>. QED
        BY <1>1, <2>3, <3>1, <3>2, <4>1, <4>2 DEF Room
    <3>. QED
      BY <1>1, <3>2, <3>3, <3>4, <3>5
  <2>5. ASSUME NEW j \in DOMAIN chromes', Alive(j)' PROVE Named(j)'
    <3>1. Named(j) /\ chromes'[j].id = chromes[j].id
      BY <2>1, <2>2, <2>5 DEF Solo, Alive
    <3>. QED
      BY <1>1, <3>1 DEF Named, Mine
  <2>. QED
    BY <1>1, <2>1, <2>3, <2>4, <2>5 DEF Solo
<1>. QED
  BY <1>6, <1>7, AloneStays DEF Both, SoloInv

-----------------------------------------------------------------------------

LEMMA SoloInit == Init => SoloInv
<1>. SUFFICES ASSUME Init PROVE Solo
  BY DEF SoloInv
<1>1. Running = {}
  BY DEF Init, Running, Alive
<1>2. Cardinality(Running) <= Limit
  BY <1>1, FS_EmptySet, BrowserSessionsAssumption
<1>. QED
  BY <1>2 DEF Init, Solo, OnFile, NoInfo

LEMMA StepOK == ASSUME Both, [Next]_vars PROVE Both'
<1>1. CASE Next
  BY <1>1, BeginOK, AvailableOK, GetSessionOK, ReconnectOK, ConnectFailsOK, ClearOK, TryLockOK,
     KillStepOK, CleanStepOK, ListOK, CloseNextOK, PruneOK, PruneOneOK, PrunedOK, CountOK,
     InitializeOK, ProbeOK, LaunchOK, PollOK, SetupFailsOK, LaunchFailsOK, ConnectOK, LockOK,
     LockTimeoutOK, WorkOK, StopFailsOK, InterruptOK, CrashOK, ChromeDiesOK
     DEF Next, Step
<1>2. CASE UNCHANGED vars
  <2>1. IInv'
    BY <1>2 DEF Both, IInv, TypeOK, ProcOK, Mine, LocksHeld, vars, procVars
  <2>2. Solo => Solo'
    BY <1>2 DEF Solo, Named, Mine, Others, All, Room, Bound, Listens, Running, Alive, vars, procVars
  <2>. QED
    BY <1>2, <2>1, <2>2, AloneStays DEF Both, SoloInv, vars
<1>. QED
  BY <1>1, <1>2

\* Both invariants: of killed commands at once, and of one at a time.
THEOREM Invariance == Spec => []Both
<1>1. Init => Both
  BY InitOK, SoloInit DEF Both
<1>2. Both /\ [Next]_vars => Both'
  BY StepOK
<1>. QED
  BY <1>1, <1>2, PTL DEF Spec

\* One command at a time: what is on file of a session is true of it.
THEOREM SessionsAreOwn == Spec => []OwnBrowser
<1>1. Both => OwnBrowser
  BY DEF Both, SoloInv, Solo, OnFile, OwnBrowser
<1>. QED
  BY <1>1, Invariance, PTL

\* One command at a time: no Chrome is lost, and none is one too many.
THEOREM ChromesAccountedFor == Spec => []NoBrowserLost
<1>1. ASSUME Both PROVE NoBrowserLost
  <2>1. ASSUME Alone PROVE Solo
    BY <1>1, <2>1 DEF Both, SoloInv
  <2>2. {k \in DOMAIN chromes : Alive(k)} = Running
    BY DEF Running
  <2>3. ASSUME NEW k \in DOMAIN chromes PROVE chromes[k].id \in Ids
    <3>1. chromes[k] \in Chrome
      BY <1>1, <2>3 DEF Both, IInv, TypeOK
    <3>. QED
      BY <3>1 DEF Chrome
  <2>. QED
    BY <2>1, <2>2, <2>3 DEF NoBrowserLost, Solo, Named
<1>2. Both => NoBrowserLost
  BY <1>1
<1>. QED
  BY <1>2, Invariance, PTL

\* The steps that end a Chrome end the one their command's session started.
LEMMA EndsOwn ==
    ASSUME Both, NEW p \in Procs, Step(p) \/ Begin(p) \/ Interrupt(p) \/ Crash(p),
           NEW k \in DOMAIN chromes, Alive(k), ~chromes'[k].runs
    PROVE  pc[p] # "idle" /\ id[p] = chromes[k].id /\ op[p] \notin {"prune", "list"}
<1>1. /\ IInv /\ TypeOK /\ ProcOK(p) /\ Known(Mine(p), id[p], chromes)
      /\ k \in 1 .. Len(chromes) /\ chromes[k].runs
  BY Here DEF Alive, TypeOK
<1>2. CASE /\ chromes' = Terminated(Mine(p).pid)
           /\ pc[p] \notin {"idle", "prune", "pruning", "list"}
  <2>1. k = Mine(p).pid
    BY <1>1, <1>2, TerminatedOK
  <2>. QED
    BY <1>1, <1>2, <2>1 DEF Known, ProcOK
<1>3. CASE PruneOne(p)
  <2>1. PICK i \in doomed[p] : chromes' = Terminated(mem[p][i].pid)
    BY <1>3 DEF PruneOne
  <2>2. i \in Ids /\ mem[p][i].state = "stopped" /\ Known(mem[p][i], i, chromes)
    BY <1>1, <1>3, <2>1 DEF IInv, TypeOK, ProcOK, PruneOne
  <2>3. k = mem[p][i].pid
    BY <1>1, <2>1, TerminatedOK
  <2>. QED
    BY <1>1, <2>2, <2>3 DEF Known
<1>4. CASE Launch(p)
  <2>1. chromes' = Append(chromes, [id |-> id[p], runs |-> TRUE,
                                    port |-> IF Bound(port[p]) THEN 0 ELSE port[p]])
    BY <1>4 DEF Launch
  <2>. QED
    BY <1>1, <2>1 DEF TypeOK
<1>5. ASSUME UNCHANGED chromes PROVE FALSE
  BY <1>1, <1>5
<1>. QED
  BY <1>2, <1>3, <1>4, <1>5
     DEF Step, Begin, Interrupt, Crash, Available, GetSession, Reconnect, ConnectFails, Clear,
         TryLock, ForceKill, ForceClean, List, CloseNext, Prune, Pruned, Count, Initialize, Probe,
         Poll, SetupFails, LaunchFails, Connect, Lock, LockTimeout, Work, StopFails, Stop, Remove

\* For any number of commands at once, killed or not: a command only ends Chromes of
\* its own session, and pruning only what is dead.
THEOREM CommandsEndOwn == Spec => OnlyOwnCommandsTerminate
<1>. DEFINE A == \A k \in DOMAIN chromes :
                    Alive(k) /\ ~chromes'[k].runs /\ ~ChromeDies
                        => \E p \in Procs : /\ pc[p] # "idle" /\ id[p] = chromes[k].id
                                             /\ op[p] \notin {"prune", "list"}
<1>1. ASSUME Both, [Next]_vars PROVE [A]_vars
  <2>1. CASE UNCHANGED vars
    BY <2>1
  <2>2. CASE Next
    BY <1>1, <2>2, EndsOwn DEF Next
  <2>. QED
    BY <1>1, <2>1, <2>2
<1>2. Both /\ [Next]_vars => [A]_vars
  BY <1>1
<1>. QED
  BY <1>2, Invariance, PTL DEF Spec, OnlyOwnCommandsTerminate
=============================================================================
