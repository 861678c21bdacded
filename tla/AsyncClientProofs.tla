-------------------------- MODULE AsyncClientProofs --------------------------
(***************************************************************************)
(* The safety of the asyncio client for any number of clients, acts, steps *)
(* and cancellations: what is left of a client, what is reported of its    *)
(* acts, and whose handlers the trace logger has.                          *)
(***************************************************************************)
EXTENDS AsyncClient, TLAPS

Labels == {"new", "ready", "done"} \cup Holding \cup Starting \cup Acting \cup Stopping
Blames == {"install", "start", "stop", "lost", "cancelled"}

Task == [at : Labels, run : Nat, session : BOOLEAN, driver : BOOLEAN, browser : BOOLEAN,
         chrome : BOOLEAN, context : BOOLEAN, act : Nat, steps : Nat,
         saved : Clients \cup {Root}, exc : BOOLEAN, aborted : BOOLEAN,
         blame : SUBSET Blames]
ActRecord == [run : Nat, status : {"RUNNING", "FAILED", "SUCCEEDED"}, lost : BOOLEAN]

TypeOK ==
    /\ setting \in Setting
    /\ runs \in Seq({"RUNNING", "FAILED", "SUCCEEDED"})
    /\ acts \in Seq(ActRecord)
    /\ handlers \in Clients \cup {Root}
    /\ task \in [Clients -> Task]
    /\ \A c \in Clients : task[c].run <= Len(runs) /\ task[c].act <= Len(acts)

\* What a task that was cancelled in start() or stop(), or whose stop failed, leaves
\* is not accounted for; all others leave what NothingLeft says.
Excused(t) == t.blame \cap {"cancelled", "stop"} # {}
Settled(t) ==
    Excused(t) \/ /\ ~t.chrome
                  /\ t.driver => "install" \in t.blame
                  /\ t.browser => ~Own /\ "start" \in t.blame

\* A resource is there only if the configuration asks for it and its step has been
\* taken; the stop ends the default Chrome before it stops the driver.
Resources(t) ==
    /\ t.driver => Own
    /\ t.browser => setting.browser = "launch"
    /\ t.chrome => setting.browser = "default"
    /\ t.at \in {"new", "session", "driver"} => ~t.driver /\ ~t.browser /\ ~t.chrome
    /\ t.at \in {"default", "connect"} => ~t.browser
    /\ t.at \in {"driver", "undo", "unplug"} => Own
    /\ t.at \in {"undo", "unplug"} => ~t.chrome
    /\ t.at = "closing" => ~Own
    /\ t.at = "failed" => Settled(t)
    /\ t.at \in {"observe", "paused", "program"} => t.act # 0

RunClosed(t) == t.run # 0 /\ runs[t.run] = "RUNNING" => "lost" \in t.blame

TaskOK(t) ==
    /\ t.at # "done" => Resources(t)
    /\ t.at = "done" => Settled(t) /\ (Excused(t) \/ RunClosed(t))

\* As long as no two programs ran at once, a program that runs has put its handler
\* in the place of Root's.
HandlersOK ==
    ~overlapped =>
        \/ handlers = Root /\ \A c \in Clients : task[c].at # "program"
        \/ \E c \in Clients :
               /\ handlers = c /\ task[c].at = "program" /\ task[c].saved = Root
               /\ \A d \in Clients \ {c} : task[d].at # "program"

IInv == TypeOK /\ (\A c \in Clients : TaskOK(task[c])) /\ HandlersOK

LEMMA InitOK == Init => IInv
<1>. SUFFICES ASSUME Init PROVE IInv
  OBVIOUS
<1>1. Fresh \in Task /\ TaskOK(Fresh)
  BY DEF Fresh, Task, Labels, TaskOK, Resources
<1>2. TypeOK
  <2>1. setting \in Setting /\ task \in [Clients -> Task]
    BY <1>1, AsyncClientAssumption DEF Init
  <2>2. \A c \in Clients : task[c].run = 0 /\ task[c].act = 0
    BY DEF Init, Fresh
  <2>3. runs \in Seq({"RUNNING", "FAILED", "SUCCEEDED"}) /\ acts \in Seq(ActRecord)
    BY DEF Init
  <2>. QED
    BY <2>1, <2>2, <2>3 DEF Init, TypeOK
<1>. QED
  BY <1>1, <1>2 DEF Init, IInv, HandlersOK, Fresh

-----------------------------------------------------------------------------
(* One client's task goes on.                                              *)

\* Runs are added, and none is opened again.
RunsGoOn ==
    /\ runs' \in Seq({"RUNNING", "FAILED", "SUCCEEDED"}) /\ Len(runs) <= Len(runs')
    /\ \A r \in 1 .. Len(runs) : runs[r] # "RUNNING" => runs'[r] # "RUNNING"

LEMMA OneTask ==
    ASSUME IInv, NEW c \in Clients, NEW t \in Task, Set(c, t), UNCHANGED setting,
           RunsGoOn, acts' \in Seq(ActRecord), Len(acts) <= Len(acts'),
           t.run <= Len(runs'), t.act <= Len(acts'),
           handlers' \in Clients \cup {Root},
           t.at # "done" => Resources(t),
           t.at = "done" => /\ Settled(t)
                            /\ Excused(t) \/ (t.run # 0 /\ runs'[t.run] = "RUNNING"
                                                  => "lost" \in t.blame)
    PROVE  TypeOK' /\ \A d \in Clients : TaskOK(task[d])'
<1>1. task'[c] = t /\ \A d \in Clients \ {c} : task'[d] = task[d]
  BY DEF IInv, TypeOK, Set
<1>2. TypeOK'
  <2>1. \A d \in Clients : task'[d].run <= Len(runs') /\ task'[d].act <= Len(acts')
    <3>1. ASSUME NEW d \in Clients \ {c}
          PROVE  task'[d].run <= Len(runs') /\ task'[d].act <= Len(acts')
      <4>1. /\ task[d].run \in Nat /\ task[d].run <= Len(runs)
            /\ task[d].act \in Nat /\ task[d].act <= Len(acts)
        BY DEF IInv, TypeOK, Task
      <4>. QED
        BY <1>1, <4>1 DEF IInv, TypeOK, RunsGoOn
    <3>. QED
      BY <1>1, <3>1
  <2>2. task' \in [Clients -> Task]
    BY DEF IInv, TypeOK, Set
  <2>. QED
    BY <2>1, <2>2 DEF IInv, TypeOK, RunsGoOn
<1>3. TaskOK(task[c])'
  BY <1>1 DEF TaskOK, Resources, Settled, Excused, RunClosed, Own
<1>4. ASSUME NEW d \in Clients \ {c} PROVE TaskOK(task[d])'
  <2>1. TaskOK(task[d]) /\ task'[d] = task[d]
    BY <1>1 DEF IInv
  <2>2. task[d].run \in Nat /\ task[d].run <= Len(runs)
    BY DEF IInv, TypeOK, Task
  <2>3. RunClosed(task[d]) => RunClosed(task[d])'
    BY <2>1, <2>2 DEF RunClosed, RunsGoOn
  <2>. QED
    BY <2>1, <2>3 DEF TaskOK, Resources, Settled, Excused, Own
<1>. QED
  BY <1>2, <1>3, <1>4

\* Steps that no act and no handler has a part in.
LEMMA QuietStep ==
    ASSUME IInv, NEW c \in Clients, NEW t \in Task, Set(c, t),
           UNCHANGED <<setting, acts, logVars>>, RunsGoOn,
           t.run <= Len(runs'), t.act <= Len(acts),
           task[c].at # "program", t.at # "program",
           t.at # "done" => Resources(t),
           t.at = "done" => /\ Settled(t)
                            /\ Excused(t) \/ (t.run # 0 /\ runs'[t.run] = "RUNNING"
                                                  => "lost" \in t.blame)
    PROVE  IInv'
<1>1. TypeOK' /\ \A d \in Clients : TaskOK(task[d])'
  BY OneTask DEF IInv, TypeOK, logVars
<1>2. task'[c] = t /\ \A d \in Clients \ {c} : task'[d] = task[d]
  BY DEF IInv, TypeOK, Set
<1>3. HandlersOK'
  BY <1>2 DEF IInv, HandlersOK, logVars
<1>. QED
  BY <1>1, <1>3 DEF IInv

\* The end of a client that is settled: its run is closed or the call is lost.
LEMMA CloseRunOK ==
    ASSUME IInv, NEW c \in Clients, NEW t \in Task, NEW failed, CloseRun(c, t, failed),
           UNCHANGED <<setting, acts, logVars>>, task[c].at # "program",
           t.at = "done", Settled(t), t.run <= Len(runs), t.act <= Len(acts)
    PROVE  IInv'
<1>1. t.run \in Nat /\ runs \in Seq({"RUNNING", "FAILED", "SUCCEEDED"})
  BY DEF IInv, TypeOK, Task
<1>2. ASSUME Set(c, t), runs' = IF t.run = 0 THEN runs
                  ELSE [runs EXCEPT ![t.run] = IF failed THEN "FAILED" ELSE "SUCCEEDED"]
      PROVE  IInv'
  <2>1. RunsGoOn /\ Len(runs') = Len(runs)
    BY <1>1, <1>2 DEF RunsGoOn
  <2>2. t.run # 0 => runs'[t.run] # "RUNNING"
    BY <1>1, <1>2
  <2>. QED
    BY <1>2, <2>1, <2>2, QuietStep
<1>3. ASSUME UNCHANGED runs, Set(c, Blamed(t, "lost")) PROVE IInv'
  <2>. DEFINE v == [t EXCEPT !.blame = @ \cup {"lost"}]
  <2>1. RunsGoOn /\ Set(c, v)
    BY <1>1, <1>3 DEF RunsGoOn, Blamed
  <2>2. v \in Task /\ v.at = "done" /\ v.run = t.run /\ v.act = t.act /\ "lost" \in v.blame
    BY DEF Task, Blames
  <2>3. Settled(v)
    BY DEF Settled, Excused, Task
  <2>. HIDE DEF v
  <2>. QED
    BY <1>3, <2>1, <2>2, <2>3, QuietStep
<1>. QED
  BY <1>2, <1>3 DEF CloseRun

\* Steps of start().
LEMMA StartOK ==
    ASSUME IInv, NEW c \in Clients, UNCHANGED setting,
           \/ Enter(c) \/ CreateSession(c) \/ DriverStarts(c) \/ DefaultChromeAnswers(c)
           \/ Connects(c) \/ PageOpens(c) \/ StartBreaks(c) \/ Undo(c) \/ StartFails(c)
    PROVE  IInv'
<1>. DEFINE u == task[c]
<1>1. /\ u \in Task /\ TaskOK(u) /\ u.run <= Len(runs) /\ u.act <= Len(acts)
      /\ setting \in Setting /\ runs \in Seq({"RUNNING", "FAILED", "SUCCEEDED"})
  BY DEF IInv, TypeOK
<1>2. UNCHANGED runs => RunsGoOn
  BY <1>1 DEF RunsGoOn
<1>3. CASE Enter(c)
  <2>1. PICK t \in {[u EXCEPT !.at = "session", !.run = Len(runs')], [u EXCEPT !.at = "failed"]} :
            /\ Set(c, t)
            /\ \/ runs' = Append(runs, "RUNNING") /\ t = [u EXCEPT !.at = "session", !.run = Len(runs')]
               \/ runs' = runs /\ t = [u EXCEPT !.at = "failed"]
    BY <1>3 DEF Enter
  <2>2. RunsGoOn
    BY <1>1, <2>1 DEF RunsGoOn
  <2>3. t \in Task /\ t.run <= Len(runs') /\ t.act <= Len(acts)
    <3>1. Len(runs') \in Nat /\ u.run <= Len(runs')
      BY <1>1, <2>2 DEF RunsGoOn, Task
    <3>2. {"session", "failed"} \subseteq Labels
      BY DEF Labels, Holding
    <3>3. CASE t = [u EXCEPT !.at = "session", !.run = Len(runs')]
      <4>. DEFINE n == Len(runs')
      <4>1. n \in Nat /\ t = [u EXCEPT !.at = "session", !.run = n] /\ u.act <= Len(acts)
        BY <1>1, <3>1, <3>3
      <4>. HIDE DEF n
      <4>2. t \in Task /\ t.run = n /\ t.act = u.act
        BY <1>1, <3>2, <4>1 DEF Task
      <4>. QED
        BY <4>1, <4>2 DEF n
    <3>4. CASE t = [u EXCEPT !.at = "failed"]
      BY <1>1, <3>1, <3>2, <3>4 DEF Task
    <3>. QED
      BY <2>1, <3>3, <3>4
  <2>4. u.at = "new" /\ UNCHANGED <<acts, logVars>>
    BY <1>3 DEF Enter, Awaits
  <2>5. t.at \in {"session", "failed"} /\ Resources(t)
    BY <1>1, <2>1, <2>4 DEF TaskOK, Resources, Settled, Task
  <2>. QED
    BY <2>1, <2>2, <2>3, <2>4, <2>5, QuietStep
<1>. HIDE DEF u
\* A step that leaves the runs as they are.
<1>4. ASSUME NEW t \in Task, Set(c, t), UNCHANGED <<runs, acts, logVars>>,
             t.run = u.run, t.act = u.act, u.at # "program", t.at # "program",
             t.at # "done", Resources(t)
      PROVE  IInv'
  <2>1. u = task[c]
    BY DEF u
  <2>. QED
    BY <1>1, <1>2, <1>4, <2>1, QuietStep
<1>5. ASSUME NEW t \in Task, t.run = u.run, t.act = u.act, ~t.browser, ~t.chrome,
             t.driver => Own, u.at # "program", UNCHANGED <<runs, acts, logVars>>,
             NEW v \in Prepared(t), Set(c, v)
      PROVE  IInv'
  <2>1. \/ v = [t EXCEPT !.at = "default", !.chrome = TRUE] /\ setting.browser = "default"
        \/ v = [t EXCEPT !.at = "connect"]
        \/ v = [t EXCEPT !.at = "failed", !.blame = @ \cup {"install"}]
    BY <1>5 DEF Prepared, Blamed
  <2>2. v \in Task /\ v.run = t.run /\ v.act = t.act
    <3>1. {"default", "connect", "failed"} \subseteq Labels /\ "install" \in Blames
      BY DEF Labels, Holding, Starting, Blames
    <3>2. t.blame \cup {"install"} \in SUBSET Blames
      BY <3>1 DEF Task
    <3>. QED
      BY <1>5, <2>1, <3>1, <3>2 DEF Task
  <2>3. v.at \in {"default", "connect", "failed"} /\ Resources(v)
    <3>1. CASE v = [t EXCEPT !.at = "default", !.chrome = TRUE] /\ setting.browser = "default"
      BY <1>5, <3>1 DEF Resources, Task
    <3>2. CASE v = [t EXCEPT !.at = "connect"]
      BY <1>5, <3>2 DEF Resources, Task
    <3>3. CASE v = [t EXCEPT !.at = "failed", !.blame = @ \cup {"install"}]
      BY <1>5, <3>3 DEF Resources, Settled, Task
    <3>. QED
      BY <2>1, <3>1, <3>2, <3>3
  <2>. QED
    BY <1>4, <1>5, <2>2, <2>3
\* A step to a task that only waits for something else.
<1>6. ASSUME NEW a \in {"driver", "connect", "failed", "undo"}, Set(c, [u EXCEPT !.at = a]),
             UNCHANGED <<runs, acts, logVars>>, u.at # "program", Resources([u EXCEPT !.at = a])
      PROVE  IInv'
  <2>1. [u EXCEPT !.at = a] \in Task
    BY <1>1 DEF Task, Labels, Holding, Starting
  <2>. QED
    BY <1>1, <1>4, <1>6, <2>1 DEF Task
<1>7. CASE CreateSession(c)
  <2>. DEFINE t == [u EXCEPT !.session = TRUE]
  <2>1. t \in Task /\ t.run = u.run /\ t.act = u.act /\ t.blame = u.blame
    BY <1>1 DEF Task
  <2>2. /\ ~t.browser /\ ~t.chrome /\ ~t.driver /\ u.at = "session"
        /\ UNCHANGED <<runs, acts, logVars>>
    BY <1>1, <1>7 DEF TaskOK, Resources, Task, CreateSession, u
  <2>. HIDE DEF t
  <2>3. CASE \E v \in Prepared(t) : Set(c, v)
    BY <1>5, <2>1, <2>2, <2>3
  <2>4. ASSUME NEW a \in {"driver", "failed"}, a = "driver" => Own, Set(c, [t EXCEPT !.at = a])
        PROVE  IInv'
    <3>. DEFINE v == [t EXCEPT !.at = a]
    <3>1. v \in Task /\ v.at = a /\ v.run = u.run /\ v.act = u.act
      BY <2>1 DEF Task, Labels, Holding, Starting
    <3>2. Resources(v)
      BY <2>1, <2>2, <2>4 DEF Resources, Settled, Task
    <3>. QED
      BY <1>4, <2>2, <2>4, <3>1, <3>2
  <2>. QED
    BY <1>7, <2>3, <2>4 DEF CreateSession, t, u
<1>8. CASE DriverStarts(c)
  <2>. DEFINE t == [u EXCEPT !.driver = TRUE]
  <2>1. t \in Task /\ t.run = u.run /\ t.act = u.act /\ t.blame = u.blame
    BY <1>1 DEF Task
  <2>2. /\ ~u.browser /\ ~u.chrome /\ ~u.driver /\ u.at = "driver" /\ Own
        /\ UNCHANGED <<runs, acts, logVars>>
    BY <1>1, <1>8 DEF TaskOK, Resources, Task, DriverStarts, Awaits, u
  <2>3. CASE \E v \in Prepared(t) : Set(c, v)
    <3>1. ~t.browser /\ ~t.chrome
      BY <1>1, <2>2 DEF Task
    <3>. HIDE DEF t
    <3>. QED
      BY <1>5, <2>1, <2>2, <2>3, <3>1
  <2>4. CASE Set(c, [u EXCEPT !.at = "failed"])
    <3>1. Resources([u EXCEPT !.at = "failed"])
      BY <1>1, <2>2 DEF Resources, Settled, Task
    <3>. QED
      BY <1>6, <2>2, <2>4, <3>1
  <2>. QED
    BY <1>8, <2>3, <2>4 DEF DriverStarts, u
<1>9. CASE DefaultChromeAnswers(c)
  <2>1. u.at = "default" /\ Set(c, [u EXCEPT !.at = "connect"]) /\ UNCHANGED <<runs, acts, logVars>>
    BY <1>9 DEF DefaultChromeAnswers, Awaits, u
  <2>2. Resources([u EXCEPT !.at = "connect"])
    BY <1>1, <2>1 DEF TaskOK, Resources, Task
  <2>. QED
    BY <1>6, <2>1, <2>2
<1>10. CASE Connects(c)
  <2>. DEFINE t == [u EXCEPT !.at = "page", !.browser = setting.browser = "launch"]
  <2>1. u.at = "connect" /\ Set(c, t) /\ UNCHANGED <<runs, acts, logVars>>
    BY <1>10 DEF Connects, Awaits, u
  <2>2. t \in Task /\ t.run = u.run /\ t.act = u.act /\ t.at = "page"
    BY <1>1 DEF Task, Labels, Starting
  <2>3. Resources(t)
    BY <1>1, <2>1 DEF TaskOK, Resources, Task
  <2>. QED
    BY <1>4, <2>1, <2>2, <2>3
<1>11. CASE PageOpens(c)
  <2>. DEFINE t == [u EXCEPT !.at = "ready", !.context = TRUE]
  <2>1. u.at = "page" /\ Set(c, t) /\ UNCHANGED <<runs, acts, logVars>>
    BY <1>11 DEF PageOpens, Awaits, u
  <2>2. t \in Task /\ t.run = u.run /\ t.act = u.act /\ t.at = "ready"
    BY <1>1 DEF Task, Labels
  <2>3. Resources(t)
    BY <1>1, <2>1 DEF TaskOK, Resources, Task
  <2>. QED
    BY <1>4, <2>1, <2>2, <2>3
<1>12. CASE StartBreaks(c)
  <2>. DEFINE a == IF Own THEN "undo" ELSE "failed"
              t == [u EXCEPT !.at = a, !.chrome = FALSE, !.blame = @ \cup {"start"}]
  <2>1. /\ u.at \in {"default", "connect", "page"} /\ Set(c, t)
        /\ UNCHANGED <<runs, acts, logVars>>
    BY <1>1, <1>12 DEF StartBreaks, Awaits, Blamed, Task, u
  <2>2. a \in Labels /\ u.blame \cup {"start"} \in SUBSET Blames
    BY <1>1 DEF Task, Labels, Starting, Holding, Blames
  <2>3. /\ t \in Task /\ t.run = u.run /\ t.act = u.act
        /\ t.at = a /\ t.at \in {"undo", "failed"}
    BY <1>1, <2>2 DEF Task
  <2>4. Resources(t)
    BY <1>1, <2>1 DEF TaskOK, Resources, Settled, Task
  <2>. QED
    BY <1>4, <2>1, <2>3, <2>4
<1>13. CASE Undo(c)
  <2>1. /\ u.at = "undo" /\ UNCHANGED <<runs, acts, logVars>>
        /\ \/ Set(c, [u EXCEPT !.at = "failed", !.driver = FALSE, !.browser = FALSE])
           \/ Set(c, [u EXCEPT !.at = "failed", !.blame = @ \cup {"stop"}])
    BY <1>1, <1>13 DEF Undo, Awaits, Blamed, Task, u
  <2>2. "failed" \in Labels /\ u.blame \cup {"stop"} \in SUBSET Blames
    BY <1>1 DEF Task, Labels, Holding, Blames
  <2>3. CASE Set(c, [u EXCEPT !.at = "failed", !.driver = FALSE, !.browser = FALSE])
    <3>. DEFINE t == [u EXCEPT !.at = "failed", !.driver = FALSE, !.browser = FALSE]
    <3>1. t \in Task /\ t.run = u.run /\ t.act = u.act /\ t.at = "failed"
      BY <1>1, <2>2 DEF Task
    <3>2. Resources(t)
      BY <1>1, <2>1 DEF TaskOK, Resources, Settled, Excused, Task
    <3>. QED
      BY <1>4, <2>1, <2>3, <3>1, <3>2
  <2>4. CASE Set(c, [u EXCEPT !.at = "failed", !.blame = @ \cup {"stop"}])
    <3>. DEFINE t == [u EXCEPT !.at = "failed", !.blame = @ \cup {"stop"}]
    <3>1. t \in Task /\ t.run = u.run /\ t.act = u.act /\ t.at = "failed"
      BY <1>1, <2>2 DEF Task
    <3>2. Resources(t)
      BY <1>1, <2>1 DEF TaskOK, Resources, Settled, Excused, Task
    <3>. QED
      BY <1>4, <2>1, <2>4, <3>1, <3>2
  <2>. QED
    BY <2>1, <2>3, <2>4
<1>14. CASE StartFails(c)
  <2>. DEFINE t == [u EXCEPT !.at = "done", !.session = FALSE]
  <2>1. u.at = "failed" /\ CloseRun(c, t, FALSE) /\ UNCHANGED <<acts, logVars>>
    BY <1>14 DEF StartFails, u
  <2>2. t \in Task /\ t.run = u.run /\ t.act = u.act /\ t.at = "done"
    BY <1>1 DEF Task, Labels
  <2>3. Settled(t)
    BY <1>1, <2>1 DEF TaskOK, Resources, Settled, Excused, Task
  <2>4. u = task[c]
    BY DEF u
  <2>. HIDE DEF t
  <2>. QED
    BY <1>1, <2>1, <2>2, <2>3, <2>4, CloseRunOK
<1>. QED
  BY <1>3, <1>7, <1>8, <1>9, <1>10, <1>11, <1>12, <1>13, <1>14

-----------------------------------------------------------------------------
(* stop()                                                                  *)

\* The driver is stopped last, and what it did not launch is closed last.
LEMMA StopAwaitsForm ==
    ASSUME setting \in Setting
    PROVE  /\ StopAwaits \in Seq(Stopping)
           /\ \A i \in 1 .. Len(StopAwaits) :
                  /\ StopAwaits[i] = "closing" => ~Own
                  /\ StopAwaits[i] = "unplug" => Own
                  /\ i < Len(StopAwaits) => StopAwaits[i] \in {"saving", "draining"}
           /\ Own => Len(StopAwaits) # 0 /\ StopAwaits[Len(StopAwaits)] = "unplug"
           /\ ~Own /\ setting.browser = "launch" =>
                  Len(StopAwaits) # 0 /\ StopAwaits[Len(StopAwaits)] = "closing"
<1>. DEFINE saved == IF setting.saves THEN <<"saving", "draining">> ELSE <<>>
            ends == IF Own THEN <<"unplug">>
                    ELSE IF setting.browser = "launch" THEN <<"closing">> ELSE <<>>
<1>1. StopAwaits = saved \o ends
  BY DEF StopAwaits
<1>2. saved = <<>> \/ saved = <<"saving", "draining">>
  OBVIOUS
<1>3. \/ ends = <<"unplug">> /\ Own
      \/ ends = <<"closing">> /\ ~Own /\ setting.browser = "launch"
      \/ ends = <<>> /\ ~Own /\ setting.browser # "launch"
  OBVIOUS
<1>. HIDE DEF saved, ends
<1>4. /\ saved \in Seq(Stopping) /\ ends \in Seq(Stopping) /\ StopAwaits \in Seq(Stopping)
      /\ Len(StopAwaits) = Len(saved) + Len(ends)
  <2>1. /\ <<"saving", "draining">> \in Seq(Stopping)
        /\ <<"unplug">> \in Seq(Stopping) /\ <<"closing">> \in Seq(Stopping)
    BY DEF Stopping
  <2>2. <<>> \in Seq(Stopping)
    OBVIOUS
  <2>3. saved \in Seq(Stopping) /\ ends \in Seq(Stopping)
    BY <1>2, <1>3, <2>1, <2>2, Zenon
  <2>. QED
    BY <1>1, <2>3
<1>5. /\ \A i \in 1 .. Len(saved) : StopAwaits[i] = saved[i]
      /\ \A i \in 1 .. Len(ends) : StopAwaits[Len(saved) + i] = ends[i]
  BY <1>1, <1>4
<1>6. \A i \in 1 .. Len(saved) : saved[i] \in {"saving", "draining"}
  BY <1>2
<1>7. Len(saved) \in {0, 2}
  BY <1>2
<1>8. ASSUME NEW a \in {"unplug", "closing"}, ends = <<a>>
      PROVE  /\ Len(StopAwaits) = Len(saved) + 1 /\ StopAwaits[Len(StopAwaits)] = a
             /\ \A i \in 1 .. Len(StopAwaits) - 1 : StopAwaits[i] \in {"saving", "draining"}
  BY <1>4, <1>5, <1>6, <1>7, <1>8
<1>9. CASE ends = <<>>
  BY <1>3, <1>4, <1>5, <1>6, <1>7, <1>9
<1>. QED
  BY <1>3, <1>4, <1>8, <1>9

\* At a point of stop() that is before its i-th await nothing is left that no await
\* from there on ends.
Ahead(t, i) ==
    /\ t.driver => Own
    /\ t.browser => setting.browser = "launch"
    /\ t.chrome => setting.browser = "default"
    /\ i > Len(StopAwaits) => Excused(t) \/ (~t.driver /\ ~t.browser)

LEMMA StopFromOK ==
    ASSUME IInv, NEW c \in Clients, NEW t \in Task, NEW i \in Nat \ {0}, StopFrom(c, t, i),
           UNCHANGED <<setting, acts, logVars>>, task[c].at # "program",
           t.run <= Len(runs), t.act <= Len(acts), Ahead(t, i)
    PROVE  IInv'
<1>1. setting \in Setting /\ runs \in Seq({"RUNNING", "FAILED", "SUCCEEDED"})
  BY DEF IInv, TypeOK
<1>2. UNCHANGED runs => RunsGoOn
  BY <1>1 DEF RunsGoOn
<1>3. CASE t.aborted
  <2>. DEFINE v == [t EXCEPT !.at = "done", !.blame = @ \cup {"cancelled"}]
  <2>1. Set(c, v) /\ UNCHANGED runs
    BY <1>3 DEF StopFrom, Blamed, Task
  <2>2. v \in Task /\ v.at = "done" /\ v.run = t.run /\ v.act = t.act
    BY DEF Task, Blames, Labels
  <2>3. Excused(v) /\ Settled(v)
    BY DEF Settled, Excused, Task
  <2>. HIDE DEF v
  <2>. QED
    BY <1>2, <2>1, <2>2, <2>3, QuietStep
<1>4. CASE ~t.aborted /\ i > Len(StopAwaits)
  <2>. DEFINE v == Finished(t)
  <2>1. CloseRun(c, v, t.exc)
    BY <1>4 DEF StopFrom
  <2>2. /\ v \in Task /\ v.at = "done" /\ v.run = t.run /\ v.act = t.act /\ ~v.chrome
        /\ v.driver = t.driver /\ v.browser = t.browser /\ v.blame = t.blame
    BY DEF Finished, Task, Labels
  <2>. HIDE DEF v
  <2>3. Settled(v)
    BY <1>4, <2>2 DEF Ahead, Settled, Excused
  <2>. QED
    BY <2>1, <2>2, <2>3, CloseRunOK
<1>5. CASE ~t.aborted /\ ~(i > Len(StopAwaits))
  <2>. DEFINE a == StopAwaits[i]
              v == [t EXCEPT !.at = a, !.chrome = @ /\ a # "unplug"]
  <2>1. Set(c, v) /\ UNCHANGED runs
    BY <1>5 DEF StopFrom
  <2>2. i \in 1 .. Len(StopAwaits) /\ a \in Stopping
    BY <1>1, <1>5, StopAwaitsForm
  <2>3. (a = "closing" => ~Own) /\ (a = "unplug" => Own)
    BY <1>1, <2>2, StopAwaitsForm
  <2>. HIDE DEF a
  <2>4. /\ v \in Task /\ v.at = a /\ v.run = t.run /\ v.act = t.act
        /\ v.driver = t.driver /\ v.browser = t.browser
        /\ v.chrome => t.chrome /\ a # "unplug"
    BY <2>2 DEF Task, Labels
  <2>. HIDE DEF v
  <2>5. Resources(v)
    BY <2>2, <2>3, <2>4 DEF Ahead, Resources, Stopping
  <2>. QED
    BY <1>2, <2>1, <2>2, <2>4, <2>5, QuietStep DEF Stopping
<1>. QED
  BY <1>3, <1>4, <1>5

LEMMA StopOK ==
    ASSUME IInv, NEW c \in Clients, UNCHANGED setting,
           Leave(c) \/ StopGoesOn(c) \/ StopBreaks(c)
    PROVE  IInv'
<1>. DEFINE u == task[c]
<1>1. /\ u \in Task /\ TaskOK(u) /\ u.run <= Len(runs) /\ u.act <= Len(acts)
      /\ setting \in Setting /\ runs \in Seq({"RUNNING", "FAILED", "SUCCEEDED"})
  BY DEF IInv, TypeOK
<1>2. ASSUME Leave(c) PROVE IInv'
  <2>1. PICK exc \in BOOLEAN : StopFrom(c, [u EXCEPT !.exc = exc], 1)
    BY <1>2 DEF Leave
  <2>. DEFINE t == [u EXCEPT !.exc = exc]
  <2>2. u.at = "ready" /\ UNCHANGED <<acts, logVars>>
    BY <1>2 DEF Leave, Awaits
  <2>3. /\ t \in Task /\ t.run = u.run /\ t.act = u.act
        /\ t.driver = u.driver /\ t.browser = u.browser /\ t.chrome = u.chrome
    BY <1>1 DEF Task
  <2>5. StopFrom(c, t, 1) /\ 1 \in Nat \ {0}
    BY <2>1
  <2>. HIDE DEF t
  <2>4. Ahead(t, 1)
    <3>1. 1 > Len(StopAwaits) => ~Own /\ setting.browser # "launch"
      BY <1>1, StopAwaitsForm
    <3>. QED
      BY <1>1, <2>2, <2>3, <3>1 DEF TaskOK, Resources, Ahead
  <2>. QED
    BY <1>1, <2>2, <2>3, <2>4, <2>5, StopFromOK
<1>3. ASSUME StopGoesOn(c) PROVE IInv'
  <2>1. PICK i \in DOMAIN StopAwaits, t \in Stopped(u) :
            u.at = StopAwaits[i] /\ StopFrom(c, t, i + 1)
    BY <1>3 DEF StopGoesOn, Awaits
  <2>2. /\ i \in 1 .. Len(StopAwaits) /\ u.at \in Stopping /\ i + 1 \in Nat \ {0}
        /\ UNCHANGED <<acts, logVars>>
    BY <1>1, <1>3, <2>1, StopAwaitsForm DEF StopGoesOn
  <2>3. /\ t \in Task /\ t.run = u.run /\ t.act = u.act /\ t.chrome = u.chrome
        /\ t.driver => u.driver /\ u.at # "unplug"
        /\ t.browser => u.browser /\ u.at # "unplug" /\ (u.at = "closing" => Excused(t))
    <3>1. u.at = "closing" =>
              \/ t = [u EXCEPT !.browser = FALSE, !.context = FALSE]
              \/ t = [u EXCEPT !.context = FALSE, !.blame = @ \cup {"stop"}]
      BY <1>1, <2>1 DEF Stopped, Blamed, Task
    <3>2. u.at = "unplug" => t = [u EXCEPT !.driver = FALSE, !.browser = FALSE]
      BY <1>1, <2>1 DEF Stopped
    <3>3. u.at \notin {"closing", "unplug"} => t = u
      BY <1>1, <2>1 DEF Stopped
    <3>4. u.blame \cup {"stop"} \in SUBSET Blames
      BY <1>1 DEF Task, Blames
    <3>5. ASSUME NEW w \in Task,
                 \/ t = [w EXCEPT !.browser = FALSE, !.context = FALSE]
                 \/ /\ t = [w EXCEPT !.context = FALSE, !.blame = @ \cup {"stop"}]
                    /\ w.blame \cup {"stop"} \in SUBSET Blames
          PROVE  /\ t \in Task /\ t.run = w.run /\ t.act = w.act /\ t.chrome = w.chrome
                 /\ t.driver = w.driver /\ (t.browser => w.browser /\ Excused(t))
      BY <3>5 DEF Excused, Task
    <3>6. u.at = "unplug" =>
              /\ t \in Task /\ t.run = u.run /\ t.act = u.act /\ t.chrome = u.chrome
              /\ ~t.driver /\ ~t.browser
      BY <1>1, <3>2 DEF Task
    <3>. HIDE DEF u
    <3>. QED
      BY <1>1, <3>1, <3>3, <3>4, <3>5, <3>6
  <2>4. Ahead(t, i + 1)
    <3>1. i + 1 > Len(StopAwaits) =>
              /\ Own => u.at = "unplug"
              /\ ~Own /\ setting.browser = "launch" => u.at = "closing"
      BY <1>1, <2>1, <2>2, StopAwaitsForm
    <3>2. /\ u.driver => Own
          /\ u.browser => setting.browser = "launch"
          /\ u.chrome => setting.browser = "default"
      BY <1>1, <2>2 DEF TaskOK, Resources, Stopping
    <3>. QED
      BY <2>3, <3>1, <3>2 DEF Ahead
  <2>. HIDE DEF u
  <2>5. u = task[c]
    BY DEF u
  <2>. QED
    BY <1>1, <2>1, <2>2, <2>3, <2>4, <2>5, StopFromOK DEF Stopping
<1>4. ASSUME StopBreaks(c) PROVE IInv'
  <2>. DEFINE t == [u EXCEPT !.at = "done", !.blame = @ \cup {"stop"}]
  <2>1. u.at = "unplug" /\ Set(c, t) /\ UNCHANGED <<runs, acts, logVars>>
    BY <1>1, <1>4 DEF StopBreaks, Awaits, Blamed, Task
  <2>2. /\ t \in Task /\ t.at = "done" /\ t.run = u.run /\ t.act = u.act
        /\ Excused(t) /\ Settled(t)
    BY <1>1 DEF Task, Labels, Blames, Excused, Settled
  <2>3. RunsGoOn
    BY <1>1, <2>1 DEF RunsGoOn
  <2>. HIDE DEF t
  <2>. QED
    BY <1>1, <2>1, <2>2, <2>3, QuietStep
<1>. QED
  BY <1>2, <1>3, <1>4

-----------------------------------------------------------------------------
(* Cancellation of start() and stop().                                     *)

LEMMA CancelOK ==
    ASSUME IInv, NEW c \in Clients, UNCHANGED setting, CancelStart(c) \/ CancelStop(c)
    PROVE  IInv'
<1>. DEFINE u == task[c]
<1>1. /\ u \in Task /\ TaskOK(u) /\ u.run <= Len(runs) /\ u.act <= Len(acts)
      /\ setting \in Setting /\ runs \in Seq({"RUNNING", "FAILED", "SUCCEEDED"})
      /\ u.at \in Starting \cup Stopping /\ UNCHANGED <<runs, acts, logVars>>
  BY DEF IInv, TypeOK, CancelStart, CancelStop
<1>2. RunsGoOn
  BY <1>1 DEF RunsGoOn
<1>3. ASSUME Abandoned(c) PROVE IInv'
  <2>1. PICK d \in BOOLEAN, b \in BOOLEAN :
            Set(c, Blamed([u EXCEPT !.at = "done", !.driver = d, !.browser = b], "cancelled"))
    BY <1>3 DEF Abandoned
  <2>. DEFINE v == [u EXCEPT !.at = "done", !.driver = d, !.browser = b]
              t == [v EXCEPT !.blame = @ \cup {"cancelled"}]
  <2>2. v \in Task /\ v.at = "done" /\ v.run = u.run /\ v.act = u.act /\ Set(c, t)
    BY <1>1, <2>1 DEF Task, Labels, Blamed
  <2>. HIDE DEF v
  <2>3. /\ t \in Task /\ t.at = "done" /\ t.run = v.run /\ t.act = v.act
        /\ Excused(t) /\ Settled(t)
    BY <2>2 DEF Task, Blames, Excused, Settled
  <2>. HIDE DEF t
  <2>4. u.at # "program"
    BY <1>1 DEF Starting, Stopping
  <2>. QED
    BY <1>1, <1>2, <2>2, <2>3, <2>4, QuietStep
<1>4. ASSUME u.at = "saving", Set(c, [u EXCEPT !.at = "draining", !.aborted = TRUE]) PROVE IInv'
  <2>. DEFINE t == [u EXCEPT !.at = "draining", !.aborted = TRUE]
  <2>1. t \in Task /\ t.at = "draining" /\ t.run = u.run /\ t.act = u.act
    BY <1>1 DEF Task, Labels, Stopping
  <2>2. Resources(t)
    BY <1>1, <1>4 DEF TaskOK, Resources, Task
  <2>. HIDE DEF t
  <2>. QED
    BY <1>1, <1>2, <1>4, <2>1, <2>2, QuietStep DEF t
<1>. QED
  BY <1>3, <1>4 DEF CancelStart, CancelStop

-----------------------------------------------------------------------------
(* Acts, the programs they run and the handlers.                           *)

\* The handlers the logger gets when a client's act goes on without its program.
LEMMA HandlersLeft ==
    ASSUME IInv, NEW c \in Clients, NEW t, Set(c, t), t.at # "program", UNCHANGED overlapped,
           handlers' = IF task[c].at = "program" THEN task[c].saved ELSE handlers
    PROVE  HandlersOK' /\ handlers' \in Clients \cup {Root}
<1>1. task'[c] = t /\ \A d \in Clients \ {c} : task'[d] = task[d]
  BY DEF IInv, TypeOK, Set
<1>2. task[c].saved \in Clients \cup {Root} /\ handlers \in Clients \cup {Root}
  BY DEF IInv, TypeOK, Task
<1>. QED
  BY <1>1, <1>2 DEF IInv, HandlersOK

\* A program is entered, by a client that left another one or not.
LEMMA HandlersTaken ==
    ASSUME IInv, NEW c \in Clients, NEW t, Set(c, t), t.at = "program", handlers' = c,
           t.saved = IF task[c].at = "program" THEN task[c].saved ELSE handlers,
           overlapped' = (overlapped \/ \E d \in Clients \ {c} : task[d].at = "program")
    PROVE  HandlersOK'
<1>1. task'[c] = t /\ \A d \in Clients \ {c} : task'[d] = task[d]
  BY DEF IInv, TypeOK, Set
<1>2. ASSUME ~overlapped' PROVE t.saved = Root /\ \A d \in Clients \ {c} : task[d].at # "program"
  BY <1>2 DEF IInv, HandlersOK
<1>. QED
  BY <1>1, <1>2 DEF HandlersOK

\* An act is begun, or goes on.
LEMMA ActStep ==
    ASSUME IInv, NEW c \in Clients, NEW t \in Task, Set(c, t), UNCHANGED <<setting, runs>>,
           acts' \in Seq(ActRecord), Len(acts) <= Len(acts'),
           t.run = task[c].run, t.act <= Len(acts'), t.at # "done", Resources(t),
           HandlersOK', handlers' \in Clients \cup {Root}
    PROVE  IInv'
<1>1. RunsGoOn /\ t.run <= Len(runs')
  BY DEF IInv, TypeOK, RunsGoOn
<1>2. TypeOK' /\ \A d \in Clients : TaskOK(task[d])'
  BY <1>1, OneTask
<1>. QED
  BY <1>2 DEF IInv

\* A report changes one act, to the status or to its loss.
LEMMA ReportedOK ==
    ASSUME IInv, NEW a \in 1 .. Len(acts), NEW how,
           acts' \in Reported(a, how), UNCHANGED setting
    PROVE  /\ acts' \in Seq(ActRecord) /\ Len(acts') = Len(acts)
           /\ \A i \in 1 .. Len(acts) : i # a => acts'[i] = acts[i]
           /\ acts'[a].status # "RUNNING" \/ acts'[a].lost = TRUE
<1>1. acts \in Seq(ActRecord) /\ acts[a] \in ActRecord
  BY DEF IInv, TypeOK
<1>2. CASE \E status \in {"FAILED", "SUCCEEDED"} : acts' = [acts EXCEPT ![a].status = status]
  <2>1. PICK status \in {"FAILED", "SUCCEEDED"} : acts' = [acts EXCEPT ![a].status = status]
    BY <1>2
  <2>. QED
    BY <1>1, <2>1 DEF ActRecord
<1>3. CASE acts' = [acts EXCEPT ![a].lost = TRUE]
  <2>. DEFINE entry == [acts[a] EXCEPT !.lost = TRUE]
  <2>1. entry \in ActRecord /\ entry.lost = TRUE
    BY <1>1 DEF ActRecord
  <2>2. acts' = [acts EXCEPT ![a] = entry]
    BY <1>3
  <2>. HIDE DEF entry
  <2>. QED
    BY <1>1, <2>1, <2>2
<1>4. (IF how = "error" THEN "FAILED" ELSE "SUCCEEDED") \in {"FAILED", "SUCCEEDED"}
  OBVIOUS
<1>5. \/ \E status \in {"FAILED", "SUCCEEDED"} : acts' = [acts EXCEPT ![a].status = status]
      \/ acts' = [acts EXCEPT ![a].lost = TRUE]
  BY <1>4 DEF Reported
<1>. QED
  BY <1>2, <1>3, <1>5

LEMMA BeginActOK == ASSUME IInv, NEW c \in Clients, BeginAct(c), UNCHANGED setting PROVE IInv'
<1>. DEFINE u == task[c]
            n == Len(acts')
            t == [u EXCEPT !.at = "observe", !.act = n, !.steps = 0]
            a == [run |-> u.run, status |-> "RUNNING", lost |-> FALSE]
<1>1. /\ u \in Task /\ TaskOK(u) /\ acts \in Seq(ActRecord) /\ a \in ActRecord
      /\ UNCHANGED <<runs, logVars>> /\ u.at = "ready" /\ acts' = Append(acts, a) /\ Set(c, t)
  BY DEF IInv, TypeOK, BeginAct, Awaits, Task, ActRecord
<1>2. /\ acts' \in Seq(ActRecord) /\ n = Len(acts) + 1 /\ n \in Nat \ {0} /\ acts'[n] = a
      /\ \A i \in 1 .. Len(acts) : acts'[i] = acts[i]
  BY <1>1
<1>. HIDE DEF n
<1>4. t \in Task /\ t.at = "observe" /\ t.run = u.run /\ t.act = n
  BY <1>1, <1>2 DEF Task, Labels, Acting
<1>5. Resources(t)
  BY <1>1, <1>2 DEF TaskOK, Resources, Task
<1>. HIDE DEF t
<1>6. HandlersOK' /\ handlers' \in Clients \cup {Root}
  BY <1>1, <1>4, HandlersLeft DEF logVars
<1>7. Len(acts') = n /\ Len(acts) \in Nat
  BY <1>1 DEF n
<1>8. Len(acts) <= Len(acts') /\ t.act <= Len(acts')
  BY <1>2, <1>4, <1>7
<1>9. UNCHANGED <<setting, runs>> /\ Set(c, t) /\ t.run = task[c].run /\ t.at # "done"
  BY <1>1, <1>4
<1>. QED
  BY <1>2, <1>4, <1>5, <1>6, <1>8, <1>9, ActStep

\* A client that goes on in its act.
Going(c) == task[c].at \in {"observe", "paused", "program"}
Hs(c) == IF task[c].at = "program" THEN task[c].saved ELSE handlers

LEMMA EndActOK ==
    ASSUME IInv, NEW c \in Clients, Going(c), UNCHANGED <<setting, runs, overlapped>>,
           NEW how \in {"result", "error", "cancelled"}, acts' \in Reported(task[c].act, how),
           handlers' = Hs(c), Set(c, [task[c] EXCEPT !.at = "ready", !.act = 0])
    PROVE  IInv'
<1>. DEFINE u == task[c]
            t == [u EXCEPT !.at = "ready", !.act = 0]
<1>1. /\ u \in Task /\ TaskOK(u) /\ u.act \in 1 .. Len(acts)
      /\ runs \in Seq({"RUNNING", "FAILED", "SUCCEEDED"}) /\ Set(c, t)
  BY DEF IInv, TypeOK, TaskOK, Resources, Going, Task
<1>2. t \in Task /\ t.at = "ready" /\ t.run = u.run /\ t.act = 0 /\ Resources(t)
  BY <1>1 DEF Task, Labels, Going, TaskOK, Resources
<1>3. acts' \in Seq(ActRecord) /\ Len(acts') = Len(acts) /\ Len(acts) \in Nat
  <2>1. acts' \in Seq(ActRecord)
    BY <1>1, ReportedOK
  <2>2. Len(acts') = Len(acts)
    BY <1>1, ReportedOK
  <2>3. Len(acts) \in Nat
    BY DEF IInv, TypeOK
  <2>. QED
    BY <2>1, <2>2, <2>3
<1>. HIDE DEF t
<1>4. HandlersOK' /\ handlers' \in Clients \cup {Root}
  BY <1>1, <1>2, HandlersLeft DEF Hs
<1>5. t.act <= Len(acts')
  BY <1>2, <1>3
<1>. QED
  BY <1>1, <1>2, <1>3, <1>4, <1>5, ActStep

LEMMA RunProgramOK ==
    ASSUME IInv, NEW c \in Clients, Going(c), UNCHANGED setting, RunProgram(c, Hs(c))
    PROVE  IInv'
<1>. DEFINE u == task[c]
            h == Hs(c)
            t == [u EXCEPT !.at = "program", !.saved = h, !.steps = @ + 1]
<1>1. /\ u \in Task /\ TaskOK(u) /\ u.act <= Len(acts) /\ acts \in Seq(ActRecord)
      /\ h \in Clients \cup {Root} /\ UNCHANGED <<runs, acts>> /\ Set(c, t)
  BY DEF IInv, TypeOK, RunProgram, Hs, Task
<1>. HIDE DEF h
<1>5. "program" \in Labels /\ u.steps + 1 \in Nat
  BY <1>1 DEF Task, Labels, Acting
<1>2. t \in Task /\ t.at = "program" /\ t.run = u.run /\ t.act = u.act /\ t.saved = h
  BY <1>1, <1>5 DEF Task
<1>3. Resources(t)
  BY <1>1 DEF TaskOK, Resources, Going, Task
<1>. HIDE DEF t
<1>4. HandlersOK' /\ handlers' \in Clients \cup {Root}
  BY <1>1, <1>2, HandlersTaken DEF RunProgram, h, Hs
<1>. QED
  BY <1>1, <1>2, <1>3, <1>4, ActStep

LEMMA PlanOK ==
    ASSUME IInv, NEW c \in Clients, Going(c), UNCHANGED setting,
           \/ Plan(c, Hs(c)) \/ RunProgram(c, Hs(c))
           \/ \E how \in {"result", "error"} : EndAct(c, how, Hs(c))
    PROVE  IInv'
<1>. DEFINE u == task[c]
<1>1. ASSUME NEW how \in {"result", "error"}, EndAct(c, how, Hs(c)) PROVE IInv'
  BY <1>1, EndActOK DEF EndAct
<1>2. CASE /\ Set(c, [u EXCEPT !.at = "paused"]) /\ handlers' = Hs(c)
           /\ UNCHANGED <<runs, acts, overlapped>>
  <2>. DEFINE t == [u EXCEPT !.at = "paused"]
  <2>1. /\ u \in Task /\ TaskOK(u) /\ u.act <= Len(acts) /\ acts \in Seq(ActRecord)
    BY <1>2 DEF IInv, TypeOK
  <2>2. t \in Task /\ t.at = "paused" /\ t.run = u.run /\ t.act = u.act
    BY <2>1 DEF Task, Labels, Acting
  <2>3. Resources(t)
    BY <2>1 DEF TaskOK, Resources, Going, Task
  <2>4. Set(c, t)
    BY <1>2
  <2>. HIDE DEF t
  <2>5. HandlersOK' /\ handlers' \in Clients \cup {Root}
    BY <1>2, <2>2, <2>4, HandlersLeft DEF Hs
  <2>. QED
    BY <1>2, <2>1, <2>2, <2>3, <2>4, <2>5, ActStep
<1>. QED
  BY <1>1, <1>2, RunProgramOK DEF Plan

LEMMA ActOK ==
    ASSUME IInv, NEW c \in Clients, UNCHANGED setting,
           Observes(c) \/ Resumes(c) \/ ProgramEnds(c) \/ CancelAct(c)
    PROVE  IInv'
<1>1. CASE Observes(c) \/ Resumes(c)
  <2>1. Going(c) /\ Hs(c) = handlers
    BY <1>1 DEF Observes, Resumes, Awaits, Going, Hs
  <2>. QED
    BY <1>1, <2>1, PlanOK DEF Observes, Resumes
<1>2. CASE ProgramEnds(c)
  <2>1. Going(c) /\ Hs(c) = Leaves(c)
    BY <1>2 DEF ProgramEnds, Awaits, Going, Hs, Leaves
  <2>. QED
    BY <1>2, <2>1, PlanOK DEF ProgramEnds
<1>3. CASE CancelAct(c)
  <2>1. Going(c) /\ handlers' = Hs(c)
    BY <1>3 DEF CancelAct, LeavesCancelled, Leaves, Acting, Going, Hs
  <2>. QED
    BY <1>3, <2>1, EndActOK DEF CancelAct
<1>. QED
  BY <1>1, <1>2, <1>3

-----------------------------------------------------------------------------

LEMMA StepOK == IInv /\ [Next]_vars => IInv'
<1>. SUFFICES ASSUME IInv, [Next]_vars PROVE IInv'
  OBVIOUS
<1>1. CASE UNCHANGED vars
  BY <1>1 DEF vars, IInv, TypeOK, TaskOK, Resources, Settled, Excused, RunClosed, HandlersOK,
              Own
<1>2. CASE Next
  BY <1>2, StartOK, StopOK, CancelOK, BeginActOK, ActOK DEF Next, Step
<1>. QED
  BY <1>1, <1>2

\* The invariant holds in every state of every program.
THEOREM Invariance == Spec => []IInv
  BY InitOK, StepOK, PTL DEF Spec

\* Nothing a client started outlives its task, whatever failed and whatever other
\* tasks did, but for the cases that NothingLeft names.
THEOREM ClientsLeaveNothing == Spec => []NothingLeft
<1>1. IInv => NothingLeft
  BY DEF IInv, TaskOK, Settled, Excused, RunClosed, NothingLeft
<1>. QED
  BY <1>1, Invariance, PTL

\* The logger has its own handlers back once no program runs, unless two overlapped.
THEOREM LoggerRestored == Spec => []HandlersRestored
<1>1. IInv => HandlersRestored
  BY DEF IInv, HandlersOK, HandlersRestored
<1>. QED
  BY <1>1, Invariance, PTL

-----------------------------------------------------------------------------
(* What the service still lists as RUNNING is still somebody's.            *)

\* A client has a run of its own from Workflow.__enter__() on, which is open until
\* its task is done or has failed to start.
RunsOwn ==
    /\ \A c \in Clients : task[c].at \notin {"new", "failed", "done"} =>
           task[c].run # 0 /\ runs[task[c].run] = "RUNNING"
    /\ \A c, d \in Clients : c # d => task[c].run = 0 \/ task[c].run # task[d].run

NoneForgotten ==
    \A a \in DOMAIN acts :
        acts[a].status = "RUNNING" /\ acts[a].lost = FALSE =>
            \E c \in Clients :
                task[c].act = a /\ task[c].at \in Acting /\ task[c].run = acts[a].run

Acc == RunsOwn /\ NoneForgotten

\* A step of c touches no run but c's own, and leaves c an open one unless c is over.
RunsMove(c) ==
    /\ \A d \in Clients \ {c} : task'[d] = task[d]
    /\ \A r \in 1 .. Len(runs) : r # task[c].run => runs'[r] = runs[r]
    /\ task'[c].run = task[c].run \/ task'[c].run \notin 1 .. Len(runs)
    /\ task'[c].at \notin {"new", "failed", "done"} =>
           task'[c].run # 0 /\ runs'[task'[c].run] = "RUNNING"

\* The acts that are RUNNING after a step of c are those of before, which c has not
\* left, or c's.
ActsMove(c) ==
    \A a \in DOMAIN acts' :
        acts'[a].status = "RUNNING" /\ acts'[a].lost = FALSE =>
            \/ /\ a \in DOMAIN acts /\ acts'[a] = acts[a]
               /\ task[c].at \in Acting /\ task[c].act = a =>
                      task'[c].at \in Acting /\ task'[c].act = a /\ task'[c].run = task[c].run
            \/ task'[c].at \in Acting /\ task'[c].act = a /\ task'[c].run = acts'[a].run

LEMMA AccMoves ==
    ASSUME IInv, Acc, NEW c \in Clients, RunsMove(c), ActsMove(c)
    PROVE  Acc'
<1>1. \A d \in Clients : task[d].run \in Nat /\ task[d].run <= Len(runs)
  BY DEF IInv, TypeOK, Task
<1>2. RunsOwn'
  <2>1. ASSUME NEW d \in Clients, task'[d].at \notin {"new", "failed", "done"}
        PROVE  task'[d].run # 0 /\ runs'[task'[d].run] = "RUNNING"
    <3>1. CASE d = c
      BY <2>1, <3>1 DEF RunsMove
    <3>2. CASE d # c
      <4>1. task'[d] = task[d] /\ task[d].run # 0 /\ runs[task[d].run] = "RUNNING"
        BY <2>1, <3>2 DEF RunsMove, Acc, RunsOwn
      <4>2. task[d].run \in 1 .. Len(runs) /\ task[d].run # task[c].run
        BY <1>1, <3>2, <4>1 DEF Acc, RunsOwn, IInv, TypeOK
      <4>. QED
        BY <4>1, <4>2 DEF RunsMove
    <3>. QED
      BY <3>1, <3>2
  <2>2. ASSUME NEW d \in Clients, NEW e \in Clients, d # e
        PROVE  task'[d].run = 0 \/ task'[d].run # task'[e].run
    <3>1. CASE d # c /\ e # c
      BY <2>2, <3>1 DEF RunsMove, Acc, RunsOwn
    <3>2. ASSUME NEW x \in Clients \ {c}
          PROVE  task'[x].run = 0 \/ task'[x].run # task'[c].run
      <4>1. task'[x] = task[x] /\ (task[x].run = 0 \/ task[x].run # task[c].run)
        BY <3>2 DEF RunsMove, Acc, RunsOwn
      <4>2. task[x].run = 0 \/ task[x].run \in 1 .. Len(runs)
        BY <1>1 DEF IInv, TypeOK
      <4>. QED
        BY <4>1, <4>2 DEF RunsMove
    <3>. QED
      BY <2>2, <3>1, <3>2
  <2>. QED
    BY <2>1, <2>2 DEF RunsOwn
<1>3. NoneForgotten'
  <2>1. ASSUME NEW a \in DOMAIN acts', acts'[a].status = "RUNNING", acts'[a].lost = FALSE
        PROVE  \E d \in Clients : /\ task'[d].act = a /\ task'[d].at \in Acting
                                  /\ task'[d].run = acts'[a].run
    <3>1. CASE task'[c].at \in Acting /\ task'[c].act = a /\ task'[c].run = acts'[a].run
      BY <3>1
    <3>2. CASE /\ a \in DOMAIN acts /\ acts'[a] = acts[a]
               /\ task[c].at \in Acting /\ task[c].act = a =>
                     /\ task'[c].at \in Acting /\ task'[c].act = a
                     /\ task'[c].run = task[c].run
      <4>1. PICK d \in Clients :
                task[d].act = a /\ task[d].at \in Acting /\ task[d].run = acts[a].run
        BY <2>1, <3>2 DEF Acc, NoneForgotten
      <4>. QED
        BY <3>2, <4>1 DEF RunsMove
    <3>. QED
      BY <2>1, <3>1, <3>2 DEF ActsMove
  <2>. QED
    BY <2>1 DEF NoneForgotten, Acting
<1>. QED
  BY <1>2, <1>3 DEF Acc

\* The task and the acts of a client that is in no act and does not begin one.
LEMMA Elsewhere ==
    ASSUME IInv, NEW c \in Clients, NEW t, Set(c, t), UNCHANGED acts, task[c].at \notin Acting
    PROVE  ActsMove(c) /\ task'[c] = t /\ \A d \in Clients \ {c} : task'[d] = task[d]
BY DEF IInv, TypeOK, Set, ActsMove

\* A step of c that changes no run: c keeps its own.
LEMMA RunKept ==
    ASSUME IInv, Acc, NEW c \in Clients, NEW t, Set(c, t), UNCHANGED runs,
           t.run = task[c].run,
           task[c].at \in {"new", "failed", "done"} => t.at \in {"new", "failed", "done"}
    PROVE  RunsMove(c)
<1>1. task'[c] = t /\ \A d \in Clients \ {c} : task'[d] = task[d]
  BY DEF IInv, TypeOK, Set
<1>. QED
  BY <1>1 DEF RunsMove, Acc, RunsOwn

LEMMA StaysAcc ==
    ASSUME IInv, Acc, NEW c \in Clients, NEW t, Set(c, t), UNCHANGED <<runs, acts>>,
           t.run = task[c].run, task[c].at \notin Acting,
           task[c].at \in {"new", "failed", "done"} => t.at \in {"new", "failed", "done"}
    PROVE  Acc'
BY Elsewhere, RunKept, AccMoves

LEMMA ClosedAcc ==
    ASSUME IInv, Acc, NEW c \in Clients, NEW t \in Task, NEW failed, CloseRun(c, t, failed),
           UNCHANGED acts, t.at = "done", t.run = task[c].run, task[c].at \notin Acting
    PROVE  Acc'
<1>1. ASSUME UNCHANGED runs, Set(c, Blamed(t, "lost")) PROVE Acc'
  <2>1. Blamed(t, "lost").run = t.run /\ Blamed(t, "lost").at = "done"
    BY DEF Blamed, Task
  <2>. QED
    BY <1>1, <2>1, StaysAcc
<1>2. ASSUME Set(c, t), runs' = IF t.run = 0 THEN runs
                  ELSE [runs EXCEPT ![t.run] = IF failed THEN "FAILED" ELSE "SUCCEEDED"]
      PROVE  Acc'
  <2>1. ActsMove(c) /\ task'[c] = t /\ \A d \in Clients \ {c} : task'[d] = task[d]
    BY <1>2, Elsewhere
  <2>2. RunsMove(c)
    BY <1>2, <2>1 DEF RunsMove, IInv, TypeOK
  <2>. QED
    BY <2>1, <2>2, AccMoves
<1>. QED
  BY <1>1, <1>2 DEF CloseRun

LEMMA StartAcc ==
    ASSUME IInv, Acc, NEW c \in Clients,
           \/ Enter(c) \/ CreateSession(c) \/ DriverStarts(c) \/ DefaultChromeAnswers(c)
           \/ Connects(c) \/ PageOpens(c) \/ StartBreaks(c) \/ Undo(c) \/ StartFails(c)
    PROVE  Acc'
<1>. DEFINE u == task[c]
<1>1. u \in Task /\ u.run <= Len(runs) /\ runs \in Seq({"RUNNING", "FAILED", "SUCCEEDED"})
  BY DEF IInv, TypeOK
<1>2. CASE Enter(c)
  <2>1. u.at = "new" /\ UNCHANGED acts /\ u.at \notin Acting
    BY <1>2 DEF Enter, Awaits, Acting
  <2>2. CASE /\ runs' = Append(runs, "RUNNING")
             /\ Set(c, [u EXCEPT !.at = "session", !.run = Len(runs')])
    <3>. DEFINE t == [u EXCEPT !.at = "session", !.run = Len(runs')]
    <3>1. t.run = Len(runs') /\ t.at = "session"
      BY <1>1 DEF Task
    <3>2. /\ Len(runs') = Len(runs) + 1 /\ runs'[Len(runs')] = "RUNNING" /\ Len(runs) \in Nat
          /\ \A r \in 1 .. Len(runs) : runs'[r] = runs[r]
      BY <1>1, <2>2
    <3>3. ActsMove(c) /\ task'[c] = t /\ \A d \in Clients \ {c} : task'[d] = task[d]
      BY <2>1, <2>2, Elsewhere
    <3>. HIDE DEF t
    <3>4. Len(runs') # 0 /\ Len(runs') \notin 1 .. Len(runs)
      BY <3>2
    <3>5. RunsMove(c)
      BY <3>1, <3>2, <3>3, <3>4 DEF RunsMove
    <3>. QED
      BY <3>3, <3>5, AccMoves
  <2>3. CASE UNCHANGED runs /\ Set(c, [u EXCEPT !.at = "failed"])
    <3>1. [u EXCEPT !.at = "failed"].run = u.run /\ [u EXCEPT !.at = "failed"].at = "failed"
      BY <1>1 DEF Task
    <3>. QED
      BY <2>1, <2>3, <3>1, StaysAcc
  <2>. QED
    BY <1>2, <2>2, <2>3 DEF Enter
<1>3. CASE StartFails(c)
  <2>. DEFINE t == [u EXCEPT !.at = "done", !.session = FALSE]
  <2>1. /\ u.at \notin Acting /\ UNCHANGED acts /\ CloseRun(c, t, FALSE)
    BY <1>3 DEF StartFails, Acting
  <2>2. t \in Task /\ t.at = "done" /\ t.run = u.run
    BY <1>1 DEF Task, Labels
  <2>. HIDE DEF t
  <2>. QED
    BY <2>1, <2>2, ClosedAcc
\* The other steps change no run, and their client has one.
<1>4. ASSUME NEW t, t.run = u.run, u.at \notin {"new", "failed", "done"} \cup Acting,
             UNCHANGED <<runs, acts>>, Set(c, t)
      PROVE  Acc'
  BY <1>4, StaysAcc
<1>5. ASSUME NEW t \in Task, t.run = u.run, NEW v \in Prepared(t) PROVE v.run = u.run
  BY <1>5 DEF Prepared, Blamed, Task
<1>6. CASE CreateSession(c)
  <2>. DEFINE s == [u EXCEPT !.session = TRUE]
  <2>1. s \in Task /\ s.run = u.run
    BY <1>1 DEF Task
  <2>2. \E t : t.run = u.run /\ Set(c, t)
    <3>1. [s EXCEPT !.at = "driver"].run = u.run /\ [s EXCEPT !.at = "failed"].run = u.run
      BY <2>1 DEF Task
    <3>2. CASE \E v \in Prepared(s) : Set(c, v)
      BY <1>5, <2>1, <3>2
    <3>3. CASE Set(c, [s EXCEPT !.at = "driver"]) \/ Set(c, [s EXCEPT !.at = "failed"])
      BY <3>1, <3>3
    <3>. QED
      BY <1>6, <3>2, <3>3 DEF CreateSession
  <2>3. u.at \notin {"new", "failed", "done"} \cup Acting /\ UNCHANGED <<runs, acts>>
    BY <1>6 DEF CreateSession, Acting
  <2>. QED
    BY <1>4, <2>2, <2>3
<1>7. CASE DriverStarts(c)
  <2>. DEFINE s == [u EXCEPT !.driver = TRUE]
  <2>1. s \in Task /\ s.run = u.run
    BY <1>1 DEF Task
  <2>2. \E t : t.run = u.run /\ Set(c, t)
    <3>1. [u EXCEPT !.at = "failed"].run = u.run
      BY <1>1 DEF Task
    <3>2. CASE \E v \in Prepared(s) : Set(c, v)
      BY <1>5, <2>1, <3>2
    <3>3. CASE Set(c, [u EXCEPT !.at = "failed"])
      BY <3>1, <3>3
    <3>. QED
      BY <1>7, <3>2, <3>3 DEF DriverStarts
  <2>3. u.at \notin {"new", "failed", "done"} \cup Acting /\ UNCHANGED <<runs, acts>>
    BY <1>7 DEF DriverStarts, Awaits, Acting
  <2>. QED
    BY <1>4, <2>2, <2>3
<1>8. CASE DefaultChromeAnswers(c) \/ Connects(c) \/ PageOpens(c) \/ StartBreaks(c) \/ Undo(c)
  <2>1. \E t : t.run = u.run /\ Set(c, t)
    <3>1. CASE DefaultChromeAnswers(c)
      BY <1>1, <3>1 DEF DefaultChromeAnswers, Task
    <3>2. CASE Connects(c)
      BY <1>1, <3>2 DEF Connects, Task
    <3>3. CASE PageOpens(c)
      BY <1>1, <3>3 DEF PageOpens, Task
    <3>4. CASE StartBreaks(c)
      BY <1>1, <3>4 DEF StartBreaks, Blamed, Task
    <3>5. CASE Undo(c)
      BY <1>1, <3>5 DEF Undo, Blamed, Task
    <3>. QED
      BY <1>8, <3>1, <3>2, <3>3, <3>4, <3>5
  <2>2. u.at \notin {"new", "failed", "done"} \cup Acting /\ UNCHANGED <<runs, acts>>
    BY <1>8 DEF DefaultChromeAnswers, Connects, PageOpens, StartBreaks, Undo, Awaits, Acting
  <2>. QED
    BY <1>4, <2>1, <2>2
<1>. QED
  BY <1>2, <1>3, <1>6, <1>7, <1>8

LEMMA StopFromAcc ==
    ASSUME IInv, Acc, NEW c \in Clients, NEW t \in Task, NEW i, StopFrom(c, t, i),
           UNCHANGED acts, t.run = task[c].run,
           task[c].at \notin {"new", "failed", "done"} \cup Acting
    PROVE  Acc'
<1>1. CASE t.aborted
  <2>. DEFINE v == Blamed([t EXCEPT !.at = "done"], "cancelled")
  <2>1. v.run = t.run
    BY DEF Blamed, Task
  <2>. QED
    BY <1>1, <2>1, StaysAcc DEF StopFrom
<1>2. CASE ~t.aborted /\ i > Len(StopAwaits)
  <2>1. Finished(t) \in Task /\ Finished(t).at = "done" /\ Finished(t).run = t.run
    BY DEF Finished, Task, Labels
  <2>2. CloseRun(c, Finished(t), t.exc)
    BY <1>2 DEF StopFrom
  <2>. QED
    BY <2>1, <2>2, ClosedAcc
<1>3. CASE ~t.aborted /\ ~(i > Len(StopAwaits))
  <2>. DEFINE v == [t EXCEPT !.at = StopAwaits[i], !.chrome = @ /\ StopAwaits[i] # "unplug"]
  <2>1. v.run = t.run
    BY DEF Task
  <2>2. Set(c, v) /\ UNCHANGED runs
    BY <1>3 DEF StopFrom
  <2>. HIDE DEF v
  <2>. QED
    BY <2>1, <2>2, StaysAcc
<1>. QED
  BY <1>1, <1>2, <1>3

LEMMA StopAcc ==
    ASSUME IInv, Acc, NEW c \in Clients,
           \/ Leave(c) \/ StopGoesOn(c) \/ StopBreaks(c) \/ CancelStart(c) \/ CancelStop(c)
    PROVE  Acc'
<1>. DEFINE u == task[c]
<1>1. u \in Task /\ setting \in Setting /\ UNCHANGED acts
  BY DEF IInv, TypeOK, Leave, StopGoesOn, StopBreaks, CancelStart, CancelStop
<1>2. u.at \notin {"new", "failed", "done"} \cup Acting
  <2>1. CASE Leave(c) \/ StopBreaks(c) \/ CancelStart(c) \/ CancelStop(c)
    BY <2>1 DEF Leave, StopBreaks, CancelStart, CancelStop, Awaits, Acting, Starting, Stopping
  <2>2. CASE StopGoesOn(c)
    BY <1>1, <2>2, StopAwaitsForm DEF StopGoesOn, Awaits, Acting, Stopping
  <2>. QED
    BY <2>1, <2>2
<1>3. CASE Leave(c)
  <2>1. PICK exc \in BOOLEAN : StopFrom(c, [u EXCEPT !.exc = exc], 1)
    BY <1>3 DEF Leave
  <2>2. [u EXCEPT !.exc = exc] \in Task /\ [u EXCEPT !.exc = exc].run = u.run
    BY <1>1 DEF Task
  <2>. QED
    BY <1>1, <1>2, <2>1, <2>2, StopFromAcc
<1>4. CASE StopGoesOn(c)
  <2>1. PICK i \in DOMAIN StopAwaits, t \in Stopped(u) : StopFrom(c, t, i + 1)
    BY <1>4 DEF StopGoesOn
  <2>2. t \in Task /\ t.run = u.run
    <3>1. "stop" \in Blames
      BY DEF Blames
    <3>2. \/ t = [u EXCEPT !.browser = FALSE, !.context = FALSE]
          \/ t = [u EXCEPT !.context = FALSE, !.blame = @ \cup {"stop"}]
          \/ t = [u EXCEPT !.driver = FALSE, !.browser = FALSE]
          \/ t = u
      BY <1>1, <2>1 DEF Stopped, Blamed, Task
    <3>3. u.blame \cup {"stop"} \in SUBSET Blames
      BY <1>1, <3>1 DEF Task
    <3>. QED
      BY <1>1, <3>2, <3>3 DEF Task
  <2>. QED
    BY <1>1, <1>2, <2>1, <2>2, StopFromAcc
<1>5. CASE StopBreaks(c) \/ CancelStart(c) \/ CancelStop(c)
  <2>1. \E t : t.run = u.run /\ Set(c, t)
    <3>1. ASSUME Abandoned(c) PROVE \E t : t.run = u.run /\ Set(c, t)
      <4>1. PICK d \in BOOLEAN, b \in BOOLEAN :
                Set(c, Blamed([u EXCEPT !.at = "done", !.driver = d, !.browser = b], "cancelled"))
        BY <3>1 DEF Abandoned
      <4>. QED
        BY <1>1, <4>1 DEF Blamed, Task
    <3>2. CASE StopBreaks(c)
      BY <1>1, <3>2 DEF StopBreaks, Blamed, Task
    <3>3. CASE u.at = "saving" /\ Set(c, [u EXCEPT !.at = "draining", !.aborted = TRUE])
      BY <1>1, <3>3 DEF Task
    <3>. QED
      BY <1>5, <3>1, <3>2, <3>3 DEF CancelStart, CancelStop
  <2>2. UNCHANGED runs
    BY <1>5 DEF StopBreaks, CancelStart, CancelStop
  <2>. QED
    BY <1>1, <1>2, <2>1, <2>2, StaysAcc
<1>. QED
  BY <1>3, <1>4, <1>5

\* An act is over: its report is made or lost.
LEMMA EndActAcc ==
    ASSUME IInv, Acc, NEW c \in Clients, Going(c), UNCHANGED <<setting, runs>>, NEW how,
           acts' \in Reported(task[c].act, how),
           Set(c, [task[c] EXCEPT !.at = "ready", !.act = 0])
    PROVE  Acc'
<1>. DEFINE u == task[c]
            t == [u EXCEPT !.at = "ready", !.act = 0]
<1>1. /\ u \in Task /\ u.act \in 1 .. Len(acts) /\ acts \in Seq(ActRecord) /\ Set(c, t)
  BY DEF IInv, TypeOK, TaskOK, Resources, Going, Task
<1>2. t.run = u.run /\ t.at = "ready" /\ u.at \notin {"new", "failed", "done"}
  BY <1>1 DEF Task, Going
<1>3. /\ acts' \in Seq(ActRecord) /\ Len(acts') = Len(acts)
      /\ \A i \in 1 .. Len(acts) : i # u.act => acts'[i] = acts[i]
  BY <1>1, ReportedOK
<1>5. acts'[u.act].status # "RUNNING" \/ acts'[u.act].lost = TRUE
  BY <1>1, ReportedOK
<1>. HIDE DEF t
<1>4. RunsMove(c)
  BY <1>1, <1>2, RunKept
<1>6. ActsMove(c)
  BY <1>1, <1>3, <1>5 DEF ActsMove
<1>. QED
  BY <1>4, <1>6, AccMoves

LEMMA PlanAcc ==
    ASSUME IInv, Acc, NEW c \in Clients, Going(c), UNCHANGED setting, NEW hs,
           \/ Plan(c, hs) \/ RunProgram(c, hs)
           \/ \E how \in {"result", "error"} : EndAct(c, how, hs)
    PROVE  Acc'
<1>. DEFINE u == task[c]
<1>1. u \in Task /\ acts \in Seq(ActRecord) /\ u.at \in Acting
      /\ u.at \notin {"new", "failed", "done"}
  BY DEF IInv, TypeOK, Going, Acting
<1>2. ASSUME NEW how, EndAct(c, how, hs) PROVE Acc'
  BY <1>2, EndActAcc DEF EndAct
\* The act goes on.
<1>3. ASSUME NEW t, Set(c, t), t.run = u.run, t.act = u.act, t.at \in Acting,
             UNCHANGED <<runs, acts>>
      PROVE  Acc'
  <2>1. RunsMove(c)
    BY <1>1, <1>3, RunKept
  <2>2. task'[c] = t
    BY <1>3 DEF IInv, TypeOK, Set
  <2>3. ActsMove(c)
    BY <1>3, <2>2 DEF ActsMove
  <2>. QED
    BY <2>1, <2>3, AccMoves
<1>4. CASE RunProgram(c, hs)
  <2>. DEFINE t == [u EXCEPT !.at = "program", !.saved = hs, !.steps = @ + 1]
  <2>1. t.run = u.run /\ t.act = u.act /\ t.at \in Acting
    BY <1>1 DEF Task, Acting
  <2>2. Set(c, t) /\ UNCHANGED <<runs, acts>>
    BY <1>4 DEF RunProgram
  <2>. HIDE DEF t
  <2>. QED
    BY <1>3, <2>1, <2>2
<1>5. CASE Set(c, [u EXCEPT !.at = "paused"]) /\ UNCHANGED <<runs, acts>>
  <2>. DEFINE t == [u EXCEPT !.at = "paused"]
  <2>1. t.run = u.run /\ t.act = u.act /\ t.at \in Acting
    BY <1>1 DEF Task, Acting
  <2>2. Set(c, t)
    BY <1>5
  <2>. HIDE DEF t
  <2>. QED
    BY <1>3, <1>5, <2>1, <2>2
<1>. QED
  BY <1>2, <1>4, <1>5 DEF Plan

LEMMA ActAcc ==
    ASSUME IInv, Acc, NEW c \in Clients, UNCHANGED setting,
           \/ BeginAct(c) \/ Observes(c) \/ Resumes(c) \/ ProgramEnds(c) \/ CancelAct(c)
    PROVE  Acc'
<1>1. CASE BeginAct(c)
  <2>. DEFINE u == task[c]
              a == [run |-> u.run, status |-> "RUNNING", lost |-> FALSE]
              n == Len(acts')
              t == [u EXCEPT !.at = "observe", !.act = n, !.steps = 0]
  <2>1. /\ u \in Task /\ acts \in Seq(ActRecord) /\ a \in ActRecord /\ u.at = "ready"
        /\ acts' = Append(acts, a) /\ Set(c, t) /\ UNCHANGED runs
    BY <1>1 DEF IInv, TypeOK, BeginAct, Awaits, Task, ActRecord
  <2>2. /\ n = Len(acts) + 1 /\ acts'[n] = a /\ Len(acts) \in Nat /\ DOMAIN acts' = 1 .. n
        /\ \A i \in 1 .. Len(acts) : acts'[i] = acts[i]
    BY <2>1
  <2>3. t.run = u.run /\ t.act = n /\ t.at \in Acting /\ a.run = u.run
    BY <2>1 DEF Task, Acting
  <2>. HIDE DEF t, n, a
  <2>4. RunsMove(c)
    BY <2>1, <2>3, RunKept
  <2>5. task'[c] = t /\ u.at \notin Acting
    BY <2>1 DEF IInv, TypeOK, Set, Acting
  <2>6. ActsMove(c)
    <3>1. ASSUME NEW i \in DOMAIN acts'
          PROVE  i = n \/ (i \in DOMAIN acts /\ acts'[i] = acts[i])
      BY <2>1, <2>2, <3>1
    <3>. QED
      BY <2>2, <2>3, <2>5, <3>1 DEF ActsMove
  <2>. QED
    BY <2>4, <2>6, AccMoves
<1>2. CASE Observes(c) \/ Resumes(c)
  BY <1>2, PlanAcc DEF Observes, Resumes, Awaits, Going
<1>3. CASE ProgramEnds(c)
  BY <1>3, PlanAcc DEF ProgramEnds, Awaits, Going
<1>4. CASE CancelAct(c)
  <2>1. Going(c)
    BY <1>4 DEF CancelAct, Acting, Going
  <2>. QED
    BY <1>4, <2>1, EndActAcc DEF CancelAct
<1>. QED
  BY <1>1, <1>2, <1>3, <1>4

LEMMA Accounted == Spec => []Acc
<1>1. Init => Acc
  BY DEF Init, Acc, RunsOwn, NoneForgotten, Fresh
<1>2. IInv /\ Acc /\ [Next]_vars => Acc'
  <2>1. ASSUME UNCHANGED vars, Acc PROVE Acc'
    BY <2>1 DEF vars, Acc, RunsOwn, NoneForgotten
  <2>2. ASSUME IInv, Acc, Next PROVE Acc'
    BY <2>2, StartAcc, StopAcc, ActAcc DEF Next, Step
  <2>. QED
    BY <2>1, <2>2
<1>. QED
  BY <1>1, <1>2, Invariance, PTL DEF Spec

\* Every act that the service lists as RUNNING is one that its client's task is in,
\* under the client's own open run, unless the report of its end was lost.
THEOREM ActsStayAccounted == Spec => []ActsAccountedFor
<1>1. ASSUME IInv, Acc PROVE ActsAccountedFor
  <2>1. ASSUME NEW a \in DOMAIN acts, acts[a].status = "RUNNING", ~acts[a].lost
        PROVE  \E c \in Clients :
                   /\ task[c].act = a /\ task[c].at \in Acting
                   /\ task[c].run = acts[a].run /\ task[c].run \in DOMAIN runs
                   /\ runs[task[c].run] = "RUNNING"
    <3>1. acts[a].lost = FALSE
      <4>1. acts \in Seq(ActRecord)
        BY <1>1 DEF IInv, TypeOK
      <4>2. acts[a] \in ActRecord
        BY <2>1, <4>1
      <4>3. acts[a].lost \in BOOLEAN
        BY <4>2 DEF ActRecord
      <4>. QED
        BY <2>1, <4>3
    <3>2. PICK c \in Clients :
              task[c].act = a /\ task[c].at \in Acting /\ task[c].run = acts[a].run
      BY <1>1, <2>1, <3>1 DEF Acc, NoneForgotten
    <3>3. task[c].at \notin {"new", "failed", "done"}
      BY <3>2 DEF Acting
    <3>4. task[c].run # 0 /\ runs[task[c].run] = "RUNNING"
      BY <1>1, <3>3 DEF Acc, RunsOwn
    <3>5. task[c].run \in DOMAIN runs
      BY <1>1, <3>4 DEF IInv, TypeOK, Task
    <3>. QED
      BY <3>2, <3>4, <3>5
  <2>. QED
    BY <2>1 DEF ActsAccountedFor
<1>. QED
  BY <1>1, Accounted, Invariance, PTL
=============================================================================
