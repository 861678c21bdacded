------------------------- MODULE ClientSessionProofs -------------------------
(***************************************************************************)
(* Clients and their workflow runs, for any number of clients, runs and    *)
(* acts: a browser needs an open run, no act is forgotten, and the         *)
(* service's books are kept.                                               *)
(***************************************************************************)
EXTENDS ClientSession, SequenceTheorems, TLAPS

Statuses == {"RUNNING", "SUCCEEDED", "FAILED"}
ActRecords == [run : Nat, status : Statuses, lost : BOOLEAN]
Places == {"none", "idle", "enter", "session", "browser", "stopping", "exiting", "act", "report"}

DataOK ==
    /\ scenario \in Scenario
    /\ runs \in Seq(Statuses) /\ acts \in Seq(ActRecords)
    /\ current \in [Workflows -> Nat]

ClientsOK ==
    /\ at \in [Clients -> Places]
    /\ run \in [Clients -> Nat] /\ act \in [Clients -> Nat]
    /\ error \in [Clients -> BOOLEAN] /\ session \in [Clients -> BOOLEAN]
    /\ browser \in [Clients -> BOOLEAN]
    /\ answering \in [Clients -> BOOLEAN] /\ refused \in [Clients -> BOOLEAN]
    /\ cause \in [Clients -> {"none", "start", "exception"}]

Open(r) == r \in DOMAIN runs /\ runs[r] = "RUNNING"
WorkflowOf(c) == IF Managed THEN c ELSE Shared

\* The run a workflow has entered is open, and its own.
RunsOK ==
    /\ \A w \in Workflows : current[w] # 0 => Open(current[w])
    /\ \A v, w \in Workflows : current[v] # 0 /\ current[v] = current[w] => v = w

\* From the session's creation to the end of the browser a client's run is the one
\* its workflow has entered; with a shared workflow, as long as there is a client.
ClientOK(c) ==
    /\ browser[c] => session[c]
    /\ at[c] \in {"none", "enter", "session", "browser", "exiting"} => ~browser[c]
    /\ at[c] \in {"act", "report"} => browser[c]
    /\ at[c] = "browser" => session[c]
    /\ at[c] \in {"enter", "exiting"} => Managed
    /\ browser[c] \/ at[c] \in {"session", "browser"} \/ (~Managed /\ at[c] # "none") =>
           run[c] = current[WorkflowOf(c)] /\ run[c] # 0

\* The act in progress is under the client's run and not reported.
Acts(c) == at[c] \in {"act", "report"}
ActOK(c) ==
    Acts(c) =>
        /\ act[c] \in DOMAIN acts
        /\ acts[act[c]].run = run[c] /\ acts[act[c]].status = "RUNNING"
\* An act that is not reported is in progress, or its report was lost.
NoneForgotten ==
    \A a \in DOMAIN acts : acts[a].status = "RUNNING" /\ ~acts[a].lost =>
        \E c \in Clients : Acts(c) /\ act[c] = a
ActsOwn == \A c, d \in Clients : Acts(c) /\ Acts(d) /\ act[c] = act[d] => c = d

\* Without faults a client that is about to open a run has none.
NoRunBehind ==
    ~Faults =>
        /\ \A r \in DOMAIN runs : runs[r] = "RUNNING" => \E w \in Workflows : current[w] = r
        /\ Managed => \A c \in Clients :
               at[c] \in {"none", "enter"} \/ (at[c] = "idle" /\ ~browser[c]) => current[c] = 0

IInv ==
    /\ DataOK /\ ClientsOK /\ RunsOK /\ NoRunBehind
    /\ \A c \in Clients : ClientOK(c) /\ ActOK(c)
    /\ ActsOwn /\ NoneForgotten
-----------------------------------------------------------------------------
LEMMA InitIInv == Init => IInv
<1>. SUFFICES ASSUME Init PROVE IInv
  OBVIOUS
<1>1. DataOK /\ ClientsOK
  BY ClientSessionAssumption DEF Init, DataOK, ClientsOK, Scenario, Places
<1>2. RunsOK /\ NoRunBehind
  BY DEF Init, RunsOK, NoRunBehind, Workflows
<1>4. ActsOwn /\ NoneForgotten
  BY DEF Init, Acts, ActsOwn, NoneForgotten
<1>3. \A c \in Clients : ClientOK(c) /\ ActOK(c)
  BY DEF Init, ClientOK, Acts, ActOK
<1>. QED
  BY <1>1, <1>2, <1>3, <1>4 DEF IInv

\* What clients do inside start() and stop() that only concerns themselves.
Local(c) ==
    \/ Start(c) \/ StartCallFails(c) \/ CreateSession(c) \/ StartBrowser(c)
    \/ Stop(c) \/ StopBrowser(c) \/ StopFails(c)

\* A step of one client that leaves the service's books, the workflows' runs and
\* the client's run and act alone.
LEMMA LocalStep ==
    ASSUME IInv, NEW c \in Clients, Local(c), UNCHANGED scenario
    PROVE  IInv'
<1>. USE DEF IInv
<1>1. UNCHANGED <<scenario, runs, acts, current, run, act>>
  BY DEF Local, Start, StartCallFails, CreateSession, StartBrowser, Stop, StopBrowser, StopFails,
         serviceVars, clientVars
<1>2. /\ ClientsOK'
      /\ \A d \in Clients \ {c} : /\ at'[d] = at[d] /\ browser'[d] = browser[d]
                                  /\ session'[d] = session[d]
  BY DEF ClientsOK, Places, Local, Start, StartCallFails, CreateSession, StartBrowser, Stop,
         StopBrowser, StopFails, StartFails, Goto, clientVars
<1>3. ClientOK(c)' /\ ~Acts(c)' /\ ~Acts(c)
  BY <1>1 DEF ClientsOK, ClientOK, Acts, WorkflowOf, Managed, Started, Local, Start, StartCallFails,
              CreateSession, StartBrowser, Stop, StopBrowser, StopFails, StartFails, Goto, clientVars
<1>4. ASSUME ~Faults, Managed
      PROVE  at'[c] \in {"none", "enter"} \/ (at'[c] = "idle" /\ ~browser'[c]) => current[c] = 0
  BY <1>4 DEF NoRunBehind, ClientsOK, ClientOK, Started, Local, Start, StartCallFails, CreateSession,
              StartBrowser, Stop, StopBrowser, StopFails, StartFails, Goto, clientVars
<1>5. DataOK' /\ RunsOK' /\ NoneForgotten'
  BY <1>1, <1>2, <1>3 DEF DataOK, RunsOK, Open, Acts, NoneForgotten, Workflows, Managed
<1>6. \A d \in Clients : ClientOK(d)' /\ ActOK(d)'
  BY <1>1, <1>2, <1>3 DEF ClientOK, ActOK, Acts, WorkflowOf, Managed
<1>7. ActsOwn' /\ NoRunBehind'
  BY <1>1, <1>2, <1>3, <1>4 DEF ActsOwn, Acts, NoRunBehind, Faults, Managed, Workflows
<1>. QED
  BY <1>2, <1>5, <1>6, <1>7

-----------------------------------------------------------------------------
\* The program makes a client or drops it, or ctrl+c ends a call: at most the
\* client's own run and what its workflow has entered change.
LEMMA ProgramMoves ==
    ASSUME IInv, NEW c \in Clients, Construct(c) \/ Discard(c) \/ Interrupt(c), UNCHANGED scenario
    PROVE  IInv'
<1>. USE DEF IInv
<1>1. /\ UNCHANGED <<scenario, runs, acts, browser, act>> /\ ClientsOK'
      /\ \A d \in Clients \ {c} : at'[d] = at[d] /\ run'[d] = run[d] /\ session'[d] = session[d]
  <2>1. CASE Construct(c)
    <3>1. ~Managed => current[Shared] \in Nat
      BY DEF DataOK, Workflows
    <3>. QED
      BY <2>1, <3>1 DEF Construct, Goto, ClientsOK, Places, serviceVars
  <2>2. CASE Discard(c)
    BY <2>2 DEF Discard, Goto, ClientsOK, Places, serviceVars
  <2>3. CASE Interrupt(c)
    BY <2>3 DEF Interrupt, Goto, ClientsOK, Places, serviceVars, clientVars
  <2>. QED
    BY <2>1, <2>2, <2>3
<1>2. /\ at'[c] \in {"none", "idle"} /\ ~Acts(c) /\ (at'[c] = "none" => ~browser[c])
      /\ browser[c] => session'[c] = session[c]
  BY DEF Construct, Discard, Interrupt, Goto, ClientsOK, ClientOK, Acts, serviceVars, clientVars
<1>3. \/ UNCHANGED current
      \/ /\ Managed /\ c \in Workflows /\ ~browser[c]
         /\ current' = [current EXCEPT ![c] = 0]
  BY DEF Construct, Discard, Interrupt, ClientOK, Workflows
<1>4. DataOK' /\ RunsOK'
  BY <1>1, <1>3 DEF DataOK, RunsOK, Open, Workflows, Managed
<1>5. ClientOK(c)'
  <2>1. CASE Managed
    BY <1>1, <1>2, <1>3, <2>1 DEF ClientOK, WorkflowOf, Managed, Workflows, Construct, Discard,
                                  Interrupt, Goto, ClientsOK, DataOK, clientVars
  <2>2. CASE ~Managed
    BY <1>1, <1>2, <1>3, <2>2 DEF ClientOK, WorkflowOf, Managed, Workflows, Construct, Discard,
                                  Interrupt, Goto, ClientsOK, DataOK, clientVars
  <2>. QED
    BY <2>1, <2>2
<1>6. \A d \in Clients \ {c} : ClientOK(d)'
  BY <1>1, <1>3 DEF ClientOK, WorkflowOf, Managed, Workflows, DataOK
<1>7. (\A d \in Clients : ActOK(d)') /\ ActsOwn'
  BY <1>1, <1>2 DEF ActOK, Acts, ActsOwn
<1>8. NoRunBehind'
  <2>. SUFFICES ASSUME ~Faults PROVE NoRunBehind'
    BY <1>1 DEF NoRunBehind, Faults
  <2>1. Construct(c) \/ Discard(c)
    BY DEF Interrupt
  <2>2. Managed => current'[c] = 0
    BY <2>1 DEF NoRunBehind, Construct, Discard, DataOK, Workflows
  <2>3. UNCHANGED current
    BY <1>3, <2>1 DEF NoRunBehind, Construct, Discard, DataOK, Workflows
  <2>. QED
    BY <1>1, <2>2, <2>3 DEF NoRunBehind, Faults, Managed, Workflows
<1>. QED
  BY <1>1, <1>2, <1>4, <1>5, <1>6, <1>7, <1>8 DEF Acts, NoneForgotten

-----------------------------------------------------------------------------
\* A workflow that has not entered a run, or whose run is left behind, enters one.
LEMMA Entered ==
    ASSUME IInv, NEW w \in Workflows, EnterWorkflow(w), UNCHANGED scenario
    PROVE  /\ DataOK' /\ RunsOK'
           /\ current'[w] = Len(runs') /\ current'[w] # 0
           /\ \A v \in Workflows \ {w} : current'[v] = current[v]
           /\ UNCHANGED acts
           /\ current[w] = 0 =>
                \A r \in DOMAIN runs' : runs'[r] = "RUNNING" =>
                    \/ r = current'[w]
                    \/ r \in DOMAIN runs /\ runs[r] = "RUNNING"
<1>. USE DEF IInv
<1>1. /\ runs' = Append(runs, "RUNNING") /\ current' = [current EXCEPT ![w] = Len(runs')]
      /\ UNCHANGED acts /\ runs \in Seq(Statuses)
  BY DEF EnterWorkflow, DataOK
<1>2. /\ runs' \in Seq(Statuses) /\ Len(runs') = Len(runs) + 1 /\ Len(runs) \in Nat
      /\ DOMAIN runs = 1 .. Len(runs) /\ DOMAIN runs' = 1 .. Len(runs')
      /\ \A r \in DOMAIN runs : runs'[r] = runs[r]
      /\ runs'[Len(runs')] = "RUNNING"
  BY <1>1 DEF Statuses
<1>3. DataOK' /\ \A v \in Workflows \ {w} : current'[v] = current[v]
  BY <1>1, <1>2 DEF DataOK, Workflows, Managed
<1>4. current'[w] = Len(runs') /\ current'[w] \in Nat \ {0}
  BY <1>1, <1>2 DEF DataOK
<1>5. \A v \in Workflows : current[v] # 0 => current[v] \in DOMAIN runs
  BY DEF RunsOK, Open
<1>6. RunsOK'
  BY <1>2, <1>3, <1>4, <1>5 DEF RunsOK, Open, Workflows, Managed
<1>. QED
  BY <1>1, <1>2, <1>3, <1>4, <1>6

LEMMA EnterStep ==
    ASSUME IInv, ProgramEnters \/ (\E c \in Clients : OpenRun(c)), UNCHANGED scenario
    PROVE  IInv'
<1>. USE DEF IInv
<1>1. CASE ProgramEnters
  <2>1. ~Managed /\ Shared \in Workflows /\ current[Shared] = 0 /\ EnterWorkflow(Shared)
        /\ UNCHANGED <<at, clientVars>>
    BY <1>1 DEF ProgramEnters, Workflows
  <2>2. \A c \in Clients : at[c] = "none" /\ ~browser[c]
    BY <2>1 DEF ClientOK, WorkflowOf
  <2>3. /\ DataOK' /\ RunsOK' /\ UNCHANGED acts
        /\ \A r \in DOMAIN runs' : runs'[r] = "RUNNING" =>
               r = current'[Shared] \/ (r \in DOMAIN runs /\ runs[r] = "RUNNING")
        /\ \A v \in Workflows \ {Shared} : current'[v] = current[v]
    BY <2>1, Entered
  <2>4. ClientsOK' /\ \A c \in Clients : ClientOK(c)' /\ ActOK(c)'
    BY <2>1, <2>2 DEF ClientsOK, ClientOK, ActOK, Acts, WorkflowOf, Managed, clientVars
  <2>5. NoRunBehind'
    <3>. SUFFICES ASSUME ~Faults PROVE NoRunBehind'
      BY DEF NoRunBehind, Faults
    <3>1. \A r \in DOMAIN runs : runs[r] # "RUNNING"
      <4>1. Workflows = {Shared} /\ \A r \in DOMAIN runs : r # 0
        BY <2>1 DEF Workflows, DataOK
      <4>. QED
        BY <2>1, <4>1 DEF NoRunBehind
    <3>. QED
      BY <2>1, <2>3, <3>1 DEF NoRunBehind, Managed, Workflows
  <2>. QED
    BY <2>1, <2>3, <2>4, <2>5 DEF ActsOwn, Acts, NoneForgotten, clientVars
<1>2. ASSUME NEW c \in Clients, OpenRun(c) PROVE IInv'
  <2>1. /\ at[c] = "enter" /\ EnterWorkflow(c)
        /\ run' = [run EXCEPT ![c] = Len(runs')] /\ at' = [at EXCEPT ![c] = "session"]
        /\ UNCHANGED <<session, browser, answering, act, error, cause, refused>>
    BY <1>2 DEF OpenRun, Goto
  <2>2. Managed /\ ~browser[c] /\ c \in Workflows
    BY <2>1 DEF ClientOK, Workflows
  <2>3. /\ DataOK' /\ RunsOK' /\ UNCHANGED acts
        /\ current'[c] = Len(runs') /\ current'[c] # 0
        /\ \A v \in Workflows \ {c} : current'[v] = current[v]
        /\ current[c] = 0 =>
             \A r \in DOMAIN runs' : runs'[r] = "RUNNING" =>
                 r = current'[c] \/ (r \in DOMAIN runs /\ runs[r] = "RUNNING")
    BY <2>1, <2>2, Entered
  <2>4. run'[c] = Len(runs') /\ ClientsOK' /\ at'[c] = "session"
        /\ \A d \in Clients \ {c} : at'[d] = at[d] /\ run'[d] = run[d]
    BY <2>1, <2>3 DEF ClientsOK, DataOK, Places
  <2>5. \A d \in Clients : ClientOK(d)' /\ ActOK(d)'
    <3>1. \A d \in Clients : ActOK(d)'
      BY <2>1, <2>3, <2>4 DEF ActOK, Acts
    <3>2. ClientOK(c)'
      BY <2>1, <2>2, <2>3, <2>4 DEF ClientOK, WorkflowOf, Managed
    <3>3. \A d \in Clients \ {c} : ClientOK(d)'
      BY <2>1, <2>2, <2>3, <2>4 DEF ClientOK, WorkflowOf, Managed, Workflows
    <3>. QED
      BY <3>1, <3>2, <3>3
  <2>6. NoRunBehind'
    BY <2>1, <2>2, <2>3, <2>4 DEF NoRunBehind, Faults, Managed, Workflows
  <2>7. ActsOwn' /\ NoneForgotten'
    BY <2>1, <2>3, <2>4 DEF ActsOwn, Acts, NoneForgotten
  <2>. QED
    BY <2>3, <2>4, <2>5, <2>6, <2>7
<1>. QED
  BY <1>1, <1>2

-----------------------------------------------------------------------------
\* The run a workflow leaves is closed unless that fails, and forgotten.
LEMMA Exited ==
    ASSUME IInv, NEW w \in Workflows, NEW failed \in BOOLEAN, ExitWorkflow(w, failed),
           UNCHANGED scenario
    PROVE  /\ DataOK' /\ RunsOK' /\ UNCHANGED acts
           /\ current'[w] = 0 /\ \A v \in Workflows \ {w} : current'[v] = current[v]
           /\ DOMAIN runs' = DOMAIN runs
           /\ \A r \in DOMAIN runs : r # current[w] => runs'[r] = runs[r]
           /\ ~Faults /\ current[w] # 0 => runs'[current[w]] # "RUNNING"
<1>. USE DEF IInv
<1>1. /\ current' = [current EXCEPT ![w] = 0] /\ UNCHANGED acts
      /\ \/ UNCHANGED runs
         \/ current[w] # 0 /\ \E s \in {"FAILED", "SUCCEEDED"} :
                runs' = [runs EXCEPT ![current[w]] = s]
      /\ ~Faults /\ current[w] # 0 => \E s \in {"FAILED", "SUCCEEDED"} :
                runs' = [runs EXCEPT ![current[w]] = s]
  BY DEF ExitWorkflow
<1>2. current[w] # 0 => current[w] \in DOMAIN runs
  BY DEF RunsOK, Open
<1>3. runs \in Seq(Statuses) /\ runs' \in Seq(Statuses)
  BY <1>1, <1>2 DEF DataOK, Statuses
<1>4. /\ DOMAIN runs' = DOMAIN runs
      /\ \A r \in DOMAIN runs : r # current[w] => runs'[r] = runs[r]
      /\ ~Faults /\ current[w] # 0 => runs'[current[w]] # "RUNNING"
  BY <1>1, <1>2, <1>3
<1>5. /\ DataOK' /\ current'[w] = 0
      /\ \A v \in Workflows \ {w} : current'[v] = current[v]
  BY <1>1, <1>3 DEF DataOK, Workflows, Managed
<1>6. RunsOK'
  BY <1>4, <1>5 DEF RunsOK, Open, Workflows, Managed
<1>. QED
  BY <1>1, <1>4, <1>5, <1>6

\* A workflow is left when the browser of its clients is gone.
LEMMA ExitStep ==
    ASSUME IInv, ProgramExits \/ (\E c \in Clients : CloseRun(c)), UNCHANGED scenario
    PROVE  IInv'
<1>. USE DEF IInv
<1>1. CASE ProgramExits
  <2>1. PICK failed \in BOOLEAN : ExitWorkflow(Shared, failed)
    BY <1>1 DEF ProgramExits
  <2>2. /\ ~Managed /\ Shared \in Workflows /\ Workflows = {Shared}
        /\ \A c \in Clients : at[c] = "none" /\ ~browser[c]
        /\ UNCHANGED <<at, clientVars>>
    BY <1>1 DEF ProgramExits, Workflows, ClientOK
  <2>3. /\ DataOK' /\ RunsOK' /\ UNCHANGED acts
        /\ current'[Shared] = 0 /\ DOMAIN runs' = DOMAIN runs
        /\ \A r \in DOMAIN runs : r # current[Shared] => runs'[r] = runs[r]
        /\ ~Faults /\ current[Shared] # 0 => runs'[current[Shared]] # "RUNNING"
    BY <2>1, <2>2, Exited
  <2>4. ClientsOK' /\ \A c \in Clients : ClientOK(c)' /\ ActOK(c)'
    BY <2>2 DEF ClientsOK, ClientOK, ActOK, Acts, WorkflowOf, Managed, clientVars
  <2>5. NoRunBehind'
    <3>. SUFFICES ASSUME ~Faults PROVE NoRunBehind'
      BY DEF NoRunBehind, Faults
    <3>1. \A r \in DOMAIN runs' : runs'[r] # "RUNNING"
      BY <2>2, <2>3 DEF NoRunBehind, DataOK
    <3>. QED
      BY <2>2, <3>1 DEF NoRunBehind, Managed
  <2>. QED
    BY <2>2, <2>3, <2>4, <2>5 DEF ActsOwn, Acts, NoneForgotten, clientVars
<1>2. ASSUME NEW c \in Clients, CloseRun(c) PROVE IInv'
  <2>1. /\ at[c] = "exiting" /\ ExitWorkflow(c, cause[c] = "exception")
        /\ at' = [at EXCEPT ![c] = "idle"] /\ UNCHANGED clientVars
        /\ (cause[c] = "exception") \in BOOLEAN
    BY <1>2 DEF CloseRun, Goto
  <2>2. Managed /\ ~browser[c] /\ c \in Workflows
    BY <2>1 DEF ClientOK, Workflows
  <2>3. /\ DataOK' /\ RunsOK' /\ UNCHANGED acts
        /\ current'[c] = 0 /\ DOMAIN runs' = DOMAIN runs
        /\ \A v \in Workflows \ {c} : current'[v] = current[v]
        /\ \A r \in DOMAIN runs : r # current[c] => runs'[r] = runs[r]
        /\ ~Faults /\ current[c] # 0 => runs'[current[c]] # "RUNNING"
    BY <2>1, <2>2, Exited
  <2>4. ClientsOK' /\ at'[c] = "idle" /\ \A d \in Clients \ {c} : at'[d] = at[d]
    BY <2>1 DEF ClientsOK, Places, clientVars
  <2>5. \A d \in Clients : ClientOK(d)' /\ ActOK(d)'
    BY <2>1, <2>2, <2>3, <2>4 DEF ClientOK, ActOK, Acts, WorkflowOf, Managed, Workflows, clientVars
  <2>6. NoRunBehind'
    <3>. SUFFICES ASSUME ~Faults PROVE NoRunBehind'
      BY DEF NoRunBehind, Faults
    <3>1. \A r \in DOMAIN runs' : runs'[r] = "RUNNING" =>
              r # current[c] /\ \E w \in Workflows : current[w] = r
      BY <2>3 DEF NoRunBehind, DataOK
    <3>2. \A r \in DOMAIN runs' : runs'[r] = "RUNNING" => \E w \in Workflows : current'[w] = r
      BY <2>3, <3>1
    <3>. QED
      BY <2>1, <2>2, <2>3, <2>4, <3>2 DEF NoRunBehind, Managed, Workflows, clientVars
  <2>. QED
    BY <2>1, <2>3, <2>4, <2>5, <2>6 DEF ActsOwn, Acts, NoneForgotten, clientVars
<1>. QED
  BY <1>1, <1>2

-----------------------------------------------------------------------------
\* An act is created under the client's run, ends, and is reported.
LEMMA ActCreated ==
    ASSUME IInv, NEW c \in Clients, CreateAct(c), UNCHANGED scenario
    PROVE  IInv'
<1>. USE DEF IInv
<1>1. /\ at[c] = "idle" /\ browser[c] /\ session[c]
      /\ acts' = Append(acts, [run |-> run[c], status |-> "RUNNING", lost |-> FALSE])
      /\ act' = [act EXCEPT ![c] = Len(acts')] /\ at' = [at EXCEPT ![c] = "act"]
      /\ error' = [error EXCEPT ![c] = FALSE]
      /\ UNCHANGED <<scenario, runs, current, run, session, browser, answering, cause, refused>>
  BY DEF CreateAct, Started, Goto
<1>2. acts \in Seq(ActRecords) /\ [run |-> run[c], status |-> "RUNNING", lost |-> FALSE] \in ActRecords
  BY DEF DataOK, ClientsOK, ActRecords, Statuses
<1>3. /\ acts' \in Seq(ActRecords) /\ Len(acts') = Len(acts) + 1 /\ Len(acts) \in Nat
      /\ DOMAIN acts = 1 .. Len(acts) /\ DOMAIN acts' = 1 .. Len(acts')
      /\ \A a \in DOMAIN acts : acts'[a] = acts[a]
      /\ acts'[Len(acts')] = [run |-> run[c], status |-> "RUNNING", lost |-> FALSE]
  BY <1>1, <1>2
<1>4. DataOK' /\ RunsOK' /\ ClientsOK'
  BY <1>1, <1>3 DEF DataOK, RunsOK, Open, ClientsOK, Places, Workflows, Managed
<1>5. /\ act'[c] = Len(acts') /\ at'[c] = "act"
      /\ \A d \in Clients \ {c} : act'[d] = act[d] /\ at'[d] = at[d]
  BY <1>1, <1>4 DEF ClientsOK
<1>6. \A d \in Clients : ClientOK(d)'
  BY <1>1, <1>5 DEF ClientOK, WorkflowOf, Managed
<1>7. \A d \in Clients : ActOK(d)'
  BY <1>1, <1>3, <1>5 DEF ActOK, Acts
<1>8. ActsOwn'
  BY <1>3, <1>5 DEF ActsOwn, ActOK, Acts
<1>9. NoneForgotten'
  <2>1. ~Acts(c) /\ Acts(c)'
    BY <1>1, <1>5 DEF Acts
  <2>2. \A a \in DOMAIN acts, d \in Clients : Acts(d) /\ act[d] = a => Acts(d)' /\ act'[d] = a
    BY <1>5, <2>1 DEF Acts
  <2>. QED
    BY <1>3, <1>5, <2>1, <2>2 DEF NoneForgotten
<1>10. NoRunBehind'
  BY <1>1, <1>5 DEF NoRunBehind, Faults, Managed, Workflows
<1>. QED
  BY <1>4, <1>6, <1>7, <1>8, <1>9, <1>10

\* One record of the acts, that of the client's act, is brought up to date.
LEMMA ActUpdated ==
    ASSUME IInv, NEW c \in Clients, ActEnds(c) \/ ReportAct(c), UNCHANGED scenario
    PROVE  IInv'
<1>. USE DEF IInv
<1>1. /\ Acts(c) /\ browser[c] /\ at'[c] \in {"report", "idle"}
      /\ UNCHANGED <<scenario, runs, current, run, session, browser, answering, cause, refused>>
      /\ ClientsOK'
  <2>1. CASE ActEnds(c)
    <3>1. PICK how \in Ends : error' = [error EXCEPT ![c] = how = "error"]
      BY <2>1 DEF ActEnds
    <3>2. (how = "error") \in BOOLEAN
      OBVIOUS
    <3>3. error' \in [Clients -> BOOLEAN]
      BY <3>1, <3>2 DEF ClientsOK
    <3>. QED
      BY <2>1, <3>3 DEF ActEnds, Goto, Acts, ClientsOK, ClientOK, Places, serviceVars
  <2>2. CASE ReportAct(c)
    BY <2>2 DEF ReportAct, Goto, Acts, ClientsOK, ClientOK, Places
  <2>. QED
    BY <2>1, <2>2
<1>2. \A d \in Clients \ {c} : act'[d] = act[d] /\ at'[d] = at[d]
  BY DEF ActEnds, ReportAct, Goto, clientVars, ClientsOK
<1>3. act[c] \in DOMAIN acts /\ acts[act[c]].status = "RUNNING" /\ acts[act[c]].run = run[c]
      /\ acts \in Seq(ActRecords) /\ acts[act[c]] \in ActRecords
  BY <1>1 DEF ActOK, DataOK
<1>4. /\ acts' \in Seq(ActRecords) /\ DOMAIN acts' = DOMAIN acts
      /\ \A a \in DOMAIN acts : a # act[c] => acts'[a] = acts[a]
      /\ acts'[act[c]].run = acts[act[c]].run
      /\ at'[c] = "report" => acts'[act[c]].status = "RUNNING" /\ act'[c] = act[c]
      /\ at'[c] = "idle" => acts'[act[c]].status # "RUNNING" \/ acts'[act[c]].lost
  <2>1. CASE ActEnds(c)
    <3>1. UNCHANGED <<acts, act>> /\ at'[c] = "report"
      BY <2>1 DEF ActEnds, Goto, serviceVars, ClientsOK
    <3>. QED
      BY <3>1, <1>3
  <2>2. CASE ReportAct(c)
    <3>1. at'[c] = "idle"
      BY <2>2 DEF ReportAct, Goto, ClientsOK
    <3>2. \/ \E status \in {"FAILED", "SUCCEEDED"} : acts' = [acts EXCEPT ![act[c]].status = status]
          \/ acts' = [acts EXCEPT ![act[c]].lost = TRUE]
      <4>1. StatusOf(error[c]) \in {"FAILED", "SUCCEEDED"}
        BY DEF StatusOf
      <4>. QED
        BY <2>2, <4>1 DEF ReportAct
    <3>3. CASE acts' = [acts EXCEPT ![act[c]].lost = TRUE]
      <4>. DEFINE entry == acts[act[c]]
      <4>1. [entry EXCEPT !.lost = TRUE] \in ActRecords
        BY <1>3 DEF ActRecords
      <4>2. /\ acts' \in Seq(ActRecords) /\ DOMAIN acts' = DOMAIN acts
            /\ acts'[act[c]] = [entry EXCEPT !.lost = TRUE]
            /\ \A a \in DOMAIN acts : a # act[c] => acts'[a] = acts[a]
        BY <3>3, <4>1, <1>3
      <4>3. acts'[act[c]].run = entry.run /\ acts'[act[c]].lost
        <5>1. entry \in [run : Nat, status : Statuses, lost : BOOLEAN]
          BY <1>3 DEF ActRecords
        <5>2. [entry EXCEPT !.lost = TRUE].lost = TRUE /\ [entry EXCEPT !.lost = TRUE].run = entry.run
          BY <5>1
        <5>. QED
          BY <4>2, <5>2
      <4>. QED
        BY <3>1, <4>2, <4>3
    <3>4. CASE \E status \in {"FAILED", "SUCCEEDED"} : acts' = [acts EXCEPT ![act[c]].status = status]
      <4>1. PICK status \in {"FAILED", "SUCCEEDED"} : acts' = [acts EXCEPT ![act[c]].status = status]
        BY <3>4
      <4>. QED
        BY <3>1, <4>1, <1>3 DEF ActRecords, Statuses
    <3>. QED
      BY <3>2, <3>3, <3>4
  <2>. QED
    BY <2>1, <2>2
<1>5. DataOK' /\ RunsOK'
  BY <1>1, <1>4 DEF DataOK, RunsOK, Open, Workflows, Managed
<1>6. \A d \in Clients : ClientOK(d)'
  BY <1>1, <1>2 DEF ClientOK, WorkflowOf, Managed, Acts
<1>7. ActOK(c)'
  BY <1>1, <1>3, <1>4 DEF ActOK, Acts
<1>8. \A d \in Clients \ {c} : ActOK(d)'
  BY <1>1, <1>2, <1>4 DEF ActOK, Acts, ActsOwn
<1>9. ActsOwn'
  BY <1>1, <1>2, <1>4 DEF ActsOwn, Acts
<1>10. NoneForgotten'
  BY <1>1, <1>2, <1>4 DEF Acts, NoneForgotten
<1>11. NoRunBehind'
  BY <1>1, <1>2 DEF NoRunBehind, Faults, Managed, Workflows, Acts
<1>. QED
  BY <1>1, <1>5, <1>6, <1>7, <1>8, <1>9, <1>10, <1>11

-----------------------------------------------------------------------------
\* The invariant is inductive.
LEMMA StepIInv == IInv /\ [Next]_vars => IInv'
<1>. SUFFICES ASSUME IInv, [Next]_vars PROVE IInv'
  OBVIOUS
<1>1. CASE Next
  <2>1. UNCHANGED scenario
    BY <1>1 DEF Next
  <2>2. CASE ProgramEnters \/ ProgramExits
    BY <2>1, <2>2, EnterStep, ExitStep
  <2>3. ASSUME NEW c \in Clients, ClientStep(c) \/ ProgramStep(c) \/ Interrupt(c) PROVE IInv'
    BY <2>1, <2>3, EnterStep, ExitStep, LocalStep, ProgramMoves, ActCreated, ActUpdated
       DEF ClientStep, ProgramStep, Local
  <2>. QED
    BY <1>1, <2>2, <2>3 DEF Next
<1>2. CASE UNCHANGED vars
  BY <1>2 DEF vars, serviceVars, clientVars, IInv, DataOK, ClientsOK, RunsOK, NoRunBehind, Open,
              ClientOK, ActOK, Acts, ActsOwn, NoneForgotten, WorkflowOf, Workflows, Managed, Faults
<1>. QED
  BY <1>1, <1>2

\* The invariant holds in every state of every program.
THEOREM SessionInvariant == Spec => []IInv
  BY InitIInv, StepIInv, PTL DEF Spec

\* A client's browser is gone before its run is closed, whatever fails; without
\* faults a run that is open is one that a workflow has entered.
THEOREM BrowserUnderOpenRun == Spec => []BrowserNeedsOpenRun
<1>1. IInv => BrowserNeedsOpenRun
  <2>. SUFFICES ASSUME IInv PROVE BrowserNeedsOpenRun
    OBVIOUS
  <2>1. \A c \in Clients : WorkflowOf(c) \in Workflows
    BY DEF WorkflowOf, Workflows
  <2>. QED
    BY <2>1 DEF IInv, BrowserNeedsOpenRun, RunsOK, Open, ClientOK, NoRunBehind
<1>. QED
  BY SessionInvariant, <1>1, PTL

\* An act listed as RUNNING is in progress under its client's open run, or its
\* report was lost.
THEOREM ActsStayAccounted == Spec => []ActsAccountedFor
<1>1. IInv => ActsAccountedFor
  <2>. SUFFICES ASSUME IInv, NEW a \in DOMAIN acts, acts[a].status = "RUNNING", ~acts[a].lost
                PROVE  \E c \in Clients :
                           /\ act[c] = a /\ at[c] \in {"act", "report"} /\ browser[c]
                           /\ acts[a].run = run[c] /\ Ledger!IsOpen(run[c])
    BY DEF ActsAccountedFor
  <2>1. PICK c \in Clients : Acts(c) /\ act[c] = a
    BY DEF IInv, NoneForgotten
  <2>2. browser[c] /\ acts[a].run = run[c]
    BY <2>1 DEF IInv, ClientOK, ActOK, Acts
  <2>3. WorkflowOf(c) \in Workflows /\ run[c] = current[WorkflowOf(c)] /\ run[c] # 0
    BY <2>2 DEF IInv, ClientOK, WorkflowOf, Workflows
  <2>4. Ledger!IsOpen(run[c])
    BY <2>3 DEF IInv, RunsOK, Open, Ledger!IsOpen
  <2>. QED
    BY <2>1, <2>2, <2>4 DEF Acts
<1>. QED
  BY SessionInvariant, <1>1, PTL

-----------------------------------------------------------------------------
(* The service's books.                                                    *)

\* What the service keeps of a sequence of acts.
Entry(a) == [run |-> a.run, status |-> a.status]
Books(s) == [a \in DOMAIN s |-> Entry(s[a])]

\* An act that is created becomes the last entry of the books.
LEMMA BooksAppend ==
    ASSUME NEW s \in Seq(ActRecords), NEW e \in ActRecords
    PROVE  Books(Append(s, e)) = Append(Books(s), Entry(e))
<1>. DEFINE E == {Entry(a) : a \in ActRecords}
            t == Append(s, e)
            u == Append(Books(s), Entry(e))
<1>1. /\ Len(s) \in Nat /\ DOMAIN s = 1 .. Len(s) /\ \A a \in 1 .. Len(s) : s[a] \in ActRecords
      /\ t \in Seq(ActRecords) /\ Len(t) = Len(s) + 1 /\ DOMAIN t = 1 .. (Len(s) + 1)
      /\ \A a \in 1 .. Len(s) : t[a] = s[a]
      /\ t[Len(s) + 1] = e
  OBVIOUS
<1>2. /\ \A a \in 1 .. Len(s) : Books(s)[a] = Entry(s[a])
      /\ Books(s) \in [1 .. Len(s) -> E] /\ Entry(e) \in E
      /\ Books(t) \in [1 .. (Len(s) + 1) -> E]
  BY <1>1 DEF Books
<1>3. Books(s) \in Seq(E) /\ Len(Books(s)) = Len(s) /\ Books(t) \in Seq(E) /\ Len(Books(t)) = Len(s) + 1
  <2>. HIDE DEF E, t
  <2>. QED
    BY <1>1, <1>2
<1>4. u \in Seq(E) /\ Len(u) = Len(s) + 1
  <2>. HIDE DEF E
  <2>. QED
    BY <1>1, <1>2, <1>3, AppendProperties
<1>5. \A a \in 1 .. (Len(s) + 1) : u[a] = IF a = Len(s) + 1 THEN Entry(e) ELSE Entry(s[a])
  <2>. HIDE DEF E
  <2>. QED
    BY <1>1, <1>2, <1>3, AppendProperties
<1>6. \A a \in 1 .. (Len(s) + 1) : Books(t)[a] = u[a]
  BY <1>1, <1>5 DEF Books
<1>. QED
  <2>. HIDE DEF E, t, u
  <2>1. Books(t) = u
    BY <1>1, <1>3, <1>4, <1>6, SeqEqual
  <2>. QED
    BY <2>1 DEF t, u

\* Every step of the clients is an entry in the books or none.
LEMMA StepLedger == IInv /\ [Next]_vars => [Ledger!Next]_<<runs, Books(acts)>>
<1>. SUFFICES ASSUME IInv, Next PROVE Ledger!Next \/ UNCHANGED <<runs, Books(acts)>>
  BY DEF vars, serviceVars, Books
<1>. USE DEF IInv
<1>1. ASSUME NEW w \in Workflows, EnterWorkflow(w) PROVE Ledger!OpenRun
  BY <1>1 DEF EnterWorkflow, Ledger!OpenRun
<1>2. ASSUME NEW w \in Workflows, NEW failed \in BOOLEAN, ExitWorkflow(w, failed)
      PROVE  Ledger!CloseRun \/ UNCHANGED <<runs, acts>>
  <2>1. current[w] # 0 => Ledger!IsOpen(current[w])
    BY DEF RunsOK, Open, Ledger!IsOpen
  <2>. QED
    BY <1>2, <2>1 DEF ExitWorkflow, Ledger!CloseRun, Ledger!FinalStatuses, Ledger!IsOpen
<1>3. ASSUME NEW c \in Clients, CreateAct(c) PROVE Ledger!CreateAct
  <2>1. Ledger!IsOpen(run[c]) /\ run[c] \in DOMAIN runs
    BY <1>3 DEF CreateAct, Started, ClientOK, WorkflowOf, Workflows, RunsOK, Open, Ledger!IsOpen
  <2>. DEFINE new == [run |-> run[c], status |-> "RUNNING", lost |-> FALSE]
  <2>2. new \in ActRecords /\ Entry(new) = [run |-> run[c], status |-> "RUNNING"]
    BY DEF ActRecords, Statuses, ClientsOK, Entry
  <2>3. Books(Append(acts, new)) = Append(Books(acts), Entry(new))
    <3>. HIDE DEF new
    <3>. QED
      BY <2>2, BooksAppend DEF DataOK
  <2>. QED
    BY <1>3, <2>1, <2>2, <2>3 DEF CreateAct, Ledger!CreateAct, Books, Entry
<1>4. ASSUME NEW c \in Clients, ActEnds(c) PROVE UNCHANGED <<runs, Books(acts)>>
  BY <1>4 DEF ActEnds, Books, serviceVars
<1>5. ASSUME NEW c \in Clients, ReportAct(c)
      PROVE  Ledger!UpdateAct \/ UNCHANGED <<runs, Books(acts)>>
  <2>1. PICK a \in DOMAIN acts : a = act[c]
    BY <1>5 DEF ReportAct, ActOK, Acts
  <2>2. acts[a].status = "RUNNING" /\ Ledger!IsOpen(acts[a].run)
    BY <1>5, <2>1 DEF ReportAct, ActOK, Acts, ClientOK, WorkflowOf, Workflows, RunsOK, Open, Ledger!IsOpen
  <2>3. /\ UNCHANGED runs
        /\ \/ acts' = [acts EXCEPT ![a].lost = TRUE]
           \/ \E status \in {"SUCCEEDED", "FAILED"} : acts' = [acts EXCEPT ![a].status = status]
    <3>1. StatusOf(error[c]) \in {"FAILED", "SUCCEEDED"}
      BY DEF StatusOf
    <3>. QED
      BY <1>5, <2>1, <3>1 DEF ReportAct
  <2>4. ASSUME NEW status \in {"SUCCEEDED", "FAILED"}, acts' = [acts EXCEPT ![a].status = status]
        PROVE  Books(acts') = [Books(acts) EXCEPT ![a].status = status]
    <3>. DEFINE new == [Books(acts) EXCEPT ![a].status = status]
    <3>1. acts[a] \in ActRecords /\ acts \in [DOMAIN acts -> ActRecords]
      BY DEF DataOK
    <3>2. /\ acts' \in [DOMAIN acts -> ActRecords]
          /\ \A b \in DOMAIN acts \ {a} : acts'[b] = acts[b]
          /\ acts'[a].run = acts[a].run /\ acts'[a].status = status
      BY <2>4, <3>1 DEF ActRecords, Statuses
    <3>3. /\ new = [b \in DOMAIN acts |-> new[b]]
          /\ \A b \in DOMAIN acts \ {a} : new[b] = Entry(acts[b])
      BY DEF Books
    <3>4. new[a] = [Entry(acts[a]) EXCEPT !.status = status]
      BY DEF Books
    <3>5. new[a] = [run |-> acts[a].run, status |-> status]
      BY <3>4 DEF Entry
    <3>6. \A b \in DOMAIN acts : new[b] = Entry(acts'[b])
      BY <3>2, <3>3, <3>5 DEF Entry
    <3>7. Books(acts') = [b \in DOMAIN acts |-> Entry(acts'[b])]
      BY <3>2 DEF Books
    <3>. QED
      BY <3>3, <3>6, <3>7
  <2>5. ASSUME acts' = [acts EXCEPT ![a].lost = TRUE] PROVE UNCHANGED Books(acts)
    <3>1. acts[a] \in ActRecords /\ acts \in [DOMAIN acts -> ActRecords]
      BY DEF DataOK
    <3>2. /\ DOMAIN acts' = DOMAIN acts
          /\ \A b \in DOMAIN acts : acts'[b].run = acts[b].run /\ acts'[b].status = acts[b].status
      BY <2>5, <3>1 DEF ActRecords
    <3>. QED
      BY <3>2 DEF Books, Entry
  <2>. QED
    BY <2>1, <2>2, <2>3, <2>4, <2>5 DEF Ledger!UpdateAct, Ledger!FinalStatuses, Books, Entry
<1>6. ASSUME UNCHANGED <<runs, acts>> PROVE UNCHANGED <<runs, Books(acts)>>
  BY <1>6 DEF Books
<1>7. ASSUME NEW c \in Clients, ClientStep(c) \/ ProgramStep(c) \/ Interrupt(c)
      PROVE  Ledger!Next \/ UNCHANGED <<runs, Books(acts)>>
  <2>1. CASE OpenRun(c)
    <3>1. c \in Workflows /\ EnterWorkflow(c)
      BY <2>1 DEF OpenRun, ClientOK, Workflows
    <3>. QED
      BY <3>1, <1>1 DEF Ledger!Next
  <2>2. CASE CloseRun(c)
    <3>1. c \in Workflows /\ ExitWorkflow(c, cause[c] = "exception")
      BY <2>2 DEF CloseRun, ClientOK, Workflows
    <3>. QED
      BY <3>1, <1>2, <1>6 DEF Ledger!Next
  <2>3. CASE CreateAct(c) \/ ActEnds(c) \/ ReportAct(c)
    BY <2>3, <1>3, <1>4, <1>5 DEF Ledger!Next
  <2>4. CASE Local(c) \/ Construct(c) \/ Discard(c) \/ Interrupt(c)
    BY <2>4, <1>6 DEF Local, Start, StartCallFails, CreateSession, StartBrowser, Stop, StopBrowser,
                      StopFails, Construct, Discard, Interrupt, serviceVars
  <2>. QED
    BY <1>7, <2>1, <2>2, <2>3, <2>4 DEF ClientStep, ProgramStep, Local
<1>8. CASE ProgramEnters
  BY <1>8, <1>1 DEF ProgramEnters, Workflows, Ledger!Next
<1>9. CASE ProgramExits
  <2>1. PICK failed \in BOOLEAN : ExitWorkflow(Shared, failed)
    BY <1>9 DEF ProgramExits
  <2>2. Shared \in Workflows
    BY <1>9 DEF ProgramExits, Workflows
  <2>. QED
    BY <2>1, <2>2, <1>2, <1>6 DEF Ledger!Next
<1>. QED
  BY <1>7, <1>8, <1>9 DEF Next

\* The clients implement the books of the service: a run is closed once, and acts
\* are created and reported only under an open run, once.
THEOREM KeepsTheLedger == Spec => ImplementsLedger
<1>1. Init => Ledger!Init
  BY DEF Init, Ledger!Init
<1>2. IInv /\ [Next]_vars => [Ledger!Next]_<<runs, Books(acts)>>
  BY StepLedger
<1>3. Books(acts) = [a \in DOMAIN acts |-> [run |-> acts[a].run, status |-> acts[a].status]]
  BY DEF Books, Entry
<1>4. IInv /\ [Next]_vars => [Ledger!Next]_<<runs, [a \in DOMAIN acts |-> [run |-> acts[a].run, status |-> acts[a].status]]>>
  BY <1>2, <1>3 DEF Books, Entry
<1>. QED
  BY <1>1, <1>4, SessionInvariant, PTL DEF Spec, ImplementsLedger, Ledger!Spec

=============================================================================
