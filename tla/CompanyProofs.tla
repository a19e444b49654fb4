--------------------------- MODULE CompanyProofs ---------------------------
(***************************************************************************)
(* Proofs about Company for every roster, every bound and every            *)
(* concurrency limit.  The inductive invariant IInv adds to the type       *)
(* invariant what the rows of each table say about the other tables and    *)
(* about the dispatcher's memory; the safety properties follow from it.    *)
(***************************************************************************)
EXTENDS Company, FiniteSetTheorems, TLAPS

\* Task rows: what an absent or an active task looks like, whom it may be
\* assigned to, and that a temporary worker has one assignment in its life.
TasksOK ==
    /\ \A t \in Tasks :
          /\ tstatus[t] = "absent" => tparent[t] = NoTask /\ tassignee[t] = NoWorker
          /\ tstatus[t] # "absent" => /\ tassignee[t] \in Workers
                                      /\ lifecycle[tassignee[t]] # "none"
          /\ tstatus[t] \in {"absent", "queued", "working"} => treason[t] = "none"
    /\ \A w \in Workers : enabled[w] => lifecycle[w] # "none"
    /\ \A t, u \in Tasks :
          /\ tstatus[t] # "absent" /\ tassignee[t] = tassignee[u]
          /\ lifecycle[tassignee[t]] = "temporary"
          => t = u

\* Execution rows and the runners the dispatcher keeps for the running ones.
ExecsOK ==
    \A e \in Execs :
        /\ estatus[e] = "absent" => /\ etask[e] = NoTask /\ attempt[e] = "none"
                                    /\ turn[e] = "none" /\ phase[e] = "none"
        /\ estatus[e] # "absent" => etask[e] \in Tasks /\ tstatus[etask[e]] # "absent"
        /\ phase[e] # "none" => estatus[e] = "running" /\ dispatch # "down"
        /\ estatus[e] = "running" /\ dispatch # "down" => phase[e] # "none"
        /\ phase[e] = "closing" => outcome[e] \in Outcomes

\* Who works on what: running executions and working tasks correspond, and a
\* worker has one running execution at most.
WorkOK ==
    /\ \A e \in Execs : estatus[e] = "running" =>
          tstatus[etask[e]] = "working" /\ enabled[WorkerOf(e)]
    /\ \A t \in Tasks : tstatus[t] = "working" =>
          \E e \in Execs : estatus[e] = "running" /\ etask[e] = t
    /\ \A e, f \in Execs :
          estatus[e] = "running" /\ estatus[f] = "running" /\ WorkerOf(e) = WorkerOf(f) => e = f

\* Provider turns and attempt rows: a turn that may be running has an unresolved
\* row, a runner that closes as settled has seen the turn end, and a worker with
\* an unresolved row has no other one and runs nothing else.
TurnsOK ==
    /\ \A e \in Execs :
          /\ turn[e] = "sent" => attempt[e] = "unresolved"
          /\ settled[e] => turn[e] # "sent" /\ phase[e] = "closing"
          /\ phase[e] \in {"intent", "turn"} => attempt[e] = "unresolved"
    /\ \A e, f \in Execs :
          /\ attempt[e] = "unresolved"
          /\ attempt[f] = "unresolved" \/ estatus[f] = "running"
          /\ WorkerOf(e) = WorkerOf(f)
          => e = f

\* A task was opened under another one that exists.
ParentsOK ==
    \A t \in Tasks : tparent[t] \in Tasks => tparent[t] # t /\ tstatus[tparent[t]] # "absent"

IInv == TypeOK /\ TasksOK /\ ParentsOK /\ ExecsOK /\ WorkOK /\ TurnsOK

-----------------------------------------------------------------------------
LEMMA InitTypeOK == Init => TypeOK
<1> SUFFICES ASSUME Init PROVE TypeOK
  OBVIOUS
<1>1. enabled \in [Workers -> BOOLEAN]
  BY DEF Init
<1>2. lifecycle \in [Workers -> {"none", "persistent", "temporary"}]
  BY CompanyAssumption DEF Init
<1>3. /\ tassignee \in [Tasks -> Workers \cup {NoWorker}]
      /\ tparent \in [Tasks -> Tasks \cup {NoTask}]
      /\ tcreated \in [Tasks -> Execs \cup {NoExec}]
      /\ etask \in [Execs -> Tasks \cup {NoTask}]
  BY DEF Init
<1>4. /\ tartifact \in [Tasks -> BOOLEAN] /\ ebound \in [Execs -> BOOLEAN]
      /\ aborted \in [Execs -> BOOLEAN] /\ settled \in [Execs -> BOOLEAN]
  BY DEF Init
<1> QED
  BY <1>1, <1>2, <1>3, <1>4 DEF Init, TypeOK, Statuses, Reasons, Dispatches, Kinds, Outcomes, Phases

\* The cached status refreshWorker writes is one of the four worker statuses.
LEMMA RefreshType ==
  ASSUME NEW W, wstatus \in [Workers -> {"idle", "queued", "working", "blocked"}],
         RefreshWorkers(W)
  PROVE  wstatus' \in [Workers -> {"idle", "queued", "working", "blocked"}]
  BY DEF RefreshWorkers, DerivedStatus

\* CreateTask writes a well-typed row.
LEMMA CreateTaskType ==
  ASSUME TypeOK, NEW t \in Tasks, NEW w \in Workers, NEW p \in Tasks \cup {NoTask},
         NEW k \in Kinds, NEW c \in Execs \cup {NoExec}, CreateTask(t, w, p, k, c)
  PROVE  TypeOK'
<1>1. wstatus' \in [Workers -> {"idle", "queued", "working", "blocked"}]
  BY RefreshType DEF CreateTask, TypeOK
<1> QED
  BY <1>1 DEF CreateTask, Kick, TypeOK, Statuses, Dispatches, execVars, workerVars, runnerVars

LEMMA MoveTaskType ==
  ASSUME TypeOK, NEW t \in Tasks, NEW s \in Statuses, NEW r \in Reasons, MoveTask(t, s, r)
  PROVE  /\ tstatus' \in [Tasks -> Statuses \cup {"absent"}]
         /\ treason' \in [Tasks -> Reasons]
         /\ tdispatch' \in [Tasks -> Dispatches]
         /\ wake' \subseteq Tasks
  BY DEF MoveTask, TypeOK, Statuses, Reasons, Dispatches

\* How an execution and its task may end: a task is closed only when nothing holds
\* it, and waits for children only when its children do.
LEMMA EndValues ==
  ASSUME NEW status \in Outcomes, NEW holds \in BOOLEAN, NEW integrating \in BOOLEAN
  PROVE  /\ TaskAfter(status, holds) \in Statuses \ {"queued", "working", "cancelled"}
         /\ ReasonAfter(status, holds, integrating) \in Reasons
         /\ TaskAfter(status, holds) = "completed" => ~holds
         /\ ReasonAfter(status, holds, integrating) = "waiting_children" => holds /\ ~integrating
<1>1. CASE status = "completed"
  BY <1>1 DEF TaskAfter, ReasonAfter, Statuses, Reasons
<1>2. CASE status # "completed"
  BY <1>2 DEF TaskAfter, ReasonAfter, Outcomes, Statuses, Reasons
<1> QED
  BY <1>1, <1>2

\* Finish ends its execution with an outcome and moves its task out of working.
LEMMA FinishFacts ==
  ASSUME TypeOK, ExecsOK, NEW e \in Execs, NEW evidence \in BOOLEAN, NEW integrating \in BOOLEAN,
         Finish(e, evidence, integrating)
  PROVE  /\ phase[e] = "closing" /\ estatus[e] = "running" /\ etask[e] \in Tasks
         /\ \E x \in Outcomes : estatus' = [estatus EXCEPT ![e] = x]
         /\ \E s \in Statuses \ {"queued", "working", "cancelled"}, r \in Reasons :
               /\ MoveTask(etask[e], s, r) /\ RetireIf(WorkerOf(e), Terminal(s))
               /\ s = "completed" => ChildrenTerminal(etask[e])
               /\ r = "waiting_children" => Children(etask[e]) # {}
<1> DEFINE waits == WaitsForChildren(e)
           holds == waits \/ integrating
           status == EndStatus(e, holds, evidence)
           to == TaskAfter(status, holds)
           reason == ReasonAfter(status, holds, integrating)
<1>1. /\ estatus' = [estatus EXCEPT ![e] = status]
      /\ MoveTask(etask[e], to, reason) /\ RetireIf(WorkerOf(e), Terminal(to))
      /\ phase[e] = "closing"
  BY DEF Finish
<1>2. estatus[e] = "running" /\ etask[e] \in Tasks /\ outcome[e] \in Outcomes
  BY <1>1 DEF ExecsOK, TypeOK
<1>3. status \in Outcomes /\ waits \in BOOLEAN
  BY <1>2 DEF EndStatus, WaitsForChildren, Outcomes
<1>4. ~waits => ChildrenTerminal(etask[e])
  BY DEF WaitsForChildren, ChildrenTerminal
<1>5. waits => Children(etask[e]) # {}
  BY DEF WaitsForChildren
<1> HIDE DEF waits, status
<1>6. /\ to \in Statuses \ {"queued", "working", "cancelled"} /\ reason \in Reasons
      /\ to = "completed" => ~holds
      /\ reason = "waiting_children" => holds /\ ~integrating
  BY <1>3, EndValues
<1> HIDE DEF to, reason
<1> QED
  BY <1>1, <1>2, <1>3, <1>4, <1>5, <1>6

\* Every step keeps the types; finishing relies on the runner's outcome being one
\* and on its execution having a task (ExecsOK).
LEMMA TypeStep == TypeOK /\ ExecsOK /\ [Next]_vars => TypeOK'
<1> SUFFICES ASSUME TypeOK, ExecsOK, [Next]_vars PROVE TypeOK'
  OBVIOUS
<1> USE CompanyAssumption
<1>1. CASE OwnerStep
  <2>1. ASSUME NEW k \in RootKinds, AssignObjective(k) PROVE TypeOK'
    BY <2>1, CreateTaskType DEF AssignObjective, Kinds
  <2>2. ASSUME NEW t \in Tasks, Retry(t) PROVE TypeOK'
    <3>1. wstatus' \in [Workers -> {"idle", "queued", "working", "blocked"}]
      BY <2>2, RefreshType DEF Retry, TypeOK
    <3> QED
      BY <2>2, <3>1 DEF Retry, Kick, TypeOK, Statuses, Reasons, Dispatches, execVars,
                        workerVars, runnerVars
  <2>3. ASSUME NEW t \in Tasks, Cancel(t) PROVE TypeOK'
    <3>1. wstatus' \in [Workers -> {"idle", "queued", "working", "blocked"}]
      BY <2>3, RefreshType DEF Cancel, TypeOK
    <3>2. "cancelled" \in Statuses /\ "none" \in Reasons
      BY DEF Statuses, Reasons
    <3>3. /\ tstatus' \in [Tasks -> Statuses \cup {"absent"}]
          /\ treason' \in [Tasks -> Reasons]
          /\ tdispatch' \in [Tasks -> Dispatches]
          /\ wake' \subseteq Tasks
      BY <2>3, <3>2, MoveTaskType DEF Cancel
    <3>4. enabled' \in [Workers -> BOOLEAN]
      BY <2>3 DEF Cancel, RetireIf, TypeOK
    <3> QED
      BY <2>3, <3>1, <3>3, <3>4 DEF Cancel, Kick, TypeOK, execVars, runnerVars
  <2>4. ASSUME NEW e \in Execs, Interrupt(e) PROVE TypeOK'
    BY <2>4 DEF Interrupt, Kick, TypeOK, taskVars, execVars, workerVars
  <2>5. ASSUME NEW on \in BOOLEAN, Pause(on) PROVE TypeOK'
    BY <2>5 DEF Pause, Kick, TypeOK, taskVars, execVars, workerVars, runnerVars
  <2> QED
    BY <1>1, <2>1, <2>2, <2>3, <2>4, <2>5 DEF OwnerStep
<1>2. ASSUME NEW e \in Execs, ToolStep(e) PROVE TypeOK'
  <2>1. ASSUME NEW w \in Workers, NEW k \in Kinds, ToolAssignTask(e, w, k) PROVE TypeOK'
    <3>1. etask[e] \in Tasks \cup {NoTask}
      BY DEF TypeOK
    <3> QED
      BY <2>1, <3>1, CreateTaskType DEF ToolAssignTask
  <2>2. ASSUME NEW w \in Workers, ToolHireWorker(e, w) PROVE TypeOK'
    BY <2>2 DEF ToolHireWorker, Kick, TypeOK, taskVars, execVars, runnerVars
  <2>3. ASSUME ToolSubmitArtifact(e) PROVE TypeOK'
    BY <2>3 DEF ToolSubmitArtifact, Kick, TypeOK, execVars, workerVars, runnerVars
  <2> QED
    BY <1>2, <2>1, <2>2, <2>3 DEF ToolStep
<1>3. ASSUME NEW e \in Execs, RunnerStep(e) PROVE TypeOK'
  <2>1. CASE Bind(e) \/ RecordAttempt(e) \/ Transmit(e)
    <3>1. CASE Bind(e)
      BY <3>1 DEF Bind, Kick, TypeOK, Phases, taskVars, workerVars
    <3>2. CASE RecordAttempt(e)
      BY <3>2 DEF RecordAttempt, Kick, TypeOK, Phases, taskVars, workerVars
    <3>3. CASE Transmit(e)
      BY <3>3 DEF Transmit, TypeOK, Phases, taskVars, execVars, workerVars
    <3> QED
      BY <2>1, <3>1, <3>2, <3>3
  <2>2. ASSUME NEW s \in Outcomes, ProviderReports(e, s) \/ RunnerGivesUp(e, s) PROVE TypeOK'
    <3>1. PICK confirmed \in BOOLEAN : Close(e, s, confirmed)
      BY <2>2 DEF ProviderReports, RunnerGivesUp
    <3>2. turn' \in [Execs -> {"none", "sent", "confirmed"}]
      <4>1. CASE ProviderReports(e, s)
        BY <4>1 DEF ProviderReports, TypeOK
      <4>2. CASE RunnerGivesUp(e, s)
        BY <4>2 DEF RunnerGivesUp, TypeOK
      <4> QED
        BY <2>2, <4>1, <4>2
    <3>3. settled' \in [Execs -> BOOLEAN]
      BY <3>1 DEF Close, TypeOK
    <3>4. /\ phase' \in [Execs -> Phases] /\ outcome' \in [Execs -> Outcomes \cup {"none"}]
      BY <3>1 DEF Close, TypeOK, Phases
    <3> QED
      <4>1. UNCHANGED <<taskVars, execVars, workerVars, wstatus, paused, dispatch,
                        scheduled, aborted>>
        BY <3>1 DEF Close
      <4> QED
        BY <3>2, <3>3, <3>4, <4>1 DEF TypeOK, taskVars, execVars, workerVars
  <2>3. ASSUME NEW evidence \in BOOLEAN, NEW integrating \in BOOLEAN,
               Finish(e, evidence, integrating)
        PROVE TypeOK'
    <3>1. PICK s \in Statuses \ {"queued", "working", "cancelled"}, r \in Reasons :
             etask[e] \in Tasks /\ MoveTask(etask[e], s, r)
      BY <2>3, FinishFacts
    <3>2. PICK x \in Outcomes : estatus' = [estatus EXCEPT ![e] = x]
      BY <2>3, FinishFacts
    <3>4. /\ tstatus' \in [Tasks -> Statuses \cup {"absent"}]
          /\ treason' \in [Tasks -> Reasons]
          /\ tdispatch' \in [Tasks -> Dispatches]
          /\ wake' \subseteq Tasks
      BY <3>1, MoveTaskType
    <3>5. wstatus' \in [Workers -> {"idle", "queued", "working", "blocked"}]
      BY <2>3, RefreshType DEF Finish, TypeOK
    <3>6. estatus' \in [Execs -> Outcomes \cup {"absent", "running"}]
      BY <3>2 DEF TypeOK
    <3>7. /\ enabled' \in [Workers -> BOOLEAN]
          /\ attempt' \in [Execs -> {"none", "unresolved", "settled"}]
      BY <2>3 DEF Finish, RetireIf, TypeOK
    <3>8. /\ phase' \in [Execs -> Phases] /\ aborted' \in [Execs -> BOOLEAN]
          /\ outcome' \in [Execs -> Outcomes \cup {"none"}]
          /\ settled' \in [Execs -> BOOLEAN] /\ scheduled' \in BOOLEAN
      BY <2>3 DEF Finish, Kick, TypeOK, Phases
    <3>9. UNCHANGED <<tkind, tparent, tassignee, tcreated, tartifact, etask, ebound,
                      lifecycle, paused, dispatch, turn>>
      BY <2>3 DEF Finish
    <3> QED
      BY <3>4, <3>5, <3>6, <3>7, <3>8, <3>9 DEF TypeOK
  <2> QED
    BY <1>3, <2>1, <2>2, <2>3 DEF RunnerStep
<1>4. CASE DrainStep
  <2>1. ASSUME NEW W \in SUBSET AwaitingIntegration, BeginDrain(W) PROVE TypeOK'
    BY ZenonT(40), <2>1 DEF BeginDrain, TypeOK, Statuses, Reasons, Dispatches, execVars, workerVars,
                runnerVars
  <2>2. ASSUME NEW e \in Execs, NEW t \in Tasks, Claim(e, t) PROVE TypeOK'
    <3>1. wstatus' \in [Workers -> {"idle", "queued", "working", "blocked"}]
      BY <2>2, RefreshType DEF Claim, TypeOK
    <3> QED
      BY <2>2, <3>1 DEF Claim, Kick, TypeOK, Statuses, Reasons, Phases, workerVars
  <2>3. CASE EndDrain
    BY <2>3 DEF EndDrain, TypeOK, taskVars, execVars, workerVars, runnerVars
  <2> QED
    BY <1>4, <2>1, <2>2, <2>3 DEF DrainStep
<1>5. CASE DrainFails \/ Stop
  <2>1. CASE DrainFails
    BY <2>1 DEF DrainFails, TypeOK, taskVars, execVars, workerVars, runnerVars
  <2>2. CASE Stop
    <3>1. aborted' \in [Execs -> BOOLEAN]
      BY <2>2 DEF Stop
    <3> QED
      BY <2>2, <3>1 DEF Stop, TypeOK, taskVars, execVars, workerVars
  <2> QED
    BY <1>5, <2>1, <2>2
<1>6. CASE Exit \/ Crash
  <2>1. ProcessEnds
    BY <1>6 DEF Exit, Crash
  <2>2. /\ phase' \in [Execs -> Phases] /\ aborted' \in [Execs -> BOOLEAN]
        /\ settled' \in [Execs -> BOOLEAN]
    BY <2>1 DEF ProcessEnds, Phases
  <2> QED
    BY <2>1, <2>2 DEF ProcessEnds, TypeOK, taskVars, execVars, workerVars
<1>7. CASE Start
  <2>1. wstatus' \in [Workers -> {"idle", "queued", "working", "blocked"}]
    BY <1>7, RefreshType DEF Start, Lost, TypeOK
  <2>2. /\ tstatus' \in [Tasks -> Statuses \cup {"absent"}]
        /\ treason' \in [Tasks -> Reasons]
        /\ tdispatch' \in [Tasks -> Dispatches]
    BY <1>7 DEF Start, Lost, TypeOK, Statuses, Reasons, Dispatches
  <2>3. /\ estatus' \in [Execs -> Outcomes \cup {"absent", "running"}]
        /\ attempt' \in [Execs -> {"none", "unresolved", "settled"}]
    BY <1>7 DEF Start, Lost, TypeOK, Outcomes
  <2> QED
    BY <1>7, <2>1, <2>2, <2>3 DEF Start, Lost, TypeOK, workerVars, runnerVars
<1>8. CASE UNCHANGED vars
  BY <1>8 DEF TypeOK, vars, taskVars, execVars, workerVars, runnerVars
<1> QED
  BY <1>1, <1>2, <1>3, <1>4, <1>5, <1>6, <1>7, <1>8 DEF Next

-----------------------------------------------------------------------------
\* What finishing or cancelling a task does to the task rows.
LEMMA MoveTaskFacts ==
  ASSUME TypeOK, NEW t \in Tasks, NEW s \in Statuses \ {"queued", "working"},
         NEW r \in Reasons, MoveTask(t, s, r), NEW u \in Tasks
  PROVE  /\ tstatus'[u] = "working" <=> u # t /\ tstatus[u] = "working"
         /\ tstatus'[u] = "absent" <=> u # t /\ tstatus[u] = "absent"
         /\ tstatus'[u] \in {"absent", "queued", "working"} =>
               \/ treason'[u] = "none"
               \/ u # t /\ tstatus[u] = tstatus'[u] /\ treason'[u] = treason[u]
<1> DEFINE st == [tstatus EXCEPT ![t] = s]
           rs == [treason EXCEPT ![t] = r]
           back == Handback(st, rs)
<1>1. /\ tstatus'[u] = IF u \in back THEN "queued" ELSE st[u]
      /\ treason'[u] = IF u \in back THEN "none" ELSE rs[u]
  BY DEF MoveTask
<1>2. u \in back => st[u] = "blocked"
  BY DEF Handback
<1>3. /\ st[u] = IF u = t THEN s ELSE tstatus[u]
      /\ rs[u] = IF u = t THEN r ELSE treason[u]
  BY DEF TypeOK
<1>4. s \notin {"queued", "working", "absent"}
  BY DEF Statuses
<1> HIDE DEF st, rs, back
<1> QED
  BY <1>1, <1>2, <1>3, <1>4

-----------------------------------------------------------------------------
\* A new task row is well formed, and a temporary worker only gets its first.
LEMMA CreateTaskTasks ==
  ASSUME TypeOK, TasksOK, NEW t \in Tasks, NEW w \in Workers, NEW p, NEW k, NEW c,
         CreateTask(t, w, p, k, c)
  PROVE  TasksOK'
<1>1. /\ tstatus[t] = "absent" /\ enabled[w]
      /\ lifecycle[w] = "temporary" => \A u \in Tasks : tassignee[u] # w
      /\ tstatus' = [tstatus EXCEPT ![t] = "queued"]
      /\ tparent' = [tparent EXCEPT ![t] = p]
      /\ tassignee' = [tassignee EXCEPT ![t] = w]
      /\ UNCHANGED <<treason, lifecycle, enabled>>
  BY DEF CreateTask, Exists, workerVars
<1>2. \A u \in Tasks : /\ tstatus'[u] = IF u = t THEN "queued" ELSE tstatus[u]
                       /\ tparent'[u] = IF u = t THEN p ELSE tparent[u]
                       /\ tassignee'[u] = IF u = t THEN w ELSE tassignee[u]
  BY <1>1 DEF TypeOK
<1> QED
  BY <1>1, <1>2 DEF TasksOK

LEMMA TasksStep == TypeOK /\ TasksOK /\ ExecsOK /\ [Next]_vars => TasksOK'
<1> SUFFICES ASSUME TypeOK, TasksOK, ExecsOK, [Next]_vars PROVE TasksOK'
  OBVIOUS
<1>t. /\ tstatus \in [Tasks -> Statuses \cup {"absent"}]
      /\ treason \in [Tasks -> Reasons]
  BY DEF TypeOK
<1>0. ASSUME UNCHANGED <<tstatus, treason, tparent, tassignee, lifecycle, enabled>>
      PROVE  TasksOK'
  BY <1>0 DEF TasksOK
<1>1. CASE OwnerStep
  <2>1. ASSUME NEW k \in RootKinds, AssignObjective(k) PROVE TasksOK'
    BY <2>1, CreateTaskTasks, CompanyAssumption DEF AssignObjective
  <2>2. ASSUME NEW t \in Tasks, Retry(t) PROVE TasksOK'
    <3>1. /\ tstatus[t] # "absent"
          /\ \A u \in Tasks : /\ tstatus'[u] = IF u = t THEN "queued" ELSE tstatus[u]
                              /\ treason'[u] = IF u = t THEN "none" ELSE treason[u]
          /\ UNCHANGED <<tparent, tassignee, lifecycle, enabled>>
      BY <1>t, <2>2 DEF Retry, Exists, workerVars
    <3> QED
      BY <3>1 DEF TasksOK
  <2>3. ASSUME NEW t \in Tasks, Cancel(t) PROVE TasksOK'
    <3>1. /\ MoveTask(t, "cancelled", "none") /\ tstatus[t] # "absent"
          /\ UNCHANGED <<tparent, tassignee, lifecycle>>
      BY <2>3 DEF Cancel, Exists
    <3>2. "cancelled" \in Statuses \ {"queued", "working"} /\ "none" \in Reasons
      BY DEF Statuses, Reasons
    <3>3. \A w \in Workers : enabled'[w] => enabled[w]
      BY <2>3 DEF Cancel, RetireIf, TypeOK
    <3>4. \A u \in Tasks : /\ tstatus'[u] = "absent" <=> u # t /\ tstatus[u] = "absent"
                           /\ tstatus'[u] \in {"absent", "queued", "working"} =>
                                 \/ treason'[u] = "none"
                                 \/ tstatus[u] = tstatus'[u] /\ treason'[u] = treason[u]
      BY <3>1, <3>2, MoveTaskFacts
    <3> QED
      BY <3>1, <3>3, <3>4 DEF TasksOK
  <2>4. ASSUME NEW e \in Execs, Interrupt(e) PROVE TasksOK'
    BY <1>0, <2>4 DEF Interrupt, taskVars, workerVars
  <2>5. ASSUME NEW on \in BOOLEAN, Pause(on) PROVE TasksOK'
    BY <1>0, <2>5 DEF Pause, taskVars, workerVars
  <2> QED
    BY <1>1, <2>1, <2>2, <2>3, <2>4, <2>5 DEF OwnerStep
<1>2. ASSUME NEW e \in Execs, ToolStep(e) PROVE TasksOK'
  <2>1. ASSUME NEW w \in Workers, NEW k \in Kinds, ToolAssignTask(e, w, k) PROVE TasksOK'
    BY <2>1, CreateTaskTasks DEF ToolAssignTask
  <2>2. ASSUME NEW w \in Workers, ToolHireWorker(e, w) PROVE TasksOK'
    <3>1. /\ lifecycle[w] = "none"
          /\ \A v \in Workers : lifecycle'[v] = IF v = w THEN Life[w] ELSE lifecycle[v]
          /\ UNCHANGED <<tstatus, treason, tparent, tassignee>>
      BY <2>2 DEF ToolHireWorker, TypeOK, taskVars
    <3>0. Life[w] # "none"
      BY CompanyAssumption
    <3>2. \A v \in Workers : enabled'[v] => v = w \/ enabled[v]
      BY <2>2 DEF ToolHireWorker, TypeOK
    <3> QED
      BY <3>0, <3>1, <3>2 DEF TasksOK
  <2>3. ASSUME ToolSubmitArtifact(e) PROVE TasksOK'
    BY <1>0, <2>3 DEF ToolSubmitArtifact, workerVars
  <2> QED
    BY <1>2, <2>1, <2>2, <2>3 DEF ToolStep
<1>3. ASSUME NEW e \in Execs, RunnerStep(e) PROVE TasksOK'
  <2>1. CASE Bind(e) \/ RecordAttempt(e) \/ Transmit(e)
    BY <1>0, <2>1 DEF Bind, RecordAttempt, Transmit, taskVars, workerVars
  <2>2. ASSUME NEW s \in Outcomes, ProviderReports(e, s) \/ RunnerGivesUp(e, s) PROVE TasksOK'
    BY <1>0, <2>2 DEF ProviderReports, RunnerGivesUp, Close, taskVars, workerVars
  <2>3. ASSUME NEW evidence \in BOOLEAN, NEW integrating \in BOOLEAN,
               Finish(e, evidence, integrating)
        PROVE TasksOK'
    <3>1. PICK s \in Statuses \ {"queued", "working"}, r \in Reasons :
             MoveTask(etask[e], s, r) /\ RetireIf(WorkerOf(e), Terminal(s))
      BY <2>3, FinishFacts
    <3>2. etask[e] \in Tasks /\ tstatus[etask[e]] # "absent"
      BY <2>3, FinishFacts DEF ExecsOK
    <3>3. \A w \in Workers : enabled'[w] => enabled[w]
      BY <3>1 DEF RetireIf, TypeOK
    <3>4. \A u \in Tasks : /\ tstatus'[u] = "absent" <=> u # etask[e] /\ tstatus[u] = "absent"
                           /\ tstatus'[u] \in {"absent", "queued", "working"} =>
                                 \/ treason'[u] = "none"
                                 \/ tstatus[u] = tstatus'[u] /\ treason'[u] = treason[u]
      BY <3>1, <3>2, MoveTaskFacts
    <3>5. UNCHANGED <<tparent, tassignee, lifecycle>>
      BY <2>3 DEF Finish
    <3> QED
      BY <3>2, <3>3, <3>4, <3>5 DEF TasksOK
  <2> QED
    BY <1>3, <2>1, <2>2, <2>3 DEF RunnerStep
<1>4. CASE DrainStep
  <2>1. ASSUME NEW W \in SUBSET AwaitingIntegration, BeginDrain(W) PROVE TasksOK'
    <3>1. /\ \A u \in Tasks : /\ tstatus'[u] = IF u \in W THEN "queued" ELSE tstatus[u]
                              /\ treason'[u] = IF u \in W THEN "none" ELSE treason[u]
          /\ UNCHANGED <<tparent, tassignee, lifecycle, enabled>>
      BY <1>t, <2>1 DEF BeginDrain, workerVars
    <3>2. \A u \in W : tstatus[u] = "blocked"
      BY DEF AwaitingIntegration
    <3> QED
      BY <3>1, <3>2 DEF TasksOK
  <2>2. ASSUME NEW e \in Execs, NEW t \in Tasks, Claim(e, t) PROVE TasksOK'
    <3>1. /\ tstatus[t] = "queued"
          /\ \A u \in Tasks : /\ tstatus'[u] = IF u = t THEN "working" ELSE tstatus[u]
                              /\ treason'[u] = IF u = t THEN "none" ELSE treason[u]
          /\ UNCHANGED <<tparent, tassignee, lifecycle, enabled>>
      BY <1>t, <2>2 DEF Claim, NextTask, Claimable, workerVars
    <3> QED
      BY <3>1 DEF TasksOK
  <2>3. CASE EndDrain
    BY <1>0, <2>3 DEF EndDrain, taskVars, workerVars
  <2> QED
    BY <1>4, <2>1, <2>2, <2>3 DEF DrainStep
<1>5. CASE DrainFails \/ Stop
  <2>1. UNCHANGED <<taskVars, workerVars>>
    BY <1>5 DEF DrainFails, Stop
  <2> QED
    BY <1>0, <2>1 DEF taskVars, workerVars
<1>6. CASE Exit \/ Crash
  <2>1. ProcessEnds
    BY <1>6 DEF Exit, Crash
  <2> QED
    BY <1>0, <2>1 DEF ProcessEnds, taskVars, workerVars
<1>7. CASE Start
  <2>1. \A u \in Tasks :
           \/ tstatus'[u] = tstatus[u] /\ treason'[u] = treason[u]
           \/ tstatus[u] = "working" /\ tstatus'[u] = "blocked"
           \/ tstatus[u] # "absent" /\ tstatus'[u] = "queued" /\ treason'[u] = "none"
    <3> DEFINE st == [t \in Tasks |-> IF tstatus[t] = "working" /\ \E e \in Running : etask[e] = t
                                      THEN "blocked" ELSE tstatus[t]]
               rs == [t \in Tasks |-> IF st[t] # tstatus[t] THEN "other" ELSE treason[t]]
               back == Handback(st, rs)
    <3> SUFFICES ASSUME NEW u \in Tasks
                 PROVE  \/ tstatus'[u] = tstatus[u] /\ treason'[u] = treason[u]
                        \/ tstatus[u] = "working" /\ tstatus'[u] = "blocked"
                        \/ tstatus[u] # "absent" /\ tstatus'[u] = "queued" /\ treason'[u] = "none"
      OBVIOUS
    <3>1. /\ tstatus'[u] = IF u \in back THEN "queued" ELSE st[u]
          /\ treason'[u] = IF u \in back THEN "none" ELSE rs[u]
      BY <1>7 DEF Start, Lost
    <3>2. u \in back => st[u] = "blocked"
      BY DEF Handback
    <3>3. st[u] = tstatus[u] \/ (tstatus[u] = "working" /\ st[u] = "blocked")
      OBVIOUS
    <3>4. st[u] = tstatus[u] => rs[u] = treason[u]
      OBVIOUS
    <3> HIDE DEF st, rs, back
    <3> QED
      BY <3>1, <3>2, <3>3, <3>4
  <2>2. UNCHANGED <<tparent, tassignee, lifecycle, enabled>>
    BY <1>7 DEF Start, Lost, workerVars
  <2> QED
    BY <2>1, <2>2 DEF TasksOK
<1>8. CASE UNCHANGED vars
  BY <1>0, <1>8 DEF vars, taskVars, workerVars
<1> QED
  BY <1>1, <1>2, <1>3, <1>4, <1>5, <1>6, <1>7, <1>8 DEF Next

-----------------------------------------------------------------------------
\* Execution rows and runners survive steps that only touch task rows, as long
\* as no task row disappears.
LEMMA ExecsKept ==
  ASSUME ExecsOK, UNCHANGED <<estatus, etask, attempt, turn, phase, dispatch, outcome>>,
         \A t \in Tasks : tstatus'[t] = "absent" => tstatus[t] = "absent"
  PROVE  ExecsOK'
  BY DEF ExecsOK

\* No step deletes a task row.
LEMMA RowsStay ==
  TypeOK /\ ExecsOK /\ [Next]_vars =>
      \A t \in Tasks : tstatus'[t] = "absent" => tstatus[t] = "absent"
<1> SUFFICES ASSUME TypeOK, ExecsOK, [Next]_vars,
                    NEW t \in Tasks, tstatus'[t] = "absent", tstatus[t] # "absent"
             PROVE  FALSE
  OBVIOUS
<1>t. tstatus \in [Tasks -> Statuses \cup {"absent"}]
  BY DEF TypeOK
<1>0. tstatus' # tstatus
  OBVIOUS
<1>1. CASE OwnerStep
  <2>1. ASSUME NEW k \in RootKinds, AssignObjective(k) PROVE FALSE
    BY <1>t, <2>1 DEF AssignObjective, CreateTask
  <2>2. ASSUME NEW u \in Tasks, Retry(u) PROVE FALSE
    BY <1>t, <2>2 DEF Retry
  <2>3. ASSUME NEW u \in Tasks, Cancel(u) PROVE FALSE
    <3>1. /\ MoveTask(u, "cancelled", "none")
          /\ "cancelled" \in Statuses \ {"queued", "working"} /\ "none" \in Reasons
      BY <2>3 DEF Cancel, Statuses, Reasons
    <3> QED
      BY <3>1, MoveTaskFacts
  <2>4. ASSUME NEW e \in Execs, Interrupt(e) PROVE FALSE
    BY <1>0, <2>4 DEF Interrupt, taskVars
  <2>5. ASSUME NEW on \in BOOLEAN, Pause(on) PROVE FALSE
    BY <1>0, <2>5 DEF Pause, taskVars
  <2> QED
    BY <1>1, <2>1, <2>2, <2>3, <2>4, <2>5 DEF OwnerStep
<1>2. ASSUME NEW e \in Execs, ToolStep(e) PROVE FALSE
  <2>1. ASSUME NEW w \in Workers, NEW k \in Kinds, ToolAssignTask(e, w, k) PROVE FALSE
    BY <1>t, <2>1 DEF ToolAssignTask, CreateTask
  <2>2. ASSUME NEW w \in Workers, ToolHireWorker(e, w) PROVE FALSE
    BY <1>0, <2>2 DEF ToolHireWorker, taskVars
  <2>3. ASSUME ToolSubmitArtifact(e) PROVE FALSE
    BY <1>0, <2>3 DEF ToolSubmitArtifact
  <2> QED
    BY <1>2, <2>1, <2>2, <2>3 DEF ToolStep
<1>3. ASSUME NEW e \in Execs, RunnerStep(e) PROVE FALSE
  <2>1. CASE Bind(e) \/ RecordAttempt(e) \/ Transmit(e)
    BY <1>0, <2>1 DEF Bind, RecordAttempt, Transmit, taskVars
  <2>2. ASSUME NEW s \in Outcomes, ProviderReports(e, s) \/ RunnerGivesUp(e, s) PROVE FALSE
    BY <1>0, <2>2 DEF ProviderReports, RunnerGivesUp, Close, taskVars
  <2>3. ASSUME NEW evidence \in BOOLEAN, NEW integrating \in BOOLEAN,
               Finish(e, evidence, integrating)
        PROVE FALSE
    <3>1. PICK s \in Statuses \ {"queued", "working"}, r \in Reasons :
             etask[e] \in Tasks /\ MoveTask(etask[e], s, r)
      BY <2>3, FinishFacts
    <3> QED
      BY <3>1, MoveTaskFacts
  <2> QED
    BY <1>3, <2>1, <2>2, <2>3 DEF RunnerStep
<1>4. CASE DrainStep
  <2>1. ASSUME NEW W \in SUBSET AwaitingIntegration, BeginDrain(W) PROVE FALSE
    BY <1>t, <2>1 DEF BeginDrain
  <2>2. ASSUME NEW e \in Execs, NEW u \in Tasks, Claim(e, u) PROVE FALSE
    BY <1>t, <2>2 DEF Claim
  <2>3. CASE EndDrain
    BY <1>0, <2>3 DEF EndDrain, taskVars
  <2> QED
    BY <1>4, <2>1, <2>2, <2>3 DEF DrainStep
<1>5. CASE DrainFails
  BY <1>0, <1>5 DEF DrainFails, taskVars
<1>6. CASE Stop \/ Exit \/ Crash
  <2>1. UNCHANGED taskVars
    BY <1>6 DEF Stop, Exit, Crash, ProcessEnds
  <2> QED
    BY <1>0, <2>1 DEF taskVars
<1>7. CASE Start
  <2> DEFINE st == [u \in Tasks |-> IF tstatus[u] = "working" /\ \E e \in Running : etask[e] = u
                                    THEN "blocked" ELSE tstatus[u]]
             rs == [u \in Tasks |-> IF st[u] # tstatus[u] THEN "other" ELSE treason[u]]
             back == Handback(st, rs)
  <2>1. tstatus'[t] = IF t \in back THEN "queued" ELSE st[t]
    BY <1>7 DEF Start, Lost
  <2>2. st[t] = tstatus[t] \/ st[t] = "blocked"
    OBVIOUS
  <2> HIDE DEF back, st
  <2> QED
    BY <2>1, <2>2
<1>8. CASE UNCHANGED vars
  BY <1>0, <1>8 DEF vars, taskVars
<1> QED
  BY <1>1, <1>2, <1>3, <1>4, <1>5, <1>6, <1>7, <1>8 DEF Next

LEMMA ExecsStep == TypeOK /\ ExecsOK /\ [Next]_vars => ExecsOK'
<1> SUFFICES ASSUME TypeOK, ExecsOK, [Next]_vars PROVE ExecsOK'
  OBVIOUS
<1> DEFINE Same == UNCHANGED <<estatus, etask, attempt, turn, phase, dispatch, outcome>>
<1>r. \A t \in Tasks : tstatus'[t] = "absent" => tstatus[t] = "absent"
  BY RowsStay
<1>t. /\ phase \in [Execs -> Phases]
      /\ estatus \in [Execs -> Outcomes \cup {"absent", "running"}]
      /\ attempt \in [Execs -> {"none", "unresolved", "settled"}]
      /\ outcome \in [Execs -> Outcomes \cup {"none"}]
      /\ turn \in [Execs -> {"none", "sent", "confirmed"}]
      /\ etask \in [Execs -> Tasks \cup {NoTask}]
  BY DEF TypeOK
<1>s. Same => ExecsOK'
  BY <1>r, ExecsKept
<1>1. CASE OwnerStep
  <2>1. ASSUME NEW k \in RootKinds, AssignObjective(k) PROVE Same
    BY <2>1 DEF AssignObjective, CreateTask, execVars, runnerVars
  <2>2. ASSUME NEW t \in Tasks, Retry(t) PROVE Same
    BY <2>2 DEF Retry, execVars, runnerVars
  <2>3. ASSUME NEW t \in Tasks, Cancel(t) PROVE Same
    BY <2>3 DEF Cancel, execVars, runnerVars
  <2>4. ASSUME NEW e \in Execs, Interrupt(e) PROVE Same
    BY <2>4 DEF Interrupt, execVars
  <2>5. ASSUME NEW on \in BOOLEAN, Pause(on) PROVE Same
    BY <2>5 DEF Pause, execVars, runnerVars
  <2> QED
    BY <1>1, <1>s, <2>1, <2>2, <2>3, <2>4, <2>5 DEF OwnerStep
<1>2. ASSUME NEW e \in Execs, ToolStep(e) PROVE ExecsOK'
  <2>1. ASSUME NEW w \in Workers, NEW k \in Kinds, ToolAssignTask(e, w, k) PROVE Same
    BY <2>1 DEF ToolAssignTask, CreateTask, execVars, runnerVars
  <2>2. ASSUME NEW w \in Workers, ToolHireWorker(e, w) PROVE Same
    BY <2>2 DEF ToolHireWorker, execVars, runnerVars
  <2>3. ASSUME ToolSubmitArtifact(e) PROVE Same
    BY <2>3 DEF ToolSubmitArtifact, execVars, runnerVars
  <2> QED
    BY <1>2, <1>s, <2>1, <2>2, <2>3 DEF ToolStep
<1>3. ASSUME NEW e \in Execs, RunnerStep(e) PROVE ExecsOK'
  <2>1. CASE Bind(e)
    BY <1>t, <1>r, <2>1 DEF Bind, ExecsOK, taskVars
  <2>2. CASE RecordAttempt(e)
    BY <1>t, <1>r, <2>2 DEF RecordAttempt, ExecsOK, taskVars
  <2>3. CASE Transmit(e)
    BY <1>t, <1>r, <2>3 DEF Transmit, ExecsOK, execVars, taskVars
  <2>4. ASSUME NEW s \in Outcomes, ProviderReports(e, s) PROVE ExecsOK'
    BY <1>t, <1>r, <2>4 DEF ProviderReports, Close, ExecsOK, execVars, taskVars
  <2>5. ASSUME NEW s \in Outcomes, RunnerGivesUp(e, s) PROVE ExecsOK'
    BY <1>t, <1>r, <2>5 DEF RunnerGivesUp, Close, ExecsOK, execVars, taskVars
  <2>6. ASSUME NEW evidence \in BOOLEAN, NEW integrating \in BOOLEAN,
               Finish(e, evidence, integrating)
        PROVE ExecsOK'
    <3>1. PICK x \in Outcomes : estatus' = [estatus EXCEPT ![e] = x]
      BY <2>6, FinishFacts
    <3>2. x # "absent" /\ x # "running"
      BY DEF Outcomes
    <3>3. estatus[e] = "running"
      BY <2>6, FinishFacts
    <3>4. /\ phase' = [phase EXCEPT ![e] = "none"]
          /\ attempt' = [attempt EXCEPT ![e] = IF @ = "unresolved" /\ settled[e]
                                               THEN "settled" ELSE @]
          /\ outcome' = [outcome EXCEPT ![e] = "none"]
          /\ UNCHANGED <<etask, dispatch, turn>>
      BY <2>6 DEF Finish
    <3> QED
      BY <1>t, <1>r, <3>1, <3>2, <3>3, <3>4 DEF ExecsOK
  <2> QED
    BY <1>3, <2>1, <2>2, <2>3, <2>4, <2>5, <2>6 DEF RunnerStep
<1>4. CASE DrainStep
  <2>1. ASSUME NEW W \in SUBSET AwaitingIntegration, BeginDrain(W) PROVE ExecsOK'
    BY <1>t, <1>r, <2>1 DEF BeginDrain, HQFree, ExecsOK, execVars, runnerVars
  <2>2. ASSUME NEW e \in Execs, NEW t \in Tasks, Claim(e, t) PROVE ExecsOK'
    <3>1. tstatus[t] # "absent" /\ dispatch = "draining"
      BY <2>2 DEF Claim, NextTask, Claimable
    <3> QED
      BY <1>t, <1>r, <2>2, <3>1 DEF Claim, ExecsOK
  <2>3. CASE EndDrain
    BY <1>t, <1>r, <2>3 DEF EndDrain, ExecsOK, execVars, taskVars, runnerVars
  <2> QED
    BY <1>4, <2>1, <2>2, <2>3 DEF DrainStep
<1>5. CASE DrainFails
  BY <1>t, <1>r, <1>5 DEF DrainFails, ExecsOK, execVars, taskVars, runnerVars
<1>6. CASE Stop
  BY <1>t, <1>r, <1>6 DEF Stop, ExecsOK, execVars, taskVars
<1>7. CASE Exit \/ Crash
  <2>1. ProcessEnds
    BY <1>7 DEF Exit, Crash
  <2> QED
    BY <1>t, <1>r, <2>1 DEF ProcessEnds, ExecsOK, execVars, taskVars
<1>8. CASE Start
  <2>1. \A e \in Execs : /\ estatus'[e] = IF estatus[e] = "running" THEN "interrupted" ELSE estatus[e]
                         /\ attempt'[e] # attempt[e] => estatus[e] = "running"
    BY <1>8 DEF Start, Lost, Running
  <2>2. dispatch' = "idle" /\ UNCHANGED <<etask, turn, phase, outcome>>
    BY <1>8 DEF Start, Lost, runnerVars
  <2>3. \A e \in Execs : phase[e] = "none"
    BY <1>8 DEF Start, Lost, ExecsOK
  <2> QED
    BY <1>r, <2>1, <2>2, <2>3 DEF ExecsOK
<1>9. CASE UNCHANGED vars
  BY <1>s, <1>9 DEF vars, execVars, runnerVars
<1> QED
  BY <1>1, <1>2, <1>3, <1>4, <1>5, <1>6, <1>7, <1>8, <1>9 DEF Next

-----------------------------------------------------------------------------
\* A task row is written under an id that no execution works on.
LEMMA CreateTaskWork ==
  ASSUME TypeOK, ExecsOK, WorkOK, NEW t \in Tasks, NEW w \in Workers, NEW p, NEW k, NEW c,
         CreateTask(t, w, p, k, c)
  PROVE  WorkOK'
<1>1. /\ tstatus[t] = "absent"
      /\ \A u \in Tasks : /\ tstatus'[u] = IF u = t THEN "queued" ELSE tstatus[u]
                          /\ tassignee'[u] = IF u = t THEN w ELSE tassignee[u]
      /\ UNCHANGED <<estatus, etask, enabled>>
  BY DEF CreateTask, Exists, TypeOK, execVars, workerVars
<1>2. \A e \in Execs : estatus[e] = "running" => etask[e] \in Tasks /\ etask[e] # t
  BY <1>1 DEF ExecsOK
<1> QED
  BY <1>1, <1>2 DEF WorkOK, WorkerOf

\* A task that nobody works on changes, and a worker without running execution is
\* retired: nothing changes for those who work.
LEMMA IdleTaskWork ==
  ASSUME ExecsOK, WorkOK, NEW t \in Tasks, tstatus[t] # "working",
         \A u \in Tasks : tstatus'[u] = "working" <=> u # t /\ tstatus[u] = "working",
         \A e \in Execs : estatus[e] = "running" => enabled'[WorkerOf(e)] = enabled[WorkerOf(e)],
         UNCHANGED <<estatus, etask, tassignee>>
  PROVE  WorkOK'
<1>1. \A e \in Execs : estatus[e] = "running" => etask[e] \in Tasks
  BY DEF ExecsOK
<1>2. \A e \in Execs : WorkerOf(e)' = WorkerOf(e)
  BY DEF WorkerOf
<1>3. \A u \in Tasks : tstatus'[u] = "working" <=> tstatus[u] = "working"
  OBVIOUS
<1>4. \A e \in Execs : estatus[e] = "running" =>
         tstatus'[etask[e]] = "working" /\ enabled'[WorkerOf(e)']
  BY <1>1, <1>2, <1>3 DEF WorkOK
<1> QED
  BY <1>2, <1>3, <1>4 DEF WorkOK

LEMMA WorkStep == TypeOK /\ TasksOK /\ ExecsOK /\ WorkOK /\ [Next]_vars => WorkOK'
<1> SUFFICES ASSUME TypeOK, TasksOK, ExecsOK, WorkOK, [Next]_vars PROVE WorkOK'
  OBVIOUS
<1> DEFINE Same == UNCHANGED <<estatus, etask, tstatus, tassignee, enabled>>
<1>t. /\ tstatus \in [Tasks -> Statuses \cup {"absent"}]
      /\ estatus \in [Execs -> Outcomes \cup {"absent", "running"}]
      /\ etask \in [Execs -> Tasks \cup {NoTask}]
  BY DEF TypeOK
<1>s. Same => WorkOK'
  BY DEF WorkOK, WorkerOf
<1>1. CASE OwnerStep
  <2>1. ASSUME NEW k \in RootKinds, AssignObjective(k) PROVE WorkOK'
    BY <2>1, CreateTaskWork, CompanyAssumption DEF AssignObjective
  <2>2. ASSUME NEW t \in Tasks, Retry(t) PROVE WorkOK'
    <3>1. /\ tstatus[t] # "working" /\ tstatus' = [tstatus EXCEPT ![t] = "queued"]
          /\ UNCHANGED <<estatus, etask, tassignee, enabled>>
      BY <2>2 DEF Retry, execVars, workerVars
    <3> QED
      BY <1>t, <3>1, IdleTaskWork
  <2>3. ASSUME NEW t \in Tasks, Cancel(t) PROVE WorkOK'
    <3>1. /\ tstatus[t] # "working" /\ tstatus[t] # "absent"
          /\ MoveTask(t, "cancelled", "none") /\ RetireIf(tassignee[t], TRUE)
          /\ UNCHANGED <<estatus, etask, tassignee>>
      BY <2>3 DEF Cancel, Exists, execVars
    <3>2. "cancelled" \in Statuses \ {"queued", "working"} /\ "none" \in Reasons
      BY DEF Statuses, Reasons
    <3>3. \A u \in Tasks : tstatus'[u] = "working" <=> u # t /\ tstatus[u] = "working"
      BY <3>1, <3>2, MoveTaskFacts
    <3>4. ASSUME NEW e \in Execs, estatus[e] = "running"
          PROVE  enabled'[WorkerOf(e)] = enabled[WorkerOf(e)]
      <4>1. etask[e] \in Tasks /\ tstatus[etask[e]] = "working" /\ etask[e] # t
        BY <3>1, <3>4 DEF ExecsOK, WorkOK
      <4>2. ~(WorkerOf(e) = tassignee[t] /\ lifecycle[tassignee[t]] = "temporary")
        BY <3>1, <4>1 DEF TasksOK, WorkerOf
      <4>3. WorkerOf(e) \in Workers
        BY <4>1 DEF TasksOK, WorkerOf
      <4> QED
        BY <3>1, <4>2, <4>3 DEF RetireIf, TypeOK
    <3> QED
      BY <3>1, <3>3, <3>4, IdleTaskWork
  <2>4. ASSUME NEW e \in Execs, Interrupt(e) PROVE Same
    BY <2>4 DEF Interrupt, execVars, taskVars, workerVars
  <2>5. ASSUME NEW on \in BOOLEAN, Pause(on) PROVE Same
    BY <2>5 DEF Pause, execVars, taskVars, workerVars
  <2> QED
    BY <1>1, <1>s, <2>1, <2>2, <2>3, <2>4, <2>5 DEF OwnerStep
<1>2. ASSUME NEW e \in Execs, ToolStep(e) PROVE WorkOK'
  <2>1. ASSUME NEW w \in Workers, NEW k \in Kinds, ToolAssignTask(e, w, k) PROVE WorkOK'
    BY <2>1, CreateTaskWork DEF ToolAssignTask
  <2>2. ASSUME NEW w \in Workers, ToolHireWorker(e, w) PROVE WorkOK'
    <3>1. /\ enabled' = [enabled EXCEPT ![w] = TRUE]
          /\ UNCHANGED <<estatus, etask, tstatus, tassignee>>
      BY <2>2 DEF ToolHireWorker, execVars, taskVars
    <3>2. \A f \in Execs : estatus[f] = "running" => WorkerOf(f) \in Workers
      BY DEF ExecsOK, TasksOK, WorkerOf
    <3>3. \A v \in Workers : enabled[v] => enabled'[v]
      BY <3>1 DEF TypeOK
    <3> QED
      BY <3>1, <3>2, <3>3 DEF WorkOK, WorkerOf
  <2>3. ASSUME ToolSubmitArtifact(e) PROVE Same
    BY <2>3 DEF ToolSubmitArtifact, execVars, workerVars
  <2> QED
    BY <1>2, <1>s, <2>1, <2>2, <2>3 DEF ToolStep
<1>3. ASSUME NEW e \in Execs, RunnerStep(e) PROVE WorkOK'
  <2>1. CASE Bind(e) \/ RecordAttempt(e) \/ Transmit(e)
    BY <1>s, <2>1 DEF Bind, RecordAttempt, Transmit, execVars, taskVars, workerVars
  <2>2. ASSUME NEW s \in Outcomes, ProviderReports(e, s) \/ RunnerGivesUp(e, s) PROVE WorkOK'
    BY <1>s, <2>2 DEF ProviderReports, RunnerGivesUp, Close, execVars, taskVars, workerVars
  <2>3. ASSUME NEW evidence \in BOOLEAN, NEW integrating \in BOOLEAN,
               Finish(e, evidence, integrating)
        PROVE WorkOK'
    <3>1. PICK x \in Outcomes : estatus' = [estatus EXCEPT ![e] = x]
      BY <2>3, FinishFacts
    <3>2. PICK s \in Statuses \ {"queued", "working"}, r \in Reasons :
             MoveTask(etask[e], s, r) /\ RetireIf(WorkerOf(e), Terminal(s))
      BY <2>3, FinishFacts
    <3>3. estatus[e] = "running" /\ etask[e] \in Tasks
      BY <2>3, FinishFacts
    <3>4. \A f \in Execs : estatus'[f] = "running" <=> f # e /\ estatus[f] = "running"
      BY <1>t, <3>1 DEF Outcomes
    <3>5. \A u \in Tasks : tstatus'[u] = "working" <=> u # etask[e] /\ tstatus[u] = "working"
      BY <3>2, <3>3, MoveTaskFacts
    <3>6. UNCHANGED <<etask, tassignee>>
      BY <2>3 DEF Finish
    <3>7. ASSUME NEW f \in Execs, f # e, estatus[f] = "running"
          PROVE  etask[f] \in Tasks /\ etask[f] # etask[e] /\ enabled'[WorkerOf(f)]
      <4>1. etask[f] \in Tasks /\ WorkerOf(f) # WorkerOf(e) /\ enabled[WorkerOf(f)]
        BY <3>3, <3>7 DEF ExecsOK, WorkOK
      <4>2. WorkerOf(f) \in Workers
        BY <3>7, <4>1 DEF ExecsOK, TasksOK, WorkerOf
      <4>3. enabled'[WorkerOf(f)]
        BY <3>2, <4>1, <4>2 DEF RetireIf, TypeOK
      <4> QED
        BY <4>1, <4>3 DEF WorkerOf
    <3> QED
      BY <3>3, <3>4, <3>5, <3>6, <3>7 DEF WorkOK, WorkerOf
  <2> QED
    BY <1>3, <2>1, <2>2, <2>3 DEF RunnerStep
<1>4. CASE DrainStep
  <2>1. ASSUME NEW W \in SUBSET AwaitingIntegration, BeginDrain(W) PROVE WorkOK'
    <3>1. /\ tstatus' = [t \in Tasks |-> IF t \in W THEN "queued" ELSE tstatus[t]]
          /\ UNCHANGED <<estatus, etask, tassignee, enabled>>
      BY <2>1 DEF BeginDrain, execVars, workerVars
    <3>2. \A t \in Tasks : tstatus'[t] = "working" <=> tstatus[t] = "working"
      BY <3>1 DEF AwaitingIntegration
    <3>3. \A e \in Execs : estatus[e] = "running" => etask[e] \in Tasks
      BY DEF ExecsOK
    <3> QED
      BY <3>1, <3>2, <3>3 DEF WorkOK, WorkerOf
  <2>2. ASSUME NEW e \in Execs, NEW t \in Tasks, Claim(e, t) PROVE WorkOK'
    <3>1. /\ tstatus[t] = "queued" /\ enabled[tassignee[t]] /\ ~Busy(tassignee[t])
          /\ estatus[e] = "absent"
          /\ \A u \in Tasks : tstatus'[u] = IF u = t THEN "working" ELSE tstatus[u]
          /\ \A f \in Execs : /\ estatus'[f] = IF f = e THEN "running" ELSE estatus[f]
                              /\ etask'[f] = IF f = e THEN t ELSE etask[f]
          /\ UNCHANGED <<tassignee, enabled>>
      BY <1>t, <2>2 DEF Claim, NextTask, Claimable, workerVars
    <3>2. \A f \in Execs : estatus[f] = "running" =>
             WorkerOf(f) # tassignee[t] /\ etask[f] \in Tasks /\ etask[f] # t
      BY <3>1 DEF Busy, Running, ExecsOK, WorkOK
    <3> QED
      BY <3>1, <3>2 DEF WorkOK, WorkerOf
  <2>3. CASE EndDrain
    BY <1>s, <2>3 DEF EndDrain, execVars, taskVars, workerVars
  <2> QED
    BY <1>4, <2>1, <2>2, <2>3 DEF DrainStep
<1>5. CASE DrainFails
  BY <1>s, <1>5 DEF DrainFails, execVars, taskVars, workerVars
<1>6. CASE Stop \/ Exit \/ Crash
  <2>1. UNCHANGED <<execVars, taskVars, workerVars>>
    BY <1>6 DEF Stop, Exit, Crash, ProcessEnds
  <2> QED
    BY <1>s, <2>1 DEF execVars, taskVars, workerVars
<1>7. CASE Start
  <2> DEFINE st == [t \in Tasks |-> IF tstatus[t] = "working" /\ \E e \in Running : etask[e] = t
                                    THEN "blocked" ELSE tstatus[t]]
             rs == [t \in Tasks |-> IF st[t] # tstatus[t] THEN "other" ELSE treason[t]]
             back == Handback(st, rs)
  <2>1. \A e \in Execs : estatus'[e] # "running"
    BY <1>7 DEF Start, Lost, Running
  <2>2. \A t \in Tasks : tstatus'[t] = IF t \in back THEN "queued" ELSE st[t]
    BY <1>7 DEF Start, Lost
  <2>3. \A t \in Tasks : st[t] # "working"
    BY DEF WorkOK, Running
  <2> HIDE DEF st, back
  <2>4. \A t \in Tasks : tstatus'[t] # "working"
    BY <2>2, <2>3
  <2> QED
    BY <2>1, <2>4 DEF WorkOK
<1>8. CASE UNCHANGED vars
  BY <1>s, <1>8 DEF vars, execVars, taskVars, workerVars
<1> QED
  BY <1>1, <1>2, <1>3, <1>4, <1>5, <1>6, <1>7, <1>8 DEF Next

-----------------------------------------------------------------------------
\* Steps that leave attempts, runners and turns alone keep TurnsOK when they
\* start no execution and move no execution to another worker.
LEMMA TurnsKept ==
  ASSUME ExecsOK, TurnsOK, UNCHANGED <<turn, attempt, settled, phase>>,
         \A e \in Execs : estatus'[e] = "running" => estatus[e] = "running",
         \A e \in Execs : estatus[e] # "absent" => WorkerOf(e)' = WorkerOf(e)
  PROVE  TurnsOK'
<1>1. \A e \in Execs : attempt[e] = "unresolved" => estatus[e] # "absent"
  BY DEF ExecsOK
<1> QED
  BY <1>1 DEF TurnsOK

LEMMA CreateTaskTurns ==
  ASSUME TypeOK, ExecsOK, TurnsOK, NEW t \in Tasks, NEW w \in Workers, NEW p, NEW k, NEW c,
         CreateTask(t, w, p, k, c)
  PROVE  TurnsOK'
<1>1. /\ tstatus[t] = "absent"
      /\ \A u \in Tasks : tassignee'[u] = IF u = t THEN w ELSE tassignee[u]
      /\ UNCHANGED <<estatus, etask, turn, attempt, settled, phase>>
  BY DEF CreateTask, Exists, TypeOK, execVars, runnerVars
<1>2. \A e \in Execs : estatus[e] # "absent" => WorkerOf(e)' = WorkerOf(e)
  BY <1>1 DEF ExecsOK, WorkerOf
<1> QED
  BY <1>1, <1>2, TurnsKept

LEMMA TurnsStep == TypeOK /\ ExecsOK /\ WorkOK /\ TurnsOK /\ [Next]_vars => TurnsOK'
<1> SUFFICES ASSUME TypeOK, ExecsOK, WorkOK, TurnsOK, [Next]_vars PROVE TurnsOK'
  OBVIOUS
<1> DEFINE Same == UNCHANGED <<turn, attempt, settled, phase, estatus, etask, tassignee>>
<1>t. /\ phase \in [Execs -> Phases]
      /\ attempt \in [Execs -> {"none", "unresolved", "settled"}]
      /\ turn \in [Execs -> {"none", "sent", "confirmed"}]
  BY DEF TypeOK
<1>b. settled \in [Execs -> BOOLEAN]
  BY DEF TypeOK
<1>s. Same => TurnsOK'
  BY DEF TurnsOK, WorkerOf
<1>1. CASE OwnerStep
  <2>1. ASSUME NEW k \in RootKinds, AssignObjective(k) PROVE TurnsOK'
    BY <2>1, CreateTaskTurns, CompanyAssumption DEF AssignObjective
  <2>2. ASSUME NEW t \in Tasks, Retry(t) PROVE Same
    BY <2>2 DEF Retry, execVars, runnerVars
  <2>3. ASSUME NEW t \in Tasks, Cancel(t) PROVE Same
    BY <2>3 DEF Cancel, execVars, runnerVars
  <2>4. ASSUME NEW e \in Execs, Interrupt(e) PROVE Same
    BY <2>4 DEF Interrupt, execVars, taskVars
  <2>5. ASSUME NEW on \in BOOLEAN, Pause(on) PROVE Same
    BY <2>5 DEF Pause, execVars, taskVars, runnerVars
  <2> QED
    BY <1>1, <1>s, <2>1, <2>2, <2>3, <2>4, <2>5 DEF OwnerStep
<1>2. ASSUME NEW e \in Execs, ToolStep(e) PROVE TurnsOK'
  <2>1. ASSUME NEW w \in Workers, NEW k \in Kinds, ToolAssignTask(e, w, k) PROVE TurnsOK'
    BY <2>1, CreateTaskTurns DEF ToolAssignTask
  <2>2. ASSUME NEW w \in Workers, ToolHireWorker(e, w) PROVE Same
    BY <2>2 DEF ToolHireWorker, execVars, taskVars, runnerVars
  <2>3. ASSUME ToolSubmitArtifact(e) PROVE Same
    BY <2>3 DEF ToolSubmitArtifact, execVars, runnerVars
  <2> QED
    BY <1>2, <1>s, <2>1, <2>2, <2>3 DEF ToolStep
<1>3. ASSUME NEW e \in Execs, RunnerStep(e) PROVE TurnsOK'
  <2>1. CASE Bind(e)
    <3>1. /\ phase[e] = "admitted"
          /\ \A f \in Execs : phase'[f] = IF f = e THEN "bound" ELSE phase[f]
          /\ UNCHANGED <<turn, attempt, settled, estatus, etask, tassignee>>
      BY <1>t, <2>1 DEF Bind, taskVars
    <3> QED
      BY <3>1 DEF TurnsOK, WorkerOf
  <2>2. CASE RecordAttempt(e)
    <3>1. /\ phase[e] = "bound"
          /\ \A f \in Execs : /\ phase'[f] = IF f = e THEN "intent" ELSE phase[f]
                              /\ attempt'[f] = IF f = e THEN "unresolved" ELSE attempt[f]
          /\ UNCHANGED <<turn, settled, estatus, etask, tassignee>>
      BY <1>t, <2>2 DEF RecordAttempt, taskVars
    <3>2. estatus[e] = "running"
      BY <3>1 DEF ExecsOK
    <3>3. \A f \in Execs : attempt[f] = "unresolved" \/ estatus[f] = "running" =>
             (WorkerOf(f) = WorkerOf(e) => f = e)
      BY <3>2 DEF TurnsOK, WorkOK
    <3>4. \A f \in Execs : settled[f] => turn[f] # "sent" /\ phase[f] = "closing"
      BY DEF TurnsOK
    <3>5. \A f \in Execs : settled'[f] => turn'[f] # "sent" /\ phase'[f] = "closing"
      BY <3>1, <3>4
    <3> QED
      BY <3>1, <3>3, <3>5 DEF TurnsOK, WorkerOf
  <2>3. CASE Transmit(e)
    <3>1. /\ phase[e] = "intent"
          /\ \A f \in Execs : /\ phase'[f] = IF f = e THEN "turn" ELSE phase[f]
                              /\ turn'[f] = IF f = e THEN "sent" ELSE turn[f]
          /\ UNCHANGED <<attempt, settled, estatus, etask, tassignee>>
      BY <1>t, <2>3 DEF Transmit, execVars, taskVars
    <3> QED
      BY <3>1 DEF TurnsOK, WorkerOf
  <2>4. ASSUME NEW s \in Outcomes, ProviderReports(e, s) PROVE TurnsOK'
    <3>1. /\ phase[e] = "turn"
          /\ \A f \in Execs : /\ phase'[f] = IF f = e THEN "closing" ELSE phase[f]
                              /\ turn'[f] = IF f = e THEN "confirmed" ELSE turn[f]
          /\ UNCHANGED <<attempt, estatus, etask, tassignee>>
      BY <1>t, <2>4 DEF ProviderReports, Close, execVars, taskVars
    <3>2. \A f \in Execs : settled'[f] => f = e \/ settled[f]
      BY <1>b, <2>4 DEF ProviderReports, Close
    <3> QED
      BY <3>1, <3>2 DEF TurnsOK, WorkerOf
  <2>5. ASSUME NEW s \in Outcomes, RunnerGivesUp(e, s) PROVE TurnsOK'
    <3>1. /\ \A f \in Execs : phase'[f] = IF f = e THEN "closing" ELSE phase[f]
          /\ UNCHANGED <<turn, attempt, estatus, etask, tassignee>>
      BY <1>t, <2>5 DEF RunnerGivesUp, Close, execVars, taskVars
    <3>2. \A f \in Execs : settled'[f] => f # e /\ settled[f]
      BY <1>b, <2>5 DEF RunnerGivesUp, Close
    <3> QED
      BY <3>1, <3>2 DEF TurnsOK, WorkerOf
  <2>6. ASSUME NEW evidence \in BOOLEAN, NEW integrating \in BOOLEAN,
               Finish(e, evidence, integrating)
        PROVE TurnsOK'
    <3>1. PICK x \in Outcomes : estatus' = [estatus EXCEPT ![e] = x]
      BY <2>6, FinishFacts
    <3>2. \A f \in Execs : estatus'[f] = "running" => estatus[f] = "running"
      BY <3>1 DEF Outcomes, TypeOK
    <3>3. \A f \in Execs : settled'[f] => f # e /\ settled[f]
      BY <1>b, <2>6 DEF Finish
    <3>4. /\ phase[e] = "closing"
          /\ \A f \in Execs : phase'[f] = IF f = e THEN "none" ELSE phase[f]
          /\ UNCHANGED <<turn, etask, tassignee>>
      BY <1>t, <2>6 DEF Finish
    <3>5. \A f \in Execs : \/ attempt'[f] = attempt[f]
                           \/ f = e /\ settled[e] /\ attempt'[f] = "settled"
      BY <1>t, <2>6 DEF Finish
    <3> QED
      BY <3>2, <3>3, <3>4, <3>5 DEF TurnsOK, WorkerOf
  <2> QED
    BY <1>3, <2>1, <2>2, <2>3, <2>4, <2>5, <2>6 DEF RunnerStep
<1>4. CASE DrainStep
  <2>1. ASSUME NEW W \in SUBSET AwaitingIntegration, BeginDrain(W) PROVE Same
    BY <2>1 DEF BeginDrain, execVars, runnerVars
  <2>2. ASSUME NEW e \in Execs, NEW t \in Tasks, Claim(e, t) PROVE TurnsOK'
    <3>1. /\ estatus[e] = "absent" /\ ~ProviderUnresolved(tassignee[t])
          /\ \A f \in Execs : /\ estatus'[f] = IF f = e THEN "running" ELSE estatus[f]
                              /\ etask'[f] = IF f = e THEN t ELSE etask[f]
                              /\ phase'[f] = IF f = e THEN "admitted" ELSE phase[f]
          /\ UNCHANGED <<tassignee, turn, attempt, settled>>
      BY <1>t, <2>2 DEF Claim, NextTask, Claimable, TypeOK
    <3>2. /\ attempt[e] = "none" /\ turn[e] = "none" /\ phase[e] = "none" /\ ~settled[e]
          /\ \A f \in Execs : attempt[f] = "unresolved" => WorkerOf(f) # tassignee[t]
      BY <3>1 DEF ProviderUnresolved, ExecsOK, TurnsOK
    <3> QED
      BY <3>1, <3>2 DEF TurnsOK, WorkerOf
  <2>3. CASE EndDrain
    BY <1>s, <2>3 DEF EndDrain, execVars, taskVars, runnerVars
  <2> QED
    BY <1>4, <1>s, <2>1, <2>2, <2>3 DEF DrainStep
<1>5. CASE DrainFails
  BY <1>s, <1>5 DEF DrainFails, execVars, taskVars, runnerVars
<1>6. CASE Stop
  BY <1>s, <1>6 DEF Stop, execVars, taskVars
<1>7. CASE Exit \/ Crash
  <2>1. ProcessEnds
    BY <1>7 DEF Exit, Crash
  <2>2. /\ \A e \in Execs : phase'[e] = "none" /\ ~settled'[e]
        /\ UNCHANGED <<turn, attempt, estatus, etask, tassignee>>
    BY <2>1 DEF ProcessEnds, execVars, taskVars
  <2> QED
    BY <2>2 DEF TurnsOK, WorkerOf
<1>8. CASE Start
  <2>1. \A e \in Execs :
           /\ estatus'[e] = IF estatus[e] = "running" THEN "interrupted" ELSE estatus[e]
           /\ attempt'[e] = "unresolved" => attempt[e] = "unresolved" \/ estatus[e] = "running"
           /\ attempt[e] = "unresolved" => attempt'[e] = "unresolved"
    BY <1>8 DEF Start, Lost, Running
  <2>2. UNCHANGED <<turn, settled, phase, etask, tassignee>>
    BY <1>8 DEF Start, Lost, runnerVars
  <2>3. \A e, f \in Execs :
           /\ attempt[e] = "unresolved" \/ estatus[e] = "running"
           /\ attempt[f] = "unresolved" \/ estatus[f] = "running"
           /\ WorkerOf(e) = WorkerOf(f)
           => e = f
    BY DEF TurnsOK, WorkOK
  <2> QED
    BY <2>1, <2>2, <2>3 DEF TurnsOK, WorkerOf
<1>9. CASE UNCHANGED vars
  BY <1>s, <1>9 DEF vars, execVars, taskVars, runnerVars
<1> QED
  BY <1>1, <1>2, <1>3, <1>4, <1>5, <1>6, <1>7, <1>8, <1>9 DEF Next

-----------------------------------------------------------------------------
\* Parents are written once, when a task is created, by the objective of the
\* owner or by a tool call of a working execution.
LEMMA Creations ==
  [Next]_vars => \/ UNCHANGED tparent
                 \/ \E k \in RootKinds : AssignObjective(k)
                 \/ \E e \in Execs, w \in Workers, k \in Kinds : ToolAssignTask(e, w, k)
<1> SUFFICES ASSUME [Next]_vars, ~(\E k \in RootKinds : AssignObjective(k)),
                    ~(\E e \in Execs, w \in Workers, k \in Kinds : ToolAssignTask(e, w, k))
             PROVE  UNCHANGED tparent
  OBVIOUS
<1>1. CASE OwnerStep
  <2>1. ASSUME NEW t \in Tasks, Retry(t) PROVE UNCHANGED tparent
    BY <2>1 DEF Retry
  <2>2. ASSUME NEW t \in Tasks, Cancel(t) PROVE UNCHANGED tparent
    BY <2>2 DEF Cancel
  <2>3. ASSUME NEW e \in Execs, Interrupt(e) PROVE UNCHANGED tparent
    BY <2>3 DEF Interrupt, taskVars
  <2>4. ASSUME NEW on \in BOOLEAN, Pause(on) PROVE UNCHANGED tparent
    BY <2>4 DEF Pause, taskVars
  <2> QED
    BY <1>1, <2>1, <2>2, <2>3, <2>4 DEF OwnerStep
<1>2. ASSUME NEW e \in Execs, ToolStep(e) PROVE UNCHANGED tparent
  BY <1>2 DEF ToolStep, ToolHireWorker, ToolSubmitArtifact, taskVars
<1>3. ASSUME NEW e \in Execs, RunnerStep(e) PROVE UNCHANGED tparent
  BY <1>3 DEF RunnerStep, Bind, RecordAttempt, Transmit, ProviderReports, RunnerGivesUp, Close,
              Finish, taskVars
<1>4. CASE DrainStep
  BY <1>4 DEF DrainStep, BeginDrain, Claim, EndDrain, taskVars
<1>5. CASE DrainFails \/ Stop \/ Exit \/ Crash \/ Start
  BY <1>5 DEF DrainFails, Stop, Exit, Crash, ProcessEnds, Start, taskVars
<1>6. CASE UNCHANGED vars
  BY <1>6 DEF vars, taskVars
<1> QED
  BY <1>1, <1>2, <1>3, <1>4, <1>5, <1>6 DEF Next

LEMMA ParentsStep == TypeOK /\ ParentsOK /\ ExecsOK /\ [Next]_vars => ParentsOK'
<1> SUFFICES ASSUME TypeOK, ParentsOK, ExecsOK, [Next]_vars PROVE ParentsOK'
  OBVIOUS
<1>1. \A t \in Tasks : tstatus'[t] = "absent" => tstatus[t] = "absent"
  BY RowsStay
<1>2. CASE UNCHANGED tparent
  BY <1>1, <1>2 DEF ParentsOK
<1>3. ASSUME NEW t \in Tasks, NEW w, NEW p \in Tasks \cup {NoTask}, NEW k, NEW c,
             CreateTask(t, w, p, k, c), p \in Tasks => tstatus[p] # "absent"
      PROVE  ParentsOK'
  <2>1. /\ tstatus[t] = "absent"
        /\ \A u \in Tasks : tparent'[u] = IF u = t THEN p ELSE tparent[u]
    BY <1>3 DEF CreateTask, Exists, TypeOK
  <2> QED
    BY <1>1, <1>3, <2>1 DEF ParentsOK
<1>4. ASSUME NEW k \in RootKinds, AssignObjective(k) PROVE ParentsOK'
  <2>1. NoTask \notin Tasks
    BY CompanyAssumption DEF NoTask, Tasks
  <2> QED
    BY <1>3, <1>4, <2>1 DEF AssignObjective
<1>5. ASSUME NEW e \in Execs, NEW w \in Workers, NEW k \in Kinds, ToolAssignTask(e, w, k)
      PROVE  ParentsOK'
  <2>1. etask[e] \in Tasks \cup {NoTask} /\ tstatus[etask[e]] = "working"
    BY <1>5 DEF ToolAssignTask, MayAct, TypeOK
  <2> QED
    BY <1>3, <1>5, <2>1 DEF ToolAssignTask
<1> QED
  BY <1>2, <1>4, <1>5, Creations

-----------------------------------------------------------------------------
LEMMA InitIInv == Init => IInv
<1> SUFFICES ASSUME Init PROVE IInv
  OBVIOUS
<1>1. /\ \A t \in Tasks : /\ tstatus[t] = "absent" /\ treason[t] = "none"
                          /\ tparent[t] = NoTask /\ tassignee[t] = NoWorker
      /\ \A e \in Execs : /\ estatus[e] = "absent" /\ etask[e] = NoTask /\ attempt[e] = "none"
                          /\ turn[e] = "none" /\ phase[e] = "none"
      /\ NoTask \notin Tasks
  BY DEF Init, NoTask, Tasks
<1>2. \A e \in Execs : ~settled[e]
  BY DEF Init
<1>3. \A w \in Workers : enabled[w] => lifecycle[w] # "none"
  BY CompanyAssumption DEF Init
<1>4. TasksOK /\ ParentsOK
  BY <1>1, <1>3 DEF TasksOK, ParentsOK
<1>5. ExecsOK /\ WorkOK /\ TurnsOK
  BY <1>1, <1>2 DEF ExecsOK, WorkOK, TurnsOK
<1> QED
  BY <1>4, <1>5, InitTypeOK DEF IInv

\* IInv is an inductive invariant of the specification.
THEOREM Inductive == Spec => []IInv
<1>1. Init => IInv
  BY InitIInv
<1>2. IInv /\ [Next]_vars => IInv'
  BY TypeStep, TasksStep, ParentsStep, ExecsStep, WorkStep, TurnsStep DEF IInv
<1> QED
  BY <1>1, <1>2, PTL DEF Spec

\* The rows of every table and the dispatcher's memory are well typed.
THEOREM TypeCorrect == Spec => []TypeOK
<1>1. IInv => TypeOK
  BY DEF IInv
<1> QED
  BY <1>1, Inductive, PTL

\* A worker never has two provider turns that may both be running: each has an
\* unresolved attempt row, and a worker has at most one of these.
THEOREM Fenced == Spec => []ProviderFence
<1>1. IInv => ProviderFence
  BY DEF IInv, TurnsOK, ProviderFence
<1> QED
  BY <1>1, Inductive, PTL

-----------------------------------------------------------------------------
\* The concurrency bound is kept by the guard of Claim; every other step lets
\* executions end.
AtMostMaxActive == Cardinality(Running) <= MaxActive

\* Only a claim makes an execution run, and only while the company is not paused.
LEMMA OnlyClaimStarts ==
  TypeOK /\ ExecsOK /\ [Next]_vars =>
      \/ Running' \subseteq Running
      \/ \E e \in Execs, t \in Tasks : Claim(e, t) /\ Running' = Running \cup {e}
<1> SUFFICES ASSUME TypeOK, ExecsOK, [Next]_vars,
                    ~(\E e \in Execs, t \in Tasks : Claim(e, t) /\ Running' = Running \cup {e})
             PROVE  Running' \subseteq Running
  OBVIOUS
<1>t. estatus \in [Execs -> Outcomes \cup {"absent", "running"}]
  BY DEF TypeOK
<1>0. ASSUME UNCHANGED estatus PROVE Running' \subseteq Running
  BY <1>0 DEF Running
<1>1. CASE OwnerStep
  <2>1. ASSUME NEW k \in RootKinds, AssignObjective(k) PROVE UNCHANGED estatus
    BY <2>1 DEF AssignObjective, CreateTask, execVars
  <2>2. ASSUME NEW t \in Tasks, Retry(t) PROVE UNCHANGED estatus
    BY <2>2 DEF Retry, execVars
  <2>3. ASSUME NEW t \in Tasks, Cancel(t) PROVE UNCHANGED estatus
    BY <2>3 DEF Cancel, execVars
  <2>4. ASSUME NEW e \in Execs, Interrupt(e) PROVE UNCHANGED estatus
    BY <2>4 DEF Interrupt, execVars
  <2>5. ASSUME NEW on \in BOOLEAN, Pause(on) PROVE UNCHANGED estatus
    BY <2>5 DEF Pause, execVars
  <2> QED
    BY <1>0, <1>1, <2>1, <2>2, <2>3, <2>4, <2>5 DEF OwnerStep
<1>2. ASSUME NEW e \in Execs, ToolStep(e) PROVE UNCHANGED estatus
  BY <1>2 DEF ToolStep, ToolAssignTask, ToolHireWorker, ToolSubmitArtifact, CreateTask, execVars
<1>3. ASSUME NEW e \in Execs, RunnerStep(e) PROVE Running' \subseteq Running
  <2>1. CASE Bind(e) \/ RecordAttempt(e) \/ Transmit(e)
    BY <1>0, <2>1 DEF Bind, RecordAttempt, Transmit, execVars
  <2>2. ASSUME NEW s \in Outcomes, ProviderReports(e, s) \/ RunnerGivesUp(e, s)
        PROVE UNCHANGED estatus
    BY <2>2 DEF ProviderReports, RunnerGivesUp, Close, execVars
  <2>3. ASSUME NEW evidence \in BOOLEAN, NEW integrating \in BOOLEAN,
               Finish(e, evidence, integrating)
        PROVE Running' \subseteq Running
    <3>1. PICK x \in Outcomes : estatus' = [estatus EXCEPT ![e] = x]
      BY <2>3, FinishFacts
    <3> QED
      BY <1>t, <3>1 DEF Running, Outcomes
  <2> QED
    BY <1>0, <1>3, <2>1, <2>2, <2>3 DEF RunnerStep
<1>4. CASE DrainStep
  <2>1. ASSUME NEW e \in Execs, NEW t \in Tasks, Claim(e, t) PROVE Running' = Running \cup {e}
    BY <1>t, <2>1 DEF Claim, Running
  <2> QED
    BY <1>0, <1>4, <2>1 DEF DrainStep, BeginDrain, EndDrain, execVars
<1>5. CASE DrainFails \/ Stop \/ Exit \/ Crash
  BY <1>0, <1>5 DEF DrainFails, Stop, Exit, Crash, ProcessEnds, execVars
<1>6. CASE Start
  BY <1>6 DEF Start, Lost, Running
<1>7. CASE UNCHANGED vars
  BY <1>0, <1>7 DEF vars, execVars
<1> QED
  BY <1>0, <1>1, <1>2, <1>3, <1>4, <1>5, <1>6, <1>7 DEF Next

LEMMA RunningFinite == IsFiniteSet(Running) /\ Cardinality(Running) \in Nat
<1>1. IsFiniteSet(Execs)
  BY FS_Interval, CompanyAssumption DEF Execs
<1> QED
  BY <1>1, FS_Subset, FS_CardinalityType DEF Running

\* The dispatcher's runners are exactly the running executions, within the
\* concurrency bound, one per task and one per worker, whatever fails or restarts.
THEOREM WorkOwned == Spec => []RunnersOwnWork
<1>1. Init => AtMostMaxActive
  <2> SUFFICES ASSUME Init PROVE AtMostMaxActive
    OBVIOUS
  <2>1. Running = {}
    BY DEF Init, Running
  <2> QED
    BY <2>1, FS_EmptySet, CompanyAssumption DEF AtMostMaxActive
<1>2. AtMostMaxActive /\ IInv /\ [Next]_vars => AtMostMaxActive'
  <2> SUFFICES ASSUME AtMostMaxActive, IInv, [Next]_vars PROVE AtMostMaxActive'
    OBVIOUS
  <2>1. CASE Running' \subseteq Running
    <3>1. Cardinality(Running') \in Nat /\ Cardinality(Running') <= Cardinality(Running)
      BY <2>1, RunningFinite, FS_Subset, FS_CardinalityType
    <3> QED
      BY <3>1, RunningFinite, CompanyAssumption DEF AtMostMaxActive
  <2>2. ASSUME NEW e \in Execs, NEW t \in Tasks, Claim(e, t), Running' = Running \cup {e}
        PROVE  AtMostMaxActive'
    <3>1. Cardinality(Running) < MaxActive
      BY <2>2 DEF Claim, HasCapacity
    <3>0. Cardinality(Running \cup {e}) \in {Cardinality(Running), Cardinality(Running) + 1}
      BY RunningFinite, FS_AddElement, Zenon
    <3>2. Cardinality(Running \cup {e}) <= Cardinality(Running) + 1
      BY <3>0, RunningFinite
    <3>3. Cardinality(Running \cup {e}) \in Nat
      BY RunningFinite, FS_AddElement, FS_CardinalityType
    <3> QED
      BY <2>2, <3>1, <3>2, <3>3, RunningFinite, CompanyAssumption DEF AtMostMaxActive
  <2> QED
    BY <2>1, <2>2, OnlyClaimStarts DEF IInv
<1>3. AtMostMaxActive /\ IInv => RunnersOwnWork
  <2> SUFFICES ASSUME AtMostMaxActive, IInv PROVE RunnersOwnWork
    OBVIOUS
  <2>1. dispatch # "down" => Running = Runners
    BY DEF IInv, ExecsOK, Running, Runners
  <2>2. \A t \in Tasks : tstatus[t] = "working" <=> \E e \in Running : etask[e] = t
    BY DEF IInv, WorkOK, Running
  <2>3. /\ \A e \in Running : enabled[WorkerOf(e)]
        /\ \A e, f \in Running : WorkerOf(e) = WorkerOf(f) => e = f
    BY DEF IInv, WorkOK, Running
  <2> QED
    BY <2>1, <2>2, <2>3 DEF RunnersOwnWork, AtMostMaxActive
<1> QED
  BY <1>1, <1>2, <1>3, Inductive, PTL DEF Spec

-----------------------------------------------------------------------------
(* What Company guarantees about the results of delegated work, from the   *)
(* inductive invariant above: no kick and no wake-up is lost, results that *)
(* were handed back stay as they were, final tasks stay final, every step  *)
(* is a step of TaskLedger, the workers' statuses are those of their work, *)
(* and the stages of a product come in order.                              *)

\* What Startable reads.
Claims == <<paused, estatus, etask, attempt, tstatus, tassignee, enabled>>

LEMMA StartableKept ==
  ASSUME UNCHANGED Claims, Runners' = Runners
  PROVE  Startable' = Startable
<1>1. \A t : Claimable(t)' = Claimable(t)
  BY DEF Claims, Claimable, ProviderUnresolved, Busy, Running, WorkerOf
<1>2. HasCapacity' = HasCapacity
  BY DEF Claims, HasCapacity, Running
<1> QED
  BY <1>1, <1>2 DEF Claims, Startable

\* A runner that only moves from one phase to another stays a runner.
LEMMA RunnersKept ==
  ASSUME TypeOK, NEW e \in Execs, NEW x, phase[e] # "none", x # "none",
         phase' = [phase EXCEPT ![e] = x]
  PROVE  Runners' = Runners
  BY DEF TypeOK, Runners

LEMMA KickStep == IInv /\ NoLostKick /\ [Next]_vars => NoLostKick'
<1> SUFFICES ASSUME IInv, NoLostKick, [Next]_vars, dispatch' = "idle", Startable' PROVE scheduled'
  BY DEF NoLostKick
<1> DEFINE Kicked == Kick /\ dispatch' = dispatch
           Kept == Startable' = Startable /\ UNCHANGED <<dispatch, scheduled>>
<1>k. Kicked => scheduled'
  BY DEF Kick
<1>u. Kept => scheduled'
  BY DEF NoLostKick
<1>t. TypeOK
  BY DEF IInv
<1>1. CASE OwnerStep
  <2>1. ASSUME NEW k \in RootKinds, AssignObjective(k) PROVE Kicked
    BY <2>1 DEF AssignObjective, CreateTask
  <2>2. ASSUME NEW t \in Tasks, Retry(t) PROVE Kicked
    BY <2>2 DEF Retry
  <2>3. ASSUME NEW t \in Tasks, Cancel(t) PROVE Kicked
    BY <2>3 DEF Cancel
  <2>4. ASSUME NEW e \in Execs, Interrupt(e) PROVE Kicked
    BY <2>4 DEF Interrupt
  <2>5. ASSUME NEW on \in BOOLEAN, Pause(on) PROVE Kicked
    BY <2>5 DEF Pause
  <2> QED
    BY <1>k, <1>1, <2>1, <2>2, <2>3, <2>4, <2>5 DEF OwnerStep
<1>2. ASSUME NEW e \in Execs, ToolStep(e) PROVE Kicked
  BY <1>2 DEF ToolStep, ToolAssignTask, ToolHireWorker, ToolSubmitArtifact, CreateTask
<1>3. ASSUME NEW e \in Execs, RunnerStep(e) PROVE Kicked \/ Kept
  <2>1. CASE Bind(e) \/ RecordAttempt(e)
    BY <2>1 DEF Bind, RecordAttempt
  <2>2. CASE Transmit(e)
    <3>1. Runners' = Runners
      BY <1>t, <2>2, RunnersKept DEF Transmit
    <3>2. UNCHANGED Claims /\ UNCHANGED <<dispatch, scheduled>>
      BY <2>2 DEF Transmit, Claims, taskVars, execVars, workerVars
    <3> QED
      BY <3>1, <3>2, StartableKept
  <2>3. ASSUME NEW s \in Outcomes, ProviderReports(e, s) \/ RunnerGivesUp(e, s) PROVE Kept
    <3>1. phase[e] # "none" /\ phase' = [phase EXCEPT ![e] = "closing"]
      BY <2>3 DEF ProviderReports, RunnerGivesUp, Close
    <3>2. Runners' = Runners
      BY <1>t, <3>1, RunnersKept
    <3>3. UNCHANGED Claims /\ UNCHANGED <<dispatch, scheduled>>
      BY <2>3 DEF ProviderReports, RunnerGivesUp, Close, Claims, taskVars, execVars, workerVars
    <3> QED
      BY <3>2, <3>3, StartableKept
  <2>4. ASSUME NEW evidence \in BOOLEAN, NEW integrating \in BOOLEAN,
               Finish(e, evidence, integrating)
        PROVE Kicked
    BY <2>4 DEF Finish
  <2> QED
    BY <1>3, <2>1, <2>2, <2>3, <2>4 DEF RunnerStep
<1>4. CASE DrainStep
  <2>1. ASSUME NEW W \in SUBSET AwaitingIntegration, BeginDrain(W) PROVE FALSE
    BY <2>1 DEF BeginDrain, HQFree
  <2>2. ASSUME NEW e \in Execs, NEW t \in Tasks, Claim(e, t) PROVE FALSE
    BY <2>2 DEF Claim
  <2>3. CASE EndDrain
    <3>1. ~Startable /\ UNCHANGED Claims /\ UNCHANGED Runners
      BY <2>3 DEF EndDrain, Claims, Runners, taskVars, execVars, workerVars, runnerVars
    <3> QED
      BY <3>1, StartableKept
  <2> QED
    BY <1>4, <2>1, <2>2, <2>3 DEF DrainStep
<1>5. CASE DrainFails \/ Start
  BY <1>5 DEF DrainFails, Start
<1>6. CASE Stop \/ Exit \/ Crash
  BY <1>6 DEF Stop, Exit, Crash, ProcessEnds
<1>7. CASE UNCHANGED vars
  <2>1. UNCHANGED Claims /\ Runners' = Runners
    BY <1>7 DEF vars, Claims, Runners, taskVars, execVars, workerVars, runnerVars
  <2> QED
    BY <1>u, <1>7, <2>1, StartableKept DEF vars
<1> QED
  BY <1>k, <1>u, <1>1, <1>2, <1>3, <1>4, <1>5, <1>6, <1>7 DEF Next

\* Whenever the dispatcher rests although it could claim work, a drain is pending.
THEOREM KicksKept == Spec => []NoLostKick
<1>1. Init => NoLostKick
  BY DEF Init, NoLostKick
<1>2. IInv /\ NoLostKick /\ [Next]_vars => NoLostKick'
  BY KickStep
<1> QED
  BY <1>1, <1>2, Inductive, PTL DEF Spec

-----------------------------------------------------------------------------
\* settleParents on new statuses st and reasons rs, as Finish, Cancel and Start
\* write its outcome.
HandsBack(st, rs) ==
    /\ tstatus' = [u \in Tasks |-> IF u \in Handback(st, rs) THEN "queued" ELSE st[u]]
    /\ treason' = [u \in Tasks |-> IF u \in Handback(st, rs) THEN "none" ELSE rs[u]]
    /\ tdispatch' = [u \in Tasks |-> IF u \in Handback(st, rs) THEN "child_results"
                                     ELSE tdispatch[u]]
    /\ UNCHANGED tparent

\* A task with an open child is not handed anything back and keeps what st, rs say.
LEMMA HandbackKeeps ==
  ASSUME NEW st, NEW rs, HandsBack(st, rs), NEW p \in Tasks, NEW c \in Tasks,
         tparent[c] = p, ~Terminal(tstatus'[c])
  PROVE  /\ ~Terminal(st[c])
         /\ tstatus'[p] = st[p] /\ treason'[p] = rs[p] /\ tdispatch'[p] = tdispatch[p]
<1>1. ~Terminal(st[c])
  BY DEF HandsBack, Handback, Terminal
<1>2. p \notin Handback(st, rs)
  BY <1>1 DEF Handback, Children
<1> QED
  BY <1>1, <1>2 DEF HandsBack

\* A task that still waits after settleParents, and has children, has an open one.
LEMMA HandbackWakes ==
  ASSUME NEW st, NEW rs, HandsBack(st, rs), NEW p \in Tasks, Children(p) # {},
         tstatus'[p] = "blocked", treason'[p] = "waiting_children"
  PROVE  \E c \in Children(p)' : ~Terminal(tstatus'[c])
<1>1. p \notin Handback(st, rs)
  BY DEF HandsBack
<1>2. PICK c \in Children(p) : ~Terminal(st[c])
  BY <1>1 DEF HandsBack, Handback
<1>3. c \in Tasks /\ c \in Children(p)'
  BY <1>2 DEF HandsBack, Children
<1>4. ~Terminal(tstatus'[c])
  BY <1>2, <1>3 DEF HandsBack, Terminal
<1> QED
  BY <1>3, <1>4

LEMMA MoveHandsBack ==
  ASSUME NEW t \in Tasks, NEW s, NEW r, MoveTask(t, s, r), UNCHANGED tparent
  PROVE  HandsBack([tstatus EXCEPT ![t] = s], [treason EXCEPT ![t] = r])
  BY DEF MoveTask, HandsBack

\* What Start does to the task rows.
LEMMA StartHandsBack ==
  ASSUME TypeOK, WorkOK, Start
  PROVE  \E st, rs : /\ HandsBack(st, rs)
                     /\ \A t \in Tasks :
                           IF tstatus[t] = "working"
                           THEN st[t] = "blocked" /\ rs[t] = "other"
                           ELSE st[t] = tstatus[t] /\ rs[t] = treason[t]
<1> DEFINE st == [t \in Tasks |-> IF tstatus[t] = "working" /\ \E e \in Running : etask[e] = t
                                  THEN "blocked" ELSE tstatus[t]]
           rs == [t \in Tasks |-> IF st[t] # tstatus[t] THEN "other" ELSE treason[t]]
<1>1. HandsBack(st, rs)
  BY DEF Start, Lost, HandsBack
<1>2. \A t \in Tasks : tstatus[t] = "working" => \E e \in Running : etask[e] = t
  BY DEF WorkOK, Running
<1>3. \A t \in Tasks : IF tstatus[t] = "working"
                       THEN st[t] = "blocked" /\ rs[t] = "other"
                       ELSE st[t] = tstatus[t] /\ rs[t] = treason[t]
  BY <1>2
<1> HIDE DEF st, rs
<1> QED
  BY <1>1, <1>3

-----------------------------------------------------------------------------
\* A new task adds an open child and disturbs no other row.
LEMMA CreateTaskRows ==
  ASSUME IInv, NEW t \in Tasks, NEW w, NEW p, NEW k, NEW c, CreateTask(t, w, p, k, c)
  PROVE  /\ tstatus[t] = "absent" /\ tparent[t] = NoTask
         /\ \A u \in Tasks : /\ tstatus'[u] = IF u = t THEN "queued" ELSE tstatus[u]
                             /\ tdispatch'[u] = IF u = t THEN "assignment" ELSE tdispatch[u]
                             /\ tparent'[u] = IF u = t THEN p ELSE tparent[u]
                             /\ tcreated'[u] = IF u = t THEN c ELSE tcreated[u]
         /\ UNCHANGED <<treason, estatus, etask>>
  BY DEF IInv, TypeOK, TasksOK, CreateTask, Exists, execVars

\* No step but these writes a task's status, reason, dispatch reason or parent.
LEMMA TaskRowSteps ==
  [Next]_vars =>
      \/ UNCHANGED <<tstatus, treason, tdispatch, tparent, tassignee, tcreated, estatus, etask>>
      \/ \E k \in RootKinds : AssignObjective(k)
      \/ \E t \in Tasks : Retry(t) \/ Cancel(t)
      \/ \E e \in Execs, w \in Workers, k \in Kinds : ToolAssignTask(e, w, k)
      \/ \E e \in Execs, evidence, integrating \in BOOLEAN : Finish(e, evidence, integrating)
      \/ \E W \in SUBSET AwaitingIntegration : BeginDrain(W)
      \/ \E e \in Execs, t \in Tasks : Claim(e, t)
      \/ Start
<1> DEFINE Same == UNCHANGED <<tstatus, treason, tdispatch, tparent, tassignee, tcreated, estatus, etask>>
<1>1. ASSUME NEW e \in Execs, Interrupt(e) PROVE Same
  BY <1>1 DEF Interrupt, taskVars, execVars
<1>2. ASSUME NEW on \in BOOLEAN, Pause(on) PROVE Same
  BY <1>2 DEF Pause, taskVars, execVars
<1>3. ASSUME NEW e \in Execs, NEW w \in Workers, ToolHireWorker(e, w) PROVE Same
  BY <1>3 DEF ToolHireWorker, taskVars, execVars
<1>4. ASSUME NEW e \in Execs, ToolSubmitArtifact(e) PROVE Same
  BY <1>4 DEF ToolSubmitArtifact, execVars
<1>5. ASSUME NEW e \in Execs, Bind(e) \/ RecordAttempt(e) \/ Transmit(e) PROVE Same
  BY <1>5 DEF Bind, RecordAttempt, Transmit, taskVars, execVars
<1>6. ASSUME NEW e \in Execs, NEW s \in Outcomes, ProviderReports(e, s) \/ RunnerGivesUp(e, s)
      PROVE  Same
  BY <1>6 DEF ProviderReports, RunnerGivesUp, Close, taskVars, execVars
<1>7. ASSUME EndDrain \/ DrainFails \/ Stop \/ Exit \/ Crash \/ UNCHANGED vars PROVE Same
  BY <1>7 DEF EndDrain, DrainFails, Stop, Exit, Crash, ProcessEnds, vars, taskVars, execVars
<1> QED
  BY <1>1, <1>2, <1>3, <1>4, <1>5, <1>6, <1>7 DEF Next, OwnerStep, ToolStep, RunnerStep, DrainStep

-----------------------------------------------------------------------------
\* Any step that runs settleParents on statuses which keep open children open
\* keeps NoLostWakeup, if the tasks it leaves waiting have children.
LEMMA WakeupHandback ==
  ASSUME NoLostWakeup, NEW st, NEW rs, HandsBack(st, rs),
         \A p \in Tasks : st[p] = "blocked" /\ rs[p] = "waiting_children" =>
            \/ Children(p) # {}
            \/ tstatus[p] = "blocked" /\ treason[p] = "waiting_children"
  PROVE  NoLostWakeup'
<1> SUFFICES ASSUME NEW p \in Tasks, tstatus'[p] = "blocked", treason'[p] = "waiting_children"
             PROVE  \E c \in Children(p)' : ~Terminal(tstatus'[c])
  BY DEF NoLostWakeup
<1>1. st[p] = "blocked" /\ rs[p] = "waiting_children"
  BY DEF HandsBack
<1>2. Children(p) # {}
  BY <1>1 DEF NoLostWakeup
<1> QED
  BY <1>2, HandbackWakes

LEMMA WakeupStep == IInv /\ NoLostWakeup /\ [Next]_vars => NoLostWakeup'
<1> SUFFICES ASSUME IInv, NoLostWakeup, [Next]_vars PROVE NoLostWakeup'
  OBVIOUS
<1>n. NoTask \notin Tasks
  BY CompanyAssumption DEF NoTask, Tasks
<1>t. /\ tstatus \in [Tasks -> Statuses \cup {"absent"}]
      /\ treason \in [Tasks -> Reasons]
  BY DEF IInv, TypeOK
<1>1. CASE UNCHANGED <<tstatus, treason, tdispatch, tparent, tassignee, tcreated, estatus, etask>>
  BY <1>1 DEF NoLostWakeup, Children
<1>2. ASSUME NEW t \in Tasks, NEW w, NEW p, NEW k, NEW c, CreateTask(t, w, p, k, c)
      PROVE  NoLostWakeup'
  <2>1. /\ tstatus[t] = "absent" /\ tparent[t] = NoTask /\ UNCHANGED treason
        /\ \A u \in Tasks : /\ tstatus'[u] = IF u = t THEN "queued" ELSE tstatus[u]
                            /\ tparent'[u] = IF u = t THEN p ELSE tparent[u]
    BY <1>2, CreateTaskRows
  <2> QED
    BY <1>n, <2>1 DEF NoLostWakeup, Children, Terminal
<1>3. ASSUME NEW t \in Tasks, Retry(t) PROVE NoLostWakeup'
  <2>1. /\ \A u \in Tasks : /\ tstatus'[u] = IF u = t THEN "queued" ELSE tstatus[u]
                            /\ treason'[u] = IF u = t THEN "none" ELSE treason[u]
        /\ UNCHANGED tparent
    BY <1>t, <1>3 DEF Retry
  <2> QED
    BY <2>1 DEF NoLostWakeup, Children, Terminal
<1>4. ASSUME NEW t \in Tasks, Cancel(t) PROVE NoLostWakeup'
  <2> DEFINE st == [tstatus EXCEPT ![t] = "cancelled"]
             rs == [treason EXCEPT ![t] = "none"]
  <2>1. HandsBack(st, rs)
    BY <1>4, MoveHandsBack DEF Cancel
  <2>2. \A p \in Tasks : st[p] = "blocked" => p # t /\ rs[p] = treason[p] /\ st[p] = tstatus[p]
    BY <1>t
  <2> HIDE DEF st, rs
  <2> QED
    BY <2>1, <2>2, WakeupHandback
<1>5. ASSUME NEW e \in Execs, NEW evidence \in BOOLEAN, NEW integrating \in BOOLEAN,
             Finish(e, evidence, integrating)
      PROVE  NoLostWakeup'
  <2>1. PICK s \in Statuses \ {"queued", "working", "cancelled"}, r \in Reasons :
           /\ MoveTask(etask[e], s, r)
           /\ r = "waiting_children" => Children(etask[e]) # {}
    BY <1>5, FinishFacts DEF IInv
  <2> DEFINE st == [tstatus EXCEPT ![etask[e]] = s]
             rs == [treason EXCEPT ![etask[e]] = r]
  <2>2. etask[e] \in Tasks
    BY <1>5, FinishFacts DEF IInv
  <2>3. HandsBack(st, rs)
    BY <1>5, <2>1, <2>2, MoveHandsBack DEF Finish
  <2>4. \A p \in Tasks : IF p = etask[e] THEN st[p] = s /\ rs[p] = r
                         ELSE rs[p] = treason[p] /\ st[p] = tstatus[p]
    BY <1>t
  <2> HIDE DEF st, rs
  <2> QED
    BY <2>1, <2>3, <2>4, WakeupHandback
<1>6. ASSUME NEW W \in SUBSET AwaitingIntegration, BeginDrain(W) PROVE NoLostWakeup'
  <2>1. /\ \A u \in Tasks : /\ tstatus'[u] = IF u \in W THEN "queued" ELSE tstatus[u]
                            /\ treason'[u] = IF u \in W THEN "none" ELSE treason[u]
        /\ UNCHANGED tparent
    BY <1>t, <1>6 DEF BeginDrain
  <2> QED
    BY <2>1 DEF NoLostWakeup, Children, Terminal
<1>7. ASSUME NEW e \in Execs, NEW t \in Tasks, Claim(e, t) PROVE NoLostWakeup'
  <2>1. /\ \A u \in Tasks : /\ tstatus'[u] = IF u = t THEN "working" ELSE tstatus[u]
                            /\ treason'[u] = IF u = t THEN "none" ELSE treason[u]
        /\ UNCHANGED tparent
    BY <1>t, <1>7 DEF Claim
  <2> QED
    BY <2>1 DEF NoLostWakeup, Children, Terminal
<1>8. CASE Start
  <2>1. PICK st, rs : /\ HandsBack(st, rs)
                      /\ \A t \in Tasks : IF tstatus[t] = "working"
                                          THEN st[t] = "blocked" /\ rs[t] = "other"
                                          ELSE st[t] = tstatus[t] /\ rs[t] = treason[t]
    BY <1>8, StartHandsBack DEF IInv
  <2> QED
    BY <2>1, WakeupHandback
<1> QED
  BY <1>1, <1>2, <1>3, <1>4, <1>5, <1>6, <1>7, <1>8, TaskRowSteps
     DEF AssignObjective, ToolAssignTask

\* A task that waits for its children always has a child that has not ended: the
\* end of the last one hands the results back in the same transaction.
THEOREM WakeupsKept == Spec => []NoLostWakeup
<1>1. Init => NoLostWakeup
  BY DEF Init, NoLostWakeup
<1>2. IInv /\ NoLostWakeup /\ [Next]_vars => NoLostWakeup'
  BY WakeupStep
<1> QED
  BY <1>1, <1>2, Inductive, PTL DEF Spec

-----------------------------------------------------------------------------
LEMMA FrozenStep == IInv /\ ResultsFrozen /\ [Next]_vars => ResultsFrozen'
<1> SUFFICES ASSUME IInv, ResultsFrozen, [Next]_vars PROVE ResultsFrozen'
  OBVIOUS
<1>n. NoTask \notin Tasks
  BY CompanyAssumption DEF NoTask, Tasks
<1>t. /\ tstatus \in [Tasks -> Statuses \cup {"absent"}]
      /\ treason \in [Tasks -> Reasons]
      /\ tdispatch \in [Tasks -> Dispatches]
      /\ estatus \in [Execs -> Outcomes \cup {"absent", "running"}]
      /\ etask \in [Execs -> Tasks \cup {NoTask}]
  BY DEF IInv, TypeOK
<1>i. \A p \in Tasks : /\ tstatus[p] = "absent" => tparent[p] = NoTask
                       /\ tstatus[p] \in {"queued", "working"} => treason[p] = "none"
                       /\ tparent[p] \in Tasks => tparent[p] # p /\ tstatus[tparent[p]] # "absent"
  BY DEF IInv, TasksOK, ParentsOK
<1>1. CASE UNCHANGED <<tstatus, treason, tdispatch, tparent, tassignee, tcreated, estatus, etask>>
  BY <1>1 DEF ResultsFrozen, Running
<1>2. ASSUME NEW t \in Tasks, NEW w, NEW p, NEW k, NEW c, CreateTask(t, w, p, k, c),
             p # NoTask => /\ p \in Tasks /\ tstatus[p] = "working"
                           /\ c \in Running /\ etask[c] = p
      PROVE  ResultsFrozen'
  <2>1. /\ tstatus[t] = "absent" /\ tparent[t] = NoTask
        /\ \A u \in Tasks : /\ tstatus'[u] = IF u = t THEN "queued" ELSE tstatus[u]
                            /\ tdispatch'[u] = IF u = t THEN "assignment" ELSE tdispatch[u]
                            /\ tparent'[u] = IF u = t THEN p ELSE tparent[u]
                            /\ tcreated'[u] = IF u = t THEN c ELSE tcreated[u]
        /\ Running' = Running /\ UNCHANGED etask
    BY <1>2, CreateTaskRows DEF Running
  <2> SUFFICES ASSUME NEW q \in Tasks, NEW d \in Tasks, tparent'[d] = q, ~Terminal(tstatus'[d])
               PROVE  /\ tstatus'[q] # "completed"
                      /\ tdispatch'[q] = "child_results" => tstatus'[q] # "queued"
                      /\ tdispatch'[q] = "child_results" /\ tstatus'[q] = "working" =>
                            \E e \in Running' : etask'[e] = q /\ tcreated'[d] = e
    BY DEF ResultsFrozen
  <2>2. CASE d = t
    <3>1. q = p /\ q # t /\ tstatus'[q] = "working" /\ tcreated'[d] = c
      BY <1>2, <1>n, <2>1, <2>2
    <3> QED
      BY <1>2, <1>n, <2>1, <3>1
  <2>3. CASE d # t
    <3>1. tparent[d] = q /\ ~Terminal(tstatus[d]) /\ q # t /\ tcreated'[d] = tcreated[d]
      BY <1>i, <2>1, <2>3
    <3> QED
      BY <2>1, <3>1 DEF ResultsFrozen
  <2> QED
    BY <2>2, <2>3
<1>3. ASSUME NEW t \in Tasks, Retry(t) PROVE ResultsFrozen'
  <2>1. /\ ChildrenTerminal(t) /\ NotHandedBack(t)
        /\ tstatus[t] \in {"blocked", "failed", "awaiting_approval"}
        /\ \A u \in Tasks : /\ tstatus'[u] = IF u = t THEN "queued" ELSE tstatus[u]
                            /\ u # t => tdispatch'[u] = tdispatch[u]
        /\ Running' = Running /\ UNCHANGED <<tparent, tcreated, etask>>
    BY <1>t, <1>3 DEF Retry, Running, execVars
  <2> SUFFICES ASSUME NEW q \in Tasks, NEW d \in Tasks, tparent[d] = q, ~Terminal(tstatus'[d])
               PROVE  /\ tstatus'[q] # "completed"
                      /\ tdispatch'[q] = "child_results" => tstatus'[q] # "queued"
                      /\ tdispatch'[q] = "child_results" /\ tstatus'[q] = "working" =>
                            \E e \in Running' : etask'[e] = q /\ tcreated'[d] = e
    BY <2>1 DEF ResultsFrozen
  <2>2. CASE d = t
    <3>1. /\ q # t /\ q # NoTask /\ ~Terminal(tstatus[q])
          /\ tdispatch[q] # "child_results" \/ treason[q] = "waiting_children"
      BY <1>i, <1>n, <2>1, <2>2 DEF NotHandedBack
    <3>2. tdispatch[q] = "child_results" => tstatus[q] \notin {"queued", "working"}
      BY <1>i, <3>1
    <3> QED
      BY <2>1, <3>1, <3>2 DEF Terminal
  <2>3. CASE d # t
    <3>1. ~Terminal(tstatus[d])
      BY <2>1, <2>3
    <3>2. q # t
      BY <2>1, <3>1 DEF ChildrenTerminal, Children
    <3> QED
      BY <2>1, <3>1, <3>2 DEF ResultsFrozen
  <2> QED
    BY <2>2, <2>3
<1>4. ASSUME NEW t \in Tasks, Cancel(t) PROVE ResultsFrozen'
  <2> DEFINE st == [tstatus EXCEPT ![t] = "cancelled"]
             rs == [treason EXCEPT ![t] = "none"]
  <2>1. HandsBack(st, rs) /\ UNCHANGED <<estatus, etask, tcreated, tparent>>
    BY <1>4, MoveHandsBack DEF Cancel, execVars
  <2>2. \A p \in Tasks : st[p] = IF p = t THEN "cancelled" ELSE tstatus[p]
    BY <1>t
  <2> HIDE DEF st, rs
  <2> SUFFICES ASSUME NEW q \in Tasks, NEW d \in Tasks, tparent[d] = q, ~Terminal(tstatus'[d])
               PROVE  /\ tstatus'[q] # "completed"
                      /\ tdispatch'[q] = "child_results" => tstatus'[q] # "queued"
                      /\ tdispatch'[q] = "child_results" /\ tstatus'[q] = "working" =>
                            \E e \in Running : etask[e] = q /\ tcreated[d] = e
    BY <2>1 DEF ResultsFrozen, Running
  <2>3. ~Terminal(st[d]) /\ tstatus'[q] = st[q] /\ tdispatch'[q] = tdispatch[q]
    BY <2>1, HandbackKeeps
  <2>4. ~Terminal(tstatus[d])
    BY <2>2, <2>3 DEF Terminal
  <2> QED
    BY <2>2, <2>3, <2>4 DEF ResultsFrozen
<1>5. ASSUME NEW e \in Execs, NEW evidence \in BOOLEAN, NEW integrating \in BOOLEAN,
             Finish(e, evidence, integrating)
      PROVE  ResultsFrozen'
  <2>1. PICK s \in Statuses \ {"queued", "working", "cancelled"}, r \in Reasons :
           /\ MoveTask(etask[e], s, r)
           /\ s = "completed" => ChildrenTerminal(etask[e])
    BY <1>5, FinishFacts DEF IInv
  <2> DEFINE st == [tstatus EXCEPT ![etask[e]] = s]
             rs == [treason EXCEPT ![etask[e]] = r]
  <2>2. etask[e] \in Tasks /\ estatus[e] = "running" /\ tstatus[etask[e]] = "working"
    BY <1>5, FinishFacts DEF IInv, WorkOK
  <2>3. PICK x \in Outcomes : estatus' = [estatus EXCEPT ![e] = x]
    BY <1>5, FinishFacts DEF IInv
  <2>4. HandsBack(st, rs) /\ UNCHANGED <<etask, tcreated, tparent>>
    BY <1>5, <2>1, <2>2, MoveHandsBack DEF Finish
  <2>5. \A p \in Tasks : st[p] = IF p = etask[e] THEN s ELSE tstatus[p]
    BY <1>t
  <2>6. \A f \in Running : f # e => f \in Running'
    BY <1>t, <2>3 DEF Running
  <2> HIDE DEF st, rs
  <2> SUFFICES ASSUME NEW q \in Tasks, NEW d \in Tasks, tparent[d] = q, ~Terminal(tstatus'[d])
               PROVE  /\ tstatus'[q] # "completed"
                      /\ tdispatch'[q] = "child_results" => tstatus'[q] # "queued"
                      /\ tdispatch'[q] = "child_results" /\ tstatus'[q] = "working" =>
                            \E f \in Running' : etask[f] = q /\ tcreated[d] = f
    BY <2>4 DEF ResultsFrozen
  <2>7. ~Terminal(st[d]) /\ tstatus'[q] = st[q] /\ tdispatch'[q] = tdispatch[q]
    BY <2>4, HandbackKeeps
  <2>8. ~Terminal(tstatus[d])
    BY <2>2, <2>5, <2>7 DEF Terminal
  <2>9. CASE q = etask[e]
    <3>1. s # "completed" /\ s # "queued" /\ s # "working"
      BY <2>1, <2>8, <2>9 DEF ChildrenTerminal, Children
    <3> QED
      BY <2>5, <2>7, <2>9, <3>1
  <2>10. CASE q # etask[e]
    <3>1. tstatus'[q] = tstatus[q]
      BY <2>5, <2>7, <2>10
    <3> QED
      BY <2>6, <2>7, <2>8, <2>10, <3>1 DEF ResultsFrozen
  <2> QED
    BY <2>9, <2>10
<1>6. ASSUME NEW W \in SUBSET AwaitingIntegration, BeginDrain(W) PROVE ResultsFrozen'
  <2>1. /\ \A u \in Tasks : /\ tstatus'[u] = IF u \in W THEN "queued" ELSE tstatus[u]
                            /\ tdispatch'[u] = IF u \in W THEN "integration_result"
                                               ELSE tdispatch[u]
        /\ UNCHANGED <<tparent, tcreated, estatus, etask>>
    BY <1>t, <1>6 DEF BeginDrain, execVars
  <2>2. \A u \in W : tstatus[u] = "blocked"
    BY DEF AwaitingIntegration
  <2> QED
    BY <2>1, <2>2 DEF ResultsFrozen, Running, Terminal
<1>7. ASSUME NEW e \in Execs, NEW t \in Tasks, Claim(e, t) PROVE ResultsFrozen'
  <2>1. /\ tstatus[t] = "queued" /\ estatus[e] = "absent"
        /\ \A u \in Tasks : tstatus'[u] = IF u = t THEN "working" ELSE tstatus[u]
        /\ \A f \in Execs : /\ estatus'[f] = IF f = e THEN "running" ELSE estatus[f]
                            /\ etask'[f] = IF f = e THEN t ELSE etask[f]
        /\ UNCHANGED <<tparent, tcreated, tdispatch>>
    BY <1>t, <1>7 DEF Claim, NextTask, Claimable
  <2>2. \A f \in Running : f \in Running' /\ etask'[f] = etask[f]
    BY <2>1 DEF Running
  <2> QED
    BY <2>1, <2>2 DEF ResultsFrozen, Terminal
<1>8. CASE Start
  <2>1. PICK st, rs : /\ HandsBack(st, rs)
                      /\ \A t \in Tasks : IF tstatus[t] = "working"
                                          THEN st[t] = "blocked" /\ rs[t] = "other"
                                          ELSE st[t] = tstatus[t] /\ rs[t] = treason[t]
    BY <1>8, StartHandsBack DEF IInv
  <2> SUFFICES ASSUME NEW q \in Tasks, NEW d \in Tasks, tparent[d] = q, ~Terminal(tstatus'[d])
               PROVE  /\ tstatus'[q] # "completed"
                      /\ tdispatch'[q] = "child_results" => tstatus'[q] \notin {"queued", "working"}
    BY <2>1 DEF ResultsFrozen, HandsBack
  <2>2. ~Terminal(st[d]) /\ tstatus'[q] = st[q] /\ tdispatch'[q] = tdispatch[q]
    BY <2>1, HandbackKeeps
  <2>3. ~Terminal(tstatus[d])
    BY <2>1, <2>2 DEF Terminal
  <2>4. st[q] = "blocked" \/ (st[q] = tstatus[q] /\ tstatus[q] # "working")
    BY <2>1
  <2> QED
    BY <2>2, <2>3, <2>4 DEF ResultsFrozen
<1>9. ASSUME NEW k \in RootKinds, AssignObjective(k) PROVE ResultsFrozen'
  BY <1>2, <1>9 DEF AssignObjective
<1>10. ASSUME NEW e \in Execs, NEW w \in Workers, NEW k \in Kinds, ToolAssignTask(e, w, k)
       PROVE  ResultsFrozen'
  <2>1. estatus[e] = "running" /\ tstatus[etask[e]] = "working"
    BY <1>10 DEF ToolAssignTask, MayAct
  <2>2. etask[e] \in Tasks
    BY <2>1 DEF IInv, ExecsOK
  <2> QED
    BY <1>2, <1>10, <2>1, <2>2 DEF ToolAssignTask, Running
<1> QED
  BY <1>1, <1>3, <1>4, <1>5, <1>6, <1>7, <1>8, <1>9, <1>10, TaskRowSteps

\* Results that were handed back to a manager stay as they were handed back.
THEOREM ResultsKept == Spec => []ResultsFrozen
<1>1. Init => ResultsFrozen
  <2> SUFFICES ASSUME Init PROVE ResultsFrozen
    OBVIOUS
  <2>1. \A p \in Tasks : tparent[p] = NoTask
    BY DEF Init
  <2>2. NoTask \notin Tasks
    BY CompanyAssumption DEF NoTask, Tasks
  <2> QED
    BY <2>1, <2>2 DEF ResultsFrozen
<1>2. IInv /\ ResultsFrozen /\ [Next]_vars => ResultsFrozen'
  BY FrozenStep
<1> QED
  BY <1>1, <1>2, Inductive, PTL DEF Spec

-----------------------------------------------------------------------------
LEMMA FinalStep ==
  IInv /\ [Next]_vars =>
      \A t \in Tasks : tstatus[t] \in {"completed", "cancelled"} => tstatus'[t] = tstatus[t]
<1> SUFFICES ASSUME IInv, [Next]_vars, NEW t \in Tasks, tstatus[t] \in {"completed", "cancelled"}
             PROVE  tstatus'[t] = tstatus[t]
  OBVIOUS
<1>t. tstatus \in [Tasks -> Statuses \cup {"absent"}]
  BY DEF IInv, TypeOK
<1>h. ASSUME NEW st, NEW rs, HandsBack(st, rs), st[t] = tstatus[t] PROVE tstatus'[t] = tstatus[t]
  BY <1>h DEF HandsBack, Handback
<1>1. ASSUME NEW u \in Tasks, NEW w, NEW p, NEW k, NEW c, CreateTask(u, w, p, k, c)
      PROVE  tstatus'[t] = tstatus[t]
  BY <1>1, CreateTaskRows
<1>2. ASSUME NEW u \in Tasks, Retry(u) PROVE tstatus'[t] = tstatus[t]
  BY <1>t, <1>2 DEF Retry
<1>3. ASSUME NEW u \in Tasks, Cancel(u) PROVE tstatus'[t] = tstatus[t]
  <2> DEFINE st == [tstatus EXCEPT ![u] = "cancelled"]
             rs == [treason EXCEPT ![u] = "none"]
  <2>1. HandsBack(st, rs)
    BY <1>3, MoveHandsBack DEF Cancel
  <2>2. u # t
    BY <1>3 DEF Cancel, Transitions, Statuses
  <2>3. st[t] = tstatus[t]
    BY <1>t, <2>2
  <2> HIDE DEF st, rs
  <2> QED
    BY <1>h, <2>1, <2>3
<1>4. ASSUME NEW e \in Execs, NEW evidence \in BOOLEAN, NEW integrating \in BOOLEAN,
             Finish(e, evidence, integrating)
      PROVE  tstatus'[t] = tstatus[t]
  <2>1. PICK s \in Statuses \ {"queued", "working", "cancelled"}, r \in Reasons :
           MoveTask(etask[e], s, r)
    BY <1>4, FinishFacts DEF IInv
  <2>2. etask[e] \in Tasks /\ tstatus[etask[e]] = "working"
    BY <1>4, FinishFacts DEF IInv, WorkOK
  <2> DEFINE st == [tstatus EXCEPT ![etask[e]] = s]
             rs == [treason EXCEPT ![etask[e]] = r]
  <2>3. HandsBack(st, rs)
    BY <1>4, <2>1, <2>2, MoveHandsBack DEF Finish
  <2>4. st[t] = tstatus[t]
    BY <1>t, <2>2
  <2> HIDE DEF st, rs
  <2> QED
    BY <1>h, <2>3, <2>4
<1>5. ASSUME NEW W \in SUBSET AwaitingIntegration, BeginDrain(W) PROVE tstatus'[t] = tstatus[t]
  BY <1>5 DEF BeginDrain, AwaitingIntegration
<1>6. ASSUME NEW e \in Execs, NEW u \in Tasks, Claim(e, u) PROVE tstatus'[t] = tstatus[t]
  BY <1>t, <1>6 DEF Claim, NextTask, Claimable
<1>7. CASE Start
  BY <1>7, <1>h, StartHandsBack DEF IInv
<1> QED
  BY <1>1, <1>2, <1>3, <1>4, <1>5, <1>6, <1>7, TaskRowSteps DEF AssignObjective, ToolAssignTask

\* A completed or cancelled task never changes again, and nothing is started while
\* the company is paused.
THEOREM FinalKept == Spec => FinalAndHeld
<1> DEFINE A == /\ \A t \in Tasks : tstatus[t] \in {"completed", "cancelled"}
                                       => tstatus'[t] = tstatus[t]
                /\ paused => \A e \in Execs : estatus'[e] = "running" => estatus[e] = "running"
<1>1. IInv /\ [Next]_vars => [A]_vars
  <2> SUFFICES ASSUME IInv, [Next]_vars PROVE A
    OBVIOUS
  <2>1. paused => Running' \subseteq Running
    BY OnlyClaimStarts DEF IInv, Claim, HasCapacity
  <2>2. paused => \A e \in Execs : estatus'[e] = "running" => estatus[e] = "running"
    BY <2>1 DEF Running
  <2> QED
    BY <2>2, FinalStep
<1> HIDE DEF A
<1>2. Spec => [][A]_vars
  BY <1>1, Inductive, PTL DEF Spec
<1> QED
  BY <1>2 DEF FinalAndHeld, A

-----------------------------------------------------------------------------
\* What a worker's row is compared with: its own running executions, unresolved
\* turns and queued tasks, and those of them that an integration has requeued.
Works(w, e) == estatus[e] = "running" /\ WorkerOf(e) = w
Owes(w, e) == attempt[e] = "unresolved" /\ WorkerOf(e) = w
Queues(w, t) == tassignee[t] = w /\ tstatus[t] = "queued"
Integrated(w) == \E t \in Tasks : Queues(w, t) /\ tdispatch[t] = "integration_result"

Fresh(w) == lifecycle[w] = "none" \/ wstatus[w] = DerivedStatus(w) \/ Integrated(w)

\* A worker that was not hired yet is recorded as idle.
Unhired == \A w \in Workers : lifecycle[w] = "none" => wstatus[w] = "idle"

LEMMA FreshMeans == WorkerStatusFresh <=> \A w \in Workers : Fresh(w)
  BY DEF WorkerStatusFresh, Fresh, Integrated, Queues

\* A worker whose executions, turns and queue stay as they are keeps its status.
LEMMA DerivedKept ==
  ASSUME NEW w \in Workers, Busy(w)' <=> Busy(w), ProviderUnresolved(w)' <=> ProviderUnresolved(w),
         \A t \in Tasks : Queues(w, t)' <=> Queues(w, t)
  PROVE  DerivedStatus(w)' = DerivedStatus(w)
  BY DEF DerivedStatus, Queues

LEMMA WorksKept ==
  ASSUME NEW w \in Workers, \A e \in Execs : Works(w, e)' <=> Works(w, e),
         \A e \in Execs : Owes(w, e)' <=> Owes(w, e)
  PROVE  (Busy(w)' <=> Busy(w)) /\ (ProviderUnresolved(w)' <=> ProviderUnresolved(w))
  BY DEF Busy, Running, ProviderUnresolved, Works, Owes

\* A worker that a step does not refresh and whose rows it leaves alone.
LEMMA FreshKept ==
  ASSUME NEW w \in Workers, Fresh(w), lifecycle'[w] = lifecycle[w], wstatus'[w] = wstatus[w],
         Busy(w)' <=> Busy(w), ProviderUnresolved(w)' <=> ProviderUnresolved(w),
         \A t \in Tasks : Queues(w, t)' <=> Queues(w, t),
         \A t \in Tasks : Queues(w, t) => tdispatch'[t] = tdispatch[t]
  PROVE  Fresh(w)'
<1>1. DerivedStatus(w)' = DerivedStatus(w)
  BY DerivedKept
<1>2. Integrated(w) => Integrated(w)'
  BY DEF Integrated
<1> QED
  BY <1>1, <1>2 DEF Fresh

LEMMA FreshRefreshed ==
  ASSUME NEW W, RefreshWorkers(W), NEW w \in Workers, w \in W
  PROVE  Fresh(w)'
  BY DEF RefreshWorkers, Fresh

\* Executions and unresolved turns belong to tasks that exist.
LEMMA ExecTask ==
  ASSUME IInv, NEW e \in Execs, estatus[e] = "running" \/ attempt[e] = "unresolved"
  PROVE  /\ estatus[e] # "absent" /\ etask[e] \in Tasks /\ tstatus[etask[e]] # "absent"
         /\ WorkerOf(e) \in Workers /\ lifecycle[WorkerOf(e)] # "none"
  BY DEF IInv, ExecsOK, TasksOK, WorkerOf

\* Of the new rows only the worker's own can concern it, and it is refreshed.
LEMMA CreateTaskFresh ==
  ASSUME IInv, WorkerStatusFresh, NEW t \in Tasks, NEW w \in Workers, NEW p, NEW k, NEW c,
         CreateTask(t, w, p, k, c)
  PROVE  WorkerStatusFresh'
<1> SUFFICES ASSUME NEW v \in Workers PROVE Fresh(v)'
  BY DEF WorkerStatusFresh, Fresh, Integrated, Queues
<1>1. CASE v = w
  BY <1>1, FreshRefreshed DEF CreateTask
<1>2. CASE v # w
  <2>1. /\ tstatus[t] = "absent" /\ UNCHANGED <<estatus, etask, attempt, lifecycle>>
        /\ wstatus'[v] = wstatus[v]
        /\ \A u \in Tasks : /\ tstatus'[u] = IF u = t THEN "queued" ELSE tstatus[u]
                            /\ tdispatch'[u] = IF u = t THEN "assignment" ELSE tdispatch[u]
                            /\ tassignee'[u] = IF u = t THEN w ELSE tassignee[u]
    BY <1>2 DEF CreateTask, Exists, IInv, TypeOK, execVars, workerVars, RefreshWorkers
  <2>2. \A e \in Execs : estatus[e] = "running" \/ attempt[e] = "unresolved" =>
           WorkerOf(e)' = WorkerOf(e)
    BY <2>1, ExecTask DEF WorkerOf
  <2>3. (Busy(v)' <=> Busy(v)) /\ (ProviderUnresolved(v)' <=> ProviderUnresolved(v))
    BY <2>1, <2>2, WorksKept DEF Works, Owes
  <2>4. \A u \in Tasks : (Queues(v, u)' <=> Queues(v, u)) /\ (Queues(v, u) => tdispatch'[u] = tdispatch[u])
    BY <1>2, <2>1 DEF Queues
  <2>5. Fresh(v)
    BY FreshMeans
  <2> QED
    BY <2>1, <2>3, <2>4, <2>5, FreshKept
<1> QED
  BY <1>1, <1>2

\* settleParents concerns the workers of the tasks it requeues, and the step its
\* own: all of these are refreshed.
LEMMA MoveTaskFresh ==
  ASSUME IInv, WorkerStatusFresh, NEW t \in Tasks, NEW s \in Statuses \ {"queued", "working"},
         NEW r \in Reasons, MoveTask(t, s, r), UNCHANGED <<tassignee, etask, lifecycle>>,
         RefreshWorkers({tassignee[t]} \cup Requeued),
         \A e \in Execs : WorkerOf(e) # tassignee[t] =>
            /\ estatus'[e] = "running" <=> estatus[e] = "running"
            /\ attempt'[e] = "unresolved" <=> attempt[e] = "unresolved"
  PROVE  WorkerStatusFresh'
<1> SUFFICES ASSUME NEW v \in Workers PROVE Fresh(v)'
  BY DEF WorkerStatusFresh, Fresh, Integrated, Queues
<1> DEFINE W == {tassignee[t]} \cup Requeued
           back == Handback([tstatus EXCEPT ![t] = s], [treason EXCEPT ![t] = r])
<1>1. CASE v \in W
  BY <1>1, FreshRefreshed
<1>2. CASE v \notin W
  <2>1. wstatus'[v] = wstatus[v]
    BY <1>2 DEF RefreshWorkers
  <2>2. \A u \in Tasks : tassignee[u] = v => tstatus[u] = "queued" \/ tstatus'[u] # "queued"
    BY <1>2 DEF Requeued
  <2>3. \A u \in Tasks : tassignee[u] = v => tstatus'[u] = tstatus[u] /\ tdispatch'[u] = tdispatch[u]
    <3> SUFFICES ASSUME NEW u \in Tasks, tassignee[u] = v
                 PROVE  tstatus'[u] = tstatus[u] /\ tdispatch'[u] = tdispatch[u]
      OBVIOUS
    <3>1. u # t
      BY <1>2
    <3>2. u \notin back
      BY <2>2, <3>1 DEF MoveTask, Handback, IInv, TypeOK
    <3> QED
      BY <3>1, <3>2 DEF MoveTask, IInv, TypeOK
  <2>4. \A e \in Execs : WorkerOf(e)' = WorkerOf(e)
    BY DEF WorkerOf
  <2>5. (Busy(v)' <=> Busy(v)) /\ (ProviderUnresolved(v)' <=> ProviderUnresolved(v))
    BY <1>2, <2>4, WorksKept DEF Works, Owes
  <2>6. Fresh(v)
    BY FreshMeans
  <2>7. \A u \in Tasks : (Queues(v, u)' <=> Queues(v, u)) /\ (Queues(v, u) => tdispatch'[u] = tdispatch[u])
    BY <2>3 DEF Queues
  <2> QED
    BY <2>1, <2>5, <2>6, <2>7, FreshKept
<1> QED
  BY <1>1, <1>2

\* A step that changes one task, of a worker it refreshes.
LEMMA OneTaskFresh ==
  ASSUME IInv, WorkerStatusFresh, NEW t \in Tasks, UNCHANGED <<tassignee, attempt, lifecycle>>,
         \A u \in Tasks : u # t => tstatus'[u] = tstatus[u] /\ tdispatch'[u] = tdispatch[u],
         RefreshWorkers({tassignee[t]}),
         \A e \in Execs :
            \/ estatus'[e] = estatus[e] /\ etask'[e] = etask[e]
            \/ attempt[e] = "none" /\ estatus[e] # "running" /\ etask'[e] = t
  PROVE  WorkerStatusFresh'
<1> SUFFICES ASSUME NEW v \in Workers PROVE Fresh(v)'
  BY DEF WorkerStatusFresh, Fresh, Integrated, Queues
<1>1. CASE v = tassignee[t]
  BY <1>1, FreshRefreshed
<1>2. CASE v # tassignee[t]
  <2>1. wstatus'[v] = wstatus[v]
    BY <1>2 DEF RefreshWorkers
  <2>2. (Busy(v)' <=> Busy(v)) /\ (ProviderUnresolved(v)' <=> ProviderUnresolved(v))
    <3>1. \A e \in Execs : (Works(v, e)' <=> Works(v, e)) /\ (Owes(v, e)' <=> Owes(v, e))
      BY <1>2 DEF Works, Owes, WorkerOf
    <3> QED
      BY <3>1, WorksKept
  <2>3. \A u \in Tasks : (Queues(v, u)' <=> Queues(v, u)) /\ (Queues(v, u) => tdispatch'[u] = tdispatch[u])
    BY <1>2 DEF Queues
  <2>4. Fresh(v)
    BY FreshMeans
  <2> QED
    BY <2>1, <2>2, <2>3, <2>4, FreshKept
<1> QED
  BY <1>1, <1>2

LEMMA FreshStep == IInv /\ Unhired /\ WorkerStatusFresh /\ [Next]_vars => WorkerStatusFresh'
<1> SUFFICES ASSUME IInv, Unhired, WorkerStatusFresh, [Next]_vars PROVE WorkerStatusFresh'
  OBVIOUS
<1> DEFINE Same == UNCHANGED <<tstatus, tassignee, tdispatch, estatus, etask, attempt, lifecycle, wstatus>>
<1>t. TypeOK
  BY DEF IInv
<1>s. Same => WorkerStatusFresh'
  BY DEF WorkerStatusFresh, DerivedStatus, Busy, Running, ProviderUnresolved, WorkerOf
<1>1. CASE OwnerStep
  <2>1. ASSUME NEW k \in RootKinds, AssignObjective(k) PROVE WorkerStatusFresh'
    BY <2>1, CreateTaskFresh, CompanyAssumption DEF AssignObjective
  <2>2. ASSUME NEW t \in Tasks, Retry(t) PROVE WorkerStatusFresh'
    <3>1. \A u \in Tasks : u # t => tstatus'[u] = tstatus[u] /\ tdispatch'[u] = tdispatch[u]
      BY <1>t, <2>2 DEF Retry, TypeOK
    <3> QED
      BY <2>2, <3>1, OneTaskFresh DEF Retry, execVars, workerVars
  <2>3. ASSUME NEW t \in Tasks, Cancel(t) PROVE WorkerStatusFresh'
    <3>1. "cancelled" \in Statuses \ {"queued", "working"} /\ "none" \in Reasons
      BY DEF Statuses, Reasons
    <3> QED
      BY <2>3, <3>1, MoveTaskFresh DEF Cancel, execVars
  <2>4. ASSUME NEW e \in Execs, Interrupt(e) PROVE Same
    BY <2>4 DEF Interrupt, execVars, taskVars, workerVars
  <2>5. ASSUME NEW on \in BOOLEAN, Pause(on) PROVE Same
    BY <2>5 DEF Pause, execVars, taskVars, workerVars
  <2> QED
    BY <1>1, <1>s, <2>1, <2>2, <2>3, <2>4, <2>5 DEF OwnerStep
<1>2. ASSUME NEW e \in Execs, ToolStep(e) PROVE WorkerStatusFresh'
  <2>1. ASSUME NEW w \in Workers, NEW k \in Kinds, ToolAssignTask(e, w, k) PROVE WorkerStatusFresh'
    BY <2>1, CreateTaskFresh DEF ToolAssignTask
  <2>2. ASSUME NEW w \in Workers, ToolHireWorker(e, w) PROVE WorkerStatusFresh'
    <3> SUFFICES ASSUME NEW v \in Workers PROVE Fresh(v)'
      BY DEF WorkerStatusFresh, Fresh, Integrated, Queues
    <3>1. /\ UNCHANGED <<tstatus, tassignee, tdispatch, estatus, etask, attempt, wstatus>>
          /\ lifecycle[w] = "none" /\ \A x \in Workers : x # w => lifecycle'[x] = lifecycle[x]
      BY <1>t, <2>2 DEF ToolHireWorker, execVars, taskVars, TypeOK
    <3>2. DerivedStatus(v)' = DerivedStatus(v)
      BY <3>1 DEF DerivedStatus, Busy, Running, ProviderUnresolved, WorkerOf
    <3>3. CASE v # w
      BY <3>1, <3>2, <3>3, FreshMeans DEF Fresh, Integrated, Queues
    <3>4. CASE v = w
      <4>1. wstatus[v] = "idle"
        BY <3>1, <3>4 DEF Unhired
      <4>2. ~Busy(v) /\ ~ProviderUnresolved(v)
        BY <3>1, <3>4, ExecTask DEF Busy, Running, ProviderUnresolved
      <4>3. \A t \in Tasks : ~(tassignee[t] = v /\ tstatus[t] = "queued")
        BY <3>1, <3>4 DEF IInv, TasksOK
      <4> QED
        BY <3>1, <3>2, <4>1, <4>2, <4>3 DEF DerivedStatus, Fresh
    <3> QED
      BY <3>3, <3>4
  <2>3. ASSUME ToolSubmitArtifact(e) PROVE Same
    BY <2>3 DEF ToolSubmitArtifact, execVars, workerVars
  <2> QED
    BY <1>2, <1>s, <2>1, <2>2, <2>3 DEF ToolStep
<1>3. ASSUME NEW e \in Execs, RunnerStep(e) PROVE WorkerStatusFresh'
  <2>1. ASSUME Bind(e) \/ Transmit(e) PROVE Same
    BY <2>1 DEF Bind, Transmit, taskVars, execVars, workerVars
  <2>2. ASSUME NEW s \in Outcomes, ProviderReports(e, s) \/ RunnerGivesUp(e, s) PROVE Same
    BY <2>2 DEF ProviderReports, RunnerGivesUp, Close, taskVars, execVars, workerVars
  <2>3. ASSUME RecordAttempt(e) PROVE WorkerStatusFresh'
    <3> SUFFICES ASSUME NEW v \in Workers PROVE Fresh(v)'
      BY DEF WorkerStatusFresh, Fresh, Integrated, Queues
    <3>1. /\ UNCHANGED <<tstatus, tassignee, tdispatch, estatus, etask, wstatus, lifecycle>>
          /\ \A f \in Execs : f # e => attempt'[f] = attempt[f]
          /\ estatus[e] = "running"
      BY <1>t, <2>3 DEF RecordAttempt, taskVars, workerVars, TypeOK, IInv, ExecsOK
    <3>2. \A f \in Execs : WorkerOf(f)' = WorkerOf(f)
      BY <3>1 DEF WorkerOf
    <3>3. Busy(v)' <=> Busy(v)
      BY <3>1, <3>2 DEF Busy, Running
    <3>4. CASE Busy(v)
      BY <3>1, <3>3, <3>4, FreshMeans DEF DerivedStatus, Fresh, Integrated, Queues
    <3>5. CASE ~Busy(v)
      <4>1. WorkerOf(e) # v
        BY <3>1, <3>5 DEF Busy, Running
      <4>2. ProviderUnresolved(v)' <=> ProviderUnresolved(v)
        BY <3>1, <3>2, <4>1 DEF ProviderUnresolved
      <4> QED
        BY <3>1, <3>3, <4>2, FreshMeans, FreshKept DEF Queues
    <3> QED
      BY <3>4, <3>5
  <2>4. ASSUME NEW evidence \in BOOLEAN, NEW integrating \in BOOLEAN, Finish(e, evidence, integrating)
        PROVE  WorkerStatusFresh'
    <3>1. etask[e] \in Tasks
      BY <1>t, <2>4, FinishFacts DEF IInv
    <3>2. PICK s \in Statuses \ {"queued", "working", "cancelled"}, r \in Reasons :
             MoveTask(etask[e], s, r)
      BY <1>t, <2>4, FinishFacts DEF IInv
    <3>3. \A f \in Execs : f # e => estatus'[f] = estatus[f] /\ attempt'[f] = attempt[f]
      BY <1>t, <2>4 DEF Finish, TypeOK
    <3>4. /\ UNCHANGED <<tassignee, etask, lifecycle>>
          /\ RefreshWorkers({tassignee[etask[e]]} \cup Requeued)
      BY <2>4 DEF Finish, WorkerOf
    <3>5. \A f \in Execs : WorkerOf(f) # tassignee[etask[e]] => f # e
      BY DEF WorkerOf
    <3> QED
      BY <3>1, <3>2, <3>3, <3>4, <3>5, MoveTaskFresh
  <2> QED
    BY <1>3, <1>s, <2>1, <2>2, <2>3, <2>4 DEF RunnerStep
<1>4. CASE DrainStep
  <2>1. ASSUME NEW W \in SUBSET AwaitingIntegration, BeginDrain(W) PROVE WorkerStatusFresh'
    <3> SUFFICES ASSUME NEW v \in Workers PROVE Fresh(v)'
      BY DEF WorkerStatusFresh, Fresh, Integrated, Queues
    <3>1. /\ UNCHANGED <<tassignee, estatus, etask, attempt, lifecycle, wstatus>>
          /\ \A t \in Tasks : /\ tstatus'[t] = IF t \in W THEN "queued" ELSE tstatus[t]
                              /\ tdispatch'[t] = IF t \in W THEN "integration_result" ELSE tdispatch[t]
      BY <2>1 DEF BeginDrain, execVars, workerVars
    <3>2. CASE \E t \in W : tassignee[t] = v
      BY <2>1, <3>1, <3>2 DEF Fresh, Integrated, Queues, AwaitingIntegration
    <3>3. CASE \A t \in W : tassignee[t] # v
      <4>1. Busy(v)' <=> Busy(v)
        BY <3>1 DEF Busy, Running, WorkerOf
      <4>2. ProviderUnresolved(v)' <=> ProviderUnresolved(v)
        BY <3>1 DEF ProviderUnresolved, WorkerOf
      <4> QED
        BY <3>1, <3>3, <4>1, <4>2, FreshMeans, FreshKept DEF Queues
    <3> QED
      BY <3>2, <3>3
  <2>2. ASSUME NEW e \in Execs, NEW t \in Tasks, Claim(e, t) PROVE WorkerStatusFresh'
    <3>1. \A u \in Tasks : u # t => tstatus'[u] = tstatus[u]
      BY <1>t, <2>2 DEF Claim, TypeOK
    <3>2. \A f \in Execs : \/ estatus'[f] = estatus[f] /\ etask'[f] = etask[f]
                           \/ attempt[f] = "none" /\ estatus[f] # "running" /\ etask'[f] = t
      BY <1>t, <2>2 DEF Claim, TypeOK, IInv, ExecsOK
    <3> QED
      BY <2>2, <3>1, <3>2, OneTaskFresh DEF Claim, workerVars
  <2>3. ASSUME EndDrain PROVE Same
    BY <2>3 DEF EndDrain, taskVars, execVars, workerVars
  <2> QED
    BY <1>4, <1>s, <2>1, <2>2, <2>3 DEF DrainStep
<1>5. ASSUME DrainFails \/ Stop \/ Exit \/ Crash \/ UNCHANGED vars PROVE Same
  BY <1>5 DEF DrainFails, Stop, Exit, Crash, ProcessEnds, vars, taskVars, execVars, workerVars
<1>6. CASE Start
  <2> SUFFICES ASSUME NEW v \in Workers PROVE Fresh(v)'
    BY DEF WorkerStatusFresh, Fresh, Integrated, Queues
  <2>1. CASE lifecycle[v] = "none"
    BY <1>6, <2>1 DEF Start, workerVars, Fresh
  <2>2. CASE lifecycle[v] # "none"
    BY <1>6, <2>2, FreshRefreshed DEF Start
  <2> QED
    BY <2>1, <2>2
<1> QED
  BY <1>1, <1>2, <1>3, <1>4, <1>5, <1>6, <1>s DEF Next

\* Only hired workers are refreshed.
LEMMA UnhiredKept ==
  ASSUME Unhired, NEW W, RefreshWorkers(W), \A w \in W : w \in Workers => lifecycle'[w] # "none",
         UNCHANGED lifecycle
  PROVE  Unhired'
  BY DEF RefreshWorkers, Unhired

LEMMA CreateTaskUnhired ==
  ASSUME IInv, Unhired, NEW t \in Tasks, NEW w \in Workers, NEW p, NEW k, NEW c, CreateTask(t, w, p, k, c)
  PROVE  Unhired'
  BY UnhiredKept DEF CreateTask, IInv, TasksOK, workerVars

LEMMA MoveTaskUnhired ==
  ASSUME IInv, Unhired, NEW t \in Tasks, tstatus[t] # "absent", NEW s \in Statuses \ {"queued", "working"},
         NEW r \in Reasons, MoveTask(t, s, r), UNCHANGED lifecycle,
         RefreshWorkers({tassignee[t]} \cup Requeued)
  PROVE  Unhired'
<1>1. ASSUME NEW u \in Tasks, tstatus[u] # "queued", tstatus'[u] = "queued"
      PROVE  tstatus[u] # "absent"
  <2>1. tstatus'[u] # "absent"
    BY <1>1
  <2> QED
    BY <1>1, <2>1, MoveTaskFacts DEF IInv, Statuses
<1>2. \A w \in {tassignee[t]} \cup Requeued : lifecycle[w] # "none"
  BY <1>1 DEF Requeued, IInv, TasksOK
<1> QED
  BY <1>2, UnhiredKept

LEMMA UnhiredStep == IInv /\ Unhired /\ [Next]_vars => Unhired'
<1> SUFFICES ASSUME IInv, Unhired, [Next]_vars PROVE Unhired'
  OBVIOUS
<1> DEFINE Same == UNCHANGED <<wstatus, lifecycle>>
<1>t. TypeOK
  BY DEF IInv
<1>s. Same => Unhired'
  BY DEF Unhired
<1>1. ASSUME NEW k \in RootKinds, AssignObjective(k) PROVE Unhired'
  BY <1>1, CreateTaskUnhired, CompanyAssumption DEF AssignObjective
<1>2. ASSUME NEW e \in Execs, NEW w \in Workers, NEW k \in Kinds, ToolAssignTask(e, w, k) PROVE Unhired'
  BY <1>2, CreateTaskUnhired DEF ToolAssignTask
<1>3. ASSUME NEW e \in Execs, NEW w \in Workers, ToolHireWorker(e, w) PROVE Unhired'
  <2>1. Life[w] # "none"
    BY CompanyAssumption
  <2> QED
    BY <1>t, <1>3, <2>1 DEF ToolHireWorker, Unhired, TypeOK
<1>4. ASSUME NEW t \in Tasks, Retry(t) PROVE Unhired'
  <2>1. lifecycle[tassignee[t]] # "none"
    BY <1>4 DEF Retry, Exists, IInv, TasksOK
  <2> QED
    BY <1>4, <2>1, UnhiredKept DEF Retry, workerVars
<1>5. ASSUME NEW t \in Tasks, Cancel(t) PROVE Unhired'
  <2>1. "cancelled" \in Statuses \ {"queued", "working"} /\ "none" \in Reasons
    BY DEF Statuses, Reasons
  <2> QED
    BY <1>5, <2>1, MoveTaskUnhired DEF Cancel, Exists
<1>6. ASSUME NEW e \in Execs, NEW evidence \in BOOLEAN, NEW integrating \in BOOLEAN,
             Finish(e, evidence, integrating)
      PROVE  Unhired'
  <2>1. /\ etask[e] \in Tasks /\ tstatus[etask[e]] # "absent"
        /\ \E s \in Statuses \ {"queued", "working", "cancelled"}, r \in Reasons : MoveTask(etask[e], s, r)
    BY <1>6, FinishFacts DEF IInv, ExecsOK
  <2>2. UNCHANGED lifecycle /\ RefreshWorkers({tassignee[etask[e]]} \cup Requeued)
    BY <1>6 DEF Finish, WorkerOf
  <2> QED
    BY <2>1, <2>2, MoveTaskUnhired
<1>7. ASSUME NEW e \in Execs, NEW t \in Tasks, Claim(e, t) PROVE Unhired'
  <2>1. lifecycle[tassignee[t]] # "none"
    BY <1>7 DEF Claim, NextTask, Claimable, IInv, TasksOK
  <2> QED
    BY <1>7, <2>1, UnhiredKept DEF Claim, workerVars
<1>8. CASE Start
  BY <1>8 DEF Start, workerVars, RefreshWorkers, Unhired
<1>9. ASSUME NEW e \in Execs, Interrupt(e) \/ ToolSubmitArtifact(e) \/ Bind(e) \/ RecordAttempt(e) \/ Transmit(e)
      PROVE  Same
  BY <1>9 DEF Interrupt, ToolSubmitArtifact, Bind, RecordAttempt, Transmit, workerVars
<1>10. ASSUME NEW e \in Execs, NEW s \in Outcomes, ProviderReports(e, s) \/ RunnerGivesUp(e, s) PROVE Same
  BY <1>10 DEF ProviderReports, RunnerGivesUp, Close, workerVars
<1>11. ASSUME NEW on \in BOOLEAN, NEW W \in SUBSET AwaitingIntegration, Pause(on) \/ BeginDrain(W) PROVE Same
  BY <1>11 DEF Pause, BeginDrain, workerVars
<1>12. ASSUME EndDrain \/ DrainFails \/ Stop \/ Exit \/ Crash \/ UNCHANGED vars PROVE Same
  BY <1>12 DEF EndDrain, DrainFails, Stop, Exit, Crash, ProcessEnds, vars, workerVars
<1> QED
  BY <1>1, <1>2, <1>3, <1>4, <1>5, <1>6, <1>7, <1>8, <1>9, <1>10, <1>11, <1>12, <1>s
     DEF Next, OwnerStep, ToolStep, RunnerStep, DrainStep

\* workers.status, which is only written when a worker is refreshed, is what
\* refreshWorker would compute now, but for a delivery its integration requeued.
THEOREM StatusKept == Spec => []WorkerStatusFresh
<1>1. Init => Unhired /\ WorkerStatusFresh
  BY DEF Init, Unhired, WorkerStatusFresh, DerivedStatus, Busy, Running, ProviderUnresolved
<1>2. IInv /\ (Unhired /\ WorkerStatusFresh) /\ [Next]_vars => (Unhired /\ WorkerStatusFresh)'
  BY FreshStep, UnhiredStep
<1> QED
  BY <1>1, <1>2, Inductive, PTL DEF Spec

-----------------------------------------------------------------------------
\* The fields of a task row that are written once, artifacts that stay, and what
\* is completed stays so.
LEMMA StagesKept ==
  ASSUME StagesInOrder, UNCHANGED <<tparent, tkind>>,
         \A t \in Tasks : tstatus[t] = "completed" => tstatus'[t] = "completed",
         \A t \in Tasks : tartifact[t] => tartifact'[t],
         \A p \in Tasks : tkind[p] = "product" /\ tstatus'[p] = "completed" =>
            \/ tstatus[p] = "completed"
            \/ \E c \in Children(p) : tkind[c] = "delivery" /\ tstatus[c] = "completed"
  PROVE  StagesInOrder'
<1>1. \A p \in Tasks : Children(p)' = Children(p)
  BY DEF Children
<1>2. \A p \in Tasks : \A c \in Children(p) : c \in Tasks
  BY DEF Children
<1> QED
  BY <1>1, <1>2 DEF StagesInOrder

\* A new task is no product with children, and the delivery of a product when its
\* specification is completed with an artifact.
LEMMA CreateTaskStages ==
  ASSUME IInv, StagesInOrder, NEW t \in Tasks, NEW w \in Workers, NEW p, NEW k, NEW c,
         CreateTask(t, w, p, k, c),
         p \in Tasks => tstatus[p] # "absent",
         p \in Tasks /\ tkind[p] = "product" /\ k = "delivery" =>
            \E s \in Children(p) : tkind[s] = "spec" /\ tstatus[s] = "completed" /\ tartifact[s]
  PROVE  StagesInOrder'
<1>1. /\ tstatus[t] = "absent" /\ tparent[t] = NoTask /\ NoTask \notin Tasks
      /\ UNCHANGED tartifact
      /\ \A u \in Tasks : /\ tstatus'[u] = IF u = t THEN "queued" ELSE tstatus[u]
                          /\ tparent'[u] = IF u = t THEN p ELSE tparent[u]
                          /\ tkind'[u] = IF u = t THEN k ELSE tkind[u]
  BY CompanyAssumption DEF CreateTask, Exists, IInv, TypeOK, TasksOK, NoTask, Tasks
<1>2. \A u \in Tasks : u # t => tparent[u] # t
  BY <1>1 DEF IInv, ParentsOK
<1>3. \A u \in Tasks : Children(u) \subseteq Children(u)' /\ Children(u)' \subseteq Children(u) \cup {t}
  BY <1>1 DEF Children
<1>4. Children(t) = {} /\ p # t
  BY <1>1, <1>2 DEF Children
<1>5. \A u \in Tasks : \A x \in Children(u) : x \in Tasks /\ x # t
  BY <1>1 DEF Children
<1> SUFFICES ASSUME NEW q \in Tasks, tkind'[q] = "product"
             PROVE  /\ tstatus'[q] = "completed" =>
                          \E x \in Children(q)' : tkind'[x] = "delivery" /\ tstatus'[x] = "completed"
                    /\ \A d \in Children(q)' : tkind'[d] = "delivery" =>
                          \E s \in Children(q)' : tkind'[s] = "spec" /\ tstatus'[s] = "completed" /\ tartifact'[s]
  BY DEF StagesInOrder
<1>6. CASE q = t
  <2>1. Children(q)' = {}
    BY <1>1, <1>2, <1>4, <1>6 DEF Children
  <2> QED
    BY <1>1, <1>6, <2>1
<1>7. CASE q # t
  <2>1. tkind[q] = "product" /\ tstatus'[q] = tstatus[q]
    BY <1>1, <1>7
  <2>2. tstatus[q] = "completed" => \E x \in Children(q) : tkind[x] = "delivery" /\ tstatus[x] = "completed"
    BY <2>1 DEF StagesInOrder
  <2>3. tstatus'[q] = "completed" =>
          \E x \in Children(q)' : tkind'[x] = "delivery" /\ tstatus'[x] = "completed"
    BY <1>1, <1>3, <1>5, <2>1, <2>2
  <2>4. ASSUME NEW d \in Children(q)', tkind'[d] = "delivery"
        PROVE  \E s \in Children(q) : tkind[s] = "spec" /\ tstatus[s] = "completed" /\ tartifact[s]
    <3>1. CASE d = t
      BY <1>1, <2>1, <2>4, <3>1 DEF Children
    <3>2. CASE d # t
      BY <1>1, <1>3, <1>5, <2>1, <2>4, <3>2 DEF StagesInOrder
    <3> QED
      BY <3>1, <3>2
  <2> QED
    BY <1>1, <1>3, <1>5, <2>3, <2>4
<1> QED
  BY <1>6, <1>7

\* A product is completed over a completed delivery.
LEMMA FinishStages ==
  ASSUME IInv, NEW e \in Execs, NEW evidence \in BOOLEAN, NEW integrating \in BOOLEAN,
         Finish(e, evidence, integrating), NEW p \in Tasks, tkind[p] = "product",
         tstatus'[p] = "completed", tstatus[p] # "completed"
  PROVE  \E c \in Children(p) : tkind[c] = "delivery" /\ tstatus[c] = "completed"
<1> DEFINE holds == WaitsForChildren(e) \/ integrating
           status == EndStatus(e, holds, evidence)
           to == TaskAfter(status, holds)
           st == [tstatus EXCEPT ![etask[e]] = to]
<1>1. MoveTask(etask[e], to, ReasonAfter(status, holds, integrating))
  BY DEF Finish
<1>2. etask[e] \in Tasks /\ outcome[e] \in Outcomes
  BY FinishFacts DEF IInv, ExecsOK, Finish
<1>3. tstatus'[p] = st[p]
  BY <1>1 DEF MoveTask
<1>4. p = etask[e] /\ to = "completed"
  BY <1>2, <1>3 DEF IInv, TypeOK
<1>5. status = "completed" /\ ~holds
  <2>1. status \in Outcomes
    BY <1>2 DEF EndStatus, Outcomes
  <2>2. holds \in BOOLEAN
    BY DEF WaitsForChildren
  <2> QED
    BY <1>4, <2>1, <2>2 DEF TaskAfter, Outcomes
<1>6. Deliverable(p, holds, evidence)
  BY <1>4, <1>5 DEF EndStatus
<1> QED
  BY <1>5, <1>6 DEF Deliverable

LEMMA StagesStep == IInv /\ StagesInOrder /\ [Next]_vars => StagesInOrder'
<1> SUFFICES ASSUME IInv, StagesInOrder, [Next]_vars PROVE StagesInOrder'
  OBVIOUS
<1>f. \A t \in Tasks : tstatus[t] = "completed" => tstatus'[t] = "completed"
  BY FinalStep
<1>t. /\ tstatus \in [Tasks -> Statuses \cup {"absent"}]
      /\ tartifact \in [Tasks -> BOOLEAN]
  BY DEF IInv, TypeOK
<1> DEFINE Done(p) == tstatus'[p] = "completed" => tstatus[p] = "completed"
           Same == UNCHANGED <<tparent, tkind, tartifact>>
<1>h. ASSUME Same, \A p \in Tasks : Done(p) PROVE StagesInOrder'
  BY <1>f, <1>h, StagesKept
<1>1. ASSUME NEW k \in RootKinds, AssignObjective(k) PROVE StagesInOrder'
  BY <1>1, CreateTaskStages, CompanyAssumption DEF AssignObjective, NoTask, Tasks
<1>2. ASSUME NEW e \in Execs, NEW w \in Workers, NEW k \in Kinds, ToolAssignTask(e, w, k) PROVE StagesInOrder'
  <2>1. tstatus[etask[e]] = "working"
    BY <1>2 DEF ToolAssignTask, MayAct
  <2>2. tkind[etask[e]] = "product" /\ k = "delivery" =>
           \E s \in Children(etask[e]) : tkind[s] = "spec" /\ tstatus[s] = "completed" /\ tartifact[s]
    BY <1>2 DEF ToolAssignTask, Delegable
  <2> QED
    BY <1>2, <2>1, <2>2, CreateTaskStages DEF ToolAssignTask
<1>3. ASSUME NEW e \in Execs, ToolSubmitArtifact(e) PROVE StagesInOrder'
  BY <1>3, <1>f, <1>t, StagesKept DEF ToolSubmitArtifact
<1>4. ASSUME NEW e \in Execs, NEW evidence \in BOOLEAN, NEW integrating \in BOOLEAN,
             Finish(e, evidence, integrating)
      PROVE  StagesInOrder'
  BY <1>4, <1>f, FinishStages, StagesKept DEF Finish
<1>5. ASSUME NEW t \in Tasks, Retry(t) PROVE StagesInOrder'
  <2>1. \A p \in Tasks : Done(p)
    BY <1>5, <1>t DEF Retry
  <2> QED
    BY <1>5, <1>h, <2>1 DEF Retry
<1>6. ASSUME NEW t \in Tasks, Cancel(t) PROVE StagesInOrder'
  <2>1. \A p \in Tasks : Done(p)
    BY <1>6, <1>t DEF Cancel, MoveTask
  <2> QED
    BY <1>6, <1>h, <2>1 DEF Cancel
<1>7. ASSUME NEW e \in Execs, NEW t \in Tasks, Claim(e, t) PROVE StagesInOrder'
  <2>1. \A p \in Tasks : Done(p)
    BY <1>7, <1>t DEF Claim
  <2> QED
    BY <1>7, <1>h, <2>1 DEF Claim
<1>8. ASSUME NEW W \in SUBSET AwaitingIntegration, BeginDrain(W) PROVE StagesInOrder'
  BY <1>8, <1>h DEF BeginDrain
<1>9. CASE Start
  <2>1. \A p \in Tasks : Done(p)
    BY <1>9 DEF Start
  <2> QED
    BY <1>9, <1>h, <2>1 DEF Start
<1>10. ASSUME UNCHANGED taskVars PROVE StagesInOrder'
  BY <1>10, <1>h DEF taskVars
<1>11. ASSUME NEW e \in Execs,
              Interrupt(e) \/ Bind(e) \/ RecordAttempt(e) \/ Transmit(e) \/ \E w \in Workers : ToolHireWorker(e, w)
       PROVE  UNCHANGED taskVars
  BY <1>11 DEF Interrupt, ToolHireWorker, Bind, RecordAttempt, Transmit
<1>12. ASSUME NEW e \in Execs, NEW s \in Outcomes, ProviderReports(e, s) \/ RunnerGivesUp(e, s)
       PROVE  UNCHANGED taskVars
  BY <1>12 DEF ProviderReports, RunnerGivesUp, Close
<1>13. ASSUME (\E on \in BOOLEAN : Pause(on)) \/ EndDrain \/ DrainFails \/ Stop \/ Exit \/ Crash \/ UNCHANGED vars
       PROVE  UNCHANGED taskVars
  BY <1>13 DEF Pause, EndDrain, DrainFails, Stop, Exit, Crash, ProcessEnds, vars
<1> QED
  BY <1>1, <1>2, <1>3, <1>4, <1>5, <1>6, <1>7, <1>8, <1>9, <1>10, <1>11, <1>12, <1>13
     DEF Next, OwnerStep, ToolStep, RunnerStep, DrainStep

\* A product is completed only over a completed delivery, which was delegated only
\* after a specification with an artifact was completed.
THEOREM StagesKeptInOrder == Spec => []StagesInOrder
<1>1. Init => StagesInOrder
  <2> SUFFICES ASSUME Init PROVE StagesInOrder
    OBVIOUS
  <2>1. \A p \in Tasks : tkind[p] = "research"
    BY DEF Init
  <2> QED
    BY <2>1 DEF StagesInOrder
<1>2. IInv /\ StagesInOrder /\ [Next]_vars => StagesInOrder'
  BY StagesStep
<1> QED
  BY <1>1, <1>2, Inductive, PTL DEF Spec

-----------------------------------------------------------------------------
(* Company implements TaskLedger: its initial state is an initial state of *)
(* the ledger, and every step is one ledger step or leaves the ledger as   *)
(* it is.                                                                  *)

LEMMA LedgerValue ==
  ASSUME NEW t \in Tasks
  PROVE  /\ tstatus[t] = "working" => LedgerState[t] = "held"
         /\ tstatus[t] = "failed" => LedgerState[t] = "returned"
         /\ tstatus[t] = "completed" => LedgerState[t] = "done"
         /\ tstatus[t] = "cancelled" => LedgerState[t] = "cancelled"
         /\ tstatus[t] = "absent" => LedgerState[t] = "absent"
         /\ tstatus[t] \in {"queued", "blocked", "awaiting_approval"} => LedgerState[t] = "open"
  BY DEF LedgerState

LEMMA LedgerValueNext ==
  ASSUME NEW t \in Tasks
  PROVE  /\ tstatus'[t] = "working" => LedgerState'[t] = "held"
         /\ tstatus'[t] = "failed" => LedgerState'[t] = "returned"
         /\ tstatus'[t] = "completed" => LedgerState'[t] = "done"
         /\ tstatus'[t] = "cancelled" => LedgerState'[t] = "cancelled"
         /\ tstatus'[t] = "absent" => LedgerState'[t] = "absent"
         /\ tstatus'[t] \in {"queued", "blocked", "awaiting_approval"} => LedgerState'[t] = "open"
         /\ tstatus'[t] = tstatus[t] => LedgerState'[t] = LedgerState[t]
  BY DEF LedgerState

\* The ledger is a function of the tasks, before and after a step.
LEMMA LedgerShape ==
  /\ LedgerState = [t \in Tasks |-> LedgerState[t]]
  /\ LedgerState' = [t \in Tasks |-> LedgerState'[t]]
  BY DEF LedgerState

\* One task moves, all others keep their state.
LEMMA LedgerUpdate ==
  ASSUME NEW t \in Tasks, NEW x, LedgerState'[t] = x,
         \A u \in Tasks : u # t => LedgerState'[u] = LedgerState[u]
  PROVE  LedgerState' = [LedgerState EXCEPT ![t] = x]
  BY LedgerShape

LEMMA LedgerStutter ==
  ASSUME \A u \in Tasks : LedgerState'[u] = LedgerState[u]
  PROVE  LedgerState' = LedgerState
  BY LedgerShape

\* Handing results back moves a task from blocked to queued: both are open.
LEMMA LedgerHandback ==
  ASSUME NEW st, NEW rs, HandsBack(st, rs), NEW u \in Tasks
  PROVE  /\ st[u] = "completed" => LedgerState'[u] = "done"
         /\ st[u] = "failed" => LedgerState'[u] = "returned"
         /\ st[u] = "cancelled" => LedgerState'[u] = "cancelled"
         /\ st[u] \in {"blocked", "awaiting_approval"} => LedgerState'[u] = "open"
         /\ st[u] = tstatus[u] => LedgerState'[u] = LedgerState[u]
<1>1. tstatus'[u] = st[u] \/ (st[u] = "blocked" /\ tstatus'[u] = "queued")
  BY DEF HandsBack, Handback
<1> QED
  BY <1>1, LedgerValue, LedgerValueNext

LEMMA LedgerCreate ==
  ASSUME IInv, NEW t \in Tasks, NEW w \in Workers, NEW p \in Tasks \cup {NoTask}, NEW k, NEW c,
         CreateTask(t, w, p, k, c), p \in Tasks => tstatus[p] = "working"
  PROVE  Ledger!Open(t, p, w)
<1>1. /\ tstatus[t] = "absent"
      /\ \A u \in Tasks : tstatus'[u] = IF u = t THEN "queued" ELSE tstatus[u]
  BY CreateTaskRows
<1>2. LedgerState[t] = "absent" /\ LedgerState' = [LedgerState EXCEPT ![t] = "open"]
  BY <1>1, LedgerValue, LedgerValueNext, LedgerUpdate
<1>3. p # NoTask => LedgerState[p] = "held"
  BY LedgerValue
<1>4. tparent' = [tparent EXCEPT ![t] = p] /\ tassignee' = [tassignee EXCEPT ![t] = w]
  BY DEF CreateTask
<1> QED
  BY <1>2, <1>3, <1>4 DEF Ledger!Open

LEMMA LedgerStep == IInv /\ [Next]_vars => [Ledger!Next]_(Ledger!ledger)
<1> SUFFICES ASSUME IInv, [Next]_vars PROVE Ledger!Next \/ UNCHANGED Ledger!ledger
  OBVIOUS
<1>t. tstatus \in [Tasks -> Statuses \cup {"absent"}]
  BY DEF IInv, TypeOK
<1>n. NoTask \notin Tasks
  BY CompanyAssumption DEF NoTask, Tasks
<1>1. CASE UNCHANGED <<tstatus, treason, tdispatch, tparent, tassignee, tcreated, estatus, etask>>
  BY <1>1, LedgerStutter, LedgerValueNext DEF Ledger!ledger
<1>2. ASSUME NEW k \in RootKinds, AssignObjective(k) PROVE Ledger!Next
  <2>1. PICK t \in Tasks : CreateTask(t, CEO, NoTask, k, NoExec)
    BY <1>2 DEF AssignObjective
  <2>2. Ledger!Open(t, NoTask, CEO)
    BY <1>n, <2>1, LedgerCreate, CompanyAssumption
  <2> QED
    BY <2>2, CompanyAssumption DEF Ledger!Next
<1>3. ASSUME NEW e \in Execs, NEW w \in Workers, NEW k \in Kinds, ToolAssignTask(e, w, k)
      PROVE  Ledger!Next
  <2>1. /\ tstatus[etask[e]] = "working" /\ estatus[e] = "running"
        /\ \E t \in Tasks : CreateTask(t, w, etask[e], k, e)
    BY <1>3 DEF ToolAssignTask, MayAct
  <2>2. etask[e] \in Tasks
    BY <2>1 DEF IInv, ExecsOK
  <2>3. \E t \in Tasks : Ledger!Open(t, etask[e], w)
    BY <2>1, <2>2, LedgerCreate
  <2> QED
    BY <2>2, <2>3 DEF Ledger!Next
<1>4. ASSUME NEW t \in Tasks, Retry(t) PROVE Ledger!Next \/ UNCHANGED Ledger!ledger
  <2>1. /\ tstatus[t] \in {"blocked", "failed", "awaiting_approval"} /\ NotHandedBack(t)
        /\ \A u \in Tasks : tstatus'[u] = IF u = t THEN "queued" ELSE tstatus[u]
        /\ UNCHANGED <<tparent, tassignee>>
    BY <1>t, <1>4 DEF Retry
  <2>2. CASE tstatus[t] = "failed"
    <3>1. LedgerState[t] = "returned" /\ LedgerState' = [LedgerState EXCEPT ![t] = "open"]
      BY <2>1, <2>2, LedgerValue, LedgerValueNext, LedgerUpdate
    <3>2. ASSUME tparent[t] # NoTask PROVE LedgerState[tparent[t]] \in {"open", "held"}
      <4>1. tparent[t] \in Tasks /\ tstatus[tparent[t]] # "absent"
        BY <3>2 DEF IInv, TypeOK, ParentsOK
      <4>2. tstatus[tparent[t]] \in {"queued", "working", "blocked", "awaiting_approval"}
        BY <1>t, <2>1, <3>2, <4>1 DEF NotHandedBack, Terminal, Statuses
      <4> QED
        BY <4>1, <4>2, LedgerValue
    <3>3. Ledger!Reopen(t)
      BY <2>1, <3>1, <3>2 DEF Ledger!Reopen, Ledger!Move
    <3> QED
      BY <3>3 DEF Ledger!Next
  <2>3. CASE tstatus[t] # "failed"
    <3>1. LedgerState[t] = "open" /\ LedgerState'[t] = "open"
      BY <2>1, <2>3, LedgerValue, LedgerValueNext
    <3>2. LedgerState' = LedgerState
      BY <2>1, <3>1, LedgerValueNext, LedgerStutter
    <3> QED
      BY <2>1, <3>2 DEF Ledger!ledger
  <2> QED
    BY <2>2, <2>3
<1>5. ASSUME NEW t \in Tasks, Cancel(t) PROVE Ledger!Next
  <2> DEFINE st == [tstatus EXCEPT ![t] = "cancelled"]
             rs == [treason EXCEPT ![t] = "none"]
  <2>1. HandsBack(st, rs) /\ UNCHANGED <<tparent, tassignee>> /\ ChildrenTerminal(t)
    BY <1>5, MoveHandsBack DEF Cancel
  <2>2. tstatus[t] \in {"queued", "blocked", "failed", "awaiting_approval"}
    BY <1>t, <1>5 DEF Cancel, Exists, Transitions, Statuses
  <2>3. \A u \in Tasks : st[u] = IF u = t THEN "cancelled" ELSE tstatus[u]
    BY <1>t
  <2> HIDE DEF st, rs
  <2>4. LedgerState' = [LedgerState EXCEPT ![t] = "cancelled"]
    BY <2>1, <2>3, LedgerHandback, LedgerUpdate
  <2>5. LedgerState[t] \in {"open", "returned"}
    BY <2>2, LedgerValue
  <2>6. Ledger!ChildrenEnded(t)
    BY <2>1, LedgerValue DEF ChildrenTerminal, Children, Terminal, Ledger!ChildrenEnded,
                             Ledger!Ended
  <2>7. Ledger!Withdraw(t)
    BY <2>1, <2>4, <2>5, <2>6 DEF Ledger!Withdraw, Ledger!Move
  <2> QED
    BY <2>7 DEF Ledger!Next
<1>6. ASSUME NEW e \in Execs, NEW evidence \in BOOLEAN, NEW integrating \in BOOLEAN,
             Finish(e, evidence, integrating)
      PROVE  Ledger!Next
  <2> DEFINE t == etask[e]
  <2>1. PICK s \in Statuses \ {"queued", "working", "cancelled"}, r \in Reasons :
           MoveTask(t, s, r) /\ (s = "completed" => ChildrenTerminal(t))
    BY <1>6, FinishFacts DEF IInv
  <2> DEFINE st == [tstatus EXCEPT ![t] = s]
             rs == [treason EXCEPT ![t] = r]
  <2>2. t \in Tasks /\ tstatus[t] = "working"
    BY <1>6, FinishFacts DEF IInv, WorkOK
  <2>3. HandsBack(st, rs) /\ UNCHANGED <<tparent, tassignee>>
    BY <1>6, <2>1, <2>2, MoveHandsBack DEF Finish
  <2>4. \A u \in Tasks : st[u] = IF u = t THEN s ELSE tstatus[u]
    BY <1>t
  <2> HIDE DEF st, rs, t
  <2>5. \A u \in Tasks : u # t => LedgerState'[u] = LedgerState[u]
    BY <2>3, <2>4, LedgerHandback
  <2>6. LedgerState[t] = "held"
    BY <2>2, LedgerValue
  <2>7. CASE s = "completed"
    <3>1. LedgerState' = [LedgerState EXCEPT ![t] = "done"]
      BY <2>2, <2>3, <2>4, <2>5, <2>7, LedgerHandback, LedgerUpdate
    <3>2. Ledger!ChildrenEnded(t)
      BY <2>1, <2>7, LedgerValue DEF ChildrenTerminal, Children, Terminal,
                                     Ledger!ChildrenEnded, Ledger!Ended
    <3>3. Ledger!CloseTask(t)
      BY <2>3, <2>6, <3>1, <3>2 DEF Ledger!CloseTask, Ledger!Move
    <3> QED
      BY <2>2, <3>3 DEF Ledger!Next
  <2>8. CASE s = "failed"
    <3>1. LedgerState' = [LedgerState EXCEPT ![t] = "returned"]
      BY <2>2, <2>3, <2>4, <2>5, <2>8, LedgerHandback, LedgerUpdate
    <3>2. Ledger!Return(t)
      BY <2>3, <2>6, <3>1 DEF Ledger!Return, Ledger!Move
    <3> QED
      BY <2>2, <3>2 DEF Ledger!Next
  <2>9. CASE s \in {"blocked", "awaiting_approval"}
    <3>1. LedgerState' = [LedgerState EXCEPT ![t] = "open"]
      BY <2>2, <2>3, <2>4, <2>5, <2>9, LedgerHandback, LedgerUpdate
    <3>2. Ledger!PutBack(t)
      BY <2>3, <2>6, <3>1 DEF Ledger!PutBack, Ledger!Move
    <3> QED
      BY <2>2, <3>2 DEF Ledger!Next
  <2> QED
    BY <2>7, <2>8, <2>9 DEF Statuses
<1>7. ASSUME NEW W \in SUBSET AwaitingIntegration, BeginDrain(W) PROVE UNCHANGED Ledger!ledger
  <2>1. /\ \A u \in Tasks : tstatus'[u] = IF u \in W THEN "queued" ELSE tstatus[u]
        /\ UNCHANGED <<tparent, tassignee>>
    BY <1>7 DEF BeginDrain
  <2>2. \A u \in W : u \in Tasks /\ tstatus[u] = "blocked"
    BY DEF AwaitingIntegration
  <2>3. \A u \in Tasks : LedgerState'[u] = LedgerState[u]
    BY <2>1, <2>2, LedgerValue, LedgerValueNext
  <2> QED
    BY <2>1, <2>3, LedgerStutter DEF Ledger!ledger
<1>8. ASSUME NEW e \in Execs, NEW t \in Tasks, Claim(e, t) PROVE Ledger!Next
  <2>1. /\ tstatus[t] = "queued" /\ ~Busy(tassignee[t])
        /\ \A u \in Tasks : tstatus'[u] = IF u = t THEN "working" ELSE tstatus[u]
        /\ UNCHANGED <<tparent, tassignee>>
    BY <1>t, <1>8 DEF Claim, NextTask, Claimable
  <2>2. LedgerState[t] = "open" /\ LedgerState' = [LedgerState EXCEPT ![t] = "held"]
    BY <2>1, LedgerValue, LedgerValueNext, LedgerUpdate
  <2>3. ASSUME NEW u \in Tasks, LedgerState[u] = "held" PROVE tassignee[u] # tassignee[t]
    <3>1. tstatus[u] = "working"
      BY <1>t, <2>3, LedgerValue DEF Statuses
    <3>2. PICK f \in Execs : estatus[f] = "running" /\ etask[f] = u
      BY <3>1 DEF IInv, WorkOK
    <3> QED
      BY <2>1, <3>2 DEF Busy, Running, WorkerOf
  <2>4. Ledger!Take(t)
    BY <2>1, <2>2, <2>3 DEF Ledger!Take, Ledger!Move
  <2> QED
    BY <2>4 DEF Ledger!Next
<1>9. CASE Start
  <2>1. PICK st, rs : /\ HandsBack(st, rs)
                      /\ \A t \in Tasks : IF tstatus[t] = "working"
                                          THEN st[t] = "blocked" /\ rs[t] = "other"
                                          ELSE st[t] = tstatus[t] /\ rs[t] = treason[t]
    BY <1>9, StartHandsBack DEF IInv
  <2>2. ASSUME NEW u \in Tasks
        PROVE  LedgerState'[u] = IF LedgerState[u] = "held" THEN "open" ELSE LedgerState[u]
    <3>1. LedgerState[u] = "held" <=> tstatus[u] = "working"
      BY <1>t, LedgerValue DEF Statuses
    <3> QED
      BY <2>1, <3>1, LedgerHandback
  <2>3. LedgerState' = [u \in Tasks |-> IF LedgerState[u] = "held" THEN "open" ELSE LedgerState[u]]
    BY <2>2, LedgerShape
  <2>4. Ledger!Interrupted
    BY <1>9, <2>3 DEF Start, Lost, Ledger!Interrupted
  <2> QED
    BY <2>4 DEF Ledger!Next
<1> QED
  BY <1>1, <1>2, <1>3, <1>4, <1>5, <1>6, <1>7, <1>8, <1>9, TaskRowSteps

\* Company implements the ledger of assigned work: one task per worker at a time,
\* a task is closed or withdrawn only over children that have ended, and a failed
\* one is reopened only while its parent is open.
THEOREM ImplementsLedger == Spec => LedgerSpec
<1>1. Init => Ledger!Init
  <2> SUFFICES ASSUME Init PROVE Ledger!Init
    OBVIOUS
  <2>1. \A t \in Tasks : LedgerState[t] = "absent"
    BY LedgerValue DEF Init
  <2>2. LedgerState = [t \in Tasks |-> "absent"]
    BY <2>1, LedgerShape
  <2> QED
    BY <2>2 DEF Init, Ledger!Init
<1>2. IInv /\ [Next]_vars => [Ledger!Next]_(Ledger!ledger)
  BY LedgerStep
<1> QED
  BY <1>1, <1>2, Inductive, PTL DEF Spec, LedgerSpec, Ledger!Spec
=============================================================================
