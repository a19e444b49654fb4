------------------------------ MODULE Company ------------------------------
(***************************************************************************)
(* The company core: tasks, their executions, the worker table, the event- *)
(* driven dispatcher that runs executions on a provider, and what survives *)
(* a crash.  Source: src/control/company.ts, src/control/dispatcher.ts,    *)
(* src/runtime/codex.ts, src/domain/model.ts, src/persistence/store.ts.    *)
(*                                                                         *)
(* HQ is one Node process: a handler runs to completion and each company   *)
(* operation is one SQLite transaction, so one action is one handler.  The *)
(* drain loop of the dispatcher commits once per claim; it is modelled     *)
(* claim by claim (dispatch = "draining") with every other handler held    *)
(* off, so that a crash may fall between two claims.                       *)
(*                                                                         *)
(* Tasks are the research and product objectives of the CEO and the        *)
(* research, spec and delivery tasks delegated below them.  Engineering,   *)
(* infrastructure and computer tasks belong to other modules.              *)
(***************************************************************************)
EXTENDS Integers, FiniteSets

CONSTANTS
    Workers,      \* the workers HQ may ever know
    NoWorker,     \* the assignee of a task that does not exist yet
    CEO,          \* the worker that receives every owner objective
    Role,         \* Workers -> role of the worker's profile
    Life,         \* Workers -> the lifecycle a worker is hired with
    Prio,         \* Workers -> execution_priority, 0 (low) .. 3 (critical)
    RootKinds,    \* kinds of owner objective: a subset of {"research", "product"}
    MaxTasks,     \* bound on task ids
    MaxExecs,     \* bound on execution ids
    MaxActive,    \* Dispatcher.maxActive, 1 or 2 in production
    MaxDirect     \* direct subordinates a manager may have

Tasks == 1 .. MaxTasks
Execs == 1 .. MaxExecs
NoTask == 0
NoExec == 0

Roles == {"ceo", "researcher", "product_manager", "cto"}
Kinds == {"research", "product", "spec", "delivery"}
Statuses == {"queued", "working", "completed", "blocked", "failed",
             "awaiting_approval", "cancelled"}
Reasons == {"none", "waiting_children", "waiting_integration", "other"}
Dispatches == {"assignment", "child_results", "integration_result"}
Outcomes == {"completed", "failed", "interrupted", "awaiting_approval"}
Phases == {"none", "admitted", "bound", "intent", "turn", "closing"}

ASSUME CompanyAssumption ==
    /\ CEO \in Workers
    /\ Life[CEO] = "persistent"
    /\ NoWorker \notin Workers
    /\ Role \in [Workers -> Roles]
    /\ Life \in [Workers -> {"persistent", "temporary"}]
    /\ Prio \in [Workers -> 0 .. 3]
    /\ RootKinds \subseteq {"research", "product"}
    /\ MaxTasks \in Nat
    /\ MaxExecs \in Nat
    /\ MaxActive \in Nat \ {0}
    /\ MaxDirect \in Nat

VARIABLES
    \* SQLite: tasks
    tstatus,    \* status, "absent" before the row exists
    treason,    \* blocking_reason, by its role in the control flow
    tdispatch,  \* dispatch_reason
    tkind,
    tparent,
    tassignee,
    tcreated,   \* created_execution_id
    tartifact,  \* whether the task has an artifact
    wake,       \* wake_events: tasks whose result has been recorded
    \* SQLite: executions and execution_runtime_attempts
    estatus,
    etask,
    ebound,     \* runtime_reference is set
    attempt,    \* the attempt row: "none", "unresolved" or "settled"
    \* SQLite: workers and settings
    lifecycle,  \* "none" before the worker is hired
    enabled,
    wstatus,    \* the cached workers.status
    paused,
    \* volatile: the Dispatcher and its runners
    dispatch,   \* "down", "idle", "draining" or "stopping"
    scheduled,  \* the setImmediate of kick() is pending
    phase,      \* per execution, where its runner is ("none": not in `running')
    aborted,    \* per execution, its AbortController fired
    outcome,    \* per execution, the RuntimeResult status it is closing with
    settled,    \* per execution, RuntimeResult.settled
    \* outside HQ
    turn        \* provider turn: "none", "sent", or "confirmed" to have ended

taskVars == <<tstatus, treason, tdispatch, tkind, tparent, tassignee, tcreated,
              tartifact, wake>>
execVars == <<estatus, etask, ebound, attempt>>
workerVars == <<lifecycle, enabled>>
runnerVars == <<phase, aborted, outcome, settled>>
vars == <<taskVars, execVars, workerVars, wstatus, paused, dispatch, scheduled,
          runnerVars, turn>>

-----------------------------------------------------------------------------
(* Domain rules.                                                           *)

\* domain/model.ts: the transitions a task may make.
Transitions ==
    [s \in Statuses |->
        CASE s = "queued"            -> {"working", "blocked", "cancelled"}
          [] s = "working"           -> {"completed", "blocked", "failed",
                                         "cancelled", "awaiting_approval"}
          [] s = "blocked"           -> {"queued", "completed", "cancelled"}
          [] s = "failed"            -> {"queued", "cancelled"}
          [] s = "awaiting_approval" -> {"queued", "cancelled"}
          [] OTHER                   -> {}]

Terminal(s) == s \in {"completed", "failed", "cancelled"}

Exists(t) == tstatus[t] # "absent"
Children(t) == {c \in Tasks : tparent[c] = t}
\* Mutant: a child that is not being worked on is no obstacle.
ChildrenIdle(t) == \A c \in Children(t) : tstatus[c] # "working"
ChildrenTerminal(t) == \A c \in Children(t) : Terminal(tstatus[c])

WorkerOf(e) == tassignee[etask[e]]
Running == {e \in Execs : estatus[e] = "running"}
Runners == {e \in Execs : phase[e] # "none"}
Busy(w) == \E e \in Running : WorkerOf(e) = w

\* A provider turn of w was announced and never confirmed to have ended.
ProviderUnresolved(w) ==
    \E e \in Execs : attempt[e] = "unresolved" /\ WorkerOf(e) = w

\* The value refreshWorker writes to workers.status.
DerivedStatus(w) ==
    IF Busy(w) THEN "working"
    ELSE IF ProviderUnresolved(w) THEN "blocked"
    ELSE IF \E t \in Tasks : tassignee[t] = w /\ tstatus[t] = "queued" THEN "queued"
    ELSE "idle"

RefreshWorkers(W) ==
    wstatus' = [w \in Workers |-> IF w \in W THEN DerivedStatus(w)' ELSE wstatus[w]]

\* Mutant: only the worker whose task moved is refreshed.
RequeuedIgnored == {}
\* The assignees of the tasks this step requeues.
Requeued == {tassignee[t] : t \in {u \in Tasks : tstatus[u] # "queued" /\ tstatus'[u] = "queued"}}

\* Every audited operation emits `changed', which reaches Dispatcher.kick while
\* the dispatcher is started; kicks coalesce into one setImmediate.
\* Mutant: a paused company is not kicked.
KickUnlessPaused == scheduled' = (scheduled \/ (dispatch \in {"idle", "draining"} /\ ~paused))
Kick == scheduled' = (scheduled \/ dispatch \in {"idle", "draining"})

\* A handler other than the drain loop may run.
HQFree == dispatch \in {"idle", "stopping"}

-----------------------------------------------------------------------------
(* settleParents: given the new task statuses and reasons, the parents     *)
(* whose last child has just become terminal.  All are requeued at once;   *)
(* requeueing one never makes another eligible.                            *)

\* Mutant: only completed children count as ended.
HandbackIfCompleted(st, rs) ==
    {p \in Tasks : /\ st[p] = "blocked" /\ rs[p] = "waiting_children"
                   /\ Children(p) # {}
                   /\ \A c \in Children(p) : st[c] = "completed"}

Handback(st, rs) ==
    {p \in Tasks : /\ st[p] = "blocked" /\ rs[p] = "waiting_children"
                   /\ Children(p) # {}
                   /\ \A c \in Children(p) : Terminal(st[c])}

\* Task t moves to status s for reason r, its result is recorded for its
\* parent if s is terminal, and settleParents runs.
MoveTask(t, s, r) ==
    LET st == [tstatus EXCEPT ![t] = s]
        rs == [treason EXCEPT ![t] = r]
        back == Handback(st, rs)
    IN  /\ tstatus' = [u \in Tasks |-> IF u \in back THEN "queued" ELSE st[u]]
        /\ treason' = [u \in Tasks |-> IF u \in back THEN "none" ELSE rs[u]]
        /\ tdispatch' = [u \in Tasks |-> IF u \in back THEN "child_results"
                                         ELSE tdispatch[u]]
        /\ wake' = IF Terminal(s) /\ tparent[t] # NoTask THEN wake \cup {t} ELSE wake

\* retireTemporary: a temporary worker leaves with its only assignment.
RetireIf(w, over) ==
    enabled' = [enabled EXCEPT ![w] = @ /\ ~(over /\ lifecycle[w] = "temporary")]

-----------------------------------------------------------------------------
(* Creating work.                                                          *)

\* createTask: t is the next task id.
CreateTask(t, w, parent, kind, creator) ==
    /\ ~Exists(t) /\ \A u \in Tasks : u < t => Exists(u)
    /\ enabled[w]
    /\ lifecycle[w] = "temporary" => \A u \in Tasks : tassignee[u] # w
    /\ tstatus' = [tstatus EXCEPT ![t] = "queued"]
    /\ tdispatch' = [tdispatch EXCEPT ![t] = "assignment"]
    /\ tkind' = [tkind EXCEPT ![t] = kind]
    /\ tparent' = [tparent EXCEPT ![t] = parent]
    /\ tassignee' = [tassignee EXCEPT ![t] = w]
    /\ tcreated' = [tcreated EXCEPT ![t] = creator]
    /\ Kick
    /\ UNCHANGED <<treason, tartifact, wake, execVars, workerVars, paused, dispatch,
                   runnerVars, turn>>
    /\ RefreshWorkers({w})

\* assignObjective, assignProjectObjective: the owner gives the CEO an objective.
AssignObjective(kind) ==
    /\ HQFree
    /\ \E t \in Tasks : CreateTask(t, CEO, NoTask, kind, NoExec)

\* verifyContext: the execution may act, through the tool callback of its turn.
MayAct(e) ==
    /\ HQFree /\ phase[e] = "turn" /\ ~aborted[e]
    /\ estatus[e] = "running" /\ tstatus[etask[e]] = "working" /\ enabled[WorkerOf(e)]

\* Mutant: a delivery may follow a specification that has not been completed.
DelegableEarly(t, w, kind) ==
    \/ /\ tkind[t] = "product"
       /\ \A c \in Children(t) : tassignee[c] # w
       /\ \/ kind = "spec" /\ Role[w] = "product_manager" /\ Children(t) = {}
          \/ /\ kind = "delivery" /\ Role[w] = "cto"
             /\ \E c \in Tasks : Children(t) = {c} /\ tkind[c] = "spec"
    \/ /\ tkind[t] = "research" /\ kind = "research"
       /\ tparent[t] = NoTask /\ tdispatch[t] # "child_results"
       /\ Role[w] = "researcher" /\ Children(t) = {}

\* assign_task: what the manager's task and role allow it to delegate.
Delegable(t, w, kind) ==
    \/ /\ tkind[t] = "product"
       /\ \A c \in Children(t) : tstatus[c] = "completed" /\ tassignee[c] # w
       /\ \/ kind = "spec" /\ Role[w] = "product_manager" /\ Children(t) = {}
          \/ /\ kind = "delivery" /\ Role[w] = "cto"
             /\ \E c \in Tasks : Children(t) = {c} /\ tkind[c] = "spec" /\ tartifact[c]
    \/ /\ tkind[t] = "research" /\ kind = "research"
       /\ tparent[t] = NoTask /\ tdispatch[t] # "child_results"
       /\ Role[w] = "researcher" /\ Children(t) = {}

ToolAssignTask(e, w, kind) ==
    /\ MayAct(e) /\ WorkerOf(e) = CEO /\ w # CEO /\ lifecycle[w] # "none"
    /\ Delegable(etask[e], w, kind)
    /\ \E t \in Tasks : CreateTask(t, w, etask[e], kind, e)

\* hire_worker by the CEO: role by task kind, one PM and one CTO, bounded team.
ToolHireWorker(e, w) ==
    /\ MayAct(e) /\ WorkerOf(e) = CEO /\ lifecycle[w] = "none"
    /\ Role[w] \in (IF tkind[etask[e]] = "product" THEN {"product_manager", "cto"}
                    ELSE {"researcher"})
    /\ Cardinality({v \in Workers : v # CEO /\ lifecycle[v] # "none"}) < MaxDirect
    /\ Role[w] # "researcher" => \A v \in Workers : Role[v] = Role[w] => lifecycle[v] = "none"
    /\ lifecycle' = [lifecycle EXCEPT ![w] = Life[w]]
    /\ enabled' = [enabled EXCEPT ![w] = TRUE]
    /\ Kick
    /\ UNCHANGED <<taskVars, execVars, wstatus, paused, dispatch, runnerVars, turn>>

\* submit_artifact.
ToolSubmitArtifact(e) ==
    /\ MayAct(e) /\ ~tartifact[etask[e]]
    /\ tartifact' = [tartifact EXCEPT ![etask[e]] = TRUE]
    /\ Kick
    /\ UNCHANGED <<tstatus, treason, tdispatch, tkind, tparent, tassignee, tcreated,
                   wake, execVars, workerVars, wstatus, paused, dispatch, runnerVars, turn>>

-----------------------------------------------------------------------------
(* The dispatcher.                                                         *)

\* Mutants: an unaccounted turn, or a running execution, of the worker is ignored.
ClaimableUnfenced(t) == tstatus[t] = "queued" /\ enabled[tassignee[t]] /\ ~Busy(tassignee[t])
ClaimableWhenBusy(t) ==
    tstatus[t] = "queued" /\ enabled[tassignee[t]] /\ ~ProviderUnresolved(tassignee[t])

\* The conditions of nextTask for a task of these kinds.
Claimable(t) ==
    /\ tstatus[t] = "queued" /\ enabled[tassignee[t]]
    /\ ~ProviderUnresolved(tassignee[t]) /\ ~Busy(tassignee[t])

\* ORDER BY execution_priority DESC, created_at: ids follow creation.
NextTask(t) ==
    /\ Claimable(t)
    /\ \A u \in Tasks : Claimable(u) =>
          \/ u = t
          \/ Prio[tassignee[t]] > Prio[tassignee[u]]
          \/ Prio[tassignee[t]] = Prio[tassignee[u]] /\ t < u

\* Mutant: the claim does not look at the pause.
HasRoom == Cardinality(Runners) < MaxActive /\ Cardinality(Running) < MaxActive

HasCapacity ==
    /\ ~paused
    /\ Cardinality(Runners) < MaxActive /\ Cardinality(Running) < MaxActive

\* Work the drain loop would start now (within the bound on execution ids).
Startable ==
    /\ HasCapacity
    /\ \E t \in Tasks : Claimable(t)
    /\ \E e \in Execs : estatus[e] = "absent"

AwaitingIntegration ==
    {t \in Tasks : tstatus[t] = "blocked" /\ treason[t] = "waiting_integration"}

\* The setImmediate callback of kick().  engineering.processQueue runs first and
\* requeues the deliveries in W, whose integration it has just settled.
BeginDrain(W) ==
    /\ HQFree /\ scheduled
    /\ scheduled' = FALSE
    /\ W # {} => dispatch = "idle" /\ ~paused
    /\ dispatch' = IF dispatch = "idle" THEN "draining" ELSE dispatch
    /\ tstatus' = [t \in Tasks |-> IF t \in W THEN "queued" ELSE tstatus[t]]
    /\ treason' = [t \in Tasks |-> IF t \in W THEN "none" ELSE treason[t]]
    /\ tdispatch' = [t \in Tasks |-> IF t \in W THEN "integration_result" ELSE tdispatch[t]]
    /\ UNCHANGED <<tkind, tparent, tassignee, tcreated, tartifact, wake, execVars,
                   workerVars, wstatus, paused, runnerVars, turn>>

\* claimWorkNext/claimNext and the start of the runner: e is the next execution.
Claim(e, t) ==
    /\ dispatch = "draining" /\ HasCapacity /\ NextTask(t)
    /\ estatus[e] = "absent" /\ \A f \in Execs : f < e => estatus[f] # "absent"
    /\ "working" \in Transitions[tstatus[t]]
    /\ tstatus' = [tstatus EXCEPT ![t] = "working"]
    /\ treason' = [treason EXCEPT ![t] = "none"]
    /\ estatus' = [estatus EXCEPT ![e] = "running"]
    /\ etask' = [etask EXCEPT ![e] = t]
    /\ phase' = [phase EXCEPT ![e] = "admitted"]
    /\ Kick
    /\ UNCHANGED <<tdispatch, tkind, tparent, tassignee, tcreated, tartifact, wake, ebound,
                   attempt, workerVars, paused, dispatch, aborted, outcome, settled, turn>>
    /\ RefreshWorkers({tassignee[t]})

\* The drain loop stops when it is full, held, or has nothing to claim.
EndDrain ==
    /\ dispatch = "draining"
    /\ ~Startable
    /\ dispatch' = "idle"
    /\ UNCHANGED <<taskVars, execVars, workerVars, wstatus, paused, scheduled, runnerVars, turn>>

\* An error inside drain() pauses the company.
DrainFails ==
    /\ dispatch = "draining"
    /\ paused' = TRUE
    /\ dispatch' = "idle" /\ scheduled' = TRUE
    /\ UNCHANGED <<taskVars, execVars, workerVars, wstatus, runnerVars, turn>>

-----------------------------------------------------------------------------
(* A runner: Dispatcher's async block around CodexRuntime.run.             *)

\* thread/start or thread/resume succeeded and setBinding recorded it.
Bind(e) ==
    /\ HQFree /\ phase[e] = "admitted"
    /\ phase' = [phase EXCEPT ![e] = "bound"]
    /\ ebound' = [ebound EXCEPT ![e] = TRUE]
    /\ Kick
    /\ UNCHANGED <<taskVars, estatus, etask, attempt, workerVars, wstatus, paused, dispatch,
                   aborted, outcome, settled, turn>>

\* runtime_turn_starting: the attempt row is committed before anything is sent.
RecordAttempt(e) ==
    /\ HQFree /\ phase[e] = "bound" /\ ~aborted[e]
    /\ phase' = [phase EXCEPT ![e] = "intent"]
    /\ attempt' = [attempt EXCEPT ![e] = "unresolved"]
    /\ Kick
    /\ UNCHANGED <<taskVars, estatus, etask, ebound, workerVars, wstatus, paused, dispatch,
                   aborted, outcome, settled, turn>>

\* turn/start is transmitted: from here the provider may be working.
Transmit(e) ==
    /\ HQFree /\ phase[e] = "intent"
    /\ phase' = [phase EXCEPT ![e] = "turn"]
    /\ turn' = [turn EXCEPT ![e] = "sent"]
    /\ UNCHANGED <<taskVars, execVars, workerVars, wstatus, paused, dispatch, scheduled,
                   aborted, outcome, settled>>

Close(e, status, confirmed) ==
    /\ phase' = [phase EXCEPT ![e] = "closing"]
    /\ outcome' = [outcome EXCEPT ![e] = status]
    /\ settled' = [settled EXCEPT ![e] = confirmed]
    /\ UNCHANGED <<taskVars, execVars, workerVars, wstatus, paused, dispatch, scheduled, aborted>>

\* turn/completed arrives: the provider confirms that the turn has ended.
ProviderReports(e, status) ==
    /\ HQFree /\ phase[e] = "turn"
    /\ turn' = [turn EXCEPT ![e] = "confirmed"]
    /\ Close(e, status, TRUE)

\* The runner ends without confirmation: start-up error, deadline, closed or
\* quarantined transport, interrupt timer.  Only a stop reports an interruption.
RunnerGivesUp(e, status) ==
    /\ HQFree /\ phase[e] \in {"admitted", "bound", "turn"}
    /\ \/ status \in {"failed", "interrupted"}
       \/ status = "awaiting_approval" /\ phase[e] = "turn"
    /\ status = "interrupted" => aborted[e]
    /\ UNCHANGED turn
    /\ Close(e, status, FALSE)

\* engineering.assertDeliverable and the dispatcher's evidence rule.  `evidence'
\* is what lies outside this module: a final summary, and for a delivery or a
\* product the trusted integration record.
Deliverable(t, waiting, evidence) ==
    /\ evidence
    /\ Role[tassignee[t]] \in {"researcher", "product_manager"} => tartifact[t]
    /\ tkind[t] = "product" /\ ~waiting =>
          \E c \in Children(t) : tkind[c] = "delivery" /\ tstatus[c] = "completed"

\* Some child is not this execution's to conclude: it was created by it, is
\* still open, or (research) its result has not been handed back yet.
WaitsForChildren(e) ==
    LET t == etask[e]
    IN  \/ \E c \in Children(t) : tcreated[c] = e \/ ~Terminal(tstatus[c])
        \/ tkind[t] = "research" /\ Children(t) # {} /\ tdispatch[t] # "child_results"

\* Mutant: a rejected completion gets a status of its own.
EndStatusRejected(e, holds, evidence) ==
    IF outcome[e] = "completed" /\ ~Deliverable(etask[e], holds, evidence)
    THEN "rejected" ELSE outcome[e]

\* What the execution ends as: a completion the company rejects is finished again
\* as a failure of a settled turn.
EndStatus(e, holds, evidence) ==
    IF outcome[e] = "completed" /\ ~Deliverable(etask[e], holds, evidence)
    THEN "failed" ELSE outcome[e]

\* What its task becomes, and why it is blocked if it is.
TaskAfter(status, holds) ==
    CASE status = "completed"   -> IF holds THEN "blocked" ELSE "completed"
      [] status = "interrupted" -> "blocked"
      [] OTHER                  -> status

ReasonAfter(status, holds, integrating) ==
    CASE status # "completed"           -> "other"
      [] status = "completed" /\ ~holds -> "none"
      [] status = "completed" /\ holds  -> IF integrating THEN "waiting_integration"
                                           ELSE "waiting_children"

\* finish, then the runner leaves the map.
Finish(e, evidence, integrating) ==
    LET t == etask[e]
        w == WorkerOf(e)
        holds == WaitsForChildren(e) \/ integrating
        status == EndStatus(e, holds, evidence)
        to == TaskAfter(status, holds)
        reason == ReasonAfter(status, holds, integrating)
    IN  /\ HQFree /\ phase[e] = "closing"
        /\ integrating => tkind[t] = "delivery"
        /\ estatus' = [estatus EXCEPT ![e] = status]
        /\ attempt' = [attempt EXCEPT ![e] = IF @ = "unresolved" /\ settled[e]
                                             THEN "settled" ELSE @]
        /\ MoveTask(t, to, reason)
        /\ RetireIf(w, Terminal(to))
        /\ phase' = [phase EXCEPT ![e] = "none"]
        /\ aborted' = [aborted EXCEPT ![e] = FALSE]
        /\ outcome' = [outcome EXCEPT ![e] = "none"]
        /\ settled' = [settled EXCEPT ![e] = FALSE]
        /\ Kick
        /\ UNCHANGED <<tkind, tparent, tassignee, tcreated, tartifact, etask, ebound,
                       lifecycle, paused, dispatch, turn>>
        /\ RefreshWorkers({w} \cup Requeued)

-----------------------------------------------------------------------------
(* The owner.                                                              *)

Pause(on) ==
    /\ HQFree /\ paused # on
    /\ paused' = on
    /\ Kick
    /\ UNCHANGED <<taskVars, execVars, workerVars, wstatus, dispatch, runnerVars, turn>>

\* Dispatcher.interrupt.
Interrupt(e) ==
    /\ HQFree /\ phase[e] # "none" /\ ~aborted[e]
    /\ aborted' = [aborted EXCEPT ![e] = TRUE]
    /\ Kick
    /\ UNCHANGED <<taskVars, execVars, workerVars, wstatus, paused, dispatch,
                   phase, outcome, settled, turn>>

\* Mutant: a child may be retried as long as its parent is open.
NotClosed(t) == tparent[t] # NoTask => ~Terminal(tstatus[tparent[t]])

\* A child may be retried until its result has been handed back to its parent.
NotHandedBack(t) ==
    LET p == tparent[t]
    IN  p # NoTask => /\ tdispatch[p] # "child_results" \/ treason[p] = "waiting_children"
                      /\ ~Terminal(tstatus[p])

\* retry, after the owner has inspected the earlier attempts.
Retry(t) ==
    /\ HQFree /\ Exists(t)
    /\ tstatus[t] \in {"blocked", "failed", "awaiting_approval"}
    /\ treason[t] # "waiting_children"
    /\ enabled[tassignee[t]]
    /\ NotHandedBack(t)
    /\ ChildrenTerminal(t)
    /\ "queued" \in Transitions[tstatus[t]]
    /\ tstatus' = [tstatus EXCEPT ![t] = "queued"]
    /\ treason' = [treason EXCEPT ![t] = "none"]
    /\ tdispatch' = [tdispatch EXCEPT ![t] = IF Children(t) # {} THEN "child_results" ELSE @]
    /\ Kick
    /\ UNCHANGED <<tkind, tparent, tassignee, tcreated, tartifact, wake, execVars, workerVars,
                   paused, dispatch, runnerVars, turn>>
    /\ RefreshWorkers({tassignee[t]})

\* cancel: never under a running execution, never over unresolved children.
Cancel(t) ==
    /\ HQFree /\ Exists(t)
    /\ tstatus[t] # "working" /\ "cancelled" \in Transitions[tstatus[t]]
    /\ ChildrenTerminal(t)
    /\ MoveTask(t, "cancelled", "none")
    /\ RetireIf(tassignee[t], TRUE)
    /\ Kick
    /\ UNCHANGED <<tkind, tparent, tassignee, tcreated, tartifact, execVars, lifecycle, paused,
                   dispatch, runnerVars, turn>>
    /\ RefreshWorkers({tassignee[t]} \cup Requeued)

-----------------------------------------------------------------------------
(* The process.                                                            *)

\* Dispatcher.stop: no further claims, every runner is aborted and awaited.  (What
\* ends during the stops awaited before the abort is as if it had ended before.)
Stop ==
    /\ dispatch = "idle"
    /\ dispatch' = "stopping"
    /\ aborted' = [e \in Execs |-> phase[e] # "none"]
    /\ UNCHANGED <<taskVars, execVars, workerVars, wstatus, paused, scheduled, phase,
                   outcome, settled, turn>>

\* The process ends: what was only in memory is gone, SQLite and provider stay.
ProcessEnds ==
    /\ dispatch' = "down" /\ scheduled' = FALSE
    /\ phase' = [e \in Execs |-> "none"]
    /\ aborted' = [e \in Execs |-> FALSE]
    /\ outcome' = [e \in Execs |-> "none"]
    /\ settled' = [e \in Execs |-> FALSE]
    /\ UNCHANGED <<taskVars, execVars, workerVars, wstatus, paused, turn>>

Exit == dispatch = "stopping" /\ Runners = {} /\ ProcessEnds
Crash == dispatch # "down" /\ ProcessEnds

\* The executions recover() finds running.  Mutant: only those with a provider.
LostBound == {e \in Running : ebound[e]}
Lost == Running

\* Company.recover in Dispatcher.start: every execution found running is
\* interrupted and its task blocked for inspection; one that had bound a
\* provider is taken to have an unresolved turn, whatever was recorded.
Start ==
    LET lost == Lost
        st == [t \in Tasks |-> IF tstatus[t] = "working" /\ \E e \in lost : etask[e] = t
                               THEN "blocked" ELSE tstatus[t]]
        rs == [t \in Tasks |-> IF st[t] # tstatus[t] THEN "other" ELSE treason[t]]
        back == Handback(st, rs)
    IN  /\ dispatch = "down"
        /\ estatus' = [e \in Execs |-> IF e \in lost THEN "interrupted" ELSE estatus[e]]
        /\ attempt' = [e \in Execs |-> IF e \in lost /\ ebound[e] /\ attempt[e] = "none"
                                       THEN "unresolved" ELSE attempt[e]]
        /\ tstatus' = [t \in Tasks |-> IF t \in back THEN "queued" ELSE st[t]]
        /\ treason' = [t \in Tasks |-> IF t \in back THEN "none" ELSE rs[t]]
        /\ tdispatch' = [t \in Tasks |-> IF t \in back THEN "child_results" ELSE tdispatch[t]]
        /\ dispatch' = "idle" /\ scheduled' = TRUE
        /\ UNCHANGED <<tkind, tparent, tassignee, tcreated, tartifact, wake, etask, ebound,
                       workerVars, paused, runnerVars, turn>>
        /\ RefreshWorkers({w \in Workers : lifecycle[w] # "none"})

-----------------------------------------------------------------------------
Init ==
    /\ tstatus = [t \in Tasks |-> "absent"]
    /\ treason = [t \in Tasks |-> "none"]
    /\ tdispatch = [t \in Tasks |-> "assignment"]
    /\ tkind = [t \in Tasks |-> "research"]
    /\ tparent = [t \in Tasks |-> NoTask]
    /\ tassignee = [t \in Tasks |-> NoWorker]
    /\ tcreated = [t \in Tasks |-> NoExec]
    /\ tartifact = [t \in Tasks |-> FALSE]
    /\ wake = {}
    /\ estatus = [e \in Execs |-> "absent"]
    /\ etask = [e \in Execs |-> NoTask]
    /\ ebound = [e \in Execs |-> FALSE]
    /\ attempt = [e \in Execs |-> "none"]
    /\ lifecycle = [w \in Workers |-> IF w = CEO THEN Life[w] ELSE "none"]
    /\ enabled = [w \in Workers |-> w = CEO]
    /\ wstatus = [w \in Workers |-> "idle"]
    /\ paused = FALSE
    /\ dispatch = "down"
    /\ scheduled = FALSE
    /\ phase = [e \in Execs |-> "none"]
    /\ aborted = [e \in Execs |-> FALSE]
    /\ outcome = [e \in Execs |-> "none"]
    /\ settled = [e \in Execs |-> FALSE]
    /\ turn = [e \in Execs |-> "none"]

OwnerStep ==
    \/ \E k \in RootKinds : AssignObjective(k)
    \/ \E t \in Tasks : Retry(t) \/ Cancel(t)
    \/ \E e \in Execs : Interrupt(e)
    \/ \E on \in BOOLEAN : Pause(on)

ToolStep(e) ==
    \/ \E w \in Workers, k \in Kinds : ToolAssignTask(e, w, k)
    \/ \E w \in Workers : ToolHireWorker(e, w)
    \/ ToolSubmitArtifact(e)

RunnerStep(e) ==
    \/ Bind(e)
    \/ RecordAttempt(e)
    \/ Transmit(e)
    \/ \E s \in Outcomes : ProviderReports(e, s) \/ RunnerGivesUp(e, s)
    \/ \E evidence, integrating \in BOOLEAN : Finish(e, evidence, integrating)

DrainStep ==
    \/ \E W \in SUBSET AwaitingIntegration : BeginDrain(W)
    \/ \E e \in Execs, t \in Tasks : Claim(e, t)
    \/ EndDrain

Next ==
    \/ OwnerStep
    \/ \E e \in Execs : ToolStep(e) \/ RunnerStep(e)
    \/ DrainStep
    \/ DrainFails
    \/ Stop \/ Exit \/ Crash \/ Start

Spec == Init /\ [][Next]_vars

-----------------------------------------------------------------------------
(* Properties.                                                             *)

TypeOK ==
    /\ tstatus \in [Tasks -> Statuses \cup {"absent"}]
    /\ treason \in [Tasks -> Reasons]
    /\ tdispatch \in [Tasks -> Dispatches]
    /\ tkind \in [Tasks -> Kinds]
    /\ tparent \in [Tasks -> Tasks \cup {NoTask}]
    /\ tassignee \in [Tasks -> Workers \cup {NoWorker}]
    /\ tcreated \in [Tasks -> Execs \cup {NoExec}]
    /\ tartifact \in [Tasks -> BOOLEAN]
    /\ wake \subseteq Tasks
    /\ estatus \in [Execs -> Outcomes \cup {"absent", "running"}]
    /\ etask \in [Execs -> Tasks \cup {NoTask}]
    /\ ebound \in [Execs -> BOOLEAN]
    /\ attempt \in [Execs -> {"none", "unresolved", "settled"}]
    /\ lifecycle \in [Workers -> {"none", "persistent", "temporary"}]
    /\ enabled \in [Workers -> BOOLEAN]
    /\ wstatus \in [Workers -> {"idle", "queued", "working", "blocked"}]
    /\ paused \in BOOLEAN
    /\ dispatch \in {"down", "idle", "draining", "stopping"}
    /\ scheduled \in BOOLEAN
    /\ phase \in [Execs -> Phases]
    /\ aborted \in [Execs -> BOOLEAN]
    /\ outcome \in [Execs -> Outcomes \cup {"none"}]
    /\ settled \in [Execs -> BOOLEAN]
    /\ turn \in [Execs -> {"none", "sent", "confirmed"}]

\* A worker never has two provider turns that may both still be running, even
\* when HQ crashed with one in flight: the attempt row written before turn/start
\* keeps every later claim of that worker out until the provider confirms.
ProviderFence ==
    \A e, f \in Execs :
        /\ turn[e] = "sent" /\ turn[f] = "sent"
        /\ etask[e] # NoTask /\ etask[f] # NoTask /\ WorkerOf(e) = WorkerOf(f)
        => e = f

\* No lost wake-up: a task waiting for its children always has one that has not
\* ended.  settleParents has to run in the transaction of every end.
NoLostWakeup ==
    \A p \in Tasks :
        tstatus[p] = "blocked" /\ treason[p] = "waiting_children" =>
            \E c \in Children(p) : ~Terminal(tstatus[c])

\* Results that were handed back stay as they were handed back: a task that is
\* queued or working on child results has open children only if its running
\* execution created them, and a completed task has none at all.
ResultsFrozen ==
    \A p \in Tasks, c \in Tasks :
        tparent[c] = p /\ ~Terminal(tstatus[c]) =>
            /\ tstatus[p] # "completed"
            /\ tdispatch[p] = "child_results" => tstatus[p] # "queued"
            /\ tdispatch[p] = "child_results" /\ tstatus[p] = "working" =>
                  \E e \in Running : etask[e] = p /\ tcreated[c] = e

\* The database and the process agree on who is working: while HQ is up, the
\* running executions are the dispatcher's runners, within the concurrency bound,
\* each on a working task of an enabled worker, one per task and per worker.
RunnersOwnWork ==
    /\ Cardinality(Running) <= MaxActive
    /\ dispatch # "down" => Running = Runners
    /\ \A t \in Tasks : tstatus[t] = "working" <=> \E e \in Running : etask[e] = t
    /\ \A e \in Running : enabled[WorkerOf(e)]
    /\ \A e, f \in Running : WorkerOf(e) = WorkerOf(f) => e = f

\* No lost kick: whenever work could be claimed, a drain is pending or under way.
NoLostKick ==
    dispatch = "idle" /\ Startable => scheduled

\* workers.status, which is cached, is what refreshWorker would compute, except
\* for a delivery requeued by its integration: wakeIntegration refreshes nobody.
WorkerStatusFresh ==
    \A w \in Workers :
        \/ lifecycle[w] = "none"
        \/ wstatus[w] = DerivedStatus(w)
        \/ \E t \in Tasks : /\ tassignee[t] = w /\ tstatus[t] = "queued"
                            /\ tdispatch[t] = "integration_result"

\* A completed product went through its stages in order: a specification with an
\* artifact, completed before the delivery was created, and a completed delivery.
StagesInOrder ==
    \A p \in Tasks : tkind[p] = "product" =>
        /\ tstatus[p] = "completed" =>
              \E c \in Children(p) : tkind[c] = "delivery" /\ tstatus[c] = "completed"
        /\ \A d \in Children(p) : tkind[d] = "delivery" =>
              \E s \in Children(p) : tkind[s] = "spec" /\ tstatus[s] = "completed" /\ tartifact[s]

\* What is final stays final: a completed or cancelled task never changes again,
\* and no claim is made while the company is paused.
FinalAndHeld ==
    [][ /\ \A t \in Tasks : tstatus[t] \in {"completed", "cancelled"} => tstatus'[t] = tstatus[t]
        /\ paused => \A e \in Execs : estatus'[e] = "running" => estatus[e] = "running"
      ]_vars

\* The abstract contract of TaskLedger: a task that is queued, blocked or waits
\* for an approval is open, a working one is held, a failed one is returned.
LedgerState ==
    [t \in Tasks |->
        CASE tstatus[t] = "working" -> "held"
          [] tstatus[t] = "failed" -> "returned"
          [] tstatus[t] = "completed" -> "done"
          [] tstatus[t] \in {"queued", "blocked", "awaiting_approval"} -> "open"
          [] OTHER -> tstatus[t]]

Ledger == INSTANCE TaskLedger WITH
              state <- LedgerState, parent <- tparent, assignee <- tassignee

LedgerSpec == Ledger!Spec

-----------------------------------------------------------------------------
(* Fairness: a pending setImmediate runs, the drain loop ends, the service *)
(* is started again, and a runner whose callback stays ready is eventually *)
(* served by the event loop: the adapter's deadline closes every turn.     *)

Fairness ==
    /\ WF_vars(DrainStep)
    /\ WF_vars(Start)
    /\ \A e \in Execs : SF_vars(RunnerStep(e))

FairSpec == Spec /\ Fairness

\* Every execution ends, whatever its provider does and however often HQ stops.
ExecutionsEnd ==
    \A e \in Execs : estatus[e] = "running" ~> estatus[e] # "running"

\* Queued work is started unless the owner pauses, HQ stops or the worker is held
\* back by a turn nobody can account for (or execution ids run out).
QueuedWorkStarts ==
    \A t \in Tasks :
        tstatus[t] = "queued" ~>
            \/ tstatus[t] # "queued"
            \/ paused \/ dispatch \in {"down", "stopping"}
            \/ \E e \in Execs : /\ attempt[e] = "unresolved" /\ estatus[e] # "running"
                                /\ WorkerOf(e) = tassignee[t]
            \/ \A e \in Execs : estatus[e] # "absent"
=============================================================================
