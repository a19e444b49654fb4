---------------------------- MODULE Engineering ----------------------------
(***************************************************************************)
(* Engineering work on one managed repository: a delivery of the CTO is    *)
(* split into allocations of engineers, whose submissions are frozen into  *)
(* review rounds, revised, approved, and integrated into the default       *)
(* branch by a durable queue.  Source: src/control/engineering.ts, with    *)
(* the parts of company.ts, projects.ts and dispatcher.ts it relies on.    *)
(*                                                                         *)
(* One action is one commit to SQLite or one effect on Git.  A handler     *)
(* that makes several (assign_engineering, submit_engineering, the queue)  *)
(* is a chain of actions: "step" says where it is and holds every other    *)
(* handler off, so that only a crash can come between two of them.         *)
(*                                                                         *)
(* Left to Company: how an execution runs on its provider, kicks, and the  *)
(* product task above a delivery.  Left out: the Linux clones, whose       *)
(* allocations wait for the infrastructure approvals, and the legacy       *)
(* fixture.  Nobody but HQ touches the canonical checkout.                 *)
(***************************************************************************)
EXTENDS Integers, Sequences, FiniteSets

CONSTANTS
    Deliveries,       \* delivery tasks of the repository
    Engineers,        \* the CTO's engineers
    Temporary,        \* the engineers hired with a temporary lifecycle
    CTO, Reviewer,    \* the CTO and its reviewer, both persistent
    MaxWriters,       \* policy.maximum_writers
    MaxReviewRounds,  \* policy.maximum_review_rounds
    MaxActive         \* Dispatcher.maxActive

\* An allocation is the share of one engineer in a delivery, which is allocated
\* in one batch; a review round is known by its number in the delivery.
Allocs == Deliveries \X Engineers
Rounds == Deliveries \X (1 .. MaxReviewRounds)

\* Tasks: a delivery, the engineering task of an allocation, a round's review.
Delivery(d) == <<"delivery", d, 0>>
Work(a) == <<"engineering", a[1], a[2]>>
Review(r) == <<"review", r[1], r[2]>>
Tasks == {Delivery(d) : d \in Deliveries} \cup {Work(a) : a \in Allocs}
         \cup {Review(r) : r \in Rounds}

Statuses == {"queued", "working", "completed", "blocked", "failed", "cancelled"}
Reasons == {"none", "waiting_children", "waiting_integration", "other"}
Dispatches == {"assignment", "child_results", "integration_result"}
AllocStatuses == {"none", "allocating", "active", "submitting", "submitted",
                  "reviewed", "integrated", "released", "blocked"}
IntegrationStatuses == {"none", "queued", "running", "completed", "failed", "blocked"}
Steps == {"none", "allocating", "submitting", "committing", "queue", "running",
          "candidate", "merged", "diverged", "settled"}
Verdicts == {"approved", "changes_required"}
Nothing == <<>>

ASSUME EngineeringAssumption ==
    /\ Deliveries \subseteq Nat
    /\ Temporary \subseteq Engineers
    /\ CTO \notin Engineers /\ Reviewer \notin Engineers /\ CTO # Reviewer
    /\ IsFiniteSet(Engineers)
    /\ MaxWriters \in Nat
    /\ MaxReviewRounds \in Nat \ {0}
    /\ MaxActive \in Nat

VARIABLES
    \* SQLite: tasks, executions, workers, settings
    tstatus,    \* status of each task, "absent" before it exists
    reason,     \* blocking_reason of each delivery, by its role in the control flow
    dispatch,   \* dispatch_reason of each delivery
    fresh,      \* children created by their delivery's latest execution
    running,    \* tasks with a running execution
    retired,    \* engineers that are no longer enabled
    paused,
    \* SQLite: allocations and submissions
    astatus,    \* status, "none" before the allocation exists
    revision,   \* revision_round
    submitted,  \* the revision round of the latest submission, 0 for none
    base,       \* base_commit of a delivery's allocations
    \* SQLite: review_rounds and reviews
    packet,     \* per round and engineer, the revision of the frozen submission
    verdict,    \* "none" until the review is submitted
    affected,   \* the engineers a review requires changes of
    \* SQLite: integrations and the repository
    istatus,
    candidate,  \* recorded candidate: "none", "failing" or "passing"
    intents,    \* the queued integrations, oldest first
    repo,       \* the repository's status: "ready" or "blocked"
    current,    \* its current_commit: a commit is the rounds merged into it
    \* volatile
    up,
    runners,    \* tasks the dispatcher is running
    step, on,   \* the commit at which a handler is, and what it is about
    \* Git
    head,       \* HEAD of the canonical checkout
    tree        \* an engineer's worktree, against its last submission or base

taskVars == <<tstatus, reason, dispatch, fresh, running, retired, paused>>
allocVars == <<astatus, revision, submitted, base>>
reviewVars == <<packet, verdict, affected>>
integrationVars == <<istatus, candidate, intents, repo, current>>
volatileVars == <<up, runners, step, on>>
gitVars == <<head, tree>>
vars == <<taskVars, allocVars, reviewVars, integrationVars, volatileVars, gitVars>>

-----------------------------------------------------------------------------
Terminal(s) == s \in {"completed", "failed", "cancelled"}
\* Mutant: an engineer whose work is under review is free again.
LiveWhileWriting(s) == s \in {"allocating", "active", "submitting", "submitted"}
\* The allocation still takes a writer of the repository and its engineer.
Live(s) == s \notin {"none", "integrated", "released"}

WorkerOf(t) == CASE t[1] = "delivery" -> CTO
                 [] t[1] = "engineering" -> t[3]
                 [] OTHER -> Reviewer
Enabled(w) == w \notin retired

Children(st, d) == {t \in Tasks : t[1] # "delivery" /\ t[2] = d /\ st[t] # "absent"}
AllEnded(st, d) == \A t \in Children(st, d) : Terminal(st[t])
AllocsOf(d) == {a \in Allocs : a[1] = d /\ astatus[a] # "none"}
RoundsOf(d) == {r \in Rounds : r[1] = d /\ tstatus[Review(r)] # "absent"}
Latest(d) == [w \in Engineers |-> submitted[<<d, w>>]]
Sources(r) == {<<r[1], w>> : w \in {v \in Engineers : packet[r][v] # 0}}
MergeOf(r) == Append(base[r[1]], r)

\* checkSubmission: the worktree is still the submitted commit.
Frozen(a) == tree[a] = "clean"

\* A handler may run.
Free == up /\ step = "none"

\* verifyContext, from a tool call of the execution of t on a usable repository.
MayAct(t) ==
    /\ Free /\ repo = "ready"
    /\ t \in runners /\ t \in running /\ tstatus[t] = "working" /\ Enabled(WorkerOf(t))

\* Mutant: a failed or cancelled child does not count as ended.
HandbackIfCompleted(st, rs) ==
    {d \in Deliveries : /\ st[Delivery(d)] = "blocked" /\ rs[d] = "waiting_children"
                        /\ Children(st, d) # {}
                        /\ \A t \in Children(st, d) : st[t] = "completed"}
\* settleParents: the deliveries whose last child has ended.
Handback(st, rs) ==
    {d \in Deliveries : /\ st[Delivery(d)] = "blocked" /\ rs[d] = "waiting_children"
                        /\ Children(st, d) # {} /\ AllEnded(st, d)}
\* wakeIntegration, for the integrations R that have settled.
Woken(R, st, rs) ==
    {d \in Deliveries : /\ st[Delivery(d)] = "blocked" /\ rs[d] = "waiting_integration"
                        /\ \E r \in R : r[1] = d}
Requeued(st, D) == [t \in Tasks |-> IF \E d \in D : t = Delivery(d) THEN "queued" ELSE st[t]]
Cleared(rs, D) == [d \in Deliveries |-> IF d \in D THEN "none" ELSE rs[d]]

\* Statuses st and blocking reasons rs are stored after settleParents; the
\* deliveries in woken were requeued by their integration.
StoreTasks(st, rs, woken) ==
    LET back == Handback(st, rs)
    IN  /\ tstatus' = Requeued(st, back)
        /\ reason' = Cleared(rs, back)
        /\ dispatch' = [d \in Deliveries |-> IF d \in back THEN "child_results"
                                             ELSE IF d \in woken THEN "integration_result"
                                             ELSE dispatch[d]]

\* retireTemporary.
RetireIf(w, over) == retired' = IF over /\ w \in Temporary THEN retired \cup {w} ELSE retired

-----------------------------------------------------------------------------
(* Executions, as far as this component sees them.                         *)

\* The CEO delegates a delivery to the CTO once its specification is complete.
AssignDelivery(d) ==
    /\ Free /\ repo = "ready" /\ tstatus[Delivery(d)] = "absent"
    /\ tstatus' = [tstatus EXCEPT ![Delivery(d)] = "queued"]
    /\ UNCHANGED <<reason, dispatch, fresh, running, retired, paused, allocVars, reviewVars,
                   integrationVars, volatileVars, gitVars>>

\* Engineers start when the CTO's turn is over and their allocation is usable.
Startable(t) ==
    /\ tstatus[t] = "queued" /\ repo = "ready" /\ Enabled(WorkerOf(t))
    /\ \A u \in running : WorkerOf(u) # WorkerOf(t)
    /\ t[1] = "engineering" => /\ astatus[<<t[2], t[3]>>] \in {"active", "submitted"}
                               /\ Delivery(t[2]) \notin running

Claim(t) ==
    /\ Free /\ ~paused /\ Startable(t)
    /\ Cardinality(running) < MaxActive /\ Cardinality(runners) < MaxActive
    /\ tstatus' = [tstatus EXCEPT ![t] = "working"]
    /\ reason' = [d \in Deliveries |-> IF t = Delivery(d) THEN "none" ELSE reason[d]]
    /\ fresh' = IF t[1] = "delivery" THEN fresh \ Children(tstatus, t[2]) ELSE fresh
    /\ running' = running \cup {t}
    /\ runners' = runners \cup {t}
    /\ UNCHANGED <<dispatch, retired, paused, allocVars, reviewVars, integrationVars, up, step,
                   on, gitVars>>

\* The execution of t ends: Company.finish, whose task moves are given by each kind.
Leave(t) ==
    /\ Free /\ t \in runners /\ t \in running /\ tstatus[t] = "working"
    /\ running' = running \ {t}
    /\ runners' = runners \ {t}
    /\ UNCHANGED <<fresh, paused, submitted, base, reviewVars, integrationVars, up, step, on, gitVars>>

\* A failed or interrupted execution, or a completed one that reaches `done'.
Ended(outcome, done) ==
    CASE outcome = "interrupted" -> "blocked"
      [] outcome = "completed" -> done
      [] OTHER -> "failed"

Waiting(d) ==
    \E t \in Children(tstatus, d) : t \in fresh \/ ~Terminal(tstatus[t])
WaitingIntegration(d) ==
    \E r \in Rounds : r[1] = d /\ istatus[r] \in {"queued", "running"}

\* Mutant: any attempt to integrate counts.
IntegrationAttempted(d) ==
    repo = "ready" /\ \E r \in Rounds : r[1] = d /\ istatus[r] # "none"
\* assertDeliverable: the delivery's integration is what the repository records.
Integrated(d) ==
    /\ repo = "ready"
    /\ \E r \in Rounds : r[1] = d /\ istatus[r] = "completed" /\ current = MergeOf(r)

FinishDelivery(d, outcome) ==
    LET held == outcome = "completed" /\ (Waiting(d) \/ WaitingIntegration(d))
        to == IF held THEN "blocked"
              ELSE Ended(outcome, IF Integrated(d) THEN "completed" ELSE "failed")
        why == IF ~held THEN IF to = "blocked" THEN "other" ELSE "none"
               ELSE IF WaitingIntegration(d) THEN "waiting_integration" ELSE "waiting_children"
    IN  /\ Leave(Delivery(d))
        /\ StoreTasks([tstatus EXCEPT ![Delivery(d)] = to], [reason EXCEPT ![d] = why], {})
        /\ UNCHANGED <<retired, astatus, revision>>

FinishEngineering(a, outcome) ==
    LET to == Ended(outcome, IF repo = "ready" /\ submitted[a] = revision[a] /\ Frozen(a)
                             THEN "completed" ELSE "failed")
    IN  /\ Leave(Work(a))
        /\ StoreTasks([tstatus EXCEPT ![Work(a)] = to], reason, {})
        /\ RetireIf(a[2], Terminal(to))
        /\ UNCHANGED <<astatus, revision>>

\* Mutant: off by one.
RoundsLeftInclusive(r) == r[2] <= MaxReviewRounds
RoundsLeft(r) == r[2] < MaxReviewRounds

\* A review is complete if it was submitted and the changes it requires, if any,
\* are of the work that was submitted last.
Reviewed(r) ==
    /\ verdict[r] # "none"
    /\ verdict[r] = "changes_required" =>
          /\ repo = "ready"
          /\ RoundsLeft(r) => \A w \in affected[r] :
                /\ tstatus[Work(<<r[1], w>>)] = "completed"
                /\ submitted[<<r[1], w>>] = packet[r][w]

\* afterFinish: the engineers concerned get their tasks back for a revision, or
\* the delivery is blocked because no further round is allowed.
FinishReview(r, outcome) ==
    LET d == r[1]
        to == Ended(outcome, IF Reviewed(r) THEN "completed" ELSE "failed")
        changes == to = "completed" /\ verdict[r] = "changes_required"
        limit == changes /\ ~RoundsLeft(r)
        again == IF changes /\ ~limit THEN {<<d, w>> : w \in affected[r]} ELSE {}
        moved == [tstatus EXCEPT ![Review(r)] = to]
    IN  /\ Leave(Review(r))
        /\ StoreTasks([t \in Tasks |-> IF limit /\ t = Delivery(d) THEN "blocked"
                                       ELSE IF t \in {Work(a) : a \in again} THEN "queued"
                                       ELSE moved[t]],
                      IF limit THEN [reason EXCEPT ![d] = "other"] ELSE reason, {})
        /\ astatus' = [a \in Allocs |-> IF a \in again THEN "active" ELSE astatus[a]]
        /\ revision' = [a \in Allocs |-> IF a \in again THEN r[2] + 1 ELSE revision[a]]
        /\ UNCHANGED retired

\* The task was taken away from its execution: finish throws, throws again from the
\* catch block of the runner, and the unhandled rejection ends the process.  (Only
\* an end as blocked, of a task queued again meanwhile, would be let through.)
FinishThrows(t) ==
    /\ Free /\ t \in runners /\ t \in running /\ tstatus[t] # "working"
    /\ up' = FALSE /\ runners' = {}
    /\ UNCHANGED <<taskVars, allocVars, reviewVars, integrationVars, step, on, gitVars>>

-----------------------------------------------------------------------------
(* The owner.                                                              *)

Pause(b) ==
    /\ Free /\ paused # b
    /\ paused' = b
    /\ UNCHANGED <<tstatus, reason, dispatch, fresh, running, retired, allocVars, reviewVars,
                   integrationVars, volatileVars, gitVars>>

\* A child may be retried until its result was handed back; a delivery, while the
\* product above it is open (its owner has decided that).
Retry(t) ==
    /\ Free /\ tstatus[t] \in {"blocked", "failed"} /\ Enabled(WorkerOf(t))
    /\ IF t[1] = "delivery"
       THEN reason[t[2]] # "waiting_children" /\ AllEnded(tstatus, t[2])
       ELSE /\ dispatch[t[2]] # "child_results" \/ reason[t[2]] = "waiting_children"
            /\ ~Terminal(tstatus[Delivery(t[2])])
    /\ t[1] = "engineering" => astatus[<<t[2], t[3]>>] # "blocked"
    /\ tstatus' = [tstatus EXCEPT ![t] = "queued"]
    /\ reason' = [d \in Deliveries |-> IF t = Delivery(d) THEN "none" ELSE reason[d]]
    /\ dispatch' = [d \in Deliveries |-> IF t = Delivery(d) /\ Children(tstatus, d) # {}
                                         THEN "child_results" ELSE dispatch[d]]
    /\ UNCHANGED <<fresh, running, retired, paused, allocVars, reviewVars, integrationVars,
                   volatileVars, gitVars>>

Cancel(t) ==
    /\ Free /\ tstatus[t] \in {"queued", "blocked", "failed"}
    /\ t[1] = "delivery" => AllEnded(tstatus, t[2])
    /\ StoreTasks([tstatus EXCEPT ![t] = "cancelled"],
                  [d \in Deliveries |-> IF t = Delivery(d) THEN "none" ELSE reason[d]], {})
    /\ RetireIf(WorkerOf(t), TRUE)
    /\ UNCHANGED <<fresh, running, paused, allocVars, reviewVars, integrationVars, volatileVars,
                   gitVars>>

\* projects.release: an engineer is freed from work that is integrated or cancelled.
Release(a) ==
    /\ Free /\ astatus[a] # "none" /\ astatus[a] # "released"
    /\ Terminal(tstatus[Work(a)])
    /\ astatus[a] = "integrated" \/ tstatus[Work(a)] = "cancelled"
    /\ \A t \in running : WorkerOf(t) # a[2]
    /\ \A r \in Rounds : istatus[r] \notin {"queued", "running"}
    /\ astatus' = [astatus EXCEPT ![a] = "released"]
    /\ UNCHANGED <<taskVars, revision, submitted, base, reviewVars, integrationVars, volatileVars,
                   gitVars>>

-----------------------------------------------------------------------------
(* Allocation: assign_engineering.                                         *)

Assignable(W) ==
    /\ W # {}
    /\ Cardinality({a \in Allocs : Live(astatus[a])}) + Cardinality(W) <= MaxWriters
    /\ \A w \in W : /\ Enabled(w)
                    /\ \A a \in Allocs : a[2] = w => ~Live(astatus[a])
                    /\ w \in Temporary => \A a \in Allocs : a[2] = w => astatus[a] = "none"

AssignEngineering(d, W) ==
    /\ MayAct(Delivery(d)) /\ AllocsOf(d) = {} /\ Assignable(W)
    /\ head = current
    /\ astatus' = [a \in Allocs |-> IF a[1] = d /\ a[2] \in W THEN "allocating" ELSE astatus[a]]
    /\ revision' = [a \in Allocs |-> IF a[1] = d /\ a[2] \in W THEN 1 ELSE revision[a]]
    /\ base' = [base EXCEPT ![d] = current]
    /\ tstatus' = [t \in Tasks |-> IF t \in {Work(<<d, w>>) : w \in W} THEN "queued" ELSE tstatus[t]]
    /\ fresh' = fresh \cup {Work(<<d, w>>) : w \in W}
    /\ step' = "allocating" /\ on' = <<d>>
    /\ UNCHANGED <<reason, dispatch, running, retired, paused, submitted, reviewVars,
                   integrationVars, up, runners, gitVars>>

\* The worktrees are added, or one could not be and the batch is left for inspection.
AddWorktrees(ok) ==
    /\ up /\ step = "allocating"
    /\ astatus' = [a \in Allocs |-> IF astatus[a] # "allocating" THEN astatus[a]
                                    ELSE IF ok THEN "active" ELSE "blocked"]
    /\ step' = "none" /\ on' = Nothing
    /\ UNCHANGED <<taskVars, revision, submitted, base, reviewVars, integrationVars, up, runners,
                   gitVars>>

-----------------------------------------------------------------------------
(* Engineers: write_source, commit_project_changes, submit_engineering.    *)

\* allocation(): the engineer's own turn, on a worktree that is not frozen.
Writable(a) == MayAct(Work(a)) /\ astatus[a] = "active"

WriteSource(a) ==
    /\ Writable(a)
    /\ tree[a] # "dirty"
    /\ tree' = [tree EXCEPT ![a] = "dirty"]
    /\ UNCHANGED <<taskVars, allocVars, reviewVars, integrationVars, volatileVars, head>>

\* Focused tests pass and the allocation is frozen before Git is touched.
BeginCommit(a, to) ==
    /\ Writable(a)
    /\ IF to = "submitting" THEN submitted[a] # revision[a] /\ (tree[a] # "clean" \/ submitted[a] # 0)
       ELSE tree[a] = "dirty"
    /\ astatus' = [astatus EXCEPT ![a] = "submitting"]
    /\ step' = to /\ on' = a
    /\ UNCHANGED <<taskVars, revision, submitted, base, reviewVars, integrationVars, up, runners,
                   gitVars>>

\* The commit is made and recorded; a submission has to add to the one before it.
RecordCommit(a) ==
    /\ up /\ step \in {"submitting", "committing"} /\ on = a /\ tree[a] # "clean"
    /\ astatus' = [astatus EXCEPT ![a] = IF step = "submitting" THEN "submitted" ELSE "active"]
    /\ submitted' = [submitted EXCEPT ![a] = IF step = "submitting" THEN revision[a] ELSE @]
    /\ tree' = [tree EXCEPT ![a] = IF step = "submitting" THEN "clean" ELSE "committed"]
    /\ step' = "none" /\ on' = Nothing
    /\ UNCHANGED <<taskVars, revision, base, reviewVars, integrationVars, up, runners, head>>

\* Git fails, or there is nothing new to submit: the allocation needs inspection.
CommitFails(a) ==
    /\ up /\ step \in {"submitting", "committing"} /\ on = a
    /\ astatus' = [astatus EXCEPT ![a] = "blocked"]
    /\ step' = "none" /\ on' = Nothing
    /\ UNCHANGED <<taskVars, revision, submitted, base, reviewVars, integrationVars, up, runners,
                   gitVars>>

-----------------------------------------------------------------------------
(* Review rounds: assign_review and submit_review.                         *)

\* Mutant: a submission is enough, even if its engineer is revising it.
AllSubmitted(d) == AllocsOf(d) # {} /\ \A a \in AllocsOf(d) : submitted[a] # 0 /\ Frozen(a)
AllCompleted(d) ==
    /\ AllocsOf(d) # {}
    /\ \A a \in AllocsOf(d) : submitted[a] # 0 /\ tstatus[Work(a)] = "completed" /\ Frozen(a)

\* The next round freezes the latest submission of every allocation.  The same
\* packet is never put to review twice: the tool then returns the earlier task.
AssignReview(r) ==
    LET d == r[1]
    IN  /\ MayAct(Delivery(d))
        /\ tstatus[Review(r)] = "absent" /\ r[2] = Cardinality(RoundsOf(d)) + 1
        /\ AllCompleted(d)
        /\ \A q \in RoundsOf(d) : q[2] = r[2] - 1 => packet[q] # Latest(d)
        /\ packet' = [packet EXCEPT ![r] = Latest(d)]
        /\ tstatus' = [tstatus EXCEPT ![Review(r)] = "queued"]
        /\ fresh' = fresh \cup {Review(r)}
        /\ UNCHANGED <<reason, dispatch, running, retired, paused, allocVars, verdict, affected,
                       integrationVars, volatileVars, gitVars>>

SubmitReview(r, v, W) ==
    /\ MayAct(Review(r)) /\ verdict[r] = "none"
    /\ \A a \in Sources(r) : Frozen(a)
    /\ IF v = "approved" THEN W = {} ELSE W # {} /\ {<<r[1], w>> : w \in W} \subseteq Sources(r)
    /\ verdict' = [verdict EXCEPT ![r] = v]
    /\ affected' = [affected EXCEPT ![r] = W]
    /\ astatus' = [a \in Allocs |-> IF a \in Sources(r) THEN "reviewed" ELSE astatus[a]]
    /\ UNCHANGED <<taskVars, revision, submitted, base, packet, integrationVars, volatileVars,
                   gitVars>>

-----------------------------------------------------------------------------
(* Integration: integrate_repository queues an intent, processQueue runs it. *)

\* Mutant: the reviewer's execution need not have completed.
ApprovedByVerdict(r) == verdict[r] = "approved"
Approved(r) == verdict[r] = "approved" /\ tstatus[Review(r)] = "completed"

QueueIntegration(r) ==
    LET d == r[1]
    IN  /\ MayAct(Delivery(d)) /\ istatus[r] = "none"
        /\ Approved(r)
        /\ \A a \in Sources(r) : submitted[a] = packet[r][a[2]] /\ Frozen(a)
        /\ istatus' = [istatus EXCEPT ![r] = "queued"]
        /\ intents' = Append(intents, r)
        /\ UNCHANGED <<taskVars, allocVars, reviewVars, candidate, repo, current, volatileVars,
                       gitVars>>

\* processQueue takes the oldest intent, and goes on until there is none.
StartIntegration(r) ==
    /\ (up /\ step = "queue") \/ (Free /\ ~paused)
    /\ intents # <<>> /\ r = Head(intents)
    /\ \A q \in Rounds : istatus[q] # "running"
    /\ istatus' = [istatus EXCEPT ![r] = "running"]
    /\ intents' = Tail(intents)
    /\ step' = "running" /\ on' = r
    /\ UNCHANGED <<taskVars, allocVars, reviewVars, candidate, repo, current, up, runners, gitVars>>

\* The integration r is at step s.
At(s, r) == up /\ step = s /\ on = r

Stale(r) == current # base[r[1]] \/ head # base[r[1]]

Settle(r, s, next) ==
    /\ istatus' = [istatus EXCEPT ![r] = s]
    /\ step' = next
    /\ UNCHANGED <<taskVars, reviewVars, candidate, intents, repo, up, runners, on, gitVars>>

\* The repository is blocked or has moved on since the engineers were assigned.
RefuseIntegration(r) ==
    /\ At("running", r) /\ (repo # "ready" \/ Stale(r))
    /\ Settle(r, "blocked", "settled")
    /\ UNCHANGED <<allocVars, current>>

\* The approved commits are cherry-picked and the full recipes run.
BuildCandidate(r, outcome) ==
    /\ At("running", r) /\ repo = "ready" /\ ~Stale(r)
    /\ verdict[r] = "approved" /\ \A a \in Sources(r) : Frozen(a)
    /\ candidate' = [candidate EXCEPT ![r] = outcome]
    /\ step' = "candidate"
    /\ UNCHANGED <<taskVars, allocVars, reviewVars, istatus, intents, repo, current, up, runners,
                   on, gitVars>>

\* A conflict, a failing recipe, or Git gave up: the default branch is as before.
FailIntegration(r) ==
    /\ \/ At("running", r) /\ repo = "ready" /\ ~Stale(r)
       \/ At("candidate", r)
    /\ Settle(r, "failed", "settled")
    /\ UNCHANGED <<allocVars, current>>

MergeCandidate(r) ==
    /\ At("candidate", r) /\ candidate[r] = "passing" /\ head = base[r[1]]
    /\ head' = MergeOf(r)
    /\ step' = "merged"
    /\ UNCHANGED <<taskVars, allocVars, reviewVars, integrationVars, up, runners, on, tree>>

CompleteIntegration(r) ==
    /\ At("merged", r)
    /\ Settle(r, "completed", "settled")
    /\ current' = head
    /\ astatus' = [a \in Allocs |-> IF a \in Sources(r) THEN "integrated" ELSE astatus[a]]
    /\ UNCHANGED <<revision, submitted, base>>

\* Git or the store fails after the merge: first the attempt, then the repository
\* is blocked.
FailAfterMerge(r) ==
    /\ At("merged", r)
    /\ Settle(r, "blocked", "diverged")
    /\ UNCHANGED <<allocVars, current>>

BlockRepository(r) ==
    /\ At("diverged", r)
    /\ repo' = "blocked" /\ step' = "settled"
    /\ UNCHANGED <<taskVars, allocVars, reviewVars, istatus, candidate, intents, current, up,
                   runners, on, gitVars>>

WakeDelivery(r) ==
    LET woken == Woken({r}, tstatus, reason)
    IN  /\ At("settled", r)
        /\ tstatus' = Requeued(tstatus, woken)
        /\ reason' = Cleared(reason, woken)
        /\ dispatch' = [d \in Deliveries |-> IF d \in woken THEN "integration_result" ELSE dispatch[d]]
        /\ step' = IF intents = <<>> THEN "none" ELSE "queue"
        /\ on' = Nothing
        /\ UNCHANGED <<fresh, running, retired, paused, allocVars, reviewVars, integrationVars, up,
                       runners, gitVars>>

-----------------------------------------------------------------------------
(* The process.                                                            *)

Crash ==
    /\ up
    /\ up' = FALSE /\ runners' = {} /\ step' = "none" /\ on' = Nothing
    /\ UNCHANGED <<taskVars, allocVars, reviewVars, integrationVars, gitVars>>

\* Mutant: a passing candidate is taken to have been merged.
AdvancedIfPassing(r) == istatus[r] = "running" /\ candidate[r] = "passing" /\ repo = "ready"
\* An integration found running is completed only if its passing candidate is what
\* the default branch has become.
Advanced(r) ==
    /\ istatus[r] = "running" /\ candidate[r] = "passing"
    /\ repo = "ready" /\ head = MergeOf(r)

\* Mutant: an integration whose candidate was being built is left as it is.
InterruptedLate == {r \in Rounds : istatus[r] = "running" /\ candidate[r] # "none"}
Interrupted == {r \in Rounds : istatus[r] = "running"}

\* Company.recover and Engineering.recover: executions are interrupted, work that
\* was between two commits is blocked, the interrupted integration is settled.
Start ==
    LET lost == {t \in running : tstatus[t] = "working"}
        st == [t \in Tasks |-> IF t \in lost THEN "blocked" ELSE tstatus[t]]
        rs == [d \in Deliveries |-> IF Delivery(d) \in lost THEN "other" ELSE reason[d]]
        R == Interrupted
        done == {r \in R : Advanced(r)}
        woken == Woken(R, st, rs)
        suspect == {a \in Allocs : \/ astatus[a] \in {"allocating", "submitting", "blocked"}
                                   \/ astatus[a] = "active" /\ st[Work(a)] = "blocked"}
    IN  /\ ~up
        /\ StoreTasks([t \in Tasks |-> IF st[t] = "queued" /\ \E a \in suspect : t = Work(a)
                                        THEN "blocked" ELSE Requeued(st, woken)[t]],
                      Cleared(rs, woken), woken)
        /\ running' = {}
        /\ astatus' = [a \in Allocs |-> IF \E r \in done : a \in Sources(r) THEN "integrated"
                                        ELSE IF a \in suspect THEN "blocked" ELSE astatus[a]]
        /\ istatus' = [r \in Rounds |-> IF r \in done THEN "completed"
                                        ELSE IF r \in R THEN "blocked" ELSE istatus[r]]
        /\ repo' = IF R \ done # {} THEN "blocked" ELSE repo
        /\ current' = IF done # {} THEN head ELSE current
        /\ up' = TRUE
        /\ UNCHANGED <<fresh, retired, paused, revision, submitted, base, reviewVars, candidate,
                       intents, runners, step, on, gitVars>>

-----------------------------------------------------------------------------
Init ==
    /\ tstatus = [t \in Tasks |-> "absent"]
    /\ reason = [d \in Deliveries |-> "none"]
    /\ dispatch = [d \in Deliveries |-> "assignment"]
    /\ fresh = {} /\ running = {} /\ retired = {} /\ paused = FALSE
    /\ astatus = [a \in Allocs |-> "none"]
    /\ revision = [a \in Allocs |-> 0]
    /\ submitted = [a \in Allocs |-> 0]
    /\ base = [d \in Deliveries |-> <<>>]
    /\ packet = [r \in Rounds |-> [w \in Engineers |-> 0]]
    /\ verdict = [r \in Rounds |-> "none"]
    /\ affected = [r \in Rounds |-> {}]
    /\ istatus = [r \in Rounds |-> "none"]
    /\ candidate = [r \in Rounds |-> "none"]
    /\ intents = <<>>
    /\ repo = "ready" /\ current = <<>>
    /\ up = FALSE /\ runners = {} /\ step = "none" /\ on = Nothing
    /\ head = <<>>
    /\ tree = [a \in Allocs |-> "clean"]

Outcomes == {"completed", "failed", "interrupted"}

OwnerStep ==
    \/ \E b \in BOOLEAN : Pause(b)
    \/ \E t \in Tasks : Retry(t) \/ Cancel(t)
    \/ \E a \in Allocs : Release(a)

CTOStep ==
    \/ \E d \in Deliveries, W \in SUBSET Engineers : AssignEngineering(d, W)
    \/ \E ok \in BOOLEAN : AddWorktrees(ok)
    \/ \E r \in Rounds : AssignReview(r) \/ QueueIntegration(r)
    \/ \E d \in Deliveries, o \in Outcomes : FinishDelivery(d, o)

EngineerStep(a) ==
    \/ WriteSource(a)
    \/ \E to \in {"submitting", "committing"} : BeginCommit(a, to)
    \/ RecordCommit(a)
    \/ CommitFails(a)
    \/ \E o \in Outcomes : FinishEngineering(a, o)

ReviewerStep(r) ==
    \/ \E v \in Verdicts, W \in SUBSET Engineers : SubmitReview(r, v, W)
    \/ \E o \in Outcomes : FinishReview(r, o)

QueueStep(r) ==
    \/ StartIntegration(r)
    \/ RefuseIntegration(r)
    \/ \E outcome \in {"failing", "passing"} : BuildCandidate(r, outcome)
    \/ FailIntegration(r)
    \/ MergeCandidate(r)
    \/ CompleteIntegration(r)
    \/ FailAfterMerge(r)
    \/ BlockRepository(r)
    \/ WakeDelivery(r)

Next ==
    \/ \E d \in Deliveries : AssignDelivery(d)
    \/ \E t \in Tasks : Claim(t) \/ FinishThrows(t)
    \/ OwnerStep
    \/ CTOStep
    \/ \E a \in Allocs : EngineerStep(a)
    \/ \E r \in Rounds : ReviewerStep(r) \/ QueueStep(r)
    \/ Crash \/ Start

Spec == Init /\ [][Next]_vars

-----------------------------------------------------------------------------
(* Properties.                                                             *)

Commits == Seq(Rounds)

TypeOK ==
    /\ tstatus \in [Tasks -> Statuses \cup {"absent"}]
    /\ reason \in [Deliveries -> Reasons]
    /\ dispatch \in [Deliveries -> Dispatches]
    /\ fresh \subseteq Tasks /\ running \subseteq Tasks /\ retired \subseteq Temporary
    /\ paused \in BOOLEAN
    /\ astatus \in [Allocs -> AllocStatuses]
    /\ revision \in [Allocs -> 0 .. MaxReviewRounds]
    /\ submitted \in [Allocs -> 0 .. MaxReviewRounds]
    /\ base \in [Deliveries -> Commits]
    /\ packet \in [Rounds -> [Engineers -> 0 .. MaxReviewRounds]]
    /\ verdict \in [Rounds -> Verdicts \cup {"none"}]
    /\ affected \in [Rounds -> SUBSET Engineers]
    /\ istatus \in [Rounds -> IntegrationStatuses]
    /\ candidate \in [Rounds -> {"none", "failing", "passing"}]
    /\ intents \in Seq(Rounds)
    /\ repo \in {"ready", "blocked"}
    /\ current \in Commits
    /\ up \in BOOLEAN
    /\ runners \subseteq Tasks
    /\ step \in Steps
    /\ on \in {<<d>> : d \in Deliveries} \cup Allocs \cup Rounds \cup {Nothing}
    /\ head \in Commits
    /\ tree \in [Allocs -> {"clean", "dirty", "committed"}]

\* The recorded history and the branch agree: the recorded commit holds exactly the
\* completed integrations, once each, and between two handlers the branch is the
\* recorded commit or one merge ahead of it, with the blocked attempt as evidence.
BranchRecorded ==
    LET completed == {r \in Rounds : istatus[r] = "completed"}
    IN  /\ {current[i] : i \in DOMAIN current} = completed
        /\ Len(current) = Cardinality(completed)
        /\ Free => \/ head = current
                   \/ \E r \in Rounds : istatus[r] = "blocked" /\ head = Append(current, r)

\* What is under review, or approved, stays what was submitted: no engineer of the
\* delivery may write, and the packet holds the latest submissions.
FrozenUnderReview ==
    \A r \in Rounds :
        \/ tstatus[Review(r)] \in {"queued", "working", "blocked"}
        \/ verdict[r] = "approved"
        => /\ packet[r] = Latest(r[1])
           /\ \A a \in AllocsOf(r[1]) : astatus[a] \notin {"active", "submitting"} /\ Frozen(a)

\* A delivery is completed only when the latest work of all its engineers is in the
\* recorded history of the repository.
DeliveredWork ==
    \A d \in Deliveries : tstatus[Delivery(d)] = "completed" =>
        /\ \E i \in DOMAIN current : current[i][1] = d /\ packet[current[i]] = Latest(d)
        /\ \A a \in AllocsOf(d) : astatus[a] \in {"integrated", "released"}

\* An engineer holds one allocation at a time, whose work nobody else can be writing
\* over, and the repository's writer ceiling holds over all deliveries.
OneLiveAllocation ==
    LET held == {a \in Allocs : astatus[a] \notin {"none", "integrated", "released"}}
    IN  /\ Cardinality(held) <= MaxWriters
        /\ \A a, b \in held : a[2] = b[2] => a = b

\* No lost wake-up through revisions: a delivery that waits for its children has one
\* that has not ended, even when a review sends completed work back.
NoLostWakeup ==
    \A d \in Deliveries :
        tstatus[Delivery(d)] = "blocked" /\ reason[d] = "waiting_children" =>
            ~AllEnded(tstatus, d)

\* The workflow keeps the promise of TrustedBranch: an approved round is merged or
\* abandoned once, and nothing else reaches the default branch.
Fate(r) ==
    IF \E i \in DOMAIN head : head[i] = r THEN "merged"
    ELSE IF istatus[r] \in {"failed", "blocked"} THEN "abandoned"
    ELSE IF verdict[r] = "approved" /\ tstatus[Review(r)] = "completed" THEN "approved"
    ELSE "proposed"

Trusted == INSTANCE TrustedBranch WITH
               Changes <- Rounds, branch <- head, fate <- [r \in Rounds |-> Fate(r)]

TrustedSpec == Trusted!Spec

\* Contradicted by the code, see the findings: a delivery waits for an integration
\* only while there is one that has not settled.
WaitingHasIntegration ==
    \A d \in Deliveries :
        Free /\ tstatus[Delivery(d)] = "blocked" /\ reason[d] = "waiting_integration" =>
            WaitingIntegration(d)

\* Contradicted by the code: a revision goes back to an engineer that can work on it.
RevisionHasEngineer ==
    \A a \in Allocs : tstatus[Work(a)] = "queued" => Enabled(a[2])

-----------------------------------------------------------------------------
(* Fairness: a handler that has begun goes on unless the process dies, the *)
(* service manager starts HQ again, and the queue, which the first drain   *)
(* after a start runs, is not kept from running by endless restarts.       *)

Fairness ==
    /\ WF_vars(Start)
    /\ WF_vars(\E ok \in BOOLEAN : AddWorktrees(ok))
    /\ \A a \in Allocs : WF_vars(RecordCommit(a) \/ CommitFails(a))
    /\ \A r \in Rounds : SF_vars(QueueStep(r))

FairSpec == Spec /\ Fairness

\* A queued integration settles unless the owner pauses the company: whatever fails,
\* and wherever HQ dies, it does not hold the queue for ever.
QueuedIntegrationSettles ==
    \A r \in Rounds : istatus[r] = "queued" ~>
        istatus[r] \in {"completed", "failed", "blocked"} \/ paused
=============================================================================
