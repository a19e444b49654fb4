------------------------- MODULE EngineeringProofs -------------------------
(***************************************************************************)
(* Theorems about Engineering, for every set of deliveries and engineers,  *)
(* every writer ceiling and every bound on review rounds: its types, that  *)
(* no delivery waits for children that have ended, the record of the       *)
(* default branch (BranchRecorded), the contract TrustedBranch, which      *)
(* Engineering implements, and the work that review rounds judge           *)
(* (FrozenUnderReview, DeliveredWork and OneLiveAllocation).               *)
(*                                                                         *)
(* BranchRecorded is not inductive: that a merge extends the record by one *)
(* round needs to know where the queue is (Position), that one integration *)
(* runs at a time, and that the queued ones are all different (Queued).    *)
(*                                                                         *)
(* That a round is approved, merged or abandoned once, and that nothing    *)
(* else reaches the branch, needs beside it that approval is stable (no    *)
(* step undoes a completed review or its verdict) and precedes integration *)
(* (ApprovedFirst).                                                        *)
(*                                                                         *)
(* That nobody writes under a review is not inductive: it needs to know    *)
(* that a round follows another only when that one sent engineers back     *)
(* (Successive), that a packet holds every allocation of its delivery      *)
(* (Reviewing), and that a round which sent nobody back holds all of them  *)
(* as they were submitted, integrated only if approved (Held).  That only  *)
(* approved work is delivered rests on what had been approved when it was  *)
(* integrated (Judged), all allocations of a delivery together (Taken).    *)
(***************************************************************************)
EXTENDS Engineering, FiniteSetTheorems, SequenceTheorems, TLAPS

\* The tasks are deliveries, engineering tasks and reviews.
LEMMA TaskKinds ==
    /\ \A d \in Deliveries : Delivery(d) \in Tasks
    /\ \A a \in Allocs : Work(a) \in Tasks
    /\ \A r \in Rounds : Review(r) \in Tasks
BY DEF Tasks

\* Allocations and rounds are pairs.
LEMMA PairTypes ==
    /\ \A a \in Allocs : a[1] \in Deliveries /\ a[2] \in Engineers /\ a = <<a[1], a[2]>>
    /\ \A r \in Rounds : r[1] \in Deliveries /\ r[2] \in 1 .. MaxReviewRounds /\ r = <<r[1], r[2]>>
    /\ \A d \in Deliveries, w \in Engineers : <<d, w>> \in Allocs
BY DEF Allocs, Rounds

\* settleParents stores statuses, reasons and dispatch reasons of their types.
LEMMA StoreTasksTyped ==
    ASSUME NEW st \in [Tasks -> Statuses \cup {"absent"}],
           NEW rs \in [Deliveries -> Reasons],
           NEW woken, dispatch \in [Deliveries -> Dispatches],
           StoreTasks(st, rs, woken)
    PROVE  /\ tstatus' \in [Tasks -> Statuses \cup {"absent"}]
           /\ reason' \in [Deliveries -> Reasons]
           /\ dispatch' \in [Deliveries -> Dispatches]
BY DEF StoreTasks, Requeued, Cleared, Statuses, Reasons, Dispatches

\* The initial state has its types.
LEMMA TypeInit == Init => TypeOK
<1> SUFFICES ASSUME Init PROVE TypeOK OBVIOUS
<1>1. <<>> \in Seq(Rounds) OBVIOUS
<1>2. 0 \in 0 .. MaxReviewRounds BY EngineeringAssumption
<1>3. /\ tstatus \in [Tasks -> Statuses \cup {"absent"}]
      /\ reason \in [Deliveries -> Reasons]
      /\ dispatch \in [Deliveries -> Dispatches]
      /\ fresh \subseteq Tasks /\ running \subseteq Tasks /\ retired \subseteq Temporary
      /\ paused \in BOOLEAN
  BY DEF Init, Reasons, Dispatches
<1>4. /\ astatus \in [Allocs -> AllocStatuses]
      /\ revision \in [Allocs -> 0 .. MaxReviewRounds]
      /\ submitted \in [Allocs -> 0 .. MaxReviewRounds]
      /\ base \in [Deliveries -> Commits]
  BY <1>1, <1>2 DEF Init, AllocStatuses, Commits
<1>5. /\ packet \in [Rounds -> [Engineers -> 0 .. MaxReviewRounds]]
      /\ verdict \in [Rounds -> Verdicts \cup {"none"}]
      /\ affected \in [Rounds -> SUBSET Engineers]
  BY <1>2 DEF Init, Verdicts
<1>6. /\ istatus \in [Rounds -> IntegrationStatuses]
      /\ candidate \in [Rounds -> {"none", "failing", "passing"}]
      /\ intents \in Seq(Rounds) /\ repo \in {"ready", "blocked"} /\ current \in Commits
      /\ up \in BOOLEAN /\ runners \subseteq Tasks /\ step \in Steps
      /\ on = Nothing /\ head \in Commits
      /\ tree \in [Allocs -> {"clean", "dirty", "committed"}]
  BY <1>1 DEF Init, IntegrationStatuses, Steps, Commits
<1> QED BY <1>3, <1>4, <1>5, <1>6 DEF TypeOK

\* The owner's steps keep the types.
LEMMA TypeOwner ==
    ASSUME TypeOK, OwnerStep
    PROVE  TypeOK'
<1> USE TaskKinds, PairTypes, EngineeringAssumption DEF volatileVars, gitVars, reviewVars, integrationVars, allocVars, Commits
<1>1. ASSUME NEW b \in BOOLEAN, Pause(b) PROVE TypeOK'
  BY <1>1 DEF Pause, TypeOK
<1>2. ASSUME NEW t \in Tasks, Retry(t) PROVE TypeOK'
  BY <1>2 DEF Retry, TypeOK, Statuses, Reasons, Dispatches
<1>3. ASSUME NEW t \in Tasks, Cancel(t) PROVE TypeOK'
  <2>1. /\ [tstatus EXCEPT ![t] = "cancelled"] \in [Tasks -> Statuses \cup {"absent"}]
        /\ [d \in Deliveries |-> IF t = Delivery(d) THEN "none" ELSE reason[d]] \in [Deliveries -> Reasons]
        /\ dispatch \in [Deliveries -> Dispatches]
    BY DEF TypeOK, Statuses, Reasons
  <2>2. /\ tstatus' \in [Tasks -> Statuses \cup {"absent"}]
        /\ reason' \in [Deliveries -> Reasons]
        /\ dispatch' \in [Deliveries -> Dispatches]
    BY <1>3, <2>1, StoreTasksTyped DEF Cancel
  <2>3. retired' \subseteq Temporary
    BY <1>3 DEF Cancel, RetireIf, TypeOK
  <2> QED BY <1>3, <2>2, <2>3 DEF Cancel, TypeOK
<1>4. ASSUME NEW a \in Allocs, Release(a) PROVE TypeOK'
  BY <1>4 DEF Release, TypeOK, AllocStatuses, taskVars
<1> QED BY <1>1, <1>2, <1>3, <1>4 DEF OwnerStep

\* Starting a delivery, claiming a task and the finish that throws keep the types.
LEMMA TypeDeliveryAndClaim ==
    ASSUME TypeOK, (\E d \in Deliveries : AssignDelivery(d)) \/ (\E t \in Tasks : Claim(t) \/ FinishThrows(t))
    PROVE  TypeOK'
<1> USE TaskKinds, PairTypes, EngineeringAssumption DEF volatileVars, gitVars, reviewVars, integrationVars, allocVars, Commits
<1>1. ASSUME NEW d \in Deliveries, AssignDelivery(d) PROVE TypeOK'
  BY <1>1 DEF AssignDelivery, TypeOK, Statuses
<1>2. ASSUME NEW t \in Tasks, Claim(t) PROVE TypeOK'
  <2>1. tstatus' \in [Tasks -> Statuses \cup {"absent"}] BY <1>2 DEF Claim, TypeOK, Statuses
  <2>2. reason' \in [Deliveries -> Reasons] BY <1>2 DEF Claim, TypeOK, Reasons
  <2>3. fresh' \subseteq Tasks /\ running' \subseteq Tasks /\ runners' \subseteq Tasks BY <1>2 DEF Claim, TypeOK
  <2> QED BY <1>2, <2>1, <2>2, <2>3 DEF Claim, TypeOK
<1>3. ASSUME NEW t \in Tasks, FinishThrows(t) PROVE TypeOK'
  BY <1>3 DEF FinishThrows, TypeOK, taskVars
<1> QED BY <1>1, <1>2, <1>3

\* The end of an execution keeps the types; a revision stays within the bound on rounds.
LEMMA TypeFinish ==
    ASSUME TypeOK, NEW o \in Outcomes,
           \/ \E d \in Deliveries : FinishDelivery(d, o)
           \/ \E a \in Allocs : FinishEngineering(a, o)
           \/ \E r \in Rounds : FinishReview(r, o)
    PROVE  TypeOK'
<1> USE TaskKinds, PairTypes, EngineeringAssumption DEF volatileVars, gitVars, reviewVars, integrationVars, allocVars, Commits
<1>0. dispatch \in [Deliveries -> Dispatches] BY DEF TypeOK
<1>1. ASSUME NEW d \in Deliveries, FinishDelivery(d, o) PROVE TypeOK'
  <2> DEFINE held == o = "completed" /\ (Waiting(d) \/ WaitingIntegration(d))
             to == IF held THEN "blocked" ELSE Ended(o, IF Integrated(d) THEN "completed" ELSE "failed")
             why == IF ~held THEN IF to = "blocked" THEN "other" ELSE "none"
                    ELSE IF WaitingIntegration(d) THEN "waiting_integration" ELSE "waiting_children"
  <2>1. to \in Statuses BY DEF Ended, Statuses
  <2>2. why \in Reasons BY DEF Reasons
  <2>3. /\ StoreTasks([tstatus EXCEPT ![Delivery(d)] = to], [reason EXCEPT ![d] = why], {})
        /\ Leave(Delivery(d)) /\ UNCHANGED <<retired, astatus, revision>>
    BY <1>1 DEF FinishDelivery
  <2> HIDE DEF to, why
  <2>4. /\ [tstatus EXCEPT ![Delivery(d)] = to] \in [Tasks -> Statuses \cup {"absent"}]
        /\ [reason EXCEPT ![d] = why] \in [Deliveries -> Reasons]
    BY <2>1, <2>2 DEF TypeOK
  <2>5. /\ tstatus' \in [Tasks -> Statuses \cup {"absent"}]
        /\ reason' \in [Deliveries -> Reasons]
        /\ dispatch' \in [Deliveries -> Dispatches]
    BY <1>0, <2>3, <2>4, StoreTasksTyped
  <2> QED BY <2>3, <2>5 DEF Leave, TypeOK
<1>2. ASSUME NEW a \in Allocs, FinishEngineering(a, o) PROVE TypeOK'
  <2> DEFINE to == Ended(o, IF repo = "ready" /\ submitted[a] = revision[a] /\ Frozen(a)
                            THEN "completed" ELSE "failed")
  <2>1. to \in Statuses BY DEF Ended, Statuses
  <2>3. /\ StoreTasks([tstatus EXCEPT ![Work(a)] = to], reason, {})
        /\ Leave(Work(a)) /\ UNCHANGED <<astatus, revision>> /\ RetireIf(a[2], Terminal(to))
    BY <1>2 DEF FinishEngineering
  <2> HIDE DEF to
  <2>4. /\ [tstatus EXCEPT ![Work(a)] = to] \in [Tasks -> Statuses \cup {"absent"}]
        /\ reason \in [Deliveries -> Reasons]
    BY <2>1 DEF TypeOK
  <2>5. /\ tstatus' \in [Tasks -> Statuses \cup {"absent"}]
        /\ reason' \in [Deliveries -> Reasons]
        /\ dispatch' \in [Deliveries -> Dispatches]
    BY <1>0, <2>3, <2>4, StoreTasksTyped
  <2>6. retired' \subseteq Temporary BY <2>3 DEF RetireIf, TypeOK
  <2> QED BY <2>3, <2>5, <2>6 DEF Leave, TypeOK
<1>3. ASSUME NEW r \in Rounds, FinishReview(r, o) PROVE TypeOK'
  <2> DEFINE d == r[1]
             to == Ended(o, IF Reviewed(r) THEN "completed" ELSE "failed")
             changes == to = "completed" /\ verdict[r] = "changes_required"
             limit == changes /\ ~RoundsLeft(r)
             again == IF changes /\ ~limit THEN {<<d, w>> : w \in affected[r]} ELSE {}
             moved == [tstatus EXCEPT ![Review(r)] = to]
             st == [t \in Tasks |-> IF limit /\ t = Delivery(d) THEN "blocked"
                                    ELSE IF t \in {Work(a) : a \in again} THEN "queued"
                                    ELSE moved[t]]
             rs == IF limit THEN [reason EXCEPT ![d] = "other"] ELSE reason
  <2>1. to \in Statuses BY DEF Ended, Statuses
  <2>2. again # {} => r[2] + 1 \in 0 .. MaxReviewRounds BY DEF RoundsLeft
  <2>3. /\ StoreTasks(st, rs, {})
        /\ Leave(Review(r)) /\ UNCHANGED retired
        /\ astatus' = [a \in Allocs |-> IF a \in again THEN "active" ELSE astatus[a]]
        /\ revision' = [a \in Allocs |-> IF a \in again THEN r[2] + 1 ELSE revision[a]]
    BY <1>3 DEF FinishReview
  <2> HIDE DEF to, limit, again
  <2>4. st \in [Tasks -> Statuses \cup {"absent"}] /\ rs \in [Deliveries -> Reasons]
    BY <2>1 DEF TypeOK, Statuses, Reasons
  <2> HIDE DEF st, rs
  <2>5. /\ tstatus' \in [Tasks -> Statuses \cup {"absent"}]
        /\ reason' \in [Deliveries -> Reasons]
        /\ dispatch' \in [Deliveries -> Dispatches]
    BY <1>0, <2>3, <2>4, StoreTasksTyped
  <2>6. astatus' \in [Allocs -> AllocStatuses] BY <2>3 DEF TypeOK, AllocStatuses
  <2>7. revision' \in [Allocs -> 0 .. MaxReviewRounds]
    <3>1. ASSUME NEW a \in Allocs
          PROVE  (IF a \in again THEN r[2] + 1 ELSE revision[a]) \in 0 .. MaxReviewRounds
      <4>1. CASE a \in again BY <2>2, <4>1
      <4>2. CASE a \notin again BY <4>2 DEF TypeOK
      <4> QED BY <4>1, <4>2
    <3> QED BY <2>3, <3>1
  <2> QED BY <2>3, <2>5, <2>6, <2>7 DEF Leave, TypeOK
<1> QED BY <1>1, <1>2, <1>3

\* The latest submissions of a delivery are a packet.
LEMMA LatestTyped ==
    ASSUME TypeOK, NEW d \in Deliveries
    PROVE  Latest(d) \in [Engineers -> 0 .. MaxReviewRounds]
BY PairTypes DEF Latest, TypeOK

\* The CTO's tools keep the types.
LEMMA TypeCTO ==
    ASSUME TypeOK, CTOStep
    PROVE  TypeOK'
<1> USE TaskKinds, PairTypes, EngineeringAssumption DEF volatileVars, gitVars, reviewVars, integrationVars, allocVars, taskVars, Commits
<1>1. ASSUME NEW d \in Deliveries, NEW W \in SUBSET Engineers, AssignEngineering(d, W)
      PROVE  TypeOK'
  <2>1. tstatus' \in [Tasks -> Statuses \cup {"absent"}]
    BY <1>1 DEF AssignEngineering, TypeOK, Statuses
  <2>2. astatus' \in [Allocs -> AllocStatuses] BY <1>1 DEF AssignEngineering, TypeOK, AllocStatuses
  <2>3. revision' \in [Allocs -> 0 .. MaxReviewRounds] BY <1>1 DEF AssignEngineering, TypeOK
  <2>4. base' \in [Deliveries -> Commits] BY <1>1 DEF AssignEngineering, TypeOK
  <2>5. fresh' \subseteq Tasks
    <3>1. \A w \in W : Work(<<d, w>>) \in Tasks OBVIOUS
    <3>2. fresh' = fresh \cup {Work(<<d, w>>) : w \in W} BY <1>1 DEF AssignEngineering
    <3>3. fresh \subseteq Tasks BY DEF TypeOK
    <3> HIDE DEF Tasks, Work, Allocs
    <3> QED BY ONLY <3>1, <3>2, <3>3
  <2>6. step' \in Steps /\ on' \in {<<e>> : e \in Deliveries}
    BY <1>1 DEF AssignEngineering, Steps
  <2> QED BY <1>1, <2>1, <2>2, <2>3, <2>4, <2>5, <2>6 DEF AssignEngineering, TypeOK
<1>2. ASSUME NEW ok \in BOOLEAN, AddWorktrees(ok) PROVE TypeOK'
  <2>1. astatus' \in [Allocs -> AllocStatuses] BY <1>2 DEF AddWorktrees, TypeOK, AllocStatuses
  <2> QED BY <1>2, <2>1 DEF AddWorktrees, TypeOK, Steps
<1>3. ASSUME NEW r \in Rounds, AssignReview(r) PROVE TypeOK'
  <2>1. Latest(r[1]) \in [Engineers -> 0 .. MaxReviewRounds] BY LatestTyped
  <2>2. packet' \in [Rounds -> [Engineers -> 0 .. MaxReviewRounds]]
    BY <1>3, <2>1 DEF AssignReview, TypeOK
  <2> QED BY <1>3, <2>2 DEF AssignReview, TypeOK, Statuses
<1>4. ASSUME NEW r \in Rounds, QueueIntegration(r) PROVE TypeOK'
  <2>1. istatus' \in [Rounds -> IntegrationStatuses]
    BY <1>4 DEF QueueIntegration, TypeOK, IntegrationStatuses
  <2>2. intents' \in Seq(Rounds)
    <3>1. intents' = Append(intents, r) /\ intents \in Seq(Rounds) BY <1>4 DEF QueueIntegration, TypeOK
    <3> QED BY ONLY <3>1, r \in Rounds, AppendProperties
  <2> QED BY <1>4, <2>1, <2>2 DEF QueueIntegration, TypeOK
<1>5. ASSUME NEW d \in Deliveries, NEW o \in Outcomes, FinishDelivery(d, o) PROVE TypeOK'
  BY <1>5, TypeFinish
<1> QED BY <1>1, <1>2, <1>3, <1>4, <1>5 DEF CTOStep

\* The engineers' and the reviewer's tools keep the types.
LEMMA TypeWork ==
    ASSUME TypeOK, (\E a \in Allocs : EngineerStep(a)) \/ (\E r \in Rounds : ReviewerStep(r))
    PROVE  TypeOK'
<1> USE TaskKinds, PairTypes, EngineeringAssumption DEF volatileVars, gitVars, reviewVars, integrationVars, allocVars, taskVars, Commits
<1>1. ASSUME NEW a \in Allocs, WriteSource(a) PROVE TypeOK'
  BY <1>1 DEF WriteSource, TypeOK
<1>2. ASSUME NEW a \in Allocs, NEW to \in {"submitting", "committing"}, BeginCommit(a, to)
      PROVE  TypeOK'
  <2>1. step' \in Steps /\ on' \in Allocs BY <1>2 DEF BeginCommit, Steps
  <2> QED BY <1>2, <2>1 DEF BeginCommit, TypeOK, AllocStatuses
<1>3. ASSUME NEW a \in Allocs, RecordCommit(a) PROVE TypeOK'
  <2>1. step' \in Steps /\ on' = Nothing BY <1>3 DEF RecordCommit, Steps
  <2>2. submitted' \in [Allocs -> 0 .. MaxReviewRounds] BY <1>3 DEF RecordCommit, TypeOK
  <2>3. astatus' \in [Allocs -> AllocStatuses] BY <1>3 DEF RecordCommit, TypeOK, AllocStatuses
  <2> QED BY <1>3, <2>1, <2>2, <2>3 DEF RecordCommit, TypeOK
<1>4. ASSUME NEW a \in Allocs, CommitFails(a) PROVE TypeOK'
  BY <1>4 DEF CommitFails, TypeOK, AllocStatuses, Steps
<1>5. ASSUME NEW r \in Rounds, NEW v \in Verdicts, NEW W \in SUBSET Engineers, SubmitReview(r, v, W)
      PROVE  TypeOK'
  <2>1. astatus' \in [Allocs -> AllocStatuses] BY <1>5 DEF SubmitReview, TypeOK, AllocStatuses
  <2> QED BY <1>5, <2>1 DEF SubmitReview, TypeOK
<1>6. ASSUME NEW o \in Outcomes, NEW a \in Allocs, FinishEngineering(a, o) PROVE TypeOK'
  BY <1>6, TypeFinish
<1>7. ASSUME NEW o \in Outcomes, NEW r \in Rounds, FinishReview(r, o) PROVE TypeOK'
  BY <1>7, TypeFinish
<1> QED BY <1>1, <1>2, <1>3, <1>4, <1>5, <1>6, <1>7 DEF EngineerStep, ReviewerStep

\* The steps of the integration queue keep the types.
LEMMA TypeQueue ==
    ASSUME TypeOK, NEW r \in Rounds, QueueStep(r)
    PROVE  TypeOK'
<1> USE TaskKinds, PairTypes, EngineeringAssumption DEF volatileVars, gitVars, reviewVars, integrationVars, allocVars, taskVars, Commits
<1>0. MergeOf(r) \in Commits BY DEF MergeOf, TypeOK
<1>1. CASE StartIntegration(r)
  BY <1>1, HeadTailProperties DEF StartIntegration, TypeOK, IntegrationStatuses, Steps
<1>2. CASE RefuseIntegration(r)
  BY <1>2 DEF RefuseIntegration, Settle, TypeOK, IntegrationStatuses, Steps
<1>3. ASSUME NEW outcome \in {"failing", "passing"}, BuildCandidate(r, outcome) PROVE TypeOK'
  BY <1>3 DEF BuildCandidate, TypeOK, Steps
<1>4. CASE FailIntegration(r)
  BY <1>4 DEF FailIntegration, Settle, TypeOK, IntegrationStatuses, Steps
<1>5. CASE MergeCandidate(r)
  BY <1>0, <1>5 DEF MergeCandidate, TypeOK, Steps
<1>6. CASE CompleteIntegration(r)
  <2>1. astatus' \in [Allocs -> AllocStatuses]
    BY <1>6 DEF CompleteIntegration, TypeOK, AllocStatuses
  <2> QED BY <1>6, <2>1 DEF CompleteIntegration, Settle, TypeOK, IntegrationStatuses, Steps
<1>7. CASE FailAfterMerge(r)
  BY <1>7 DEF FailAfterMerge, Settle, TypeOK, IntegrationStatuses, Steps
<1>8. CASE BlockRepository(r)
  BY <1>8 DEF BlockRepository, TypeOK, Steps
<1>9. CASE WakeDelivery(r)
  <2>1. tstatus' \in [Tasks -> Statuses \cup {"absent"}]
    BY <1>9 DEF WakeDelivery, Requeued, TypeOK, Statuses
  <2>2. reason' \in [Deliveries -> Reasons] BY <1>9 DEF WakeDelivery, Cleared, TypeOK, Reasons
  <2>3. dispatch' \in [Deliveries -> Dispatches] BY <1>9 DEF WakeDelivery, TypeOK, Dispatches
  <2>4. step' \in Steps /\ on' = Nothing BY <1>9 DEF WakeDelivery, Steps
  <2> QED BY <1>9, <2>1, <2>2, <2>3, <2>4 DEF WakeDelivery, TypeOK
<1> QED BY <1>1, <1>2, <1>3, <1>4, <1>5, <1>6, <1>7, <1>8, <1>9 DEF QueueStep

\* A crash and the recovery at the next start keep the types.
LEMMA TypeProcess ==
    ASSUME TypeOK, Crash \/ Start
    PROVE  TypeOK'
<1> USE TaskKinds, PairTypes, EngineeringAssumption DEF volatileVars, gitVars, reviewVars, integrationVars, allocVars, taskVars, Commits
<1>1. CASE Crash
  BY <1>1 DEF Crash, TypeOK, Steps
<1>2. CASE Start
  <2> DEFINE lost == {t \in running : tstatus[t] = "working"}
             st == [t \in Tasks |-> IF t \in lost THEN "blocked" ELSE tstatus[t]]
             rs == [d \in Deliveries |-> IF Delivery(d) \in lost THEN "other" ELSE reason[d]]
             done == {r \in Interrupted : Advanced(r)}
             woken == Woken(Interrupted, st, rs)
             suspect == {a \in Allocs : \/ astatus[a] \in {"allocating", "submitting", "blocked"}
                                        \/ astatus[a] = "active" /\ st[Work(a)] = "blocked"}
             st2 == [t \in Tasks |-> IF st[t] = "queued" /\ \E a \in suspect : t = Work(a)
                                     THEN "blocked" ELSE Requeued(st, woken)[t]]
  <2>1. /\ StoreTasks(st2, Cleared(rs, woken), woken)
        /\ running' = {} /\ up' = TRUE
        /\ astatus' = [a \in Allocs |-> IF \E r \in done : a \in Sources(r) THEN "integrated"
                                        ELSE IF a \in suspect THEN "blocked" ELSE astatus[a]]
        /\ istatus' = [r \in Rounds |-> IF r \in done THEN "completed"
                                        ELSE IF r \in Interrupted THEN "blocked" ELSE istatus[r]]
        /\ repo' = IF Interrupted \ done # {} THEN "blocked" ELSE repo
        /\ current' = IF done # {} THEN head ELSE current
        /\ UNCHANGED <<fresh, retired, paused, revision, submitted, base, reviewVars, candidate,
                       intents, runners, step, on, gitVars>>
    BY <1>2 DEF Start
  <2>2. st \in [Tasks -> Statuses \cup {"absent"}] /\ rs \in [Deliveries -> Reasons]
    BY DEF TypeOK, Statuses, Reasons
  <2> HIDE DEF st, rs, woken, suspect, done
  <2>3. st2 \in [Tasks -> Statuses \cup {"absent"}] /\ Cleared(rs, woken) \in [Deliveries -> Reasons]
    BY <2>2 DEF Requeued, Cleared, Statuses, Reasons
  <2> HIDE DEF st2
  <2>4. dispatch \in [Deliveries -> Dispatches] BY DEF TypeOK
  <2>5. /\ tstatus' \in [Tasks -> Statuses \cup {"absent"}]
        /\ reason' \in [Deliveries -> Reasons]
        /\ dispatch' \in [Deliveries -> Dispatches]
    BY <2>1, <2>3, <2>4, StoreTasksTyped
  <2>6. astatus' \in [Allocs -> AllocStatuses] BY <2>1 DEF TypeOK, AllocStatuses
  <2>7. istatus' \in [Rounds -> IntegrationStatuses] BY <2>1 DEF TypeOK, IntegrationStatuses
  <2>8. repo' \in {"ready", "blocked"} /\ current' \in Commits BY <2>1 DEF TypeOK
  <2> QED BY <2>1, <2>5, <2>6, <2>7, <2>8 DEF TypeOK
<1> QED BY <1>1, <1>2

\* A step of any actor keeps the types.
LEMMA TypeStep == TypeOK /\ [Next]_vars => TypeOK'
<1> SUFFICES ASSUME TypeOK, [Next]_vars PROVE TypeOK' OBVIOUS
<1>1. CASE Next BY <1>1, TypeDeliveryAndClaim, TypeOwner, TypeCTO, TypeWork, TypeQueue, TypeProcess DEF Next
<1>2. CASE UNCHANGED vars
  BY <1>2 DEF vars, taskVars, allocVars, reviewVars, integrationVars, volatileVars, gitVars, TypeOK, Commits
<1> QED BY <1>1, <1>2

\* Every variable keeps its type; in particular no revision exceeds the review rounds
\* that the policy allows (engineering.ts, afterFinish).
THEOREM TypeCorrect == Spec => []TypeOK
BY TypeInit, TypeStep, PTL DEF Spec

-----------------------------------------------------------------------------
\* settleParents leaves no delivery waiting for children that have ended, provided that
\* none waits without children.
LEMMA StoredAwake ==
    ASSUME TypeOK, NoLostWakeup,
           NEW st \in [Tasks -> Statuses \cup {"absent"}], NEW rs \in [Deliveries -> Reasons],
           NEW woken, StoreTasks(st, rs, woken),
           \A d \in Deliveries : st[Delivery(d)] = "blocked" /\ rs[d] = "waiting_children" =>
              \/ tstatus[Delivery(d)] = "blocked" /\ reason[d] = "waiting_children"
              \/ Children(tstatus, d) # {},
           \A t \in Tasks : t[1] # "delivery" /\ tstatus[t] # "absent" => st[t] # "absent"
    PROVE  NoLostWakeup'
<1> DEFINE back == Handback(st, rs)
<1>1. tstatus' = Requeued(st, back) /\ reason' = Cleared(rs, back) BY DEF StoreTasks
<1>2. \A d \in back : d \in Deliveries BY DEF Handback
<1> SUFFICES ASSUME NEW d \in Deliveries, tstatus'[Delivery(d)] = "blocked",
                    reason'[d] = "waiting_children"
             PROVE  ~AllEnded(tstatus', d)
  BY DEF NoLostWakeup
<1>3. d \notin back /\ rs[d] = "waiting_children"
  <2> HIDE DEF back
  <2> QED BY <1>1 DEF Cleared
<1>4. st[Delivery(d)] = "blocked"
  <2> HIDE DEF back
  <2> QED BY <1>1, TaskKinds DEF Requeued
<1>5. Children(st, d) # {}
  <2>1. CASE Children(tstatus, d) # {} BY <2>1 DEF Children
  <2>2. CASE tstatus[Delivery(d)] = "blocked" /\ reason[d] = "waiting_children"
    BY <2>2 DEF NoLostWakeup, AllEnded, Children
  <2> QED BY <1>3, <1>4, <2>1, <2>2
<1>6. PICK t \in Children(st, d) : ~Terminal(st[t])
  BY <1>3, <1>4, <1>5 DEF Handback, AllEnded
<1>7. t \in Tasks /\ t[1] # "delivery" /\ t[2] = d /\ st[t] # "absent" BY <1>6 DEF Children
<1>8. \A e \in back : t # Delivery(e) BY <1>7 DEF Delivery
<1>9. tstatus'[t] = st[t]
  <2> HIDE DEF back
  <2> QED BY <1>1, <1>7, <1>8 DEF Requeued
<1> QED BY <1>6, <1>7, <1>9 DEF AllEnded, Children

\* A delivery keeps waiting for a child that has not ended.
LEMMA KeptAwake ==
    ASSUME NoLostWakeup,
           \A d \in Deliveries : tstatus'[Delivery(d)] = "blocked" /\ reason'[d] = "waiting_children" =>
              tstatus[Delivery(d)] = "blocked" /\ reason[d] = "waiting_children",
           \A t \in Tasks : t[1] # "delivery" /\ tstatus[t] # "absent" /\ ~Terminal(tstatus[t]) =>
              tstatus'[t] # "absent" /\ ~Terminal(tstatus'[t])
    PROVE  NoLostWakeup'
BY DEF NoLostWakeup, AllEnded, Children

\* Executions, retries and cancellations wake every delivery they should.
LEMMA AwakeTasks ==
    ASSUME TypeOK, NoLostWakeup,
           \/ \E d \in Deliveries : AssignDelivery(d)
           \/ \E t \in Tasks : Claim(t) \/ FinishThrows(t)
           \/ OwnerStep
    PROVE  NoLostWakeup'
<1> USE TaskKinds DEF taskVars
<1>0. tstatus \in [Tasks -> Statuses \cup {"absent"}] /\ reason \in [Deliveries -> Reasons]
  BY DEF TypeOK
<1>1. ASSUME NEW d \in Deliveries, AssignDelivery(d) PROVE NoLostWakeup'
  BY <1>0, <1>1, KeptAwake DEF AssignDelivery, Delivery
<1>2. ASSUME NEW t \in Tasks, Claim(t) PROVE NoLostWakeup'
  BY <1>0, <1>2, KeptAwake DEF Claim, Terminal, Delivery
<1>3. ASSUME NEW t \in Tasks, Retry(t) PROVE NoLostWakeup'
  BY <1>0, <1>3, KeptAwake DEF Retry, Terminal, Delivery
<1>4. ASSUME NEW t \in Tasks, Cancel(t) PROVE NoLostWakeup'
  <2> DEFINE st == [tstatus EXCEPT ![t] = "cancelled"]
             rs == [d \in Deliveries |-> IF t = Delivery(d) THEN "none" ELSE reason[d]]
  <2>1. StoreTasks(st, rs, {}) BY <1>4 DEF Cancel
  <2>2. st \in [Tasks -> Statuses \cup {"absent"}] /\ rs \in [Deliveries -> Reasons]
    BY <1>0 DEF Statuses, Reasons
  <2>3. /\ \A d \in Deliveries : st[Delivery(d)] = "blocked" /\ rs[d] = "waiting_children" =>
              tstatus[Delivery(d)] = "blocked" /\ reason[d] = "waiting_children"
        /\ \A u \in Tasks : tstatus[u] # "absent" => st[u] # "absent"
    BY <1>0
  <2> HIDE DEF st, rs
  <2> QED BY <2>1, <2>2, <2>3, StoredAwake
<1>5. CASE \/ \E b \in BOOLEAN : Pause(b)
           \/ \E a \in Allocs : Release(a)
           \/ \E t \in Tasks : FinishThrows(t)
  <2>1. UNCHANGED <<tstatus, reason>> BY <1>5 DEF Pause, Release, FinishThrows
  <2> QED BY <2>1, KeptAwake
<1> QED BY <1>1, <1>2, <1>3, <1>4, <1>5 DEF OwnerStep

\* So does the end of an execution.
LEMMA AwakeFinish ==
    ASSUME TypeOK, NoLostWakeup, NEW o \in Outcomes,
           \/ \E d \in Deliveries : FinishDelivery(d, o)
           \/ \E a \in Allocs : FinishEngineering(a, o)
           \/ \E r \in Rounds : FinishReview(r, o)
    PROVE  NoLostWakeup'
<1> USE TaskKinds
<1>0. tstatus \in [Tasks -> Statuses \cup {"absent"}] /\ reason \in [Deliveries -> Reasons]
  BY DEF TypeOK
<1>1. ASSUME NEW d \in Deliveries, FinishDelivery(d, o) PROVE NoLostWakeup'
  <2> DEFINE held == o = "completed" /\ (Waiting(d) \/ WaitingIntegration(d))
             to == IF held THEN "blocked" ELSE Ended(o, IF Integrated(d) THEN "completed" ELSE "failed")
             why == IF ~held THEN IF to = "blocked" THEN "other" ELSE "none"
                    ELSE IF WaitingIntegration(d) THEN "waiting_integration" ELSE "waiting_children"
             st == [tstatus EXCEPT ![Delivery(d)] = to]
             rs == [reason EXCEPT ![d] = why]
  <2>1. StoreTasks(st, rs, {}) BY <1>1 DEF FinishDelivery
  <2>2. to \in Statuses /\ why \in Reasons BY DEF Ended, Statuses, Reasons
  <2>3. why = "waiting_children" => Children(tstatus, d) # {} BY DEF Waiting
  <2> HIDE DEF to, why
  <2>4. st \in [Tasks -> Statuses \cup {"absent"}] /\ rs \in [Deliveries -> Reasons] BY <1>0, <2>2
  <2>5. \A e \in Deliveries : st[Delivery(e)] = "blocked" /\ rs[e] = "waiting_children" =>
           \/ tstatus[Delivery(e)] = "blocked" /\ reason[e] = "waiting_children"
           \/ Children(tstatus, e) # {}
    <3>1. ASSUME NEW e \in Deliveries, e # d PROVE st[Delivery(e)] = tstatus[Delivery(e)] /\ rs[e] = reason[e]
      BY <1>0, <3>1 DEF Delivery
    <3>2. rs[d] = why BY <1>0
    <3> QED BY <2>3, <3>1, <3>2
  <2>6. \A u \in Tasks : u[1] # "delivery" /\ tstatus[u] # "absent" => st[u] # "absent"
    BY <1>0 DEF Delivery
  <2> HIDE DEF st, rs
  <2> QED BY <2>1, <2>4, <2>5, <2>6, StoredAwake
<1>2. ASSUME NEW a \in Allocs, FinishEngineering(a, o) PROVE NoLostWakeup'
  <2> DEFINE to == Ended(o, IF repo = "ready" /\ submitted[a] = revision[a] /\ Frozen(a)
                            THEN "completed" ELSE "failed")
             st == [tstatus EXCEPT ![Work(a)] = to]
  <2>1. StoreTasks(st, reason, {}) BY <1>2 DEF FinishEngineering
  <2>2. to \in Statuses BY DEF Ended, Statuses
  <2> HIDE DEF to
  <2>3. st \in [Tasks -> Statuses \cup {"absent"}] BY <1>0, <2>2
  <2>4. \A e \in Deliveries : st[Delivery(e)] = tstatus[Delivery(e)] BY <1>0 DEF Delivery, Work
  <2>5. \A u \in Tasks : tstatus[u] # "absent" => st[u] # "absent" BY <1>0, <2>2 DEF Statuses
  <2> HIDE DEF st
  <2> QED BY <1>0, <2>1, <2>3, <2>4, <2>5, StoredAwake
<1>3. ASSUME NEW r \in Rounds, FinishReview(r, o) PROVE NoLostWakeup'
  <2> DEFINE d == r[1]
             to == Ended(o, IF Reviewed(r) THEN "completed" ELSE "failed")
             changes == to = "completed" /\ verdict[r] = "changes_required"
             limit == changes /\ ~RoundsLeft(r)
             again == IF changes /\ ~limit THEN {<<d, w>> : w \in affected[r]} ELSE {}
             moved == [tstatus EXCEPT ![Review(r)] = to]
             st == [t \in Tasks |-> IF limit /\ t = Delivery(d) THEN "blocked"
                                    ELSE IF t \in {Work(a) : a \in again} THEN "queued"
                                    ELSE moved[t]]
             rs == IF limit THEN [reason EXCEPT ![d] = "other"] ELSE reason
  <2>1. StoreTasks(st, rs, {}) BY <1>3 DEF FinishReview
  <2>2. to \in Statuses /\ d \in Deliveries BY PairTypes DEF Ended, Statuses
  <2> HIDE DEF to, limit, again, d
  <2>3. st \in [Tasks -> Statuses \cup {"absent"}] /\ rs \in [Deliveries -> Reasons]
    BY <1>0, <2>2 DEF Statuses, Reasons
  <2>4. ASSUME NEW e \in Deliveries, st[Delivery(e)] = "blocked", rs[e] = "waiting_children"
        PROVE  tstatus[Delivery(e)] = "blocked" /\ reason[e] = "waiting_children"
    <3>1. Delivery(e) # Review(r) /\ (Delivery(e) = Delivery(d) => e = d) BY DEF Delivery, Review
    <3>2. ~(limit /\ e = d) BY <1>0, <2>2, <2>4
    <3>3. rs[e] = reason[e] BY <1>0, <3>2
    <3>4. st[Delivery(e)] # "queued" => st[Delivery(e)] = tstatus[Delivery(e)]
      BY <1>0, <3>1, <3>2
    <3> QED BY <2>4, <3>3, <3>4
  <2>5. \A u \in Tasks : tstatus[u] # "absent" => st[u] # "absent" BY <1>0, <2>2 DEF Statuses
  <2> HIDE DEF st, rs
  <2> QED BY <2>1, <2>3, <2>4, <2>5, StoredAwake
<1> QED BY <1>1, <1>2, <1>3

\* The tools only add children, and the queue wakes deliveries that wait for it.
LEMMA AwakeTools ==
    ASSUME TypeOK, NoLostWakeup,
           \/ \E d \in Deliveries, W \in SUBSET Engineers : AssignEngineering(d, W)
           \/ \E ok \in BOOLEAN : AddWorktrees(ok)
           \/ \E r \in Rounds : AssignReview(r) \/ QueueIntegration(r) \/ QueueStep(r)
           \/ \E a \in Allocs : \/ WriteSource(a)
                                \/ \E to \in {"submitting", "committing"} : BeginCommit(a, to)
                                \/ RecordCommit(a) \/ CommitFails(a)
           \/ \E r \in Rounds, v \in Verdicts, W \in SUBSET Engineers : SubmitReview(r, v, W)
           \/ Crash
    PROVE  NoLostWakeup'
<1> USE TaskKinds, PairTypes DEF taskVars
<1>0. tstatus \in [Tasks -> Statuses \cup {"absent"}] /\ reason \in [Deliveries -> Reasons]
  BY DEF TypeOK
<1>1. ASSUME NEW d \in Deliveries, NEW W \in SUBSET Engineers, AssignEngineering(d, W)
      PROVE  NoLostWakeup'
  <2>1. /\ tstatus' = [t \in Tasks |-> IF t \in {Work(<<d, w>>) : w \in W} THEN "queued" ELSE tstatus[t]]
        /\ reason' = reason
    BY <1>1 DEF AssignEngineering
  <2>2. \A e \in Deliveries : Delivery(e) \notin {Work(<<d, w>>) : w \in W} BY DEF Delivery, Work
  <2> QED BY <1>0, <2>1, <2>2, KeptAwake DEF Terminal
<1>2. ASSUME NEW r \in Rounds, AssignReview(r) PROVE NoLostWakeup'
  BY <1>0, <1>2, KeptAwake DEF AssignReview, Delivery, Review, Terminal
<1>3. ASSUME NEW r \in Rounds, WakeDelivery(r) PROVE NoLostWakeup'
  <2> DEFINE woken == Woken({r}, tstatus, reason)
  <2>1. tstatus' = Requeued(tstatus, woken) /\ reason' = Cleared(reason, woken)
    BY <1>3 DEF WakeDelivery
  <2>2. \A t \in Tasks : t[1] # "delivery" => \A d \in woken : t # Delivery(d) BY DEF Delivery
  <2> HIDE DEF woken
  <2> QED BY <1>0, <2>1, <2>2, KeptAwake DEF Requeued, Cleared
<1>4. CASE ~(\/ \E d \in Deliveries, W \in SUBSET Engineers : AssignEngineering(d, W)
             \/ \E r \in Rounds : AssignReview(r) \/ WakeDelivery(r))
  <2>1. UNCHANGED <<tstatus, reason>>
    BY <1>4 DEF AddWorktrees, QueueIntegration, WriteSource, BeginCommit, RecordCommit, CommitFails,
       SubmitReview, Crash, QueueStep, StartIntegration, RefuseIntegration, BuildCandidate,
       FailIntegration, MergeCandidate, CompleteIntegration, FailAfterMerge, BlockRepository, Settle
  <2> QED BY <2>1, KeptAwake
<1> QED BY <1>1, <1>2, <1>3, <1>4

\* Recovery blocks interrupted tasks, and wakes the deliveries whose children it ends.
LEMMA AwakeStart ==
    ASSUME TypeOK, NoLostWakeup, Start
    PROVE  NoLostWakeup'
<1> USE TaskKinds
<1>0. tstatus \in [Tasks -> Statuses \cup {"absent"}] /\ reason \in [Deliveries -> Reasons]
  BY DEF TypeOK
<1> DEFINE lost == {t \in running : tstatus[t] = "working"}
           st == [t \in Tasks |-> IF t \in lost THEN "blocked" ELSE tstatus[t]]
           rs == [d \in Deliveries |-> IF Delivery(d) \in lost THEN "other" ELSE reason[d]]
           woken == Woken(Interrupted, st, rs)
           suspect == {a \in Allocs : \/ astatus[a] \in {"allocating", "submitting", "blocked"}
                                      \/ astatus[a] = "active" /\ st[Work(a)] = "blocked"}
           st2 == [t \in Tasks |-> IF st[t] = "queued" /\ \E a \in suspect : t = Work(a)
                                   THEN "blocked" ELSE Requeued(st, woken)[t]]
           rs2 == Cleared(rs, woken)
<1>1. StoreTasks(st2, rs2, woken) BY DEF Start
<1>2. woken \subseteq Deliveries BY DEF Woken
<1> HIDE DEF woken, suspect
<1>3. st2 \in [Tasks -> Statuses \cup {"absent"}] /\ rs2 \in [Deliveries -> Reasons]
  BY <1>0 DEF Requeued, Cleared, Statuses, Reasons
<1>4. \A u \in Tasks : tstatus[u] # "absent" => st2[u] # "absent" BY <1>0 DEF Requeued
<1>5. ASSUME NEW d \in Deliveries, st2[Delivery(d)] = "blocked", rs2[d] = "waiting_children"
      PROVE  tstatus[Delivery(d)] = "blocked" /\ reason[d] = "waiting_children"
  <2>1. rs[d] = "waiting_children" BY <1>5 DEF Cleared
  <2>2. reason[d] = "waiting_children" /\ Delivery(d) \notin lost BY <2>1
  <2>3. \A a \in suspect : Delivery(d) # Work(a) BY DEF Delivery, Work
  <2>4. Requeued(st, woken)[Delivery(d)] = "blocked" BY <1>5, <2>3
  <2>5. st[Delivery(d)] = "blocked" BY <2>4 DEF Requeued
  <2> QED BY <2>2, <2>5
<1> HIDE DEF st2, rs2
<1> QED BY <1>1, <1>3, <1>4, <1>5, StoredAwake

\* A delivery that waits for its children has one that has not ended, whether children
\* end, are retried, cancelled, sent back by a review or interrupted by a crash
\* (company.ts, settleParents; engineering.ts, afterFinish).
THEOREM WakeupsKept == Spec => []NoLostWakeup
<1>1. Init => NoLostWakeup BY TaskKinds DEF Init, NoLostWakeup
<1>2. TypeOK /\ NoLostWakeup /\ [Next]_vars => NoLostWakeup'
  <2> SUFFICES ASSUME TypeOK, NoLostWakeup, [Next]_vars PROVE NoLostWakeup' OBVIOUS
  <2>1. CASE Next
    BY <2>1, AwakeTasks, AwakeFinish, AwakeTools, AwakeStart
       DEF Next, CTOStep, EngineerStep, ReviewerStep
  <2>2. CASE UNCHANGED vars BY <2>2, KeptAwake DEF vars, taskVars
  <2> QED BY <2>1, <2>2
<1> QED BY <1>1, <1>2, TypeCorrect, PTL DEF Spec

-----------------------------------------------------------------------------
(* The default branch, its record and its contract.                       *)

MergeSteps == {"running", "candidate", "merged", "diverged", "settled"}
Completed == {r \in Rounds : istatus[r] = "completed"}

\* The intents are the queued integrations, each of them once.
Queued ==
    /\ \A i \in DOMAIN intents : istatus[intents[i]] = "queued"
    /\ \A i, j \in DOMAIN intents : intents[i] = intents[j] => i = j

\* The step of the queue tells which integration runs and where the branch is.
Position ==
    /\ ~up => step = "none"
    /\ step \in MergeSteps => on \in Rounds
    /\ step \in {"running", "candidate", "merged"} => istatus[on] = "running"
    /\ step = "diverged" => istatus[on] = "blocked"
    /\ \A r \in Rounds : up /\ istatus[r] = "running" =>
          step \in {"running", "candidate", "merged"} /\ on = r
    /\ \A q, r \in Rounds : istatus[q] = "running" /\ istatus[r] = "running" => q = r
    /\ step = "candidate" => head = current /\ current = base[on[1]]
    /\ step = "merged" => head = Append(current, on)

\* The branch is the recorded commit, or ahead of it by the merge of an attempt that
\* was not recorded.
Ahead ==
    \/ head = current
    \/ \E r \in Rounds : /\ head = Append(current, r)
                         /\ \/ istatus[r] = "blocked"
                            \/ istatus[r] = "running" /\ (up => step = "merged")

\* The recorded commit holds the completed integrations.
Recorded ==
    /\ {current[i] : i \in DOMAIN current} = Completed
    /\ IsFiniteSet(Completed)
    /\ Len(current) = Cardinality(Completed)

BranchInv == TypeOK /\ Queued /\ Position /\ Ahead /\ Recorded

-----------------------------------------------------------------------------
\* Nothing is recorded in the initial state.
LEMMA BranchInit == Init => BranchInv
<1> SUFFICES ASSUME Init PROVE BranchInv OBVIOUS
<1>1. TypeOK BY TypeInit
<1>2. Queued BY DEF Init, Queued
<1>3. Position BY DEF Init, Position, MergeSteps
<1>4. Ahead BY DEF Init, Ahead
<1>5. Completed = {} BY DEF Init, Completed
<1>6. {current[i] : i \in DOMAIN current} = {} /\ Len(current) = 0 BY DEF Init
<1>7. Recorded BY <1>5, <1>6, FS_EmptySet DEF Recorded
<1> QED BY <1>1, <1>2, <1>3, <1>4, <1>7 DEF BranchInv

\* The inductive invariant has BranchRecorded as a consequence.
LEMMA BranchImplied == BranchInv => BranchRecorded
BY DEF BranchInv, Ahead, Position, Recorded, Completed, BranchRecorded, Free

\* A handler other than the queue's leaves the branch and the record as they are.
LEMMA QuietKeeps ==
    ASSUME BranchInv, TypeOK',
           UNCHANGED <<istatus, intents, current, head>>,
           step \notin {"running", "candidate", "merged"} \/ ~up',
           up' => up,
           step' \notin MergeSteps,
           ~up' => step' = "none"
    PROVE  BranchInv'
<1>1. Queued' BY DEF BranchInv, Queued
<1>2. Position' BY DEF BranchInv, Position, MergeSteps
<1>3. Completed' = Completed BY DEF Completed
<1>4. Recorded' BY <1>3 DEF BranchInv, Recorded
<1>5. Ahead' BY DEF BranchInv, Ahead, Position
<1> QED BY <1>1, <1>2, <1>4, <1>5 DEF BranchInv

\* The steps of the owner, of the engineers, of the reviewer and of the CTO, but for
\* queueing an integration, and a crash.
HandlerStep ==
    \/ \E d \in Deliveries : AssignDelivery(d)
    \/ \E t \in Tasks : Claim(t) \/ FinishThrows(t)
    \/ OwnerStep
    \/ \E a \in Allocs : EngineerStep(a)
    \/ \E r \in Rounds : ReviewerStep(r)
    \/ \E d \in Deliveries, W \in SUBSET Engineers : AssignEngineering(d, W)
    \/ \E ok \in BOOLEAN : AddWorktrees(ok)
    \/ \E r \in Rounds : AssignReview(r)
    \/ \E d \in Deliveries, o \in Outcomes : FinishDelivery(d, o)
    \/ Crash

\* They are such handlers.
LEMMA HandlersQuiet ==
    ASSUME BranchInv, HandlerStep
    PROVE  /\ UNCHANGED <<istatus, intents, current, head>>
           /\ step \notin {"running", "candidate", "merged"} \/ ~up'
           /\ up' => up
           /\ step' \notin MergeSteps
           /\ ~up' => step' = "none"
<1> USE DEF integrationVars, volatileVars, gitVars, MergeSteps
<1>0. up \/ step = "none" BY DEF BranchInv, Position
<1>1. ASSUME NEW d \in Deliveries, AssignDelivery(d)
      PROVE  UNCHANGED <<integrationVars, volatileVars, gitVars>> /\ Free
  BY <1>1 DEF AssignDelivery
<1>2. ASSUME NEW t \in Tasks, Claim(t)
      PROVE  UNCHANGED <<integrationVars, up, step, on, gitVars>> /\ Free
  BY <1>2 DEF Claim
<1>3. ASSUME NEW t \in Tasks, FinishThrows(t)
      PROVE  UNCHANGED <<integrationVars, step, gitVars>> /\ Free /\ ~up'
  BY <1>3 DEF FinishThrows
<1>4. ASSUME OwnerStep
      PROVE  UNCHANGED <<integrationVars, volatileVars, gitVars>> /\ Free
  BY <1>4 DEF OwnerStep, Pause, Retry, Cancel, Release
<1>5. ASSUME NEW t, Leave(t)
      PROVE  UNCHANGED <<integrationVars, up, step, on, gitVars>> /\ Free
  BY <1>5 DEF Leave
<1>6. ASSUME NEW a \in Allocs, EngineerStep(a)
      PROVE  /\ UNCHANGED <<integrationVars, up, head>> /\ up
             /\ step \notin MergeSteps /\ step' \notin MergeSteps
  <2>1. CASE \E o \in Outcomes : FinishEngineering(a, o)
    BY <1>5, <2>1 DEF FinishEngineering, Free
  <2>2. CASE ~\E o \in Outcomes : FinishEngineering(a, o)
    BY <1>6, <2>2 DEF EngineerStep, WriteSource, BeginCommit, RecordCommit, CommitFails, Writable, MayAct, Free
  <2> QED BY <2>1, <2>2
<1>7. ASSUME NEW r \in Rounds, ReviewerStep(r)
      PROVE  UNCHANGED <<integrationVars, up, step, head>> /\ Free
  <2>1. CASE \E o \in Outcomes : FinishReview(r, o)
    BY <1>5, <2>1 DEF FinishReview
  <2>2. CASE \E v \in Verdicts, W \in SUBSET Engineers : SubmitReview(r, v, W)
    BY <2>2 DEF SubmitReview, MayAct
  <2> QED BY <1>7, <2>1, <2>2 DEF ReviewerStep
<1>8. ASSUME NEW d \in Deliveries, NEW W \in SUBSET Engineers, AssignEngineering(d, W)
      PROVE  UNCHANGED <<integrationVars, up, head>> /\ Free /\ step' = "allocating"
  BY <1>8 DEF AssignEngineering, MayAct
<1>9. ASSUME NEW ok \in BOOLEAN, AddWorktrees(ok)
      PROVE  /\ UNCHANGED <<integrationVars, up, head>> /\ up
             /\ step = "allocating" /\ step' = "none"
  BY <1>9 DEF AddWorktrees
<1>10. ASSUME NEW r \in Rounds, AssignReview(r)
       PROVE  UNCHANGED <<integrationVars, volatileVars, gitVars>> /\ Free
  BY <1>10 DEF AssignReview, MayAct
<1>11. ASSUME NEW d \in Deliveries, NEW o \in Outcomes, FinishDelivery(d, o)
       PROVE  UNCHANGED <<integrationVars, up, step, head>> /\ Free
  BY <1>5, <1>11 DEF FinishDelivery
<1>12. CASE Crash
  BY <1>12 DEF Crash
<1> QED
  BY <1>0, <1>1, <1>2, <1>3, <1>4, <1>6, <1>7, <1>8, <1>9, <1>10, <1>11, <1>12 DEF Free, HandlerStep

\* So they keep the invariant.
LEMMA HandlersKeep ==
    ASSUME BranchInv, TypeOK', HandlerStep
    PROVE  BranchInv'
BY HandlersQuiet, QuietKeeps

-----------------------------------------------------------------------------
\* A round is queued for integration once.
LEMMA QueueKeeps ==
    ASSUME BranchInv, TypeOK', NEW r \in Rounds, QueueIntegration(r)
    PROVE  BranchInv'
<1>1. /\ Free /\ istatus[r] = "none"
      /\ istatus' = [istatus EXCEPT ![r] = "queued"]
      /\ intents' = Append(intents, r)
      /\ UNCHANGED <<base, current, up, step, on, head>>
  BY DEF QueueIntegration, MayAct, allocVars, volatileVars, gitVars
<1>2. istatus \in [Rounds -> IntegrationStatuses] /\ intents \in Seq(Rounds)
  BY DEF BranchInv, TypeOK
<1>3. Queued'
  BY <1>1, <1>2 DEF BranchInv, Queued
<1>4. Position' BY <1>1, <1>2 DEF BranchInv, Position, Free, MergeSteps
<1>5. Ahead' BY <1>1, <1>2 DEF BranchInv, Ahead
<1>6. Completed' = Completed BY <1>1, <1>2 DEF Completed
<1>7. Recorded' BY <1>1, <1>6 DEF BranchInv, Recorded
<1> QED BY <1>3, <1>4, <1>5, <1>7 DEF BranchInv

\* An integration that ends short of the record leaves the record as it is.
LEMMA SettleKeeps ==
    ASSUME BranchInv, NEW r \in Rounds, istatus[r] = "running",
           NEW s \in {"failed", "blocked"}, istatus' = [istatus EXCEPT ![r] = s],
           UNCHANGED <<intents, current>>
    PROVE  Queued' /\ Recorded'
<1>1. istatus \in [Rounds -> IntegrationStatuses] /\ intents \in Seq(Rounds)
  BY DEF BranchInv, TypeOK
<1>2. Queued' BY <1>1 DEF BranchInv, Queued
<1>3. Completed' = Completed BY <1>1 DEF Completed
<1> QED BY <1>2, <1>3 DEF BranchInv, Recorded

\* A running integration that becomes the last of the record.
LEMMA RecordKeeps ==
    ASSUME BranchInv, NEW r \in Rounds, istatus[r] = "running",
           istatus' = [istatus EXCEPT ![r] = "completed"],
           current' = Append(current, r),
           UNCHANGED intents
    PROVE  Queued' /\ Recorded'
<1>1. istatus \in [Rounds -> IntegrationStatuses] /\ intents \in Seq(Rounds) /\ current \in Seq(Rounds)
  BY DEF BranchInv, TypeOK, Commits
<1>2. Queued' BY <1>1 DEF BranchInv, Queued
<1>3. Completed' = Completed \cup {r} /\ r \notin Completed BY <1>1 DEF Completed
<1>4. /\ {current[i] : i \in DOMAIN current} = Completed
      /\ IsFiniteSet(Completed) /\ Len(current) = Cardinality(Completed)
  BY DEF BranchInv, Recorded
<1>5. /\ Len(current') = Len(current) + 1
      /\ DOMAIN current' = 1 .. Len(current')
      /\ \A i \in 1 .. Len(current) : current'[i] = current[i]
      /\ current'[Len(current) + 1] = r
      /\ DOMAIN current = 1 .. Len(current) /\ Len(current) \in Nat
  BY <1>1, AppendProperties
<1>6. {current'[i] : i \in DOMAIN current'} = {current[i] : i \in DOMAIN current} \cup {r}
  BY <1>5
<1>7. IsFiniteSet(Completed') /\ Cardinality(Completed') = Cardinality(Completed) + 1
  BY <1>3, <1>4, FS_AddElement
<1> QED BY <1>2, <1>3, <1>4, <1>5, <1>6, <1>7 DEF Recorded

\* Each step of the queue keeps the branch and the record together.
LEMMA QueueStepKeeps ==
    ASSUME BranchInv, TypeOK', NEW r \in Rounds, QueueStep(r)
    PROVE  BranchInv'
<1> USE DEF volatileVars, gitVars, allocVars, integrationVars
<1>0. /\ istatus \in [Rounds -> IntegrationStatuses] /\ intents \in Seq(Rounds)
      /\ Position /\ Queued /\ Ahead /\ Recorded
  BY DEF BranchInv, TypeOK
<1>1. CASE StartIntegration(r)
  <2>1. /\ up /\ step \in {"none", "queue"}
        /\ intents # <<>> /\ r = Head(intents)
        /\ \A q \in Rounds : istatus[q] # "running"
        /\ istatus' = [istatus EXCEPT ![r] = "running"]
        /\ intents' = Tail(intents)
        /\ step' = "running" /\ on' = r
        /\ UNCHANGED <<base, current, up, head>>
    BY <1>1 DEF StartIntegration, Free
  <2>2. Len(intents) \in Nat /\ Len(intents) > 0 /\ 1 \in DOMAIN intents /\ intents[1] = r
    BY <1>0, <2>1
  <2>3. istatus[r] = "queued" BY <1>0, <2>2 DEF Queued
  <2>4. /\ Len(intents') = Len(intents) - 1
        /\ DOMAIN intents' = 1 .. Len(intents')
        /\ \A i \in DOMAIN intents' : i + 1 \in DOMAIN intents /\ intents'[i] = intents[i + 1]
    BY <1>0, <2>1, <2>2, HeadTailProperties
  <2>5. Queued'
    <3>1. ASSUME NEW i \in DOMAIN intents' PROVE istatus'[intents'[i]] = "queued"
      <4>1. i + 1 \in DOMAIN intents /\ intents'[i] = intents[i + 1] /\ i + 1 # 1
        BY <2>2, <2>4
      <4>2. intents[i + 1] # r /\ istatus[intents[i + 1]] = "queued" /\ intents[i + 1] \in Rounds
        BY <1>0, <2>2, <4>1 DEF Queued
      <4> QED BY <1>0, <2>1, <4>1, <4>2
    <3>2. ASSUME NEW i \in DOMAIN intents', NEW j \in DOMAIN intents', intents'[i] = intents'[j]
          PROVE  i = j
      <4>1. /\ i + 1 \in DOMAIN intents /\ j + 1 \in DOMAIN intents
            /\ intents[i + 1] = intents[j + 1]
        BY <2>4, <3>2
      <4>2. i + 1 = j + 1 BY <1>0, <4>1 DEF Queued
      <4> QED BY <2>2, <2>4, <4>2
    <3> QED BY <3>1, <3>2 DEF Queued
  <2>6. Position' BY <1>0, <2>1 DEF Position, MergeSteps
  <2>7. Ahead' BY <1>0, <2>1, <2>3 DEF Ahead
  <2>8. Completed' = Completed BY <1>0, <2>1, <2>3 DEF Completed
  <2>9. Recorded' BY <1>0, <2>1, <2>8 DEF Recorded
  <2> QED BY <2>5, <2>6, <2>7, <2>9 DEF BranchInv
<1>2. CASE RefuseIntegration(r) \/ FailIntegration(r)
  <2>1. PICK s \in {"failed", "blocked"} :
          /\ up /\ step \in {"running", "candidate"} /\ on = r
          /\ istatus' = [istatus EXCEPT ![r] = s]
          /\ step' = "settled"
          /\ UNCHANGED <<base, current, intents, up, on, head>>
    BY <1>2 DEF RefuseIntegration, FailIntegration, Settle, At
  <2>2. istatus[r] = "running" BY <1>0, <2>1 DEF Position
  <2>3. Queued' /\ Recorded' BY <2>1, <2>2, SettleKeeps
  <2>4. Position' BY <1>0, <2>1 DEF Position, MergeSteps
  <2>5. Ahead' BY <1>0, <2>1 DEF Ahead, Position
  <2> QED BY <2>3, <2>4, <2>5 DEF BranchInv
<1>3. ASSUME NEW outcome \in {"failing", "passing"}, BuildCandidate(r, outcome)
      PROVE  BranchInv'
  <2>1. /\ up /\ step = "running" /\ on = r
        /\ current = base[r[1]] /\ head = base[r[1]]
        /\ step' = "candidate"
        /\ UNCHANGED <<base, istatus, intents, current, up, on, head>>
    BY <1>3 DEF BuildCandidate, At, Stale
  <2>2. Queued' BY <1>0, <2>1 DEF Queued
  <2>3. Completed' = Completed BY <2>1 DEF Completed
  <2>4. Recorded' BY <1>0, <2>1, <2>3 DEF Recorded
  <2>5. Position' BY <1>0, <2>1 DEF Position, MergeSteps
  <2>6. Ahead' BY <2>1 DEF Ahead
  <2> QED BY <2>2, <2>4, <2>5, <2>6 DEF BranchInv
<1>4. CASE MergeCandidate(r)
  <2>1. /\ up /\ step = "candidate" /\ on = r
        /\ head' = Append(base[r[1]], r) /\ step' = "merged"
        /\ UNCHANGED <<base, istatus, intents, current, up, on>>
    BY <1>4 DEF MergeCandidate, At, MergeOf
  <2>2. head' = Append(current, r) BY <1>0, <2>1 DEF Position
  <2>3. Queued' BY <1>0, <2>1 DEF Queued
  <2>4. Completed' = Completed BY <2>1 DEF Completed
  <2>5. Recorded' BY <1>0, <2>1, <2>4 DEF Recorded
  <2>6. Position' BY <1>0, <2>1, <2>2 DEF Position, MergeSteps
  <2>7. Ahead' BY <1>0, <2>1, <2>2 DEF Ahead, Position
  <2> QED BY <2>3, <2>5, <2>6, <2>7 DEF BranchInv
<1>5. CASE CompleteIntegration(r)
  <2>1. /\ up /\ step = "merged" /\ on = r
        /\ istatus' = [istatus EXCEPT ![r] = "completed"]
        /\ current' = head /\ step' = "settled"
        /\ UNCHANGED <<base, intents, up, on, head>>
    BY <1>5 DEF CompleteIntegration, Settle, At
  <2>2. istatus[r] = "running" /\ head = Append(current, r) BY <1>0, <2>1 DEF Position
  <2>3. Queued' /\ Recorded' BY <2>1, <2>2, RecordKeeps
  <2>4. Position' BY <1>0, <2>1 DEF Position, MergeSteps
  <2>5. Ahead' BY <2>1 DEF Ahead
  <2> QED BY <2>3, <2>4, <2>5 DEF BranchInv
<1>6. CASE FailAfterMerge(r)
  <2>1. /\ up /\ step = "merged" /\ on = r
        /\ istatus' = [istatus EXCEPT ![r] = "blocked"]
        /\ step' = "diverged"
        /\ UNCHANGED <<base, current, intents, up, on, head>>
    BY <1>6 DEF FailAfterMerge, Settle, At
  <2>2. istatus[r] = "running" /\ head = Append(current, r) BY <1>0, <2>1 DEF Position
  <2>3. Queued' /\ Recorded' BY <2>1, <2>2, SettleKeeps
  <2>4. Position' BY <1>0, <2>1, <2>2 DEF Position, MergeSteps
  <2>5. Ahead' BY <1>0, <2>1, <2>2 DEF Ahead
  <2> QED BY <2>3, <2>4, <2>5 DEF BranchInv
<1>7. CASE BlockRepository(r) \/ WakeDelivery(r)
  <2>1. /\ up /\ step \in {"diverged", "settled"} /\ up' = up
        /\ UNCHANGED <<istatus, intents, current, head>>
        /\ \/ step' = "settled" /\ on' = r
           \/ step' \in {"none", "queue"}
    BY <1>7 DEF BlockRepository, WakeDelivery, At
  <2>2. Queued' BY <1>0, <2>1 DEF Queued
  <2>3. Completed' = Completed BY <2>1 DEF Completed
  <2>4. Recorded' BY <1>0, <2>1, <2>3 DEF Recorded
  <2>5. Position' BY <1>0, <2>1 DEF Position, MergeSteps
  <2>6. Ahead' BY <1>0, <2>1 DEF Ahead, Position
  <2> QED BY <2>2, <2>4, <2>5, <2>6 DEF BranchInv
<1> QED BY <1>1, <1>2, <1>3, <1>4, <1>5, <1>6, <1>7 DEF QueueStep

\* What recovery does to the integration it finds running: it completes it if its
\* merge is what the branch has become, and blocks it otherwise.
LEMMA StartCases ==
    ASSUME BranchInv, Start
    PROVE  /\ UNCHANGED <<intents, head, step, on, base>> /\ up' /\ step = "none"
           /\ \/ /\ \A q \in Rounds : istatus[q] # "running"
                 /\ UNCHANGED <<istatus, current>>
              \/ \E r \in Rounds :
                    /\ istatus[r] = "running" /\ \A q \in Rounds : istatus[q] = "running" => q = r
                    /\ \/ /\ head = Append(current, r)
                          /\ istatus' = [istatus EXCEPT ![r] = "completed"]
                          /\ current' = head
                       \/ /\ istatus' = [istatus EXCEPT ![r] = "blocked"]
                          /\ UNCHANGED current
<1>0. /\ istatus \in [Rounds -> IntegrationStatuses] /\ current \in Seq(Rounds)
      /\ base \in [Deliveries -> Seq(Rounds)]
      /\ Position /\ Ahead /\ Recorded /\ ~up
  BY DEF BranchInv, TypeOK, Start, Commits
<1> DEFINE done == {r \in Interrupted : Advanced(r)}
<1>1. /\ istatus' = [r \in Rounds |-> IF r \in done THEN "completed"
                                      ELSE IF r \in Interrupted THEN "blocked" ELSE istatus[r]]
      /\ current' = IF done # {} THEN head ELSE current
      /\ UNCHANGED <<intents, head, step, on, base>> /\ up' /\ step = "none"
  BY <1>0 DEF Start, gitVars, Position
<1>2. CASE Interrupted = {}
  <2>1. \A q \in Rounds : istatus[q] # "running" BY <1>2 DEF Interrupted
  <2>2. istatus' = istatus /\ current' = current BY <1>0, <1>1, <1>2
  <2> QED BY <1>1, <2>1, <2>2
<1>3. CASE Interrupted # {}
  <2>1. PICK r \in Rounds : istatus[r] = "running" BY <1>3 DEF Interrupted
  <2>2. \A q \in Rounds : istatus[q] = "running" => q = r BY <1>0, <2>1 DEF Position
  <2>3. Interrupted = {r} BY <2>1, <2>2 DEF Interrupted
  <2>4. CASE Advanced(r)
    <3>1. done = {r} BY <2>3, <2>4
    <3>2. current' = head /\ istatus' = [istatus EXCEPT ![r] = "completed"]
      BY <1>0, <1>1, <2>3, <3>1
    <3>3. r[1] \in Deliveries BY PairTypes
    <3>4. head = Append(base[r[1]], r) /\ base[r[1]] \in Seq(Rounds)
      BY <1>0, <2>4, <3>3 DEF Advanced, MergeOf
    <3>5. head # current
      <4>1. head[Len(base[r[1]]) + 1] = r /\ Len(base[r[1]]) + 1 \in DOMAIN head
        BY <3>4, AppendProperties
      <4>2. r \notin {current[i] : i \in DOMAIN current}
        BY <1>0, <2>1 DEF Recorded, Completed
      <4> QED BY <4>1, <4>2
    <3>6. PICK q \in Rounds : head = Append(current, q) BY <1>0, <3>5 DEF Ahead
    <3>7. q = r
      <4>1. Append(current, q) = Append(base[r[1]], r) BY <3>4, <3>6
      <4>2. current \in Seq(Rounds) BY <1>0
      <4> QED BY ONLY <3>4, <4>1, <4>2, q \in Rounds, r \in Rounds, AppendInjective
    <3> QED BY <1>1, <2>1, <2>2, <3>2, <3>6, <3>7
  <2>5. CASE ~Advanced(r)
    <3>1. done = {} BY <2>3, <2>5
    <3>2. current' = current /\ istatus' = [istatus EXCEPT ![r] = "blocked"]
      BY <1>0, <1>1, <2>3, <3>1
    <3> QED BY <1>1, <2>1, <2>2, <3>2
  <2> QED BY <2>4, <2>5
<1> QED BY <1>2, <1>3

\* Recovery keeps the record: wherever HQ died, an integration it completes is the
\* one merge the branch is ahead by.
LEMMA StartKeeps ==
    ASSUME BranchInv, TypeOK', Start
    PROVE  BranchInv'
<1>0. /\ istatus \in [Rounds -> IntegrationStatuses] /\ intents \in Seq(Rounds)
      /\ Position /\ Queued /\ Ahead /\ Recorded
  BY DEF BranchInv, TypeOK
<1>1. UNCHANGED <<intents, head, step, on, base>> /\ up' /\ step = "none"
  BY StartCases
<1>2. CASE (\A q \in Rounds : istatus[q] # "running") /\ UNCHANGED <<istatus, current>>
  <2>1. Queued' BY <1>0, <1>1, <1>2 DEF Queued
  <2>2. Position' BY <1>0, <1>1, <1>2 DEF Position, MergeSteps
  <2>3. Completed' = Completed BY <1>2 DEF Completed
  <2>4. Recorded' BY <1>0, <1>2, <2>3 DEF Recorded
  <2>5. Ahead' BY <1>0, <1>1, <1>2 DEF Ahead
  <2> QED BY <2>1, <2>2, <2>4, <2>5 DEF BranchInv
<1>3. ASSUME NEW r \in Rounds, istatus[r] = "running",
             \A q \in Rounds : istatus[q] = "running" => q = r,
             head = Append(current, r), istatus' = [istatus EXCEPT ![r] = "completed"],
             current' = head
      PROVE  BranchInv'
  <2>1. Queued' /\ Recorded' BY <1>1, <1>3, RecordKeeps
  <2>2. Position' BY <1>0, <1>1, <1>3 DEF Position, MergeSteps
  <2>3. Ahead' BY <1>1, <1>3 DEF Ahead
  <2> QED BY <2>1, <2>2, <2>3 DEF BranchInv
<1>4. ASSUME NEW r \in Rounds, istatus[r] = "running",
             \A q \in Rounds : istatus[q] = "running" => q = r,
             istatus' = [istatus EXCEPT ![r] = "blocked"], UNCHANGED current
      PROVE  BranchInv'
  <2>1. Queued' /\ Recorded' BY <1>1, <1>4, SettleKeeps
  <2>2. Position' BY <1>0, <1>1, <1>4 DEF Position, MergeSteps
  <2>3. Ahead' BY <1>0, <1>1, <1>4 DEF Ahead
  <2> QED BY <2>1, <2>2, <2>3 DEF BranchInv
<1> QED BY <1>2, <1>3, <1>4, StartCases

\* The invariant is inductive.
LEMMA BranchStep == BranchInv /\ [Next]_vars => BranchInv'
<1> SUFFICES ASSUME BranchInv, [Next]_vars PROVE BranchInv' OBVIOUS
<1>0. TypeOK' BY TypeStep DEF BranchInv
<1>1. CASE Next
  BY <1>0, <1>1, HandlersKeep, QueueKeeps, QueueStepKeeps, StartKeeps DEF Next, CTOStep, HandlerStep
<1>2. CASE UNCHANGED vars
  <2>1. UNCHANGED <<istatus, intents, current, base, head, up, step, on>>
    BY <1>2 DEF vars, integrationVars, allocVars, volatileVars, gitVars
  <2>2. Queued' BY <2>1 DEF BranchInv, Queued
  <2>3. Position' BY <2>1 DEF BranchInv, Position
  <2>4. Ahead' BY <2>1 DEF BranchInv, Ahead
  <2>5. Completed' = Completed BY <2>1 DEF Completed
  <2>6. Recorded' BY <2>1, <2>5 DEF BranchInv, Recorded
  <2> QED BY <1>0, <2>2, <2>3, <2>4, <2>6 DEF BranchInv
<1> QED BY <1>1, <1>2

\* The inductive invariant holds in every reachable state.
LEMMA BranchAlways == Spec => []BranchInv
BY BranchInit, BranchStep, PTL DEF Spec

\* Whatever fails and wherever HQ dies, the recorded commit holds exactly the
\* completed integrations, and the branch is at most one unrecorded merge ahead of it
\* (engineering.ts, processQueue and recover).
THEOREM BranchKept == Spec => []BranchRecorded
BY BranchAlways, BranchImplied, PTL

-----------------------------------------------------------------------------
(* Engineering implements TrustedBranch.                                   *)

\* An integration exists only for an approved round.
ApprovedFirst == \A r \in Rounds : istatus[r] # "none" => Approved(r)

TrustedInv == BranchInv /\ ApprovedFirst

Merged(r) == \E i \in DOMAIN head : head[i] = r
FateOf == [r \in Rounds |-> Fate(r)]

-----------------------------------------------------------------------------
\* The tasks of rounds differ from each other and from all other tasks.
LEMMA ReviewTasks ==
    /\ \A q \in Rounds : Review(q) \in Tasks
    /\ \A q, r \in Rounds : Review(q) = Review(r) => q = r
    /\ \A q \in Rounds, d \in Deliveries : Review(q) # Delivery(d)
    /\ \A q \in Rounds, a \in Allocs : Review(q) # Work(a)
BY PairTypes, TaskKinds DEF Review, Delivery, Work

\* settleParents only moves deliveries.
LEMMA StoreTasksReview ==
    ASSUME NEW st, NEW rs, NEW woken, StoreTasks(st, rs, woken), NEW q \in Rounds
    PROVE  tstatus'[Review(q)] = st[Review(q)]
<1>1. tstatus' = Requeued(st, Handback(st, rs)) BY DEF StoreTasks
<1>2. Handback(st, rs) \subseteq Deliveries BY DEF Handback
<1> HIDE DEF Handback
<1> QED BY <1>1, <1>2, ReviewTasks DEF Requeued

\* A handler other than the end of a review neither approves a round nor undoes an
\* approval.
LEMMA HandlersReview ==
    ASSUME TypeOK, HandlerStep, NEW q \in Rounds, ~\E o \in Outcomes : FinishReview(q, o)
    PROVE  Approved(q)' <=> Approved(q)
<1> USE DEF taskVars, reviewVars
<1>0. tstatus \in [Tasks -> Statuses \cup {"absent"}] BY DEF TypeOK
<1> SUFFICES \/ UNCHANGED <<tstatus, verdict>>
             \/ /\ UNCHANGED verdict
                /\ \/ tstatus'[Review(q)] = tstatus[Review(q)]
                   \/ tstatus[Review(q)] # "completed" /\ tstatus'[Review(q)] # "completed"
             \/ verdict'[q] = verdict[q] /\ tstatus' = tstatus
             \/ tstatus[Review(q)] # "completed" /\ tstatus' = tstatus
  BY DEF Approved
<1>1. ASSUME NEW d \in Deliveries, AssignDelivery(d)
      PROVE  UNCHANGED verdict /\ tstatus'[Review(q)] = tstatus[Review(q)]
  BY <1>0, <1>1, ReviewTasks DEF AssignDelivery
<1>2. ASSUME NEW t \in Tasks, Claim(t)
      PROVE  /\ UNCHANGED verdict
             /\ \/ tstatus'[Review(q)] = tstatus[Review(q)]
                \/ tstatus[Review(q)] # "completed" /\ tstatus'[Review(q)] # "completed"
  BY <1>0, <1>2, ReviewTasks DEF Claim, Startable
<1>3. ASSUME NEW t \in Tasks, FinishThrows(t) PROVE UNCHANGED <<tstatus, verdict>>
  BY <1>3 DEF FinishThrows
<1>4. ASSUME NEW t \in Tasks, Retry(t)
      PROVE  /\ UNCHANGED verdict
             /\ \/ tstatus'[Review(q)] = tstatus[Review(q)]
                \/ tstatus[Review(q)] # "completed" /\ tstatus'[Review(q)] # "completed"
  BY <1>0, <1>4, ReviewTasks DEF Retry
<1>5. ASSUME NEW t \in Tasks, Cancel(t)
      PROVE  /\ UNCHANGED verdict
             /\ \/ tstatus'[Review(q)] = tstatus[Review(q)]
                \/ tstatus[Review(q)] # "completed" /\ tstatus'[Review(q)] # "completed"
  <2>1. tstatus'[Review(q)] = [tstatus EXCEPT ![t] = "cancelled"][Review(q)]
    BY <1>5, StoreTasksReview DEF Cancel
  <2> QED BY <1>0, <1>5, <2>1, ReviewTasks DEF Cancel
<1>6. CASE OwnerStep
  <2>1. ASSUME NEW b \in BOOLEAN, Pause(b) PROVE UNCHANGED <<tstatus, verdict>>
    BY <2>1 DEF Pause
  <2>2. ASSUME NEW a \in Allocs, Release(a) PROVE UNCHANGED <<tstatus, verdict>>
    BY <2>2 DEF Release
  <2> QED BY <1>4, <1>5, <1>6, <2>1, <2>2 DEF OwnerStep
<1>7. ASSUME NEW d \in Deliveries, NEW o \in Outcomes, FinishDelivery(d, o)
      PROVE  UNCHANGED verdict /\ tstatus'[Review(q)] = tstatus[Review(q)]
  <2>1. PICK to, rs : StoreTasks([tstatus EXCEPT ![Delivery(d)] = to], rs, {})
    BY <1>7 DEF FinishDelivery
  <2>2. tstatus'[Review(q)] = [tstatus EXCEPT ![Delivery(d)] = to][Review(q)]
    BY <2>1, StoreTasksReview
  <2> QED BY <1>0, <1>7, <2>2, ReviewTasks DEF FinishDelivery, Leave
<1>8. ASSUME NEW a \in Allocs, EngineerStep(a)
      PROVE  UNCHANGED verdict /\ tstatus'[Review(q)] = tstatus[Review(q)]
  <2>1. ASSUME NEW o \in Outcomes, FinishEngineering(a, o)
        PROVE  UNCHANGED verdict /\ tstatus'[Review(q)] = tstatus[Review(q)]
    <3>1. PICK to, rs : StoreTasks([tstatus EXCEPT ![Work(a)] = to], rs, {})
      BY <2>1 DEF FinishEngineering
    <3>2. tstatus'[Review(q)] = [tstatus EXCEPT ![Work(a)] = to][Review(q)]
      BY <3>1, StoreTasksReview
    <3> QED BY <1>0, <2>1, <3>2, ReviewTasks DEF FinishEngineering, Leave
  <2>2. CASE ~\E o \in Outcomes : FinishEngineering(a, o)
    BY <1>8, <2>2 DEF EngineerStep, WriteSource, BeginCommit, RecordCommit, CommitFails
  <2> QED BY <2>1, <2>2
<1>9. ASSUME NEW d \in Deliveries, NEW W \in SUBSET Engineers, AssignEngineering(d, W)
      PROVE  UNCHANGED verdict /\ tstatus'[Review(q)] = tstatus[Review(q)]
  <2>1. Review(q) \notin {Work(<<d, w>>) : w \in W} BY PairTypes, ReviewTasks
  <2> QED BY <1>0, <1>9, <2>1, ReviewTasks DEF AssignEngineering
<1>10. ASSUME NEW ok \in BOOLEAN, AddWorktrees(ok) PROVE UNCHANGED <<tstatus, verdict>>
  BY <1>10 DEF AddWorktrees
<1>11. ASSUME NEW r \in Rounds, AssignReview(r)
       PROVE  /\ UNCHANGED verdict
              /\ \/ tstatus'[Review(q)] = tstatus[Review(q)]
                 \/ tstatus[Review(q)] # "completed" /\ tstatus'[Review(q)] # "completed"
  BY <1>0, <1>11, ReviewTasks DEF AssignReview
<1>12. ASSUME NEW r \in Rounds, NEW v \in Verdicts, NEW W \in SUBSET Engineers, SubmitReview(r, v, W)
       PROVE  \/ verdict'[q] = verdict[q] /\ tstatus' = tstatus
              \/ tstatus[Review(q)] # "completed" /\ tstatus' = tstatus
  <2>1. verdict \in [Rounds -> Verdicts \cup {"none"}] BY DEF TypeOK
  <2> QED BY <1>12, <2>1 DEF SubmitReview, MayAct
<1>13. ASSUME NEW r \in Rounds, NEW o \in Outcomes, FinishReview(r, o)
       PROVE  UNCHANGED verdict /\ tstatus'[Review(q)] = tstatus[Review(q)]
  <2>1. q # r BY <1>13
  <2> DEFINE d == r[1]
             to == Ended(o, IF Reviewed(r) THEN "completed" ELSE "failed")
             changes == to = "completed" /\ verdict[r] = "changes_required"
             limit == changes /\ ~RoundsLeft(r)
             again == IF changes /\ ~limit THEN {<<d, w>> : w \in affected[r]} ELSE {}
             moved == [tstatus EXCEPT ![Review(r)] = to]
             st == [t \in Tasks |-> IF limit /\ t = Delivery(d) THEN "blocked"
                                    ELSE IF t \in {Work(a) : a \in again} THEN "queued"
                                    ELSE moved[t]]
  <2>2. PICK rs : StoreTasks(st, rs, {}) /\ Leave(Review(r)) BY <1>13 DEF FinishReview
  <2>3. tstatus'[Review(q)] = st[Review(q)] BY <2>2, StoreTasksReview
  <2>4. r[1] \in Deliveries /\ affected[r] \subseteq Engineers BY PairTypes DEF TypeOK
  <2>5. again \subseteq Allocs BY <2>4, PairTypes
  <2>6. Review(q) \notin {Work(a) : a \in again} BY <2>5, ReviewTasks
  <2>7. moved[Review(q)] = tstatus[Review(q)] BY <1>0, <2>1, ReviewTasks
  <2> HIDE DEF to, limit, again, moved
  <2>8. st[Review(q)] = moved[Review(q)] BY <2>4, <2>6, ReviewTasks
  <2> QED BY <2>2, <2>3, <2>7, <2>8 DEF Leave
<1>14. CASE Crash
  BY <1>14 DEF Crash
<1>15. ASSUME NEW r \in Rounds, ReviewerStep(r)
       PROVE  \/ \E v \in Verdicts, W \in SUBSET Engineers : SubmitReview(r, v, W)
              \/ \E o \in Outcomes : FinishReview(r, o)
  BY <1>15 DEF ReviewerStep
<1> QED
  BY <1>1, <1>2, <1>3, <1>6, <1>7, <1>8, <1>9, <1>10, <1>11, <1>12, <1>13, <1>14, <1>15 DEF HandlerStep

\* Nor does a step of the queue or a recovery.
LEMMA QueueReview ==
    ASSUME TypeOK, NEW q \in Rounds,
           (\E r \in Rounds : QueueIntegration(r) \/ QueueStep(r)) \/ Start
    PROVE  Approved(q)' <=> Approved(q)
<1> USE DEF taskVars, reviewVars
<1>0. tstatus \in [Tasks -> Statuses \cup {"absent"}] BY DEF TypeOK
<1>1. ASSUME NEW r \in Rounds, QueueIntegration(r) PROVE UNCHANGED <<tstatus, verdict>>
  BY <1>1 DEF QueueIntegration
<1>2. ASSUME NEW r \in Rounds, QueueStep(r), ~WakeDelivery(r) PROVE UNCHANGED <<tstatus, verdict>>
  BY <1>2 DEF QueueStep, StartIntegration, RefuseIntegration, BuildCandidate, FailIntegration,
              MergeCandidate, CompleteIntegration, FailAfterMerge, BlockRepository, Settle
<1>3. ASSUME NEW r \in Rounds, WakeDelivery(r)
      PROVE  UNCHANGED verdict /\ tstatus'[Review(q)] = tstatus[Review(q)]
  <2>1. tstatus' = Requeued(tstatus, Woken({r}, tstatus, reason)) /\ UNCHANGED verdict
    BY <1>3 DEF WakeDelivery
  <2>2. Woken({r}, tstatus, reason) \subseteq Deliveries BY DEF Woken
  <2> HIDE DEF Woken
  <2> QED BY <2>1, <2>2, ReviewTasks DEF Requeued
<1>4. CASE Start
  <2> DEFINE lost == {t \in running : tstatus[t] = "working"}
             st == [t \in Tasks |-> IF t \in lost THEN "blocked" ELSE tstatus[t]]
             rs == [d \in Deliveries |-> IF Delivery(d) \in lost THEN "other" ELSE reason[d]]
             woken == Woken(Interrupted, st, rs)
             suspect == {a \in Allocs : \/ astatus[a] \in {"allocating", "submitting", "blocked"}
                                        \/ astatus[a] = "active" /\ st[Work(a)] = "blocked"}
             st2 == [t \in Tasks |-> IF st[t] = "queued" /\ \E a \in suspect : t = Work(a)
                                     THEN "blocked" ELSE Requeued(st, woken)[t]]
  <2>1. StoreTasks(st2, Cleared(rs, woken), woken) /\ UNCHANGED verdict BY <1>4 DEF Start
  <2>2. woken \subseteq Deliveries BY DEF Woken
  <2>3. st[Review(q)] = "completed" <=> tstatus[Review(q)] = "completed"
    BY ReviewTasks
  <2> HIDE DEF st, rs, woken
  <2>4. Requeued(st, woken)[Review(q)] = st[Review(q)] BY <2>2, ReviewTasks DEF Requeued
  <2>5. st2[Review(q)] = st[Review(q)] BY <2>4, ReviewTasks
  <2> HIDE DEF st2
  <2>6. tstatus'[Review(q)] = st2[Review(q)] BY <2>1, StoreTasksReview
  <2> QED BY <2>1, <2>3, <2>5, <2>6 DEF Approved
<1> QED BY <1>1, <1>2, <1>3, <1>4 DEF Approved

\* The end of a review approves no other round, and its own at most.
LEMMA FinishReviewFrom ==
    ASSUME NEW r \in Rounds, NEW o \in Outcomes, FinishReview(r, o)
    PROVE  ~Approved(r)
BY DEF FinishReview, Leave, Approved

\* An integration comes to exist when it is queued, for an approved round.
LEMMA IntegrationNew ==
    ASSUME BranchInv, Next, NEW q \in Rounds, istatus'[q] # "none"
    PROVE  istatus[q] # "none" \/ Approved(q)
<1>0. istatus \in [Rounds -> IntegrationStatuses] /\ intents \in Seq(Rounds) /\ Position /\ Queued
  BY DEF BranchInv, TypeOK
<1>1. CASE HandlerStep BY <1>1, HandlersQuiet
<1>2. ASSUME NEW r \in Rounds, QueueIntegration(r) PROVE istatus[q] # "none" \/ Approved(q)
  BY <1>0, <1>2 DEF QueueIntegration
<1>3. ASSUME NEW r \in Rounds, QueueStep(r) PROVE istatus[q] # "none"
  <2>1. CASE StartIntegration(r)
    <3>1. intents # <<>> /\ r = Head(intents) /\ istatus' = [istatus EXCEPT ![r] = "running"]
      BY <2>1 DEF StartIntegration
    <3>2. 1 \in DOMAIN intents /\ intents[1] = r BY <1>0, <3>1
    <3>3. istatus[r] = "queued" BY <1>0, <3>2 DEF Queued
    <3> QED BY <1>0, <3>1, <3>3
  <2>2. CASE RefuseIntegration(r) \/ FailIntegration(r) \/ CompleteIntegration(r) \/ FailAfterMerge(r)
    <3>1. istatus[r] = "running"
      BY <1>0, <2>2 DEF Position, RefuseIntegration, FailIntegration, CompleteIntegration,
                        FailAfterMerge, At
    <3>2. \E s \in IntegrationStatuses : istatus' = [istatus EXCEPT ![r] = s]
      BY <2>2 DEF RefuseIntegration, FailIntegration, CompleteIntegration, FailAfterMerge, Settle,
                  IntegrationStatuses
    <3> QED BY <1>0, <3>1, <3>2
  <2>3. CASE istatus' = istatus BY <2>3
  <2> QED BY <1>3, <2>1, <2>2, <2>3
        DEF QueueStep, BuildCandidate, MergeCandidate, BlockRepository, WakeDelivery, integrationVars
<1>4. CASE Start BY <1>0, <1>4, StartCases
<1> QED BY <1>1, <1>2, <1>3, <1>4 DEF Next, CTOStep, HandlerStep

\* The invariant is inductive.
LEMMA TrustedInvStep == TrustedInv /\ [Next]_vars => TrustedInv'
<1> SUFFICES ASSUME TrustedInv, [Next]_vars PROVE TrustedInv' OBVIOUS
<1>0. BranchInv /\ TypeOK /\ BranchInv' BY BranchStep DEF TrustedInv, BranchInv
<1>1. CASE Next
  <2>1. ASSUME NEW q \in Rounds, istatus'[q] # "none" PROVE Approved(q)'
    <3>1. Approved(q) BY <1>0, <1>1, <2>1, IntegrationNew DEF TrustedInv, ApprovedFirst
    <3>2. ~\E o \in Outcomes : FinishReview(q, o) BY <3>1, FinishReviewFrom
    <3> QED BY <1>0, <1>1, <3>1, <3>2, HandlersReview, QueueReview DEF Next, CTOStep, HandlerStep
  <2> QED BY <1>0, <2>1 DEF TrustedInv, ApprovedFirst
<1>2. CASE UNCHANGED vars
  <2>1. UNCHANGED <<istatus, verdict, tstatus>>
    BY <1>2 DEF vars, taskVars, reviewVars, integrationVars
  <2> QED BY <1>0, <2>1 DEF TrustedInv, ApprovedFirst, Approved
<1> QED BY <1>1, <1>2

-----------------------------------------------------------------------------
\* What is merged was being integrated, and is not about to be given up.
LEMMA MergedWas ==
    ASSUME BranchInv, NEW q \in Rounds, Merged(q)
    PROVE  \/ istatus[q] \in {"completed", "blocked"}
           \/ istatus[q] = "running" /\ (up => step = "merged")
<1>0. /\ head \in Seq(Rounds) /\ current \in Seq(Rounds)
      /\ {current[i] : i \in DOMAIN current} = Completed
  BY DEF BranchInv, TypeOK, Commits, Recorded
<1>1. ASSUME NEW i \in DOMAIN current PROVE istatus[current[i]] = "completed"
  BY <1>0 DEF Completed
<1>2. CASE head = current BY <1>1, <1>2 DEF Merged
<1>3. ASSUME NEW r \in Rounds, head = Append(current, r),
             \/ istatus[r] = "blocked"
             \/ istatus[r] = "running" /\ (up => step = "merged")
      PROVE  \/ istatus[q] \in {"completed", "blocked"}
             \/ istatus[q] = "running" /\ (up => step = "merged")
  <2>1. PICK i \in DOMAIN head : head[i] = q BY DEF Merged
  <2>2. (i \in DOMAIN current /\ head[i] = current[i]) \/ q = r
    BY <1>0, <1>3, <2>1, AppendProperties
  <2> QED BY <1>1, <1>3, <2>1, <2>2
<1>4. Ahead BY DEF BranchInv
<1> QED BY <1>2, <1>3, <1>4 DEF Ahead

\* The last of the branch is merged.
LEMMA LastMerged ==
    ASSUME NEW s \in Seq(Rounds), NEW r \in Rounds, head = Append(s, r)
    PROVE  Merged(r)
BY AppendProperties DEF Merged

\* A round keeps its fate while the branch, its approval and its attempt stay.
LEMMA FateSame ==
    ASSUME NEW q \in Rounds, UNCHANGED head, Approved(q)' <=> Approved(q),
           \/ Merged(q)
           \/ istatus'[q] \in {"failed", "blocked"} <=> istatus[q] \in {"failed", "blocked"}
    PROVE  Fate(q)' = Fate(q)
BY DEF Fate, Approved, Merged

\* An attempt that leaves the branch alone is abandoned.
LEMMA AbandonStep ==
    ASSUME TrustedInv, NEW r \in Rounds, istatus[r] = "running", ~Merged(r),
           NEW s \in {"failed", "blocked"}, istatus' = [istatus EXCEPT ![r] = s],
           UNCHANGED head, \A q \in Rounds : Approved(q)' <=> Approved(q)
    PROVE  Trusted!Abandon(r)
<1>0. istatus \in [Rounds -> IntegrationStatuses] BY DEF TrustedInv, BranchInv, TypeOK
<1>1. Approved(r) BY DEF TrustedInv, ApprovedFirst
<1>2. Fate(r) = "approved" BY <1>1 DEF Fate, Merged, Approved
<1>3. Fate(r)' = "abandoned" BY <1>0 DEF Fate, Merged
<1>4. \A q \in Rounds \ {r} : Fate(q)' = Fate(q) BY <1>0, FateSame
<1>5. FateOf[r] = "approved" /\ FateOf' = [FateOf EXCEPT ![r] = "abandoned"]
  BY <1>2, <1>3, <1>4 DEF FateOf
<1> QED BY <1>5 DEF Trusted!Abandon, FateOf

\* Every step of the workflow is a step of TrustedBranch, or changes no fate.
LEMMA TrustedStep == TrustedInv /\ [Next]_vars => [Trusted!Next]_(Trusted!vars)
<1> SUFFICES ASSUME TrustedInv, [Next]_vars
             PROVE  Trusted!Next \/ UNCHANGED <<head, FateOf>>
  BY DEF Trusted!vars, FateOf
<1>0. /\ BranchInv /\ TypeOK /\ Position /\ Recorded
      /\ istatus \in [Rounds -> IntegrationStatuses] /\ current \in Seq(Rounds)
  BY DEF TrustedInv, BranchInv, TypeOK, Commits
<1> DEFINE Same == UNCHANGED head /\ \A q \in Rounds : Fate(q)' = Fate(q)
<1>1. Same => UNCHANGED <<head, FateOf>> BY DEF FateOf
<1>2. ASSUME HandlerStep, \A r \in Rounds, o \in Outcomes : ~FinishReview(r, o) PROVE Same
  BY <1>0, <1>2, HandlersQuiet, HandlersReview, FateSame
<1>3. ASSUME NEW r \in Rounds, NEW o \in Outcomes, FinishReview(r, o)
      PROVE  Trusted!Approve(r) \/ Same
  <2>1. UNCHANGED <<istatus, head>>
    BY <1>0, <1>3, HandlersQuiet DEF HandlerStep, ReviewerStep
  <2>2. \A q \in Rounds \ {r} : Approved(q)' <=> Approved(q)
    <3>1. ASSUME NEW q \in Rounds \ {r}, NEW p \in Outcomes PROVE ~FinishReview(q, p)
      <4>1. running' = running \ {Review(r)} /\ Review(r) \in running
        BY <1>3 DEF FinishReview, Leave
      <4>2. FinishReview(q, p) => running' = running \ {Review(q)} /\ Review(q) \in running
        BY DEF FinishReview, Leave
      <4> QED BY <4>1, <4>2, ReviewTasks
    <3> QED BY <1>0, <1>3, <3>1, HandlersReview DEF HandlerStep, ReviewerStep
  <2>3. \A q \in Rounds \ {r} : Fate(q)' = Fate(q) BY <2>1, <2>2, FateSame
  <2>4. ~Approved(r) BY <1>3, FinishReviewFrom
  <2>5. istatus[r] = "none" BY <2>4 DEF TrustedInv, ApprovedFirst
  <2>6. ~Merged(r) BY <1>0, <2>5, MergedWas
  <2>7. Fate(r) = "proposed" BY <2>4, <2>5, <2>6 DEF Fate, Approved, Merged
  <2>8. CASE Approved(r)'
    <3>1. Fate(r)' = "approved" BY <2>1, <2>5, <2>6, <2>8 DEF Fate, Approved, Merged
    <3>2. FateOf[r] = "proposed" /\ FateOf' = [FateOf EXCEPT ![r] = "approved"]
      BY <2>3, <2>7, <3>1 DEF FateOf
    <3> QED BY <2>1, <3>2 DEF Trusted!Approve, FateOf
  <2>9. CASE ~Approved(r)'
    <3>1. Fate(r)' = Fate(r) BY <2>1, <2>4, <2>9, FateSame
    <3> QED BY <2>1, <2>3, <3>1
  <2> QED BY <2>8, <2>9
<1>4. ASSUME NEW r \in Rounds, QueueIntegration(r) PROVE Same
  <2>1. UNCHANGED head /\ istatus' = [istatus EXCEPT ![r] = "queued"] /\ istatus[r] = "none"
    BY <1>4 DEF QueueIntegration, gitVars
  <2> QED BY <1>0, <1>4, <2>1, QueueReview, FateSame
<1>5. ASSUME NEW r \in Rounds, QueueStep(r) PROVE Same \/ Trusted!Merge(r) \/ Trusted!Abandon(r)
  <2>0. \A q \in Rounds : Approved(q)' <=> Approved(q) BY <1>0, <1>5, QueueReview
  <2>1. CASE StartIntegration(r)
    <3>1. /\ UNCHANGED head /\ istatus' = [istatus EXCEPT ![r] = "running"]
          /\ intents # <<>> /\ r = Head(intents)
      BY <2>1 DEF StartIntegration, gitVars
    <3>2. 1 \in DOMAIN intents /\ intents[1] = r BY <1>0, <3>1 DEF TypeOK
    <3>3. istatus[r] = "queued" BY <1>0, <3>2 DEF BranchInv, Queued
    <3> QED BY <1>0, <2>0, <3>1, <3>3, FateSame
  <2>2. CASE RefuseIntegration(r) \/ FailIntegration(r)
    <3>1. /\ up /\ step \in {"running", "candidate"} /\ on = r /\ UNCHANGED head
          /\ \E s \in {"failed", "blocked"} : istatus' = [istatus EXCEPT ![r] = s]
      BY <2>2 DEF RefuseIntegration, FailIntegration, Settle, At, gitVars
    <3>2. istatus[r] = "running" BY <1>0, <3>1 DEF Position
    <3>3. ~Merged(r) BY <1>0, <3>1, <3>2, MergedWas
    <3> QED BY <2>0, <3>1, <3>2, <3>3, AbandonStep
  <2>3. CASE MergeCandidate(r)
    <3>1. /\ up /\ step = "candidate" /\ on = r /\ head' = Append(base[r[1]], r)
          /\ UNCHANGED istatus
      BY <2>3 DEF MergeCandidate, At, MergeOf, integrationVars
    <3>2. istatus[r] = "running" /\ head = base[r[1]] BY <1>0, <3>1 DEF Position
    <3>3. head' = Append(head, r) /\ head \in Seq(Rounds) BY <1>0, <3>1, <3>2 DEF TypeOK, Commits
    <3>4. ~Merged(r) BY <1>0, <3>1, <3>2, MergedWas
    <3>5. Approved(r) BY <3>2 DEF TrustedInv, ApprovedFirst
    <3>6. Fate(r) = "approved" BY <3>2, <3>4, <3>5 DEF Fate, Approved, Merged
    <3>7. /\ DOMAIN head' = 1 .. Len(head) + 1 /\ DOMAIN head = 1 .. Len(head)
          /\ Len(head) \in Nat
          /\ \A i \in 1 .. Len(head) : head'[i] = head[i]
          /\ head'[Len(head) + 1] = r
      BY <3>3, AppendProperties
    <3>8. Merged(r)' BY <3>7 DEF Merged
    <3>9. \A q \in Rounds \ {r} : Merged(q)' <=> Merged(q) BY <3>7 DEF Merged
    <3>10. Fate(r)' = "merged" BY <3>8 DEF Fate, Merged
    <3>11. \A q \in Rounds \ {r} : Fate(q)' = Fate(q)
      BY <2>0, <3>1, <3>9 DEF Fate, Merged, Approved
    <3>12. FateOf[r] = "approved" /\ FateOf' = [FateOf EXCEPT ![r] = "merged"]
      BY <3>6, <3>10, <3>11 DEF FateOf
    <3> QED BY <3>3, <3>12 DEF Trusted!Merge, FateOf
  <2>4. CASE CompleteIntegration(r) \/ FailAfterMerge(r)
    <3>1. /\ step = "merged" /\ on = r /\ UNCHANGED head
          /\ \E s \in IntegrationStatuses : istatus' = [istatus EXCEPT ![r] = s]
      BY <2>4 DEF CompleteIntegration, FailAfterMerge, Settle, At, gitVars, IntegrationStatuses
    <3>2. Merged(r) BY <1>0, <3>1, LastMerged DEF Position
    <3> QED BY <1>0, <2>0, <3>1, <3>2, FateSame
  <2>5. CASE \/ \E outcome \in {"failing", "passing"} : BuildCandidate(r, outcome)
             \/ BlockRepository(r) \/ WakeDelivery(r)
    <3>1. UNCHANGED <<istatus, head>>
      BY <2>5 DEF BuildCandidate, BlockRepository, WakeDelivery, gitVars, integrationVars
    <3> QED BY <2>0, <3>1, FateSame
  <2> QED BY <1>5, <2>1, <2>2, <2>3, <2>4, <2>5 DEF QueueStep
<1>6. ASSUME Start PROVE Same \/ \E r \in Rounds : Trusted!Abandon(r)
  <2>0. (\A q \in Rounds : Approved(q)' <=> Approved(q)) /\ UNCHANGED head
    BY <1>0, <1>6, QueueReview, StartCases
  <2>1. CASE UNCHANGED istatus BY <2>0, <2>1, FateSame
  <2>2. ASSUME NEW r \in Rounds, head = Append(current, r), istatus' = [istatus EXCEPT ![r] = "completed"]
        PROVE  Same
    <3>1. Merged(r) BY <1>0, <2>2, LastMerged
    <3> QED BY <1>0, <2>0, <2>2, <3>1, FateSame
  <2>3. ASSUME NEW r \in Rounds, istatus[r] = "running", istatus' = [istatus EXCEPT ![r] = "blocked"]
        PROVE  Same \/ Trusted!Abandon(r)
    <3>1. CASE Merged(r) BY <1>0, <2>0, <2>3, <3>1, FateSame
    <3>2. CASE ~Merged(r) BY <2>0, <2>3, <3>2, AbandonStep
    <3> QED BY <3>1, <3>2
  <2> QED BY <1>0, <1>6, <2>1, <2>2, <2>3, StartCases
<1>7. CASE Next
  <2>1. CASE HandlerStep BY <1>1, <1>2, <1>3, <2>1 DEF Trusted!Next
  <2> QED BY <1>1, <1>4, <1>5, <1>6, <1>7, <2>1 DEF Next, CTOStep, HandlerStep, Trusted!Next
<1>8. CASE UNCHANGED vars
  <2>1. UNCHANGED <<head, istatus, verdict, tstatus>>
    BY <1>8 DEF vars, taskVars, reviewVars, integrationVars, gitVars
  <2> QED BY <1>1, <2>1, FateSame DEF Approved
<1> QED BY <1>7, <1>8

\* The workflow keeps the promise of TrustedBranch: only rounds that were reviewed and
\* approved reach the default branch, each of them at most once, and a round that was
\* merged or abandoned stays so, through every crash and recovery (engineering.ts,
\* queueIntegration, processQueue and recover).
THEOREM KeepsTrust == Spec => TrustedSpec
<1>1. Init => TrustedInv
  BY BranchInit DEF Init, TrustedInv, ApprovedFirst
<1>2. Init => Trusted!Init
  <2> SUFFICES ASSUME Init PROVE Trusted!Init OBVIOUS
  <2>1. \A r \in Rounds : Fate(r) = "proposed" BY DEF Init, Fate
  <2> QED BY <2>1 DEF Init, Trusted!Init
<1> QED BY <1>1, <1>2, TrustedInvStep, TrustedStep, PTL DEF Spec, TrustedSpec, Trusted!Spec

-----------------------------------------------------------------------------
\* The allocations whose work is still to be submitted, and those that are submitted.
Unsubmitted == {"allocating", "active", "submitting", "blocked"}
Submitted == {"submitted", "reviewed", "integrated"}
Done == Submitted \cup {"released"}

Made(a) == astatus[a] # "none"
Present(r) == tstatus[Review(r)] # "absent"
\* The review of r has sent engineers back.
SentBack(r) == tstatus[Review(r)] = "completed" /\ verdict[r] = "changes_required"

\* An allocation that is being written has a revision to submit; one that is submitted
\* has no other, and its worktree is the submission.  A revision follows a round.
Written ==
    /\ \A a \in Allocs : astatus[a] \in Unsubmitted => submitted[a] # revision[a]
    /\ \A a \in Allocs : astatus[a] \in Submitted => submitted[a] = revision[a] /\ Frozen(a)
    /\ \A a \in Allocs : tstatus[Work(a)] = "completed" =>
          astatus[a] \in Done /\ submitted[a] = revision[a] /\ Frozen(a)
    /\ \A a \in Allocs : ~Made(a) => tstatus[Work(a)] = "absent" /\ submitted[a] = 0
    /\ \A a \in Allocs : revision[a] > 1 =>
          \E q \in Rounds : q[1] = a[1] /\ q[2] = revision[a] - 1 /\ Present(q)
    /\ step \in {"submitting", "committing"} => on \in Allocs /\ astatus[on] = "submitting"

\* The rounds of a delivery follow one another: each but the last sent engineers back.
Successive ==
    \A r \in Rounds : Present(r) =>
        \A q \in Rounds : q[1] = r[1] /\ q[2] < r[2] => SentBack(q)

\* A round has the submissions of all allocations of its delivery, and verdicts are
\* about them.
Reviewing ==
    /\ \A r \in Rounds : ~Present(r) => verdict[r] = "none"
    /\ \A r \in Rounds : Present(r) => \E a \in Allocs : a[1] = r[1] /\ Made(a)
    /\ \A r \in Rounds : Present(r) => \A a \in Allocs : a[1] = r[1] =>
          /\ packet[r][a[2]] = 0 <=> ~Made(a)
          /\ packet[r][a[2]] <= r[2]
    /\ \A r \in Rounds : verdict[r] = "changes_required" =>
          \A w \in affected[r] : packet[r][w] # 0
    /\ \A r \in Rounds : tstatus[Review(r)] = "completed" => verdict[r] # "none"

\* Until a round sends engineers back, all of them are done and their submissions are
\* the packet; they are integrated only if it was approved.
Held ==
    \A r \in Rounds : Present(r) /\ ~SentBack(r) =>
        \A a \in Allocs : a[1] = r[1] /\ Made(a) =>
            /\ tstatus[Work(a)] = "completed"
            /\ submitted[a] = packet[r][a[2]]
            /\ verdict[r] # "approved" => astatus[a] \in {"submitted", "reviewed"}

\* Work that was integrated had been approved; other work is released only if it was
\* cancelled.
Judged ==
    \A a \in Allocs : astatus[a] \in {"integrated", "released"} =>
        \/ astatus[a] = "released" /\ tstatus[Work(a)] = "cancelled"
        \/ /\ tstatus[Work(a)] = "completed"
           /\ \E r \in Rounds : r[1] = a[1] /\ Approved(r)

\* A completed integration has taken all allocations of its delivery.
Taken ==
    \A r \in Rounds : istatus[r] = "completed" =>
        \A a \in Allocs : a[1] = r[1] /\ Made(a) => astatus[a] \in {"integrated", "released"}

RoundsInv == Written /\ Successive /\ Reviewing /\ Held /\ Judged
ReviewInv == TrustedInv /\ RoundsInv /\ Taken

-----------------------------------------------------------------------------
\* Engineering tasks are known by their allocations.
LEMMA WorkTasks ==
    /\ \A a \in Allocs : Work(a) \in Tasks
    /\ \A a, b \in Allocs : Work(a) = Work(b) => a = b
    /\ \A a \in Allocs, d \in Deliveries : Work(a) # Delivery(d)
    /\ \A a \in Allocs, r \in Rounds : Work(a) # Review(r)
BY PairTypes, TaskKinds DEF Review, Delivery, Work

\* settleParents only moves deliveries.
LEMMA StoreTasksWork ==
    ASSUME NEW st, NEW rs, NEW woken, StoreTasks(st, rs, woken), NEW a \in Allocs
    PROVE  tstatus'[Work(a)] = st[Work(a)]
<1>1. tstatus' = Requeued(st, Handback(st, rs)) BY DEF StoreTasks
<1>2. Handback(st, rs) \subseteq Deliveries BY DEF Handback
<1> HIDE DEF Handback
<1> QED BY <1>1, <1>2, WorkTasks DEF Requeued

\* The initial state has no rounds and no allocations.
LEMMA RoundsInit == Init => RoundsInv /\ Taken
<1> SUFFICES ASSUME Init PROVE RoundsInv /\ Taken OBVIOUS
<1>1. /\ \A a \in Allocs : tstatus[Work(a)] = "absent" /\ astatus[a] = "none"
                           /\ submitted[a] = 0 /\ revision[a] = 0
      /\ \A r \in Rounds : tstatus[Review(r)] = "absent" /\ istatus[r] = "none" /\ verdict[r] = "none"
      /\ step = "none"
  BY WorkTasks, ReviewTasks DEF Init
<1>2. Written BY <1>1 DEF Written, Unsubmitted, Submitted, Made
<1>3. Successive /\ Reviewing /\ Held BY <1>1 DEF Successive, Reviewing, Held, Present
<1>4. Judged /\ Taken BY <1>1 DEF Judged, Taken
<1> QED BY <1>2, <1>3, <1>4 DEF RoundsInv

\* One round of a delivery has not sent the engineers back.
LEMMA HeldUnique ==
    ASSUME RoundsInv, NEW q \in Rounds, NEW r \in Rounds, q[1] = r[1],
           Present(q), Present(r), ~SentBack(q), ~SentBack(r)
    PROVE  q = r
<1>1. ~(q[2] < r[2]) /\ ~(r[2] < q[2]) BY DEF RoundsInv, Successive
<1>2. q[2] = r[2]
  <2>1. q[2] \in Nat /\ r[2] \in Nat BY PairTypes, EngineeringAssumption
  <2> QED BY <1>1, <2>1
<1> QED BY <1>2, PairTypes

\* The engineers of an approved round are done for good.
LEMMA ApprovedHolds ==
    ASSUME ReviewInv, NEW r \in Rounds, Approved(r)
    PROVE  /\ Present(r) /\ ~SentBack(r)
           /\ \A a \in Allocs : a \in Sources(r) <=> a[1] = r[1] /\ Made(a)
           /\ \A a \in Sources(r) : tstatus[Work(a)] = "completed"
<1>1. Present(r) /\ ~SentBack(r) BY DEF Approved, Present, SentBack
<1>2. ASSUME NEW a \in Allocs PROVE a \in Sources(r) <=> a[1] = r[1] /\ Made(a)
  <2>1. a \in Sources(r) <=> a[1] = r[1] /\ packet[r][a[2]] # 0
    BY PairTypes DEF Sources
  <2>2. a[1] = r[1] => (packet[r][a[2]] = 0 <=> ~Made(a))
    BY <1>1 DEF ReviewInv, RoundsInv, Reviewing
  <2> QED BY <2>1, <2>2
<1>3. Sources(r) \subseteq Allocs BY PairTypes DEF Sources
<1> QED BY <1>1, <1>2, <1>3 DEF ReviewInv, RoundsInv, Held

\* The rounds of an actor that leaves allocations, packets and verdicts alone, and
\* completes no review.
LEMMA TasksMove ==
    ASSUME RoundsInv, TypeOK, TypeOK', UNCHANGED <<allocVars, reviewVars, tree>>,
           step' \in {"submitting", "committing"} => step' = step /\ on' = on,
           \A a \in Allocs :
              /\ tstatus[Work(a)] = "completed" => tstatus'[Work(a)] = "completed"
              /\ tstatus'[Work(a)] = "completed" =>
                    \/ tstatus[Work(a)] = "completed"
                    \/ astatus[a] \in Done /\ submitted[a] = revision[a] /\ Frozen(a)
              /\ tstatus[Work(a)] = "absent" => tstatus'[Work(a)] = "absent"
              /\ tstatus[Work(a)] = "cancelled" => tstatus'[Work(a)] = "cancelled",
           \A r \in Rounds :
              /\ tstatus'[Review(r)] = "absent" <=> tstatus[Review(r)] = "absent"
              /\ tstatus'[Review(r)] = "completed" <=> tstatus[Review(r)] = "completed"
    PROVE  RoundsInv'
<1> USE DEF allocVars, reviewVars
<1>0. /\ \A r \in Rounds : (Present(r)' <=> Present(r)) /\ (SentBack(r)' <=> SentBack(r))
      /\ \A a \in Allocs : (Made(a)' <=> Made(a)) /\ (Frozen(a)' <=> Frozen(a))
  BY DEF Present, SentBack, Made, Frozen
<1> HIDE DEF Present, SentBack, Made, Frozen
<1>1. Written' BY <1>0 DEF RoundsInv, Written
<1>2. Successive' BY <1>0 DEF RoundsInv, Successive
<1>3. Reviewing' BY <1>0 DEF RoundsInv, Reviewing
<1>4. Held' BY <1>0 DEF RoundsInv, Held
<1>5. Judged' BY DEF RoundsInv, Judged, Approved
<1> QED BY <1>1, <1>2, <1>3, <1>4, <1>5 DEF RoundsInv

-----------------------------------------------------------------------------
\* Starting, claiming, retrying, cancelling and pausing, the ends of executions other
\* than a reviewer's, a crash, and the steps of the queue but for the one that
\* completes an integration, leave the rounds as they are.
LEMMA OwnerMoves ==
    ASSUME RoundsInv, TypeOK, TypeOK',
           \/ \E d \in Deliveries : AssignDelivery(d)
           \/ \E t \in Tasks : Claim(t) \/ FinishThrows(t) \/ Retry(t) \/ Cancel(t)
           \/ \E b \in BOOLEAN : Pause(b)
           \/ Crash
    PROVE  RoundsInv' /\ UNCHANGED <<allocVars, reviewVars, istatus>>
<1> USE WorkTasks, ReviewTasks, TaskKinds DEF taskVars, volatileVars, gitVars, integrationVars
<1>0. tstatus \in [Tasks -> Statuses \cup {"absent"}] BY DEF TypeOK
<1>1. ASSUME NEW d \in Deliveries, AssignDelivery(d)
      PROVE  RoundsInv' /\ UNCHANGED <<allocVars, reviewVars, istatus>>
  <2>1. /\ \A a \in Allocs : tstatus'[Work(a)] = tstatus[Work(a)]
        /\ \A r \in Rounds : tstatus'[Review(r)] = tstatus[Review(r)]
        /\ UNCHANGED <<allocVars, reviewVars, tree, step, on, istatus>>
    BY <1>0, <1>1 DEF AssignDelivery
  <2> QED BY <2>1, TasksMove
<1>2. ASSUME NEW t \in Tasks, Claim(t)
      PROVE  RoundsInv' /\ UNCHANGED <<allocVars, reviewVars, istatus>>
  <2>1. /\ tstatus' = [tstatus EXCEPT ![t] = "working"] /\ tstatus[t] = "queued"
        /\ UNCHANGED <<allocVars, reviewVars, tree, step, on, istatus>>
    BY <1>2 DEF Claim, Startable
  <2> QED BY <1>0, <2>1, TasksMove
<1>3. ASSUME NEW t \in Tasks, Retry(t)
      PROVE  RoundsInv' /\ UNCHANGED <<allocVars, reviewVars, istatus>>
  <2>1. /\ tstatus' = [tstatus EXCEPT ![t] = "queued"] /\ tstatus[t] \in {"blocked", "failed"}
        /\ UNCHANGED <<allocVars, reviewVars, tree, step, on, istatus>>
    BY <1>3 DEF Retry
  <2> QED BY <1>0, <2>1, TasksMove
<1>4. ASSUME NEW t \in Tasks, Cancel(t)
      PROVE  RoundsInv' /\ UNCHANGED <<allocVars, reviewVars, istatus>>
  <2> DEFINE st == [tstatus EXCEPT ![t] = "cancelled"]
             rs == [d \in Deliveries |-> IF t = Delivery(d) THEN "none" ELSE reason[d]]
  <2>1. /\ StoreTasks(st, rs, {}) /\ tstatus[t] \in {"queued", "blocked", "failed"}
        /\ UNCHANGED <<allocVars, reviewVars, tree, step, on, istatus>>
    BY <1>4 DEF Cancel
  <2> HIDE DEF rs
  <2>2. /\ \A a \in Allocs : tstatus'[Work(a)] = st[Work(a)]
        /\ \A r \in Rounds : tstatus'[Review(r)] = st[Review(r)]
    BY <2>1, StoreTasksWork, StoreTasksReview
  <2> QED BY <1>0, <2>1, <2>2, TasksMove
<1>5. ASSUME (\E t \in Tasks : FinishThrows(t)) \/ (\E b \in BOOLEAN : Pause(b)) \/ Crash
      PROVE  RoundsInv' /\ UNCHANGED <<allocVars, reviewVars, istatus>>
  <2>1. /\ UNCHANGED <<tstatus, allocVars, reviewVars, tree, istatus>>
        /\ step' = "none" \/ UNCHANGED <<step, on>>
    BY <1>5 DEF FinishThrows, Pause, Crash
  <2> QED BY <2>1, TasksMove
<1> QED BY <1>1, <1>2, <1>3, <1>4, <1>5

LEMMA FinishMoves ==
    ASSUME RoundsInv, TypeOK, TypeOK', NEW o \in Outcomes,
           \/ \E d \in Deliveries : FinishDelivery(d, o)
           \/ \E a \in Allocs : FinishEngineering(a, o)
    PROVE  RoundsInv' /\ UNCHANGED <<allocVars, reviewVars, istatus>>
<1> USE WorkTasks, ReviewTasks, TaskKinds DEF taskVars, volatileVars, gitVars, integrationVars, allocVars
<1>0. tstatus \in [Tasks -> Statuses \cup {"absent"}] /\ astatus \in [Allocs -> AllocStatuses]
  BY DEF TypeOK
<1>1. ASSUME NEW d \in Deliveries, FinishDelivery(d, o)
      PROVE  RoundsInv' /\ UNCHANGED <<allocVars, reviewVars, istatus>>
  <2>1. PICK to, why :
          /\ StoreTasks([tstatus EXCEPT ![Delivery(d)] = to], [reason EXCEPT ![d] = why], {})
          /\ UNCHANGED <<allocVars, reviewVars, tree, step, on, istatus>>
    BY <1>1 DEF FinishDelivery, Leave
  <2> DEFINE st == [tstatus EXCEPT ![Delivery(d)] = to]
  <2>2. /\ \A a \in Allocs : tstatus'[Work(a)] = st[Work(a)]
        /\ \A r \in Rounds : tstatus'[Review(r)] = st[Review(r)]
    BY <2>1, StoreTasksWork, StoreTasksReview
  <2>3. /\ \A a \in Allocs : tstatus'[Work(a)] = tstatus[Work(a)]
        /\ \A r \in Rounds : tstatus'[Review(r)] = tstatus[Review(r)]
    BY <1>0, <2>2
  <2> QED BY <2>1, <2>3, TasksMove
<1>2. ASSUME NEW a \in Allocs, FinishEngineering(a, o)
      PROVE  RoundsInv' /\ UNCHANGED <<allocVars, reviewVars, istatus>>
  <2>1. PICK to :
          /\ to = Ended(o, IF repo = "ready" /\ submitted[a] = revision[a] /\ Frozen(a)
                           THEN "completed" ELSE "failed")
          /\ StoreTasks([tstatus EXCEPT ![Work(a)] = to], reason, {})
          /\ tstatus[Work(a)] = "working"
          /\ UNCHANGED <<allocVars, reviewVars, tree, step, on, istatus>>
    BY <1>2 DEF FinishEngineering, Leave
  <2>2. to = "completed" => submitted[a] = revision[a] /\ Frozen(a)
    BY <2>1 DEF Ended, Outcomes
  <2>3. to = "completed" => astatus[a] \in Done
    BY <1>0, <2>1, <2>2 DEF RoundsInv, Written, Unsubmitted, Submitted, Done, Made, AllocStatuses
  <2>4. to # "absent" BY <2>1 DEF Ended, Outcomes
  <2> DEFINE st == [tstatus EXCEPT ![Work(a)] = to]
  <2>5. /\ \A b \in Allocs : tstatus'[Work(b)] = st[Work(b)]
        /\ \A r \in Rounds : tstatus'[Review(r)] = st[Review(r)]
    BY <2>1, StoreTasksWork, StoreTasksReview
  <2>6. /\ \A b \in Allocs : b # a => tstatus'[Work(b)] = tstatus[Work(b)]
        /\ tstatus'[Work(a)] = to
        /\ \A r \in Rounds : tstatus'[Review(r)] = tstatus[Review(r)]
    BY <1>0, <2>5
  <2> QED BY <2>1, <2>2, <2>3, <2>4, <2>6, TasksMove
<1> QED BY <1>1, <1>2

LEMMA QueueMoves ==
    ASSUME RoundsInv, TypeOK, TypeOK', NEW r \in Rounds,
           QueueIntegration(r) \/ QueueStep(r), ~CompleteIntegration(r)
    PROVE  RoundsInv' /\ UNCHANGED <<allocVars, reviewVars>>
<1> USE WorkTasks, ReviewTasks, TaskKinds DEF taskVars, volatileVars, gitVars, integrationVars
<1>0. tstatus \in [Tasks -> Statuses \cup {"absent"}] BY DEF TypeOK
<1>1. CASE WakeDelivery(r)
  <2>1. /\ tstatus' = Requeued(tstatus, Woken({r}, tstatus, reason))
        /\ UNCHANGED <<allocVars, reviewVars, tree>>
        /\ step' \in {"none", "queue"}
    BY <1>1 DEF WakeDelivery
  <2>2. Woken({r}, tstatus, reason) \subseteq Deliveries BY DEF Woken
  <2>3. /\ \A a \in Allocs : tstatus'[Work(a)] = tstatus[Work(a)]
        /\ \A q \in Rounds : tstatus'[Review(q)] = tstatus[Review(q)]
    BY <2>1, <2>2 DEF Requeued
  <2> QED BY <2>1, <2>3, TasksMove
<1>2. CASE ~WakeDelivery(r)
  <2>1. /\ UNCHANGED <<tstatus, allocVars, reviewVars, tree>>
        /\ step' \notin {"submitting", "committing"} \/ UNCHANGED <<step, on>>
    <3>1. CASE QueueIntegration(r) BY <3>1 DEF QueueIntegration
    <3>2. CASE QueueStep(r)
      BY <1>2, <3>2 DEF QueueStep, StartIntegration, RefuseIntegration, BuildCandidate, FailIntegration,
            MergeCandidate, FailAfterMerge, BlockRepository, Settle
    <3> QED BY <3>1, <3>2
  <2> QED BY <2>1, TasksMove
<1> QED BY <1>1, <1>2

-----------------------------------------------------------------------------
\* Work that is not completed holds no round: while one holds its delivery, nobody
\* there is writing.
LEMMA WritingUnheld ==
    ASSUME RoundsInv, NEW a \in Allocs, Made(a),
           astatus[a] \in Unsubmitted \/ tstatus[Work(a)] # "completed"
    PROVE  \A r \in Rounds : r[1] = a[1] /\ Present(r) => SentBack(r)
<1>1. tstatus[Work(a)] # "completed" BY DEF RoundsInv, Written, Unsubmitted, Submitted, Done
<1> QED BY <1>1 DEF RoundsInv, Held

\* An allocation between two submissions moves: its commit is made, recorded or lost,
\* its worktree is added or written to.
LEMMA WritingMoves ==
    ASSUME RoundsInv, TypeOK, TypeOK', UNCHANGED <<tstatus, revision, reviewVars>>,
           \A a \in Allocs :
              \/ UNCHANGED <<astatus[a], submitted[a], tree[a]>>
              \/ /\ astatus[a] \in Unsubmitted
                 /\ \/ astatus'[a] \in Unsubmitted /\ UNCHANGED submitted[a]
                    \/ /\ astatus'[a] = "submitted" /\ submitted'[a] = revision[a]
                       /\ tree'[a] = "clean",
           step' \in {"submitting", "committing"} => on' \in Allocs /\ astatus'[on'] = "submitting"
    PROVE  RoundsInv'
<1> USE DEF reviewVars
<1>0. /\ \A r \in Rounds : (Present(r)' <=> Present(r)) /\ (SentBack(r)' <=> SentBack(r))
      /\ \A a \in Allocs : Made(a)' <=> Made(a)
  BY DEF Present, SentBack, Made, Unsubmitted
<1>1. Written'
  <2>1. ASSUME NEW a \in Allocs
        PROVE  /\ astatus'[a] \in Unsubmitted => submitted'[a] # revision[a]
               /\ astatus'[a] \in Submitted => submitted'[a] = revision[a] /\ tree'[a] = "clean"
               /\ tstatus[Work(a)] = "completed" =>
                     astatus'[a] \in Done /\ submitted'[a] = revision[a] /\ tree'[a] = "clean"
               /\ astatus'[a] = "none" => tstatus[Work(a)] = "absent" /\ submitted'[a] = 0
    BY DEF RoundsInv, Written, Unsubmitted, Submitted, Done, Made, Frozen
  <2>2. ASSUME NEW a \in Allocs, revision[a] > 1
        PROVE  \E q \in Rounds : q[1] = a[1] /\ q[2] = revision[a] - 1 /\ Present(q)'
    BY <1>0, <2>2 DEF RoundsInv, Written
  <2> QED BY <2>1, <2>2 DEF Written, Made, Frozen
<1> HIDE DEF Present, SentBack
<1>2. Successive' BY <1>0 DEF RoundsInv, Successive
<1>3. Reviewing' BY <1>0 DEF RoundsInv, Reviewing
<1>4. Held'
  <2>1. ASSUME NEW r \in Rounds, Present(r), ~SentBack(r), NEW a \in Allocs, a[1] = r[1], Made(a)
        PROVE  /\ tstatus[Work(a)] = "completed" /\ submitted'[a] = packet[r][a[2]]
               /\ verdict[r] # "approved" => astatus'[a] \in {"submitted", "reviewed"}
    <3>1. astatus[a] \notin Unsubmitted BY <2>1, WritingUnheld
    <3> QED BY <2>1, <3>1 DEF RoundsInv, Held
  <2> QED BY <1>0, <2>1 DEF Held
<1>5. Judged' BY DEF RoundsInv, Judged, Approved, Unsubmitted
<1> QED BY <1>1, <1>2, <1>3, <1>4, <1>5 DEF RoundsInv

\* The steps of the engineers and of the CTO's assignment are such moves.
LEMMA EngineerMoves ==
    ASSUME RoundsInv, TypeOK, TypeOK',
           \/ \E ok \in BOOLEAN : AddWorktrees(ok)
           \/ \E a \in Allocs : \/ WriteSource(a)
                                \/ \E to \in {"submitting", "committing"} : BeginCommit(a, to)
                                \/ RecordCommit(a) \/ CommitFails(a)
    PROVE  /\ RoundsInv' /\ UNCHANGED <<tstatus, revision, reviewVars, istatus>>
           /\ \A a \in Allocs : \/ UNCHANGED <<astatus[a], submitted[a], tree[a]>>
                                \/ astatus[a] \in Unsubmitted /\ astatus'[a] # "none"
<1> USE DEF taskVars, reviewVars, allocVars, gitVars, integrationVars, Unsubmitted
<1>0. /\ astatus \in [Allocs -> AllocStatuses] /\ submitted \in [Allocs -> 0 .. MaxReviewRounds]
      /\ tree \in [Allocs -> {"clean", "dirty", "committed"}]
  BY DEF TypeOK
<1>1. ASSUME NEW ok \in BOOLEAN, AddWorktrees(ok)
      PROVE  /\ RoundsInv' /\ UNCHANGED <<tstatus, revision, reviewVars, istatus>>
             /\ \A a \in Allocs : \/ UNCHANGED <<astatus[a], submitted[a], tree[a]>>
                                  \/ astatus[a] \in Unsubmitted /\ astatus'[a] # "none"
  <2>1. /\ \A a \in Allocs : \/ UNCHANGED <<astatus[a], submitted[a], tree[a]>>
                             \/ /\ astatus[a] \in Unsubmitted /\ astatus'[a] \in Unsubmitted
                                /\ UNCHANGED submitted[a]
        /\ step' = "none" /\ UNCHANGED <<tstatus, revision, reviewVars, istatus>>
    BY <1>0, <1>1 DEF AddWorktrees
  <2> QED BY <2>1, WritingMoves
<1>2. ASSUME NEW a \in Allocs, WriteSource(a)
      PROVE  /\ RoundsInv' /\ UNCHANGED <<tstatus, revision, reviewVars, istatus>>
             /\ \A b \in Allocs : \/ UNCHANGED <<astatus[b], submitted[b], tree[b]>>
                                  \/ astatus[b] \in Unsubmitted /\ astatus'[b] # "none"
  <2>1. /\ \A b \in Allocs : b # a => UNCHANGED <<astatus[b], submitted[b], tree[b]>>
        /\ astatus[a] = "active" /\ UNCHANGED <<astatus, submitted>>
        /\ step' = "none" /\ UNCHANGED <<tstatus, revision, reviewVars, istatus>>
    BY <1>0, <1>2 DEF WriteSource, Writable, MayAct, Free, volatileVars
  <2> QED BY <2>1, WritingMoves
<1>3. ASSUME NEW a \in Allocs, NEW to \in {"submitting", "committing"}, BeginCommit(a, to)
      PROVE  /\ RoundsInv' /\ UNCHANGED <<tstatus, revision, reviewVars, istatus>>
             /\ \A b \in Allocs : \/ UNCHANGED <<astatus[b], submitted[b], tree[b]>>
                                  \/ astatus[b] \in Unsubmitted /\ astatus'[b] # "none"
  <2>1. /\ \A b \in Allocs : b # a => UNCHANGED <<astatus[b], submitted[b], tree[b]>>
        /\ astatus[a] = "active" /\ astatus'[a] = "submitting" /\ UNCHANGED submitted
        /\ on' = a /\ UNCHANGED <<tstatus, revision, reviewVars, istatus>>
    BY <1>0, <1>3 DEF BeginCommit, Writable
  <2> QED BY <2>1, WritingMoves
<1>4. ASSUME NEW a \in Allocs, RecordCommit(a) \/ CommitFails(a)
      PROVE  /\ RoundsInv' /\ UNCHANGED <<tstatus, revision, reviewVars, istatus>>
             /\ \A b \in Allocs : \/ UNCHANGED <<astatus[b], submitted[b], tree[b]>>
                                  \/ astatus[b] \in Unsubmitted /\ astatus'[b] # "none"
  <2>1. /\ \A b \in Allocs : b # a => UNCHANGED <<astatus[b], submitted[b], tree[b]>>
        /\ step' = "none" /\ UNCHANGED <<tstatus, revision, reviewVars, istatus>>
    BY <1>0, <1>4 DEF RecordCommit, CommitFails
  <2>2. astatus[a] = "submitting" BY <1>4 DEF RecordCommit, CommitFails, RoundsInv, Written
  <2>3. \/ astatus'[a] \in Unsubmitted /\ UNCHANGED submitted[a]
        \/ astatus'[a] = "submitted" /\ submitted'[a] = revision[a] /\ tree'[a] = "clean"
    BY <1>0, <1>4 DEF RecordCommit, CommitFails
  <2> QED BY <2>1, <2>2, <2>3, WritingMoves
<1> QED BY <1>1, <1>2, <1>3, <1>4

-----------------------------------------------------------------------------
\* Work that is done moves without being changed: it is put under review, integrated
\* or released.
LEMMA DoneMoves ==
    ASSUME RoundsInv, TypeOK, TypeOK',
           UNCHANGED <<tstatus, revision, submitted, packet, tree>>,
           step' \notin {"submitting", "committing"},
           \A a \in Allocs :
              \/ UNCHANGED astatus[a]
              \/ astatus[a] \in Done /\ astatus'[a] \in Done /\ tstatus[Work(a)] = "completed"
              \/ astatus'[a] = "released" /\ Made(a),
           \A r \in Rounds : \/ verdict'[r] = verdict[r] /\ affected'[r] = affected[r]
                             \/ /\ tstatus[Review(r)] = "working" /\ verdict'[r] # "none"
                                /\ \A w \in affected'[r] : packet[r][w] # 0,
           Held', Judged'
    PROVE  RoundsInv'
<1>0. /\ \A r \in Rounds : Present(r)' <=> Present(r)
      /\ \A r \in Rounds : SentBack(r) => SentBack(r)'
      /\ \A a \in Allocs : Made(a)' <=> Made(a)
  BY DEF Present, SentBack, Made, Submitted, Done
<1>1. Written'
  <2>1. ASSUME NEW a \in Allocs
        PROVE  /\ astatus'[a] \in Unsubmitted => submitted[a] # revision[a]
               /\ astatus'[a] \in Submitted => submitted[a] = revision[a] /\ Frozen(a)
               /\ tstatus[Work(a)] = "completed" =>
                     astatus'[a] \in Done /\ submitted[a] = revision[a] /\ Frozen(a)
               /\ astatus'[a] = "none" => tstatus[Work(a)] = "absent" /\ submitted[a] = 0
    BY DEF RoundsInv, Written, Unsubmitted, Submitted, Done, Made
  <2>2. ASSUME NEW a \in Allocs, revision[a] > 1
        PROVE  \E q \in Rounds : q[1] = a[1] /\ q[2] = revision[a] - 1 /\ Present(q)'
    BY <1>0, <2>2 DEF RoundsInv, Written
  <2> QED BY <2>1, <2>2 DEF Written, Made, Frozen
<1>2. Successive' BY <1>0 DEF RoundsInv, Successive
<1>3. Reviewing'
  <2>1. ASSUME NEW r \in Rounds
        PROVE  /\ ~Present(r) => verdict'[r] = "none"
               /\ verdict'[r] = "changes_required" => \A w \in affected'[r] : packet[r][w] # 0
               /\ tstatus[Review(r)] = "completed" => verdict'[r] # "none"
    BY DEF RoundsInv, Reviewing, Present
  <2> QED BY <1>0, <2>1 DEF RoundsInv, Reviewing
<1> QED BY <1>1, <1>2, <1>3 DEF RoundsInv

\* Only work that is integrated or cancelled is released; neither is under review.
LEMMA ReleaseMoves ==
    ASSUME RoundsInv, TypeOK, TypeOK', NEW a \in Allocs, Release(a)
    PROVE  RoundsInv'
<1> USE DEF taskVars, reviewVars, volatileVars, gitVars
<1>0. astatus \in [Allocs -> AllocStatuses] BY DEF TypeOK
<1>1. /\ Made(a)
      /\ astatus[a] = "integrated" \/ tstatus[Work(a)] = "cancelled"
      /\ Free
      /\ astatus' = [astatus EXCEPT ![a] = "released"]
      /\ UNCHANGED <<tstatus, revision, submitted, packet, verdict, affected, tree, step, on>>
  BY DEF Release, Made
<1>2. Held'
  <2>1. ASSUME NEW r \in Rounds, Present(r), ~SentBack(r), NEW b \in Allocs, b[1] = r[1], Made(b)'
        PROVE  /\ tstatus[Work(b)] = "completed" /\ submitted[b] = packet[r][b[2]]
               /\ verdict[r] # "approved" => astatus'[b] \in {"submitted", "reviewed"}
    <3>0. b # a => astatus'[b] = astatus[b] BY <1>0, <1>1
    <3>1. Made(b)
      <4>1. CASE b = a BY <1>1, <4>1 DEF Made
      <4>2. CASE b # a BY <2>1, <3>0, <4>2 DEF Made
      <4> QED BY <4>1, <4>2
    <3>2. /\ tstatus[Work(b)] = "completed" /\ submitted[b] = packet[r][b[2]]
          /\ verdict[r] # "approved" => astatus[b] \in {"submitted", "reviewed"}
      BY <2>1, <3>1 DEF RoundsInv, Held
    <3>3. b = a => verdict[r] = "approved" BY <1>1, <3>2
    <3> QED BY <3>0, <3>2, <3>3
  <2> QED BY <1>1, <2>1 DEF Held, Present, SentBack
<1>3. \A b \in Allocs : \/ UNCHANGED astatus[b]
                        \/ astatus'[b] = "released" /\ Made(b)
  BY <1>0, <1>1 DEF Made
<1>4. step' = "none" BY <1>1 DEF Free
<1>5. Judged'
  <2>1. \A b \in Allocs : b # a => astatus'[b] = astatus[b] BY <1>0, <1>1
  <2>2. astatus[a] = "integrated" =>
           tstatus[Work(a)] = "completed" /\ \E r \in Rounds : r[1] = a[1] /\ Approved(r)
    BY DEF RoundsInv, Judged
  <2>3. astatus'[a] = "released" BY <1>0, <1>1
  <2> QED BY <1>1, <2>1, <2>2, <2>3 DEF RoundsInv, Judged, Approved
<1> QED BY <1>1, <1>2, <1>3, <1>4, <1>5, DoneMoves

\* A verdict is given on submissions that are still as they were.
LEMMA SubmitReviewMoves ==
    ASSUME RoundsInv, TypeOK, TypeOK', NEW r \in Rounds, NEW v \in Verdicts,
           NEW W \in SUBSET Engineers, SubmitReview(r, v, W)
    PROVE  /\ RoundsInv' /\ UNCHANGED istatus
           /\ \A a \in Allocs : \/ astatus'[a] = astatus[a]
                                \/ astatus[a] \in {"submitted", "reviewed"} /\ astatus'[a] = "reviewed"
<1> USE DEF taskVars, volatileVars, gitVars
<1>0. /\ astatus \in [Allocs -> AllocStatuses]
      /\ verdict \in [Rounds -> Verdicts \cup {"none"}] /\ affected \in [Rounds -> SUBSET Engineers]
  BY DEF TypeOK
<1>1. /\ tstatus[Review(r)] = "working" /\ verdict[r] = "none"
      /\ verdict' = [verdict EXCEPT ![r] = v] /\ affected' = [affected EXCEPT ![r] = W]
      /\ v # "approved" => {<<r[1], w>> : w \in W} \subseteq Sources(r)
      /\ v = "approved" => W = {}
      /\ astatus' = [a \in Allocs |-> IF a \in Sources(r) THEN "reviewed" ELSE astatus[a]]
      /\ UNCHANGED <<tstatus, revision, submitted, packet, tree, step, on>>
  BY DEF SubmitReview, MayAct
<1>2. Present(r) /\ ~SentBack(r) BY <1>1 DEF Present, SentBack
<1>3. ASSUME NEW a \in Sources(r)
      PROVE  /\ a \in Allocs /\ a[1] = r[1] /\ Made(a)
             /\ tstatus[Work(a)] = "completed" /\ astatus[a] \in {"submitted", "reviewed"}
  <2>1. a \in Allocs /\ a[1] = r[1] /\ packet[r][a[2]] # 0 BY PairTypes DEF Sources
  <2>2. Made(a) BY <1>2, <2>1 DEF RoundsInv, Reviewing
  <2> QED BY <1>1, <1>2, <2>1, <2>2 DEF RoundsInv, Held
<1>4. \A w \in W : packet[r][w] # 0
  <2>1. ASSUME NEW w \in W PROVE packet[r][w] # 0
    <3>1. <<r[1], w>> \in Sources(r) BY <1>1
    <3> QED BY <3>1 DEF Sources
  <2> QED BY <2>1
<1>5. Held'
  <2>1. ASSUME NEW q \in Rounds, Present(q), ~SentBack(q), NEW b \in Allocs, b[1] = q[1], Made(b)'
        PROVE  /\ tstatus[Work(b)] = "completed" /\ submitted[b] = packet[q][b[2]]
               /\ verdict'[q] # "approved" => astatus'[b] \in {"submitted", "reviewed"}
    <3>1. Made(b) BY <1>1, <1>3, <2>1 DEF Made
    <3>2. /\ tstatus[Work(b)] = "completed" /\ submitted[b] = packet[q][b[2]]
          /\ verdict[q] # "approved" => astatus[b] \in {"submitted", "reviewed"}
      BY <2>1, <3>1 DEF RoundsInv, Held
    <3>3. verdict'[q] # "approved" => verdict[q] # "approved" BY <1>0, <1>1
    <3>4. astatus'[b] \in {astatus[b], "reviewed"} BY <1>1
    <3> QED BY <3>2, <3>3, <3>4
  <2>2. \A q \in Rounds : Present(q)' <=> Present(q) BY <1>1 DEF Present
  <2>3. \A q \in Rounds : SentBack(q) => SentBack(q)' BY <1>0, <1>1 DEF SentBack
  <2> QED BY <1>1, <2>1, <2>2, <2>3 DEF Held
<1>6. \A a \in Allocs : \/ UNCHANGED astatus[a]
                        \/ /\ astatus[a] \in Done /\ astatus'[a] \in Done
                           /\ tstatus[Work(a)] = "completed"
  BY <1>1, <1>3 DEF Submitted, Done
<1>7. \A q \in Rounds : \/ verdict'[q] = verdict[q] /\ affected'[q] = affected[q]
                        \/ /\ tstatus[Review(q)] = "working" /\ verdict'[q] # "none"
                           /\ \A w \in affected'[q] : packet[q][w] # 0
  BY <1>0, <1>1, <1>4 DEF Verdicts
<1>8. step' = "none" BY <1>1 DEF MayAct, Free, SubmitReview
<1>9. \A q \in Rounds : Approved(q) => Approved(q)' BY <1>0, <1>1 DEF Approved
<1>10. Judged'
  <2>1. ASSUME NEW a \in Allocs, astatus'[a] \in {"integrated", "released"}
        PROVE  astatus'[a] = astatus[a]
    BY <1>1, <2>1
  <2> QED BY <1>1, <1>9, <2>1 DEF RoundsInv, Judged
<1>11. \A a \in Allocs : \/ astatus'[a] = astatus[a]
                         \/ astatus[a] \in {"submitted", "reviewed"} /\ astatus'[a] = "reviewed"
  BY <1>1, <1>3
<1>12. UNCHANGED istatus BY DEF SubmitReview, integrationVars
<1>13. RoundsInv' BY <1>1, <1>5, <1>6, <1>7, <1>8, <1>10, DoneMoves
<1> QED BY <1>11, <1>12, <1>13

\* An integration takes what was approved.
LEMMA IntegrateMoves ==
    ASSUME ReviewInv, TypeOK, TypeOK', NEW r \in Rounds, CompleteIntegration(r)
    PROVE  RoundsInv'
<1> USE DEF taskVars, reviewVars, gitVars
<1>0. astatus \in [Allocs -> AllocStatuses] BY DEF TypeOK
<1>1. /\ up /\ step = "merged" /\ on = r /\ step' = "settled"
      /\ astatus' = [a \in Allocs |-> IF a \in Sources(r) THEN "integrated" ELSE astatus[a]]
      /\ UNCHANGED <<tstatus, revision, submitted, packet, verdict, affected, tree>>
  BY DEF CompleteIntegration, Settle, At
<1>2. Approved(r)
  BY <1>1 DEF ReviewInv, TrustedInv, ApprovedFirst, BranchInv, Position
<1>3. \A a \in Sources(r) : /\ a \in Allocs /\ a[1] = r[1] /\ Made(a)
                            /\ tstatus[Work(a)] = "completed"
  <2>1. Sources(r) \subseteq Allocs BY PairTypes DEF Sources
  <2> QED BY <1>2, <2>1, ApprovedHolds
<1>4. Present(r) /\ ~SentBack(r) BY <1>2, ApprovedHolds
<1>5. Held'
  <2>1. ASSUME NEW q \in Rounds, Present(q), ~SentBack(q), NEW b \in Allocs, b[1] = q[1], Made(b)'
        PROVE  /\ tstatus[Work(b)] = "completed" /\ submitted[b] = packet[q][b[2]]
               /\ verdict[q] # "approved" => astatus'[b] \in {"submitted", "reviewed"}
    <3>1. Made(b)
      <4>1. CASE b \in Sources(r) BY <1>3, <4>1
      <4>2. CASE b \notin Sources(r) BY <1>1, <2>1, <4>2 DEF Made
      <4> QED BY <4>1, <4>2
    <3>2. /\ tstatus[Work(b)] = "completed" /\ submitted[b] = packet[q][b[2]]
          /\ verdict[q] # "approved" => astatus[b] \in {"submitted", "reviewed"}
      BY <2>1, <3>1 DEF ReviewInv, RoundsInv, Held
    <3>3. ASSUME b \in Sources(r) PROVE verdict[q] = "approved"
      <4>1. q[1] = r[1] BY <1>3, <2>1, <3>3
      <4>2. q = r BY <1>4, <2>1, <4>1, HeldUnique DEF ReviewInv
      <4> QED BY <1>2, <4>2 DEF Approved
    <3> QED BY <1>1, <3>2, <3>3
  <2> QED BY <1>1, <2>1 DEF Held, Present, SentBack
<1>6. \A a \in Allocs : \/ UNCHANGED astatus[a]
                        \/ /\ astatus[a] \in Done /\ astatus'[a] \in Done
                           /\ tstatus[Work(a)] = "completed"
  BY <1>1, <1>3 DEF ReviewInv, RoundsInv, Written, Submitted, Done
<1>7. Judged'
  <2>1. \A q \in Rounds : Approved(q)' <=> Approved(q) BY <1>1 DEF Approved
  <2>2. ASSUME NEW a \in Allocs, a \in Sources(r)
        PROVE  tstatus[Work(a)] = "completed" /\ \E q \in Rounds : q[1] = a[1] /\ Approved(q)
    BY <1>2, <1>3, <2>2
  <2>3. ASSUME NEW a \in Allocs, a \notin Sources(r) PROVE astatus'[a] = astatus[a]
    BY <1>1, <2>3
  <2> QED BY <1>1, <2>1, <2>2, <2>3 DEF ReviewInv, RoundsInv, Judged
<1> QED BY <1>1, <1>5, <1>6, <1>7, DoneMoves DEF ReviewInv

\* A delivery is allocated before it has rounds.
LEMMA AssignMoves ==
    ASSUME RoundsInv, TypeOK, TypeOK', NEW d \in Deliveries, NEW W \in SUBSET Engineers,
           AssignEngineering(d, W)
    PROVE  RoundsInv'
<1> USE DEF taskVars, reviewVars, gitVars
<1>0. /\ astatus \in [Allocs -> AllocStatuses] /\ tstatus \in [Tasks -> Statuses \cup {"absent"}]
      /\ revision \in [Allocs -> 0 .. MaxReviewRounds]
  BY DEF TypeOK
<1> DEFINE new == {a \in Allocs : a[1] = d /\ a[2] \in W}
<1>1. /\ AllocsOf(d) = {}
      /\ astatus' = [a \in Allocs |-> IF a \in new THEN "allocating" ELSE astatus[a]]
      /\ revision' = [a \in Allocs |-> IF a \in new THEN 1 ELSE revision[a]]
      /\ tstatus' = [t \in Tasks |-> IF t \in {Work(<<d, w>>) : w \in W} THEN "queued" ELSE tstatus[t]]
      /\ step' = "allocating"
      /\ UNCHANGED <<submitted, packet, verdict, affected, tree>>
  BY DEF AssignEngineering
<1>2. \A a \in Allocs : Work(a) \in {Work(<<d, w>>) : w \in W} <=> a \in new
  <2>1. ASSUME NEW a \in Allocs, NEW w \in W, Work(a) = Work(<<d, w>>) PROVE a \in new
    <3>1. <<d, w>> \in Allocs BY PairTypes
    <3>2. a = <<d, w>> BY <2>1, <3>1, WorkTasks
    <3> QED BY <3>2
  <2>2. ASSUME NEW a \in new PROVE a[2] \in W /\ Work(a) = Work(<<d, a[2]>>)
    <3>1. a = <<d, a[2]>> BY PairTypes
    <3> QED BY <3>1
  <2> QED BY <2>1, <2>2
<1>3. \A q \in Rounds : Review(q) \notin {Work(<<d, w>>) : w \in W}
  BY PairTypes, WorkTasks
<1>4. /\ \A q \in Rounds : tstatus'[Review(q)] = tstatus[Review(q)]
      /\ \A a \in Allocs : tstatus'[Work(a)] = IF a \in new THEN "queued" ELSE tstatus[Work(a)]
  BY <1>1, <1>2, <1>3, ReviewTasks, WorkTasks
<1>5. \A a \in Allocs : a[1] = d => ~Made(a) BY <1>1 DEF AllocsOf, Made
<1>6. \A q \in Rounds : q[1] = d => ~Present(q) BY <1>5 DEF RoundsInv, Reviewing
<1>7. /\ \A q \in Rounds : (Present(q)' <=> Present(q)) /\ (SentBack(q)' <=> SentBack(q))
      /\ \A a \in Allocs : a[1] # d => (Made(a)' <=> Made(a))
      /\ \A a \in Allocs : Made(a)' => Made(a) \/ a \in new
  BY <1>1, <1>4 DEF Present, SentBack, Made
<1>8. Written'
  <2>1. ASSUME NEW a \in Allocs, a \in new
        PROVE  /\ astatus'[a] = "allocating" /\ submitted'[a] = 0 /\ revision'[a] = 1
               /\ tstatus'[Work(a)] = "queued"
    BY <1>1, <1>4, <1>5, <2>1 DEF RoundsInv, Written
  <2>2. ASSUME NEW a \in Allocs, a \notin new
        PROVE  /\ UNCHANGED <<astatus[a], submitted[a], revision[a], tstatus[Work(a)], tree[a]>>
    BY <1>1, <1>4, <2>2
  <2>3. ASSUME NEW a \in Allocs, revision'[a] > 1
        PROVE  \E q \in Rounds : q[1] = a[1] /\ q[2] = revision'[a] - 1 /\ Present(q)'
    BY <1>7, <2>1, <2>2, <2>3 DEF RoundsInv, Written
  <2>4. ASSUME NEW a \in Allocs
        PROVE  /\ astatus'[a] \in Unsubmitted => submitted'[a] # revision'[a]
               /\ astatus'[a] \in Submitted => submitted'[a] = revision'[a] /\ tree'[a] = "clean"
               /\ tstatus'[Work(a)] = "completed" =>
                     astatus'[a] \in Done /\ submitted'[a] = revision'[a] /\ tree'[a] = "clean"
               /\ astatus'[a] = "none" => tstatus'[Work(a)] = "absent" /\ submitted'[a] = 0
    <3>1. CASE a \in new BY <2>1, <3>1 DEF Unsubmitted, Submitted, Done
    <3>2. CASE a \notin new BY <2>2, <3>2 DEF RoundsInv, Written, Frozen, Made
    <3> QED BY <3>1, <3>2
  <2> QED BY <1>1, <2>3, <2>4 DEF Written, Made, Frozen
<1>9. Successive' BY <1>7 DEF RoundsInv, Successive
<1>10. Reviewing'
  <2>1. ASSUME NEW r \in Rounds, Present(r) PROVE r[1] # d BY <1>6, <2>1
  <2> QED BY ZenonT(40), <1>1, <1>4, <1>7, <2>1 DEF RoundsInv, Reviewing
<1>11. Held'
  <2>1. ASSUME NEW r \in Rounds, Present(r), ~SentBack(r), NEW a \in Allocs, a[1] = r[1], Made(a)'
        PROVE  /\ tstatus'[Work(a)] = "completed" /\ submitted[a] = packet[r][a[2]]
               /\ verdict[r] # "approved" => astatus'[a] \in {"submitted", "reviewed"}
    <3>1. r[1] # d /\ a \notin new BY <1>6, <2>1
    <3>2. Made(a) BY <1>7, <2>1, <3>1
    <3>3. /\ tstatus[Work(a)] = "completed" /\ submitted[a] = packet[r][a[2]]
          /\ verdict[r] # "approved" => astatus[a] \in {"submitted", "reviewed"}
      BY <2>1, <3>2 DEF RoundsInv, Held
    <3>4. tstatus'[Work(a)] = tstatus[Work(a)] /\ astatus'[a] = astatus[a]
      BY <1>1, <1>4, <3>1
    <3> QED BY <3>3, <3>4
  <2>2. UNCHANGED <<submitted, packet, verdict>> BY <1>1
  <2>3. \A q \in Rounds : (Present(q)' <=> Present(q)) /\ (SentBack(q)' <=> SentBack(q)) BY <1>7
  <2> HIDE DEF Present, SentBack, Made
  <2> QED BY <2>1, <2>2, <2>3 DEF Held
<1>12. Judged'
  <2>1. \A q \in Rounds : Approved(q) => Approved(q)' BY <1>1, <1>4 DEF Approved
  <2>2. ASSUME NEW a \in Allocs, astatus'[a] \in {"integrated", "released"}
        PROVE  astatus'[a] = astatus[a] /\ tstatus'[Work(a)] = tstatus[Work(a)]
    BY <1>1, <1>4, <2>2
  <2> QED BY <2>1, <2>2 DEF RoundsInv, Judged
<1> QED BY <1>8, <1>9, <1>10, <1>11, <1>12 DEF RoundsInv

-----------------------------------------------------------------------------
\* The rounds of a delivery are numbered without gaps: the next one follows them all.
LEMMA NextRound ==
    ASSUME RoundsInv, TypeOK, NEW r \in Rounds, ~Present(r),
           r[2] = Cardinality(RoundsOf(r[1])) + 1
    PROVE  \A q \in Rounds : q[1] = r[1] => (Present(q) <=> q[2] < r[2])
<1> DEFINE d == r[1]
           k == r[2] - 1
           Number(q) == q[2]
           S == {i \in 1 .. k : <<d, i>> \in RoundsOf(d)}
<1>1. d \in Deliveries /\ r[2] \in Nat /\ r[2] \in 1 .. MaxReviewRounds /\ k \in Nat
  BY PairTypes, EngineeringAssumption
<1>2. \A q \in RoundsOf(d) : q \in Rounds /\ q[1] = d /\ q = <<d, q[2]>> /\ Present(q) /\ q[2] \in Nat
  BY PairTypes, EngineeringAssumption DEF RoundsOf, Present
<1>3. \A q \in RoundsOf(d) : q[2] \in 1 .. k
  <2>1. ASSUME NEW q \in RoundsOf(d), q[2] >= r[2] PROVE FALSE
    <3>1. q # r BY <1>2
    <3>2. q[2] # r[2] BY <1>2, <3>1, PairTypes
    <3>3. r[2] < q[2] BY <1>1, <1>2, <2>1, <3>2
    <3>4. SentBack(r) BY <1>2, <3>3 DEF RoundsInv, Successive
    <3> QED BY <3>4 DEF SentBack, Present
  <2> QED BY <1>1, <1>2, <2>1, PairTypes
<1>4. S \subseteq 1 .. k /\ IsFiniteSet(1 .. k) /\ Cardinality(1 .. k) = k
  <2>1. 1 \in Int /\ k \in Int /\ (1 > k => k = 0) BY <1>1
  <2>2. IsFiniteSet(1 .. k) /\ Cardinality(1 .. k) = IF 1 > k THEN 0 ELSE k - 1 + 1
    BY ONLY <2>1, FS_Interval
  <2> QED BY <1>1, <2>1, <2>2
<1>5. IsFiniteSet(S)
  <2> HIDE DEF S, k
  <2> QED BY <1>4, FS_Subset
<1>6. Cardinality(RoundsOf(d)) = Cardinality(S)
  <2> DEFINE f == [i \in S |-> <<d, i>>]
  <2>1. f \in Bijection(S, RoundsOf(d))
    <3>1. \A i \in S : f[i] \in RoundsOf(d) OBVIOUS
    <3>2. \A i, j \in S : f[i] = f[j] => i = j OBVIOUS
    <3>3. \A q \in RoundsOf(d) : q[2] \in S /\ f[q[2]] = q BY <1>2, <1>3
    <3> QED BY <3>1, <3>2, <3>3 DEF Bijection, Injection, Surjection, IsInjective
  <2> HIDE DEF S, f
  <2>2. ExistsBijection(S, RoundsOf(d)) BY <2>1 DEF ExistsBijection
  <2> QED BY <1>5, <2>2, FS_Bijection
<1>7. S = 1 .. k
  <2>1. Cardinality(1 .. k) = Cardinality(S)
    <3>1. Cardinality(S) \in Nat BY <1>5, FS_CardinalityType
    <3> QED BY <1>1, <1>4, <1>6, <3>1
  <2> HIDE DEF S, k
  <2> QED BY <1>4, <2>1, FS_Subset
<1>8. ASSUME NEW q \in Rounds, q[1] = d PROVE Present(q) <=> q[2] < r[2]
  <2>1. q = <<d, q[2]>> /\ q[2] \in Nat /\ q[2] >= 1 BY <1>8, PairTypes, EngineeringAssumption
  <2>2. Present(q) => q \in RoundsOf(d) BY <1>8 DEF RoundsOf, Present
  <2>3. q[2] < r[2] => q \in RoundsOf(d) BY <1>1, <1>7, <2>1
  <2> QED BY <1>1, <1>2, <1>3, <2>2, <2>3
<1> QED BY <1>8

\* A round is put to review when the one before it has sent engineers back and all of
\* them have submitted since.
LEMMA AssignReviewMoves ==
    ASSUME RoundsInv, TypeOK, TypeOK', NEW r \in Rounds, AssignReview(r)
    PROVE  RoundsInv'
<1> USE DEF taskVars, allocVars, gitVars, volatileVars
<1>0. /\ astatus \in [Allocs -> AllocStatuses] /\ tstatus \in [Tasks -> Statuses \cup {"absent"}]
      /\ packet \in [Rounds -> [Engineers -> 0 .. MaxReviewRounds]]
      /\ revision \in [Allocs -> 0 .. MaxReviewRounds] /\ submitted \in [Allocs -> 0 .. MaxReviewRounds]
  BY DEF TypeOK
<1> DEFINE d == r[1]
<1>1. /\ ~Present(r) /\ r[2] = Cardinality(RoundsOf(d)) + 1
      /\ AllCompleted(d)
      /\ \A q \in RoundsOf(d) : q[2] = r[2] - 1 => packet[q] # Latest(d)
      /\ packet' = [packet EXCEPT ![r] = Latest(d)]
      /\ tstatus' = [tstatus EXCEPT ![Review(r)] = "queued"]
      /\ UNCHANGED <<astatus, submitted, revision, tree, verdict, affected, step, on>>
  BY DEF AssignReview, Present
<1>2. \A q \in Rounds : q[1] = d => (Present(q) <=> q[2] < r[2]) BY <1>1, NextRound
<1>3. /\ \A q \in Rounds : q # r => tstatus'[Review(q)] = tstatus[Review(q)]
      /\ tstatus'[Review(r)] = "queued"
      /\ \A a \in Allocs : tstatus'[Work(a)] = tstatus[Work(a)]
  BY <1>0, <1>1, ReviewTasks, WorkTasks
<1>4. /\ \A q \in Rounds : q # r => (Present(q)' <=> Present(q)) /\ (SentBack(q)' <=> SentBack(q))
      /\ Present(r)' /\ ~SentBack(r)' /\ ~SentBack(r)
      /\ \A a \in Allocs : Made(a)' <=> Made(a)
  BY <1>1, <1>3 DEF Present, SentBack, Made
<1>5. /\ \E a \in Allocs : a[1] = d /\ Made(a)
      /\ \A a \in Allocs : a[1] = d /\ Made(a) =>
            submitted[a] # 0 /\ tstatus[Work(a)] = "completed"
  BY <1>1 DEF AllCompleted, AllocsOf, Made
<1>6. ASSUME NEW a \in Allocs, a[1] = d
      PROVE  packet'[r][a[2]] = submitted[a] /\ (submitted[a] = 0 <=> ~Made(a))
  <2>1. a[2] \in Engineers /\ a = <<d, a[2]>> BY <1>6, PairTypes
  <2>2. packet'[r] = Latest(d) BY <1>0, <1>1
  <2>3. packet'[r][a[2]] = submitted[a] BY <2>1, <2>2 DEF Latest
  <2> QED BY <1>5, <1>6, <2>3 DEF RoundsInv, Written
<1>7. ASSUME NEW q \in Rounds, q[1] = d, q[2] < r[2] PROVE SentBack(q)
  <2>0. q[2] \in Nat /\ r[2] \in Nat /\ q[2] >= 1 BY PairTypes, EngineeringAssumption
  <2>1. PICK p \in Rounds : p[1] = d /\ p[2] = r[2] - 1
    <3>1. d \in Deliveries /\ r[2] - 1 \in 1 .. MaxReviewRounds
      BY <1>7, <2>0, PairTypes, EngineeringAssumption
    <3>2. <<d, r[2] - 1>> \in Rounds BY <3>1 DEF Rounds
    <3> QED BY <3>2
  <2>2. Present(p) /\ p \in RoundsOf(d) BY <1>2, <2>0, <2>1 DEF RoundsOf, Present
  <2>3. SentBack(p)
    <3> SUFFICES ASSUME ~SentBack(p) PROVE packet[p] = Latest(d) BY <1>1, <2>1, <2>2
    <3>1. ASSUME NEW w \in Engineers PROVE packet[p][w] = submitted[<<d, w>>]
      <4> DEFINE a == <<d, w>>
      <4>1. a \in Allocs /\ a[1] = p[1] /\ a[2] = w BY <2>1, PairTypes
      <4>2. Made(a) => submitted[a] = packet[p][w]
        BY <2>2, <4>1 DEF RoundsInv, Held
      <4>3. ~Made(a) => packet[p][w] = 0 /\ submitted[a] = 0
        BY <2>2, <4>1 DEF RoundsInv, Reviewing, Written
      <4> QED BY <4>2, <4>3
    <3>2. packet[p] \in [Engineers -> 0 .. MaxReviewRounds] BY <1>0
    <3> QED BY <3>1, <3>2 DEF Latest
  <2>4. q[2] < p[2] \/ q = p BY <1>7, <2>0, <2>1, PairTypes
  <2> QED BY <1>7, <2>1, <2>2, <2>3, <2>4 DEF RoundsInv, Successive
<1>8. Written'
  <2>1. ASSUME NEW a \in Allocs, revision[a] > 1
        PROVE  \E q \in Rounds : q[1] = a[1] /\ q[2] = revision[a] - 1 /\ Present(q)'
    BY <1>4, <2>1 DEF RoundsInv, Written
  <2> QED BY <1>1, <1>3, <1>4, <2>1 DEF RoundsInv, Written, Frozen
<1>9. Successive'
  <2>1. ASSUME NEW s \in Rounds, Present(s)', NEW q \in Rounds, q[1] = s[1], q[2] < s[2]
        PROVE  SentBack(q)'
    <3>1. CASE s = r
      <4>1. SentBack(q) BY <1>7, <2>1, <3>1
      <4> QED BY <1>4, <4>1
    <3>2. CASE s # r
      <4>1. SentBack(q) BY <1>4, <2>1, <3>2 DEF RoundsInv, Successive
      <4> QED BY <1>4, <4>1
    <3> QED BY <3>1, <3>2
  <2> QED BY <2>1 DEF Successive
<1>10. Reviewing'
  <2>1. ASSUME NEW a \in Allocs, a[1] = d
        PROVE  (packet'[r][a[2]] = 0 <=> ~Made(a)) /\ packet'[r][a[2]] <= r[2]
    <3>1. submitted[a] <= r[2]
      <4>0. /\ submitted[a] \in Nat /\ revision[a] \in Nat /\ r[2] \in Nat /\ r[2] >= 1
        BY <1>0, PairTypes, EngineeringAssumption
      <4>1. CASE ~Made(a) BY <1>6, <2>1, <4>0, <4>1
      <4>2. CASE Made(a)
        <5>1. submitted[a] = revision[a]
          BY <1>5, <2>1, <4>2 DEF RoundsInv, Written
        <5>2. revision[a] > 1 => revision[a] - 1 < r[2]
          BY <1>2, <2>1 DEF RoundsInv, Written
        <5> QED BY <4>0, <5>1, <5>2
      <4> QED BY <4>1, <4>2
    <3> QED BY <1>6, <2>1, <3>1
  <2>2. \A q \in Rounds : q # r => packet'[q] = packet[q] BY <1>0, <1>1
  <2>3. ASSUME NEW q \in Rounds, Present(q)'
        PROVE  /\ \E a \in Allocs : a[1] = q[1] /\ Made(a)
               /\ \A a \in Allocs : a[1] = q[1] =>
                     (packet'[q][a[2]] = 0 <=> ~Made(a)) /\ packet'[q][a[2]] <= q[2]
    <3>1. CASE q = r BY <1>5, <2>1, <3>1
    <3>2. CASE q # r BY <1>4, <2>2, <2>3, <3>2 DEF RoundsInv, Reviewing
    <3> QED BY <3>1, <3>2
  <2>4. ASSUME NEW q \in Rounds
        PROVE  /\ ~Present(q)' => verdict[q] = "none"
               /\ tstatus'[Review(q)] = "completed" => verdict[q] # "none"
    BY <1>3, <1>4 DEF RoundsInv, Reviewing
  <2>5. verdict[r] = "none" BY <1>1 DEF RoundsInv, Reviewing
  <2>6. ASSUME NEW q \in Rounds, verdict[q] = "changes_required", NEW w \in affected[q]
        PROVE  packet'[q][w] # 0
    BY <2>2, <2>5, <2>6 DEF RoundsInv, Reviewing
  <2> QED BY <1>1, <1>4, <2>3, <2>4, <2>6 DEF Reviewing
<1>11. Held'
  <2>1. ASSUME NEW q \in Rounds, Present(q)', ~SentBack(q)', NEW a \in Allocs, a[1] = q[1], Made(a)
        PROVE  /\ tstatus'[Work(a)] = "completed" /\ submitted[a] = packet'[q][a[2]]
               /\ verdict[q] # "approved" => astatus[a] \in {"submitted", "reviewed"}
    <3>1. CASE q # r
      <4>1. packet'[q] = packet[q] BY <1>0, <1>1, <3>1
      <4> QED BY <1>3, <1>4, <2>1, <3>1, <4>1 DEF RoundsInv, Held
    <3>2. CASE q = r
      <4>1. tstatus[Work(a)] = "completed" /\ submitted[a] = packet'[r][a[2]]
        BY <1>5, <1>6, <2>1, <3>2
      <4>2. astatus[a] \notin {"integrated", "released"}
        <5>1. ASSUME NEW p \in Rounds, p[1] = d PROVE ~Approved(p)
          <6>1. Present(p) => SentBack(p) BY <1>2, <1>7, <5>1
          <6> QED BY <6>1 DEF Present, SentBack, Approved
        <5> QED BY <2>1, <3>2, <4>1, <5>1 DEF RoundsInv, Judged
      <4>3. astatus[a] \in Done BY <4>1 DEF RoundsInv, Written
      <4> QED BY <1>3, <3>2, <4>1, <4>2, <4>3 DEF Done, Submitted
    <3> QED BY <3>1, <3>2
  <2> QED BY <1>1, <1>4, <2>1 DEF Held
<1>12. Judged'
  <2>1. \A q \in Rounds : Approved(q) => Approved(q)' BY <1>1, <1>3 DEF Approved, Present
  <2> QED BY <1>1, <1>3, <2>1 DEF RoundsInv, Judged
<1> QED BY <1>8, <1>9, <1>10, <1>11, <1>12 DEF RoundsInv

-----------------------------------------------------------------------------
\* What the end of a review does to the tasks and allocations of its delivery: the
\* engineers sent back are of this round, and had not been integrated.
LEMMA FinishReviewCases ==
    ASSUME RoundsInv, TypeOK, NEW r \in Rounds, NEW o \in Outcomes, FinishReview(r, o)
    PROVE  \E to \in {"completed", "failed", "blocked"}, again \in SUBSET Allocs :
             /\ tstatus'[Review(r)] = to
             /\ to = "completed" => verdict[r] # "none"
             /\ again # {} => to = "completed" /\ verdict[r] = "changes_required"
             /\ \A q \in Rounds : q # r => tstatus'[Review(q)] = tstatus[Review(q)]
             /\ \A a \in Allocs : tstatus'[Work(a)] = IF a \in again THEN "queued" ELSE tstatus[Work(a)]
             /\ astatus' = [a \in Allocs |-> IF a \in again THEN "active" ELSE astatus[a]]
             /\ revision' = [a \in Allocs |-> IF a \in again THEN r[2] + 1 ELSE revision[a]]
             /\ \A a \in again : a[1] = r[1] /\ packet[r][a[2]] # 0
             /\ tstatus[Review(r)] = "working" /\ Free
             /\ UNCHANGED <<submitted, reviewVars, tree, step, on, istatus>>
<1> USE DEF gitVars, integrationVars
<1>0. tstatus \in [Tasks -> Statuses \cup {"absent"}] /\ affected \in [Rounds -> SUBSET Engineers]
  BY DEF TypeOK
<1> DEFINE d == r[1]
           to == Ended(o, IF Reviewed(r) THEN "completed" ELSE "failed")
           changes == to = "completed" /\ verdict[r] = "changes_required"
           limit == changes /\ ~RoundsLeft(r)
           again == IF changes /\ ~limit THEN {<<d, w>> : w \in affected[r]} ELSE {}
           moved == [tstatus EXCEPT ![Review(r)] = to]
           st == [t \in Tasks |-> IF limit /\ t = Delivery(d) THEN "blocked"
                                  ELSE IF t \in {Work(a) : a \in again} THEN "queued"
                                  ELSE moved[t]]
           rs == IF limit THEN [reason EXCEPT ![d] = "other"] ELSE reason
<1>1. /\ StoreTasks(st, rs, {}) /\ Leave(Review(r))
      /\ astatus' = [a \in Allocs |-> IF a \in again THEN "active" ELSE astatus[a]]
      /\ revision' = [a \in Allocs |-> IF a \in again THEN r[2] + 1 ELSE revision[a]]
  BY DEF FinishReview
<1>2. d \in Deliveries BY PairTypes
<1>3. to \in {"completed", "failed", "blocked"} /\ (to = "completed" => verdict[r] # "none")
  BY DEF Ended, Outcomes, Reviewed
<1>4. again \in SUBSET Allocs /\ \A a \in again : a[1] = d /\ a[2] \in affected[r]
  BY <1>0, <1>2, PairTypes
<1>5. again # {} => to = "completed" /\ verdict[r] = "changes_required" OBVIOUS
<1>6. \A a \in again : packet[r][a[2]] # 0
  BY <1>4, <1>5 DEF RoundsInv, Reviewing
<1> HIDE DEF to, limit, again, rs, d
<1>7. /\ \A a \in Allocs : tstatus'[Work(a)] = st[Work(a)]
      /\ \A q \in Rounds : tstatus'[Review(q)] = st[Review(q)]
  <2> HIDE DEF st
  <2> QED BY <1>1, StoreTasksWork, StoreTasksReview
<1>8. \A q \in Rounds : st[Review(q)] = IF q = r THEN to ELSE tstatus[Review(q)]
  <2>1. ASSUME NEW q \in Rounds
        PROVE  /\ Review(q) \in Tasks /\ Review(q) # Delivery(d)
               /\ Review(q) \notin {Work(a) : a \in again}
               /\ Review(q) = Review(r) => q = r
    BY <1>2, <1>4, ReviewTasks
  <2> QED BY <1>0, <2>1
<1>9. \A a \in Allocs : st[Work(a)] = IF a \in again THEN "queued" ELSE tstatus[Work(a)]
  <2>1. ASSUME NEW a \in Allocs
        PROVE  /\ Work(a) \in Tasks /\ Work(a) # Delivery(d)
               /\ Work(a) \in {Work(b) : b \in again} <=> a \in again
               /\ Work(a) # Review(r)
    BY <1>2, <1>4, WorkTasks
  <2> QED BY <1>0, <2>1
<1>10. tstatus[Review(r)] = "working" /\ Free /\ UNCHANGED <<submitted, reviewVars, tree, step, on, istatus>>
  BY <1>1 DEF Leave
<1> HIDE DEF st
<1> QED BY <1>1, <1>3, <1>4, <1>5, <1>6, <1>7, <1>8, <1>9, <1>10 DEF d

\* The engineers that a review sends back had submitted what it judged, so that their
\* next revision is a new one.
LEMMA FinishReviewMoves ==
    ASSUME RoundsInv, TypeOK, TypeOK', NEW r \in Rounds, NEW o \in Outcomes, FinishReview(r, o)
    PROVE  /\ RoundsInv' /\ UNCHANGED <<submitted, istatus>>
           /\ \A q \in Rounds : Approved(q) => Approved(q)'
           /\ \A a \in Allocs : \/ astatus'[a] = astatus[a]
                                \/ astatus[a] \in {"submitted", "reviewed"} /\ astatus'[a] = "active"
<1> USE DEF reviewVars
<1>0. astatus \in [Allocs -> AllocStatuses] /\ revision \in [Allocs -> 0 .. MaxReviewRounds]
  BY DEF TypeOK
<1>1. PICK to \in {"completed", "failed", "blocked"}, again \in SUBSET Allocs :
             /\ tstatus'[Review(r)] = to
             /\ to = "completed" => verdict[r] # "none"
             /\ again # {} => to = "completed" /\ verdict[r] = "changes_required"
             /\ \A q \in Rounds : q # r => tstatus'[Review(q)] = tstatus[Review(q)]
             /\ \A a \in Allocs : tstatus'[Work(a)] = IF a \in again THEN "queued" ELSE tstatus[Work(a)]
             /\ astatus' = [a \in Allocs |-> IF a \in again THEN "active" ELSE astatus[a]]
             /\ revision' = [a \in Allocs |-> IF a \in again THEN r[2] + 1 ELSE revision[a]]
             /\ \A a \in again : a[1] = r[1] /\ packet[r][a[2]] # 0
             /\ tstatus[Review(r)] = "working" /\ Free
             /\ UNCHANGED <<submitted, reviewVars, tree, step, on, istatus>>
  BY FinishReviewCases
<1>2. Present(r) /\ ~SentBack(r) /\ Present(r)' /\ ~Approved(r) BY <1>1 DEF Present, SentBack, Approved
<1>3. ASSUME NEW a \in again
      PROVE  /\ a \in Allocs /\ Made(a) /\ a[1] = r[1]
             /\ tstatus[Work(a)] = "completed" /\ submitted[a] = packet[r][a[2]]
             /\ packet[r][a[2]] <= r[2]
             /\ astatus[a] \in {"submitted", "reviewed"}
  <2>1. a \in Allocs /\ a[1] = r[1] BY <1>1
  <2>2. Made(a) /\ packet[r][a[2]] <= r[2] BY <1>1, <1>2, <2>1 DEF RoundsInv, Reviewing
  <2> QED BY <1>1, <1>2, <2>1, <2>2 DEF RoundsInv, Held
<1>4. /\ \A q \in Rounds : Present(q)' <=> Present(q)
      /\ \A q \in Rounds : SentBack(q) => SentBack(q)'
      /\ \A a \in Allocs : Made(a)' <=> Made(a)
      /\ \A q \in Rounds : q # r => (SentBack(q)' <=> SentBack(q))
      /\ \A q \in Rounds : Approved(q) => Approved(q)'
  BY <1>1, <1>2, <1>3 DEF Present, SentBack, Made, Approved
<1>5. Written'
  <2>1. ASSUME NEW a \in again
        PROVE  /\ astatus'[a] = "active" /\ submitted[a] # revision'[a]
               /\ tstatus'[Work(a)] = "queued"
               /\ \E q \in Rounds : q[1] = a[1] /\ q[2] = revision'[a] - 1 /\ Present(q)'
    <3>1. revision'[a] = r[2] + 1 /\ astatus'[a] = "active" BY <1>1
    <3>2. r[2] \in Nat /\ submitted[a] \in Nat
      BY <1>3, PairTypes, EngineeringAssumption DEF TypeOK
    <3>3. r[2] = revision'[a] - 1 BY <3>1, <3>2
    <3>4. submitted[a] # revision'[a] BY <1>3, <3>1, <3>2
    <3> QED BY <1>1, <1>2, <1>3, <3>1, <3>3, <3>4
  <2>2. ASSUME NEW a \in Allocs, a \notin again
        PROVE  UNCHANGED <<astatus[a], revision[a], tstatus[Work(a)]>>
    BY <1>1, <2>2
  <2>3. ASSUME NEW a \in Allocs, revision'[a] > 1
        PROVE  \E q \in Rounds : q[1] = a[1] /\ q[2] = revision'[a] - 1 /\ Present(q)'
    BY <1>4, <2>1, <2>2, <2>3 DEF RoundsInv, Written
  <2>4. ASSUME NEW a \in Allocs
        PROVE  /\ astatus'[a] \in Unsubmitted => submitted[a] # revision'[a]
               /\ astatus'[a] \in Submitted => submitted[a] = revision'[a] /\ Frozen(a)
               /\ tstatus'[Work(a)] = "completed" =>
                     astatus'[a] \in Done /\ submitted[a] = revision'[a] /\ Frozen(a)
               /\ astatus'[a] = "none" => tstatus'[Work(a)] = "absent" /\ submitted[a] = 0
    <3>1. CASE a \in again BY <2>1, <3>1 DEF Unsubmitted, Submitted, Done
    <3>2. CASE a \notin again BY <2>2, <3>2 DEF RoundsInv, Written, Made
    <3> QED BY <3>1, <3>2
  <2>5. step' = "none" BY <1>1 DEF Free
  <2> QED BY <1>1, <2>3, <2>4, <2>5 DEF Written, Made, Frozen
<1>6. Successive' BY <1>4 DEF RoundsInv, Successive
<1>7. Reviewing'
  <2>1. ASSUME NEW q \in Rounds
        PROVE  /\ ~Present(q) => verdict[q] = "none"
               /\ tstatus'[Review(q)] = "completed" => verdict[q] # "none"
    BY <1>1 DEF RoundsInv, Reviewing
  <2> QED BY <1>1, <1>4, <2>1 DEF RoundsInv, Reviewing
<1>8. Held'
  <2>1. ASSUME NEW q \in Rounds, Present(q), ~SentBack(q)', NEW a \in Allocs, a[1] = q[1], Made(a)
        PROVE  /\ tstatus'[Work(a)] = "completed" /\ submitted[a] = packet[q][a[2]]
               /\ verdict[q] # "approved" => astatus'[a] \in {"submitted", "reviewed"}
    <3>1. ~SentBack(q) BY <1>4, <2>1
    <3>2. a \notin again
      <4>1. CASE q = r
        <5>1. ~(to = "completed" /\ verdict[r] = "changes_required")
          BY <1>1, <2>1, <4>1 DEF SentBack
        <5> QED BY <1>1, <5>1
      <4>2. CASE q # r
        <5>1. q[1] # r[1] BY <1>2, <2>1, <3>1, <4>2, HeldUnique
        <5> QED BY <1>1, <2>1, <5>1
      <4> QED BY <4>1, <4>2
    <3>3. UNCHANGED <<astatus[a], tstatus[Work(a)]>> BY <1>1, <3>2
    <3> QED BY <2>1, <3>1, <3>3 DEF RoundsInv, Held
  <2>2. UNCHANGED <<submitted, packet, verdict>> BY <1>1
  <2> HIDE DEF Present, SentBack, Made
  <2> QED BY <1>4, <2>1, <2>2 DEF Held
<1>9. Judged'
  <2>1. ASSUME NEW a \in Allocs, astatus'[a] \in {"integrated", "released"}
        PROVE  astatus'[a] = astatus[a] /\ tstatus'[Work(a)] = tstatus[Work(a)]
    BY <1>1, <2>1
  <2> QED BY <1>4, <2>1 DEF RoundsInv, Judged
<1>10. \A a \in Allocs : \/ astatus'[a] = astatus[a]
                         \/ astatus[a] \in {"submitted", "reviewed"} /\ astatus'[a] = "active"
  BY <1>1, <1>3
<1> QED BY <1>1, <1>4, <1>5, <1>6, <1>7, <1>8, <1>9, <1>10 DEF RoundsInv

-----------------------------------------------------------------------------
\* What recovery does to tasks and allocations: interrupted tasks and torn allocations
\* are blocked, and an integration that was merged takes what was approved.
LEMMA StartRounds ==
    ASSUME ReviewInv, TypeOK, Start
    PROVE  \E D \in SUBSET Rounds :
             /\ \A r \in D : istatus[r] = "running"
             /\ \A r \in Rounds : istatus'[r] = "completed" <=> istatus[r] = "completed" \/ r \in D
             /\ \A r \in Rounds : \/ tstatus'[Review(r)] = tstatus[Review(r)]
                                  \/ tstatus[Review(r)] = "working" /\ tstatus'[Review(r)] = "blocked"
             /\ \A a \in Allocs : \/ tstatus'[Work(a)] = tstatus[Work(a)]
                                  \/ /\ tstatus[Work(a)] \in {"queued", "working"}
                                     /\ tstatus'[Work(a)] = "blocked"
             /\ \A a \in Allocs : \/ /\ \E r \in D : a \in Sources(r)
                                     /\ astatus'[a] = "integrated"
                                  \/ /\ \A r \in D : a \notin Sources(r)
                                     /\ \/ astatus'[a] = astatus[a]
                                        \/ astatus[a] \in Unsubmitted /\ astatus'[a] = "blocked"
             /\ step' = "none"
             /\ UNCHANGED <<revision, submitted, reviewVars, tree>>
<1> DEFINE lost == {t \in running : tstatus[t] = "working"}
           st == [t \in Tasks |-> IF t \in lost THEN "blocked" ELSE tstatus[t]]
           rs == [d \in Deliveries |-> IF Delivery(d) \in lost THEN "other" ELSE reason[d]]
           done == {r \in Interrupted : Advanced(r)}
           woken == Woken(Interrupted, st, rs)
           suspect == {a \in Allocs : \/ astatus[a] \in {"allocating", "submitting", "blocked"}
                                      \/ astatus[a] = "active" /\ st[Work(a)] = "blocked"}
           st2 == [t \in Tasks |-> IF st[t] = "queued" /\ \E a \in suspect : t = Work(a)
                                   THEN "blocked" ELSE Requeued(st, woken)[t]]
<1>1. /\ StoreTasks(st2, Cleared(rs, woken), woken) /\ ~up
      /\ astatus' = [a \in Allocs |-> IF \E r \in done : a \in Sources(r) THEN "integrated"
                                      ELSE IF a \in suspect THEN "blocked" ELSE astatus[a]]
      /\ istatus' = [r \in Rounds |-> IF r \in done THEN "completed"
                                      ELSE IF r \in Interrupted THEN "blocked" ELSE istatus[r]]
      /\ UNCHANGED <<revision, submitted, reviewVars, step, tree>>
  BY DEF Start, gitVars
<1>2. step' = "none" BY <1>1 DEF ReviewInv, TrustedInv, BranchInv, Position
<1>3. woken \subseteq Deliveries BY DEF Woken
<1>4. \A a \in suspect : a \in Allocs /\ astatus[a] \in Unsubmitted BY DEF Unsubmitted
<1>5. done \in SUBSET Rounds /\ \A r \in done : istatus[r] = "running" BY DEF Interrupted
<1>6. \A r \in Interrupted : istatus[r] = "running" BY DEF Interrupted
<1> HIDE DEF done, woken, suspect, rs
<1>7. /\ \A a \in Allocs : tstatus'[Work(a)] = st2[Work(a)]
      /\ \A r \in Rounds : tstatus'[Review(r)] = st2[Review(r)]
  <2> HIDE DEF st2
  <2> QED BY <1>1, StoreTasksWork, StoreTasksReview
<1>8. ASSUME NEW r \in Rounds
      PROVE  \/ tstatus'[Review(r)] = tstatus[Review(r)]
             \/ tstatus[Review(r)] = "working" /\ tstatus'[Review(r)] = "blocked"
  <2>1. Review(r) \in Tasks /\ \A a \in suspect : Review(r) # Work(a) BY <1>4, ReviewTasks
  <2>2. \A d \in woken : Review(r) # Delivery(d) BY <1>3, ReviewTasks
  <2>3. st2[Review(r)] = st[Review(r)] BY <2>1, <2>2 DEF Requeued
  <2> QED BY <1>7, <2>1, <2>3
<1>9. ASSUME NEW a \in Allocs
      PROVE  \/ tstatus'[Work(a)] = tstatus[Work(a)]
             \/ tstatus[Work(a)] \in {"queued", "working"} /\ tstatus'[Work(a)] = "blocked"
  <2>1. Work(a) \in Tasks /\ \A d \in woken : Work(a) # Delivery(d) BY <1>3, WorkTasks
  <2>2. st2[Work(a)] \in {st[Work(a)], "blocked"}
    BY <2>1 DEF Requeued
  <2>3. st2[Work(a)] # st[Work(a)] => st[Work(a)] = "queued" BY <2>1 DEF Requeued
  <2> QED BY <1>7, <2>1, <2>2, <2>3
<1>10. ASSUME NEW a \in Allocs
       PROVE  \/ (\E r \in done : a \in Sources(r)) /\ astatus'[a] = "integrated"
              \/ /\ \A r \in done : a \notin Sources(r)
                 /\ \/ astatus'[a] = astatus[a]
                    \/ astatus[a] \in Unsubmitted /\ astatus'[a] = "blocked"
  BY <1>1, <1>4
<1>11. \A r \in Rounds : istatus'[r] = "completed" <=> istatus[r] = "completed" \/ r \in done
  BY <1>1, <1>6
<1> QED BY <1>1, <1>2, <1>5, <1>8, <1>9, <1>10, <1>11

\* Wherever HQ died, the rounds stay as they were.
LEMMA StartMoves ==
    ASSUME ReviewInv, TypeOK, TypeOK', Start
    PROVE  RoundsInv' /\ Taken'
<1> USE DEF reviewVars
<1>1. PICK D \in SUBSET Rounds :
             /\ \A r \in D : istatus[r] = "running"
             /\ \A r \in Rounds : istatus'[r] = "completed" <=> istatus[r] = "completed" \/ r \in D
             /\ \A r \in Rounds : \/ tstatus'[Review(r)] = tstatus[Review(r)]
                                  \/ tstatus[Review(r)] = "working" /\ tstatus'[Review(r)] = "blocked"
             /\ \A a \in Allocs : \/ tstatus'[Work(a)] = tstatus[Work(a)]
                                  \/ /\ tstatus[Work(a)] \in {"queued", "working"}
                                     /\ tstatus'[Work(a)] = "blocked"
             /\ \A a \in Allocs : \/ /\ \E r \in D : a \in Sources(r)
                                     /\ astatus'[a] = "integrated"
                                  \/ /\ \A r \in D : a \notin Sources(r)
                                     /\ \/ astatus'[a] = astatus[a]
                                        \/ astatus[a] \in Unsubmitted /\ astatus'[a] = "blocked"
             /\ step' = "none"
             /\ UNCHANGED <<revision, submitted, reviewVars, tree>>
  BY StartRounds
<1>2. \A r \in D : r \in Rounds /\ Approved(r) BY <1>1 DEF ReviewInv, TrustedInv, ApprovedFirst
<1>3. \A r \in D : /\ Present(r) /\ ~SentBack(r)
                   /\ \A a \in Allocs : a \in Sources(r) <=> a[1] = r[1] /\ Made(a)
                   /\ \A a \in Sources(r) : a \in Allocs /\ tstatus[Work(a)] = "completed"
  <2>1. \A r \in Rounds : Sources(r) \subseteq Allocs BY PairTypes DEF Sources
  <2> QED BY <1>2, <2>1, ApprovedHolds
<1>4. /\ \A q \in Rounds : (Present(q)' <=> Present(q)) /\ (SentBack(q)' <=> SentBack(q))
      /\ \A q \in Rounds : Approved(q)' <=> Approved(q)
      /\ \A a \in Allocs : Made(a)' <=> Made(a)
  <2>1. \A q \in Rounds : (Present(q)' <=> Present(q)) /\ (SentBack(q)' <=> SentBack(q))
    BY <1>1 DEF Present, SentBack
  <2>2. \A q \in Rounds : Approved(q)' <=> Approved(q) BY <1>1 DEF Approved
  <2>3. ASSUME NEW a \in Allocs PROVE Made(a)' <=> Made(a)
    <3>1. CASE \E r \in D : a \in Sources(r)
      <4>1. Made(a) BY <1>3, <3>1
      <4> QED BY <1>1, <3>1, <4>1 DEF Made
    <3>2. CASE \A r \in D : a \notin Sources(r) BY <1>1, <3>2 DEF Made, Unsubmitted
    <3> QED BY <3>1, <3>2
  <2> QED BY <2>1, <2>2, <2>3
<1>5. Written'
  <2>1. ASSUME NEW a \in Allocs
        PROVE  /\ astatus'[a] \in Unsubmitted => submitted[a] # revision[a]
               /\ astatus'[a] \in Submitted => submitted[a] = revision[a] /\ Frozen(a)
               /\ tstatus'[Work(a)] = "completed" =>
                     astatus'[a] \in Done /\ submitted[a] = revision[a] /\ Frozen(a)
               /\ astatus'[a] = "none" => tstatus'[Work(a)] = "absent" /\ submitted[a] = 0
    <3>1. CASE \E r \in D : a \in Sources(r)
      <4>1. tstatus[Work(a)] = "completed" /\ astatus'[a] = "integrated" BY <1>1, <1>3, <3>1
      <4> QED BY <4>1 DEF ReviewInv, RoundsInv, Written, Unsubmitted, Submitted, Done
    <3>2. CASE \A r \in D : a \notin Sources(r)
      BY <1>1, <3>2 DEF ReviewInv, RoundsInv, Written, Unsubmitted, Submitted, Done, Made
    <3> QED BY <3>1, <3>2
  <2>2. ASSUME NEW a \in Allocs, revision[a] > 1
        PROVE  \E q \in Rounds : q[1] = a[1] /\ q[2] = revision[a] - 1 /\ Present(q)'
    BY <1>4, <2>2 DEF ReviewInv, RoundsInv, Written
  <2> QED BY <1>1, <2>1, <2>2 DEF Written, Made, Frozen
<1>6. Successive' BY <1>4 DEF ReviewInv, RoundsInv, Successive
<1>7. Reviewing'
  <2>1. ASSUME NEW q \in Rounds, tstatus'[Review(q)] = "completed" PROVE tstatus[Review(q)] = "completed"
    BY <1>1, <2>1
  <2> QED BY <1>1, <1>4, <2>1 DEF ReviewInv, RoundsInv, Reviewing
<1>8. ASSUME NEW a \in Allocs, tstatus[Work(a)] \in {"completed", "cancelled"}
      PROVE  tstatus'[Work(a)] = tstatus[Work(a)]
  BY <1>1, <1>8
<1>9. Held'
  <2>1. ASSUME NEW q \in Rounds, Present(q), ~SentBack(q), NEW a \in Allocs, a[1] = q[1], Made(a)
        PROVE  /\ tstatus'[Work(a)] = "completed" /\ submitted[a] = packet[q][a[2]]
               /\ verdict[q] # "approved" => astatus'[a] \in {"submitted", "reviewed"}
    <3>1. /\ tstatus[Work(a)] = "completed" /\ submitted[a] = packet[q][a[2]]
          /\ verdict[q] # "approved" => astatus[a] \in {"submitted", "reviewed"}
      BY <2>1 DEF ReviewInv, RoundsInv, Held
    <3>2. CASE \E r \in D : a \in Sources(r)
      <4>1. PICK r \in D : a \in Sources(r) BY <3>2
      <4>2. r[1] = q[1] /\ r \in Rounds /\ Approved(r) BY <1>2, <1>3, <2>1, <4>1
      <4>3. q = r BY <1>3, <2>1, <4>1, <4>2, HeldUnique DEF ReviewInv
      <4> QED BY <1>8, <3>1, <4>2, <4>3 DEF Approved
    <3>3. CASE \A r \in D : a \notin Sources(r)
      <4>1. astatus[a] \notin Unsubmitted BY <2>1, WritingUnheld DEF ReviewInv
      <4> QED BY <1>1, <1>8, <3>1, <3>3, <4>1
    <3> QED BY <3>2, <3>3
  <2>2. UNCHANGED <<submitted, packet, verdict>> BY <1>1
  <2> HIDE DEF Present, SentBack, Made
  <2> QED BY <1>4, <2>1, <2>2 DEF Held
<1>10. Judged'
  <2>1. ASSUME NEW a \in Allocs, astatus'[a] \in {"integrated", "released"}
        PROVE  \/ astatus'[a] = "released" /\ tstatus'[Work(a)] = "cancelled"
               \/ tstatus'[Work(a)] = "completed" /\ \E q \in Rounds : q[1] = a[1] /\ Approved(q)
    <3>1. CASE \E r \in D : a \in Sources(r) BY <1>2, <1>3, <1>8, <3>1
    <3>2. CASE \A r \in D : a \notin Sources(r)
      <4>1. astatus'[a] = astatus[a] BY <1>1, <2>1, <3>2
      <4> QED BY <1>8, <2>1, <4>1 DEF ReviewInv, RoundsInv, Judged
    <3> QED BY <3>1, <3>2
  <2> QED BY <1>4, <2>1 DEF Judged
<1>11. Taken'
  <2>1. ASSUME NEW r \in Rounds, istatus'[r] = "completed", NEW a \in Allocs, a[1] = r[1], Made(a)
        PROVE  astatus'[a] \in {"integrated", "released"}
    <3>1. CASE r \in D
      <4>1. a \in Sources(r) BY <1>3, <2>1, <3>1
      <4> QED BY <1>1, <3>1, <4>1
    <3>2. CASE r \notin D
      <4>1. astatus[a] \in {"integrated", "released"} BY <1>1, <2>1, <3>2 DEF ReviewInv, Taken
      <4> QED BY <1>1, <4>1 DEF Unsubmitted
    <3> QED BY <3>1, <3>2
  <2> QED BY <1>4, <2>1 DEF Taken
<1> QED BY <1>5, <1>6, <1>7, <1>9, <1>10, <1>11 DEF RoundsInv

-----------------------------------------------------------------------------
\* A step takes no writer that it does not release, unless it assigns engineers.
Spared == \A a \in Allocs : Live(astatus[a])' => Live(astatus[a])

\* Allocations that are integrated or released stay so, and no writer is taken, when
\* only writing, done or sent-back work moves.
LEMMA TakenKept ==
    ASSUME Taken, NEW From \in SUBSET (AllocStatuses \ {"none", "integrated", "released"}),
           \A r \in Rounds : istatus'[r] = "completed" => istatus[r] = "completed",
           \A a \in Allocs : \/ astatus'[a] = astatus[a]
                             \/ astatus[a] \in From /\ astatus'[a] # "none"
                             \/ Made(a) /\ astatus'[a] \in {"integrated", "released"}
    PROVE  Taken' /\ Spared
<1>1. \A a \in Allocs : Made(a)' <=> Made(a) BY DEF Made
<1>2. Taken'
  <2>1. ASSUME NEW r \in Rounds, istatus'[r] = "completed", NEW a \in Allocs, a[1] = r[1], Made(a)
        PROVE  astatus'[a] \in {"integrated", "released"}
    <3>1. astatus[a] \in {"integrated", "released"} BY <2>1 DEF Taken
    <3> QED BY <3>1
  <2> QED BY <1>1, <2>1 DEF Taken
<1>3. Spared BY DEF Spared, Live
<1> QED BY <1>2, <1>3

\* The steps of the CTO and the reviewer.
LEMMA RoundsCTO ==
    ASSUME ReviewInv, TypeOK, TypeOK', CTOStep \/ \E r \in Rounds : ReviewerStep(r)
    PROVE  /\ RoundsInv' /\ Taken'
           /\ Spared \/ \E d \in Deliveries, W \in SUBSET Engineers : AssignEngineering(d, W)
<1>0. RoundsInv /\ Taken /\ TrustedInv BY DEF ReviewInv
<1>1. {"submitted", "reviewed"} \in SUBSET (AllocStatuses \ {"none", "integrated", "released"})
      /\ Unsubmitted \in SUBSET (AllocStatuses \ {"none", "integrated", "released"})
  BY DEF AllocStatuses, Unsubmitted
<1>2. ASSUME NEW d \in Deliveries, NEW W \in SUBSET Engineers, AssignEngineering(d, W)
      PROVE  RoundsInv' /\ Taken'
  <2>1. RoundsInv' BY <1>0, <1>2, AssignMoves
  <2>2. /\ AllocsOf(d) = {} /\ UNCHANGED istatus
        /\ astatus' = [a \in Allocs |-> IF a[1] = d /\ a[2] \in W THEN "allocating" ELSE astatus[a]]
    BY <1>2 DEF AssignEngineering, integrationVars
  <2>3. ASSUME NEW r \in Rounds, istatus[r] = "completed" PROVE r[1] # d
    <3>1. Present(r) BY <1>0, <2>3 DEF TrustedInv, ApprovedFirst, Approved, Present
    <3>2. \E a \in Allocs : a[1] = r[1] /\ Made(a) BY <1>0, <3>1 DEF RoundsInv, Reviewing
    <3> QED BY <2>2, <3>2 DEF AllocsOf, Made
  <2>4. ASSUME NEW r \in Rounds, istatus[r] = "completed", NEW a \in Allocs, a[1] = r[1], Made(a)'
        PROVE  astatus'[a] \in {"integrated", "released"}
    <3>1. astatus'[a] = astatus[a] BY <2>2, <2>3, <2>4
    <3>2. Made(a) BY <2>4, <3>1 DEF Made
    <3> QED BY <1>0, <2>4, <3>1, <3>2 DEF Taken
  <2>5. Taken' BY <2>2, <2>4 DEF Taken
  <2> QED BY <2>1, <2>5
<1>3. ASSUME NEW ok \in BOOLEAN, AddWorktrees(ok) PROVE RoundsInv' /\ Taken' /\ Spared
  BY <1>0, <1>1, <1>3, EngineerMoves, TakenKept
<1>4. ASSUME NEW r \in Rounds, AssignReview(r) PROVE RoundsInv' /\ Taken' /\ Spared
  <2>1. UNCHANGED <<astatus, istatus>> BY <1>4 DEF AssignReview, allocVars, integrationVars
  <2> QED BY <1>0, <1>1, <1>4, <2>1, AssignReviewMoves, TakenKept
<1>5. ASSUME NEW r \in Rounds, QueueIntegration(r) PROVE RoundsInv' /\ Taken' /\ Spared
  <2>1. UNCHANGED astatus /\ istatus' = [istatus EXCEPT ![r] = "queued"]
    BY <1>5 DEF QueueIntegration, allocVars
  <2>2. \A q \in Rounds : istatus'[q] = "completed" => istatus[q] = "completed"
    BY <2>1 DEF TypeOK
  <2>3. RoundsInv'
    <3>1. ~CompleteIntegration(r) BY <1>5 DEF QueueIntegration, CompleteIntegration, At, MayAct, Free
    <3> QED BY <1>0, <1>5, <3>1, QueueMoves
  <2> QED BY <1>0, <1>1, <2>1, <2>2, <2>3, TakenKept
<1>6. ASSUME NEW d \in Deliveries, NEW o \in Outcomes, FinishDelivery(d, o)
      PROVE  RoundsInv' /\ Taken' /\ Spared
  <2>1. RoundsInv' /\ UNCHANGED <<astatus, istatus>> BY <1>0, <1>6, FinishMoves DEF allocVars
  <2> QED BY <1>0, <1>1, <2>1, TakenKept
<1>7. ASSUME NEW r \in Rounds, NEW v \in Verdicts, NEW W \in SUBSET Engineers, SubmitReview(r, v, W)
      PROVE  RoundsInv' /\ Taken' /\ Spared
  BY <1>0, <1>1, <1>7, SubmitReviewMoves, TakenKept
<1>8. ASSUME NEW r \in Rounds, NEW o \in Outcomes, FinishReview(r, o)
      PROVE  RoundsInv' /\ Taken' /\ Spared
  BY <1>0, <1>1, <1>8, FinishReviewMoves, TakenKept
<1> QED BY <1>2, <1>3, <1>4, <1>5, <1>6, <1>7, <1>8 DEF CTOStep, ReviewerStep

\* The steps of the queue.
LEMMA RoundsQueue ==
    ASSUME ReviewInv, TypeOK, TypeOK', NEW r \in Rounds, QueueStep(r)
    PROVE  RoundsInv' /\ Taken' /\ Spared
<1>0. RoundsInv /\ Taken /\ TrustedInv /\ Position
  BY DEF ReviewInv, TrustedInv, BranchInv
<1>1. istatus \in [Rounds -> IntegrationStatuses] BY DEF TypeOK
<1>2. CASE CompleteIntegration(r)
  <2>1. RoundsInv' BY <1>2, IntegrateMoves
  <2>2. /\ istatus' = [istatus EXCEPT ![r] = "completed"]
        /\ astatus' = [a \in Allocs |-> IF a \in Sources(r) THEN "integrated" ELSE astatus[a]]
        /\ istatus[r] = "running"
    BY <1>0, <1>2 DEF CompleteIntegration, Settle, At, Position
  <2>3. Approved(r) BY <1>0, <2>2 DEF TrustedInv, ApprovedFirst
  <2>4. \A a \in Allocs : a \in Sources(r) <=> a[1] = r[1] /\ Made(a) BY <2>3, ApprovedHolds
  <2>5. \A a \in Allocs : Made(a)' <=> Made(a) BY <2>2, <2>4 DEF Made
  <2>6. ASSUME NEW q \in Rounds, istatus'[q] = "completed", NEW a \in Allocs, a[1] = q[1], Made(a)
        PROVE  astatus'[a] \in {"integrated", "released"}
    <3>1. CASE q = r BY <2>2, <2>4, <2>6, <3>1
    <3>2. CASE q # r
      <4>1. astatus[a] \in {"integrated", "released"} BY <1>0, <1>1, <2>2, <2>6, <3>2 DEF Taken
      <4> QED BY <2>2, <4>1
    <3> QED BY <3>1, <3>2
  <2>7. Taken' BY <2>5, <2>6 DEF Taken
  <2>8. Spared BY <2>2 DEF Spared, Live
  <2> QED BY <2>1, <2>7, <2>8
<1>3. CASE ~CompleteIntegration(r)
  <2>1. RoundsInv' /\ UNCHANGED astatus BY <1>0, <1>3, QueueMoves DEF allocVars
  <2>2. \A q \in Rounds : istatus'[q] = "completed" => istatus[q] = "completed"
    BY <1>1, <1>3 DEF QueueStep, StartIntegration, RefuseIntegration, BuildCandidate, FailIntegration,
       MergeCandidate, FailAfterMerge, BlockRepository, WakeDelivery, Settle, integrationVars
  <2>3. {} \in SUBSET (AllocStatuses \ {"none", "integrated", "released"}) OBVIOUS
  <2> QED BY <1>0, <2>1, <2>2, <2>3, TakenKept
<1> QED BY <1>2, <1>3

\* Every step keeps the rounds.
LEMMA RoundsStep ==
    ASSUME ReviewInv, TypeOK, TypeOK', Next
    PROVE  /\ RoundsInv' /\ Taken'
           /\ Spared \/ \E d \in Deliveries, W \in SUBSET Engineers : AssignEngineering(d, W)
<1>0. RoundsInv /\ Taken BY DEF ReviewInv
<1>1. /\ Unsubmitted \in SUBSET (AllocStatuses \ {"none", "integrated", "released"})
      /\ \A a \in Allocs : Made(a) \/ astatus[a] = "none"
  BY DEF AllocStatuses, Unsubmitted, Made
<1>2. ASSUME RoundsInv', UNCHANGED <<astatus, istatus>> PROVE RoundsInv' /\ Taken' /\ Spared
  BY <1>0, <1>1, <1>2, TakenKept
<1>3. CASE \/ \E d \in Deliveries : AssignDelivery(d)
           \/ \E t \in Tasks : Claim(t) \/ FinishThrows(t) \/ Retry(t) \/ Cancel(t)
           \/ \E b \in BOOLEAN : Pause(b)
           \/ Crash
  BY <1>0, <1>2, <1>3, OwnerMoves DEF allocVars
<1>4. ASSUME NEW a \in Allocs, Release(a) PROVE RoundsInv' /\ Taken' /\ Spared
  <2>1. RoundsInv' BY <1>0, <1>4, ReleaseMoves
  <2>2. Made(a) /\ astatus' = [astatus EXCEPT ![a] = "released"] /\ UNCHANGED istatus
    BY <1>4 DEF Release, Made, integrationVars
  <2>3. \A b \in Allocs : \/ astatus'[b] = astatus[b]
                          \/ Made(b) /\ astatus'[b] \in {"integrated", "released"}
    BY <2>2 DEF TypeOK, Made
  <2> QED BY <1>0, <1>1, <2>1, <2>2, <2>3, TakenKept
<1>5. ASSUME NEW a \in Allocs, EngineerStep(a) PROVE RoundsInv' /\ Taken' /\ Spared
  <2>1. CASE \E o \in Outcomes : FinishEngineering(a, o)
    BY <1>0, <1>2, <2>1, FinishMoves DEF allocVars
  <2>2. CASE ~\E o \in Outcomes : FinishEngineering(a, o)
    <3>1. \/ WriteSource(a)
          \/ \E to \in {"submitting", "committing"} : BeginCommit(a, to)
          \/ RecordCommit(a) \/ CommitFails(a)
      BY <1>5, <2>2 DEF EngineerStep
    <3> QED BY <1>0, <1>1, <3>1, EngineerMoves, TakenKept
  <2> QED BY <2>1, <2>2
<1>6. CASE Start
  <2>1. RoundsInv' /\ Taken' BY <1>6, StartMoves
  <2>2. Spared BY <1>6, StartRounds DEF Spared, Live, Unsubmitted
  <2> QED BY <2>1, <2>2
<1> QED BY <1>3, <1>4, <1>5, <1>6, RoundsCTO, RoundsQueue DEF Next, OwnerStep

\* The invariant is inductive.
LEMMA ReviewStep == ReviewInv /\ [Next]_vars => ReviewInv'
<1> SUFFICES ASSUME ReviewInv, [Next]_vars PROVE ReviewInv' OBVIOUS
<1>0. TypeOK /\ TypeOK' /\ TrustedInv'
  BY TypeStep, TrustedInvStep DEF ReviewInv, TrustedInv, BranchInv
<1>1. CASE Next BY <1>0, <1>1, RoundsStep DEF ReviewInv
<1>2. CASE UNCHANGED vars
  <2>1. UNCHANGED <<tstatus, astatus, revision, submitted, reviewVars, istatus, tree, step, on>>
    BY <1>2 DEF vars, taskVars, allocVars, integrationVars, volatileVars, gitVars
  <2>2. Written' BY <2>1 DEF ReviewInv, RoundsInv, Written, Made, Present, Frozen
  <2>3. Successive' BY <2>1 DEF ReviewInv, RoundsInv, Successive, Present, SentBack, reviewVars
  <2>4. Reviewing' BY <2>1 DEF ReviewInv, RoundsInv, Reviewing, Made, Present, reviewVars
  <2>5. Held' BY <2>1 DEF ReviewInv, RoundsInv, Held, Made, Present, SentBack, reviewVars
  <2>6. Judged' /\ Taken'
    BY <2>1 DEF ReviewInv, RoundsInv, Judged, Taken, Made, Approved, reviewVars
  <2> QED BY <1>0, <2>2, <2>3, <2>4, <2>5, <2>6 DEF ReviewInv, RoundsInv
<1> QED BY <1>1, <1>2

\* The inductive invariant holds in every reachable state.
LEMMA ReviewAlways == Spec => []ReviewInv
<1>1. Init => ReviewInv
  BY BranchInit, RoundsInit DEF Init, ReviewInv, TrustedInv, ApprovedFirst
<1> QED BY <1>1, ReviewStep, PTL DEF Spec

\* The inductive invariant has FrozenUnderReview as a consequence.
LEMMA FrozenImplied == ReviewInv => FrozenUnderReview
<1> SUFFICES ASSUME ReviewInv, NEW r \in Rounds,
                    \/ tstatus[Review(r)] \in {"queued", "working", "blocked"}
                    \/ verdict[r] = "approved"
             PROVE  /\ packet[r] = Latest(r[1])
                    /\ \A a \in AllocsOf(r[1]) : astatus[a] \notin {"active", "submitting"} /\ Frozen(a)
  BY DEF FrozenUnderReview
<1>0. packet[r] \in [Engineers -> 0 .. MaxReviewRounds]
  BY DEF ReviewInv, TrustedInv, BranchInv, TypeOK
<1>1. Present(r) /\ ~SentBack(r) BY DEF ReviewInv, RoundsInv, Reviewing, Present, SentBack
<1>2. ASSUME NEW a \in Allocs, a[1] = r[1], Made(a)
      PROVE  tstatus[Work(a)] = "completed" /\ submitted[a] = packet[r][a[2]]
  BY <1>1, <1>2 DEF ReviewInv, RoundsInv, Held
<1>3. \A a \in AllocsOf(r[1]) : astatus[a] \notin {"active", "submitting"} /\ Frozen(a)
  <2>1. ASSUME NEW a \in AllocsOf(r[1]) PROVE a \in Allocs /\ astatus[a] \in Done /\ Frozen(a)
    BY <1>2 DEF AllocsOf, Made, ReviewInv, RoundsInv, Written
  <2> QED BY <2>1 DEF Done, Submitted
<1>4. ASSUME NEW w \in Engineers PROVE packet[r][w] = submitted[<<r[1], w>>]
  <2> DEFINE a == <<r[1], w>>
  <2>1. a \in Allocs /\ a[1] = r[1] /\ a[2] = w BY PairTypes
  <2>2. ~Made(a) => packet[r][w] = 0 /\ submitted[a] = 0
    BY <1>1, <2>1 DEF ReviewInv, RoundsInv, Reviewing, Written
  <2> QED BY <1>2, <2>1, <2>2
<1> QED BY <1>0, <1>3, <1>4 DEF Latest

\* What is under review or approved stays what was submitted, whatever the order of
\* retries, cancellations, revisions and crashes (engineering.ts, submit_engineering,
\* assign_review, submit_review and afterFinish).
THEOREM ReviewFrozen == Spec => []FrozenUnderReview
BY ReviewAlways, FrozenImplied, PTL

-----------------------------------------------------------------------------
\* A completed delivery has a completed integration.
Integrating ==
    \A d \in Deliveries : tstatus[Delivery(d)] = "completed" =>
        \E r \in Rounds : r[1] = d /\ istatus[r] = "completed"

\* Tasks other than a delivery's own end do not complete it.
LEMMA CompletedBefore ==
    ASSUME TypeOK, NEW d \in Deliveries, Next, tstatus'[Delivery(d)] = "completed",
           ~\E o \in Outcomes : FinishDelivery(d, o)
    PROVE  tstatus[Delivery(d)] = "completed"
<1> USE TaskKinds, WorkTasks, ReviewTasks DEF taskVars
<1>0. /\ tstatus \in [Tasks -> Statuses \cup {"absent"}]
      /\ \A e \in Deliveries : Delivery(e) = Delivery(d) => e = d
  BY DEF TypeOK, Delivery
<1>1. ASSUME NEW st \in [Tasks -> Statuses \cup {"absent"}], NEW rs, NEW woken, StoreTasks(st, rs, woken)
      PROVE  st[Delivery(d)] = "completed"
  <2>1. tstatus' = Requeued(st, Handback(st, rs)) BY <1>1 DEF StoreTasks
  <2> HIDE DEF Handback
  <2> QED BY <2>1 DEF Requeued
<1>2. CASE \/ \E e \in Deliveries : AssignDelivery(e)
           \/ \E t \in Tasks : Claim(t) \/ FinishThrows(t) \/ Retry(t)
           \/ \E b \in BOOLEAN : Pause(b)
           \/ \E a \in Allocs : Release(a)
           \/ Crash
  BY <1>0, <1>2 DEF AssignDelivery, Claim, FinishThrows, Retry, Pause, Release, Crash
<1>3. ASSUME NEW t \in Tasks, Cancel(t) PROVE tstatus[Delivery(d)] = "completed"
  <2> DEFINE st == [tstatus EXCEPT ![t] = "cancelled"]
             rs == [e \in Deliveries |-> IF t = Delivery(e) THEN "none" ELSE reason[e]]
  <2>1. StoreTasks(st, rs, {}) BY <1>3 DEF Cancel
  <2>2. st \in [Tasks -> Statuses \cup {"absent"}] BY <1>0 DEF Statuses
  <2> HIDE DEF rs
  <2>3. st[Delivery(d)] = "completed" BY <1>1, <2>1, <2>2
  <2> QED BY <1>0, <2>3
<1>4. ASSUME NEW e \in Deliveries, NEW o \in Outcomes, FinishDelivery(e, o)
      PROVE  tstatus[Delivery(d)] = "completed"
  <2>1. e # d BY <1>4
  <2>2. PICK to \in Statuses :
          \E why : StoreTasks([tstatus EXCEPT ![Delivery(e)] = to], [reason EXCEPT ![e] = why], {})
    <3>1. \A x \in {"completed", "failed"} : Ended(o, x) \in Statuses BY DEF Ended, Statuses
    <3>2. "blocked" \in Statuses BY DEF Statuses
    <3> QED BY <1>4, <3>1, <3>2 DEF FinishDelivery
  <2> DEFINE st == [tstatus EXCEPT ![Delivery(e)] = to]
  <2>3. st \in [Tasks -> Statuses \cup {"absent"}] BY <1>0
  <2>4. st[Delivery(d)] = "completed" BY <1>1, <2>2, <2>3
  <2> QED BY <1>0, <2>1, <2>4
<1>5. ASSUME NEW a \in Allocs, NEW o \in Outcomes, FinishEngineering(a, o)
      PROVE  tstatus[Delivery(d)] = "completed"
  <2>1. PICK to \in Statuses : StoreTasks([tstatus EXCEPT ![Work(a)] = to], reason, {})
    <3>1. \A x \in {"completed", "failed"} : Ended(o, x) \in Statuses BY DEF Ended, Statuses
    <3> QED BY <1>5, <3>1 DEF FinishEngineering
  <2> DEFINE st == [tstatus EXCEPT ![Work(a)] = to]
  <2>2. st \in [Tasks -> Statuses \cup {"absent"}] BY <1>0
  <2>3. st[Delivery(d)] = "completed" BY <1>1, <2>1, <2>2
  <2> QED BY <1>0, <2>3
<1>6. ASSUME NEW r \in Rounds, NEW o \in Outcomes, FinishReview(r, o)
      PROVE  tstatus[Delivery(d)] = "completed"
  <2> DEFINE to == Ended(o, IF Reviewed(r) THEN "completed" ELSE "failed")
             changes == to = "completed" /\ verdict[r] = "changes_required"
             limit == changes /\ ~RoundsLeft(r)
             again == IF changes /\ ~limit THEN {<<r[1], w>> : w \in affected[r]} ELSE {}
             moved == [tstatus EXCEPT ![Review(r)] = to]
             st == [t \in Tasks |-> IF limit /\ t = Delivery(r[1]) THEN "blocked"
                                    ELSE IF t \in {Work(a) : a \in again} THEN "queued"
                                    ELSE moved[t]]
             rs == IF limit THEN [reason EXCEPT ![r[1]] = "other"] ELSE reason
  <2>1. StoreTasks(st, rs, {}) BY <1>6 DEF FinishReview
  <2>2. to \in Statuses BY DEF Ended, Statuses
  <2> HIDE DEF to, limit, again, rs
  <2>3. st \in [Tasks -> Statuses \cup {"absent"}] BY <1>0, <2>2 DEF Statuses
  <2>4. st[Delivery(d)] = "completed"
    <3> HIDE DEF st
    <3> QED BY <1>1, <2>1, <2>3
  <2> QED BY <1>0, <2>4
<1>7. CASE \/ \E e \in Deliveries, W \in SUBSET Engineers : AssignEngineering(e, W)
           \/ \E ok \in BOOLEAN : AddWorktrees(ok)
           \/ \E r \in Rounds : AssignReview(r) \/ QueueIntegration(r)
           \/ \E a \in Allocs : \/ WriteSource(a)
                                \/ \E to \in {"submitting", "committing"} : BeginCommit(a, to)
                                \/ RecordCommit(a) \/ CommitFails(a)
           \/ \E r \in Rounds, v \in Verdicts, W \in SUBSET Engineers : SubmitReview(r, v, W)
  BY <1>0, <1>7 DEF AssignEngineering, AddWorktrees, AssignReview, QueueIntegration, WriteSource,
     BeginCommit, RecordCommit, CommitFails, SubmitReview
<1>8. ASSUME NEW r \in Rounds, QueueStep(r) PROVE tstatus[Delivery(d)] = "completed"
  BY <1>0, <1>8 DEF QueueStep, StartIntegration, RefuseIntegration, BuildCandidate, FailIntegration,
     MergeCandidate, CompleteIntegration, FailAfterMerge, BlockRepository, Settle, WakeDelivery, Requeued
<1>9. CASE Start
  <2> DEFINE lost == {t \in running : tstatus[t] = "working"}
             st == [t \in Tasks |-> IF t \in lost THEN "blocked" ELSE tstatus[t]]
             rs == [e \in Deliveries |-> IF Delivery(e) \in lost THEN "other" ELSE reason[e]]
             woken == Woken(Interrupted, st, rs)
             suspect == {a \in Allocs : \/ astatus[a] \in {"allocating", "submitting", "blocked"}
                                        \/ astatus[a] = "active" /\ st[Work(a)] = "blocked"}
             st2 == [t \in Tasks |-> IF st[t] = "queued" /\ \E a \in suspect : t = Work(a)
                                     THEN "blocked" ELSE Requeued(st, woken)[t]]
  <2>1. StoreTasks(st2, Cleared(rs, woken), woken) BY <1>9 DEF Start
  <2> HIDE DEF woken, suspect, rs
  <2>2. st2 \in [Tasks -> Statuses \cup {"absent"}] BY <1>0 DEF Requeued, Statuses
  <2>3. st2[Delivery(d)] = "completed"
    <3> HIDE DEF st2
    <3> QED BY <1>1, <2>1, <2>2
  <2> QED BY <1>0, <2>3 DEF Requeued
<1> QED BY <1>2, <1>3, <1>4, <1>5, <1>6, <1>7, <1>8, <1>9
    DEF Next, OwnerStep, CTOStep, EngineerStep, ReviewerStep

\* A completed integration is never taken back.
LEMMA IntegrationKept ==
    ASSUME BranchInv, Next, NEW r \in Rounds, istatus[r] = "completed"
    PROVE  istatus'[r] = "completed"
<1>0. istatus \in [Rounds -> IntegrationStatuses] /\ intents \in Seq(Rounds) /\ Position /\ Queued
  BY DEF BranchInv, TypeOK
<1>1. CASE HandlerStep BY <1>1, HandlersQuiet
<1>2. ASSUME NEW q \in Rounds, QueueIntegration(q) PROVE istatus'[r] = "completed"
  BY <1>0, <1>2 DEF QueueIntegration
<1>3. ASSUME NEW q \in Rounds, QueueStep(q) PROVE istatus'[r] = "completed"
  <2>1. CASE StartIntegration(q)
    <3>1. intents # <<>> /\ q = Head(intents) /\ istatus' = [istatus EXCEPT ![q] = "running"]
      BY <2>1 DEF StartIntegration
    <3>2. 1 \in DOMAIN intents /\ intents[1] = q BY <1>0, <3>1
    <3>3. istatus[q] = "queued" BY <1>0, <3>2 DEF Queued
    <3> QED BY <1>0, <3>1, <3>3
  <2>2. CASE RefuseIntegration(q) \/ FailIntegration(q) \/ FailAfterMerge(q)
    <3>1. istatus[q] = "running" /\ \E s \in {"failed", "blocked"} : istatus' = [istatus EXCEPT ![q] = s]
      BY <1>0, <2>2 DEF RefuseIntegration, FailIntegration, FailAfterMerge, Settle, At, Position
    <3> QED BY <1>0, <3>1
  <2>3. CASE CompleteIntegration(q) BY <1>0, <2>3 DEF CompleteIntegration, Settle
  <2>4. CASE \/ \E outcome \in {"failing", "passing"} : BuildCandidate(q, outcome)
             \/ MergeCandidate(q) \/ BlockRepository(q) \/ WakeDelivery(q)
    BY <2>4 DEF BuildCandidate, MergeCandidate, BlockRepository, WakeDelivery, integrationVars
  <2> QED BY <1>3, <2>1, <2>2, <2>3, <2>4 DEF QueueStep
<1>4. CASE Start BY <1>0, <1>4, StartCases
<1> QED BY <1>1, <1>2, <1>3, <1>4 DEF Next, CTOStep, HandlerStep

\* A delivery is completed only on the evidence of an integration, which stays.
LEMMA IntegratingStep == ReviewInv /\ Integrating /\ [Next]_vars => Integrating'
<1> SUFFICES ASSUME ReviewInv, Integrating, [Next]_vars PROVE Integrating' OBVIOUS
<1>0. BranchInv /\ TypeOK BY DEF ReviewInv, TrustedInv, BranchInv
<1>1. CASE Next
  <2>1. ASSUME NEW d \in Deliveries, tstatus'[Delivery(d)] = "completed"
        PROVE  \E r \in Rounds : r[1] = d /\ istatus[r] = "completed"
    <3>1. CASE ~\E o \in Outcomes : FinishDelivery(d, o)
      BY <1>0, <1>1, <2>1, <3>1, CompletedBefore DEF Integrating
    <3>2. ASSUME NEW o \in Outcomes, FinishDelivery(d, o)
          PROVE  \E r \in Rounds : r[1] = d /\ istatus[r] = "completed"
      <4> DEFINE held == o = "completed" /\ (Waiting(d) \/ WaitingIntegration(d))
                 to == IF held THEN "blocked" ELSE Ended(o, IF Integrated(d) THEN "completed" ELSE "failed")
      <4>1. PICK why : StoreTasks([tstatus EXCEPT ![Delivery(d)] = to], [reason EXCEPT ![d] = why], {})
        BY <3>2 DEF FinishDelivery
      <4> DEFINE st == [tstatus EXCEPT ![Delivery(d)] = to]
                 rs == [reason EXCEPT ![d] = why]
      <4>2. tstatus' = Requeued(st, Handback(st, rs)) BY <4>1 DEF StoreTasks
      <4>3. st[Delivery(d)] = "completed"
        <5> HIDE DEF st, rs
        <5> QED BY <2>1, <4>2, TaskKinds DEF Requeued
      <4>4. to = "completed" BY <1>0, <4>3, TaskKinds DEF TypeOK
      <4>5. Integrated(d) BY <4>4 DEF Ended, Outcomes
      <4> QED BY <4>5 DEF Integrated
    <3> QED BY <3>1, <3>2
  <2> QED BY <1>0, <1>1, <2>1, IntegrationKept DEF Integrating
<1>2. CASE UNCHANGED vars BY <1>2 DEF Integrating, vars, taskVars, integrationVars
<1> QED BY <1>1, <1>2

\* A completed delivery has its latest work in the recorded history, and holds no
\* engineer any more (engineering.ts, assertDeliverable).
THEOREM DeliveryKept == Spec => []DeliveredWork
<1>1. Init => Integrating BY TaskKinds DEF Init, Integrating
<1>2. ReviewInv /\ Integrating => DeliveredWork
  <2> SUFFICES ASSUME ReviewInv, Integrating, NEW d \in Deliveries, tstatus[Delivery(d)] = "completed"
               PROVE  /\ \E i \in DOMAIN current : current[i][1] = d /\ packet[current[i]] = Latest(d)
                      /\ \A a \in AllocsOf(d) : astatus[a] \in {"integrated", "released"}
    BY DEF DeliveredWork
  <2>1. PICK r \in Rounds : r[1] = d /\ istatus[r] = "completed" BY DEF Integrating
  <2>2. PICK i \in DOMAIN current : current[i] = r
    BY <2>1 DEF ReviewInv, TrustedInv, BranchInv, Recorded, Completed
  <2>3. verdict[r] = "approved" BY <2>1 DEF ReviewInv, TrustedInv, ApprovedFirst, Approved
  <2>4. packet[r] = Latest(d) BY <2>1, <2>3, FrozenImplied DEF FrozenUnderReview
  <2>5. \A a \in AllocsOf(d) : astatus[a] \in {"integrated", "released"}
    BY <2>1 DEF ReviewInv, Taken, AllocsOf, Made
  <2> QED BY <2>1, <2>2, <2>4, <2>5
<1> QED BY <1>1, <1>2, ReviewAlways, IntegratingStep, PTL DEF Spec

-----------------------------------------------------------------------------
\* The allocations that take a writer.
Writers == {a \in Allocs : Live(astatus[a])}

WritersInv ==
    /\ IsFiniteSet(Writers) /\ Cardinality(Writers) <= MaxWriters
    /\ \A a, b \in Writers : a[2] = b[2] => a = b

\* A batch of engineers is assigned only within the ceiling and to free engineers.
LEMMA AssignWriters ==
    ASSUME TypeOK, WritersInv, NEW d \in Deliveries, NEW W \in SUBSET Engineers, AssignEngineering(d, W)
    PROVE  WritersInv'
<1> DEFINE new == {<<d, w>> : w \in W}
<1>1. /\ AllocsOf(d) = {}
      /\ Cardinality(Writers) + Cardinality(W) <= MaxWriters
      /\ \A w \in W : \A a \in Allocs : a[2] = w => ~Live(astatus[a])
      /\ astatus' = [a \in Allocs |-> IF a[1] = d /\ a[2] \in W THEN "allocating" ELSE astatus[a]]
  BY DEF AssignEngineering, Assignable, Writers
<1>2. IsFiniteSet(W) BY EngineeringAssumption, FS_Subset
<1>3. IsFiniteSet(new) /\ Cardinality(new) = Cardinality(W)
  <2> DEFINE f == [w \in W |-> <<d, w>>]
  <2>1. f \in Bijection(W, new) BY DEF Bijection, Injection, Surjection, IsInjective
  <2> HIDE DEF f, new
  <2>2. ExistsBijection(W, new) BY <2>1 DEF ExistsBijection
  <2> QED BY <1>2, <2>2, FS_Bijection
<1>4. \A a \in Allocs : a \in new <=> a[1] = d /\ a[2] \in W BY PairTypes
<1>5. new \subseteq Allocs BY PairTypes
<1>6. Writers' = Writers \cup new
  BY <1>1, <1>4, <1>5 DEF Writers, Live
<1>7. IsFiniteSet(Writers') /\ Cardinality(Writers') <= Cardinality(Writers) + Cardinality(W)
  <2>1. IsFiniteSet(Writers) BY DEF WritersInv
  <2>2. Cardinality(Writers \cup new) = Cardinality(Writers) + Cardinality(new) - Cardinality(Writers \cap new)
        /\ IsFiniteSet(Writers \cup new) /\ IsFiniteSet(Writers \cap new)
    <3> HIDE DEF new
    <3> QED BY <1>3, <2>1, FS_Union, FS_Intersection
  <2>3. Cardinality(Writers \cap new) \in Nat /\ Cardinality(Writers) \in Nat /\ Cardinality(new) \in Nat
    BY <1>3, <2>1, <2>2, FS_CardinalityType
  <2> QED BY <1>3, <1>6, <2>2, <2>3
<1>8. Cardinality(Writers') <= MaxWriters
  <2>1. /\ Cardinality(Writers') \in Nat /\ Cardinality(Writers) \in Nat /\ Cardinality(W) \in Nat
        /\ MaxWriters \in Nat
    BY <1>2, <1>7, FS_CardinalityType, EngineeringAssumption DEF WritersInv
  <2> QED BY <1>1, <1>7, <2>1
<1>9. \A a, b \in Writers' : a[2] = b[2] => a = b
  <2>1. ASSUME NEW a \in Writers, NEW b \in new PROVE a[2] # b[2]
    BY <1>1, <1>4, <1>5 DEF Writers
  <2>2. \A a, b \in new : a[2] = b[2] => a = b OBVIOUS
  <2> QED BY <1>6, <2>1, <2>2 DEF WritersInv
<1> QED BY <1>7, <1>8, <1>9 DEF WritersInv

\* An engineer holds one allocation at a time, and the ceiling on writers holds over
\* all deliveries, through reassignment, revision, release and crashes
\* (engineering.ts, assign_engineering; projects.ts, release).
THEOREM WritersKept == Spec => []OneLiveAllocation
<1>1. Init => WritersInv
  <2> SUFFICES ASSUME Init PROVE WritersInv OBVIOUS
  <2>1. Writers = {} BY DEF Init, Writers, Live
  <2> QED BY <2>1, FS_EmptySet, EngineeringAssumption DEF WritersInv
<1>2. ReviewInv /\ WritersInv /\ [Next]_vars => WritersInv'
  <2> SUFFICES ASSUME ReviewInv, WritersInv, [Next]_vars PROVE WritersInv' OBVIOUS
  <2>0. TypeOK /\ TypeOK' BY TypeStep DEF ReviewInv, TrustedInv, BranchInv
  <2>1. ASSUME Spared PROVE WritersInv'
    <3>1. Writers' \in SUBSET Writers BY <2>1 DEF Writers, Spared
    <3>2. /\ IsFiniteSet(Writers') /\ Cardinality(Writers') <= Cardinality(Writers)
          /\ IsFiniteSet(Writers)
      BY <3>1, FS_Subset DEF WritersInv
    <3>3. Cardinality(Writers') \in Nat /\ Cardinality(Writers) \in Nat /\ MaxWriters \in Nat
      BY <3>2, FS_CardinalityType, EngineeringAssumption
    <3> QED BY <3>1, <3>2, <3>3 DEF WritersInv
  <2>2. CASE Next BY <2>0, <2>1, <2>2, RoundsStep, AssignWriters
  <2>3. CASE UNCHANGED vars BY <2>1, <2>3 DEF vars, allocVars, Spared
  <2> QED BY <2>2, <2>3
<1>3. WritersInv => OneLiveAllocation BY DEF WritersInv, OneLiveAllocation, Writers, Live
<1> QED BY <1>1, <1>2, <1>3, ReviewAlways, PTL DEF Spec
=============================================================================
