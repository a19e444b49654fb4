------------------------------ MODULE Mandates ------------------------------
(***************************************************************************)
(* A strategic mandate: the operating cycles its coordinator works, the    *)
(* internal work and the external action of a cycle, one review schedule   *)
(* with its durable occurrences, and the pass progress(); tick() of the    *)
(* dispatcher.  Source: src/control/mandates.ts.                           *)
(*                                                                         *)
(* The clock counts units of 30 s; a cycle and the interval are whole      *)
(* numbers of them.  Abstracted: the records a review reads and cites (a   *)
(* decision is a flag of its cycle), whether the coordinator is enabled    *)
(* (it is), the turns of a group (Discussions) and the steps of an action  *)
(* (Business), daily recurrence (an interval stands for it), tool          *)
(* receipts, and all but one schedule of the mandate.                      *)
(***************************************************************************)
EXTENDS Integers, Sequences, FiniteSets

CONSTANTS
    MaxExecutions, MaxTasks, MaxGroups, MaxPending, MaxCycles, MaxOccurrences,  \* the envelope
    GroupExecutions,          \* executions a working group reserves
    CycleTime, Interval,      \* max_cycle_minutes, the recurrence, in clock units
    Failures,                 \* known failures a cycle retries
    ClockBound, OwnerBound    \* bounds on the clock and on the owner's interventions

ASSUME MandatesAssumption ==
    /\ {MaxTasks, MaxGroups, MaxPending, MaxCycles, MaxOccurrences, GroupExecutions, ClockBound, OwnerBound} \subseteq Nat
    /\ {MaxExecutions, CycleTime, Interval} \subseteq Nat \ {0}
    /\ Failures \in 0..2

VARIABLES
    clock,
    owner,  \* the owner's interventions so far (for OwnerBound)
    halted, \* company.paused: the owner stopped all dispatch
    mnd     \* the mandate with all its rows, see MandatesTypeOK

mndVars == <<clock, owner, halted, mnd>>

\* The control columns of the rows.
Cycle == [state : {"active", "waiting", "closed", "blocked", "cancelled"}, occ : Nat, started : BOOLEAN,
          fails : 0..Failures, retry : Nat, reserved : 0..MaxExecutions, deadline : Nat, decided : BOOLEAN,
          action : {"none", "pending", "settled"}]
MandateTurn == [st : {"none", "queued", "replying", "completed", "undone", "cancelled"}, run : BOOLEAN, ok : BOOLEAN,
                out : {"none", "wait", "action_wait", "close", "stop"}, acted : BOOLEAN, adv : BOOLEAN, stale : BOOLEAN]
\* A group is blocked when it is blocked or stopped, and done when it is completed or archived.
InternalWork == [c : Nat, kind : {"task", "group"}, st : {"queued", "running", "blocked", "done"}, delivered : BOOLEAN]
ReviewSchedule == [status : {"none", "active", "paused", "cancelled", "exhausted"}, version : Nat, due : Nat,
                   end : Nat, consumed : Nat, limit : 0..MaxOccurrences]
Occurrence == [version : Nat, missed : Nat, cycle : Nat,
               state : {"due", "held", "queued", "completed", "blocked", "cancelled", "superseded"}]
Mandate == [status : {"draft", "active", "paused", "stopped"}, unres : BOOLEAN, cycles : Seq(Cycle),
            turn : MandateTurn, works : Seq(InternalWork), sched : ReviewSchedule, occs : Seq(Occurrence)]

MandatesTypeOK == clock \in 0..ClockBound /\ owner \in 0..OwnerBound /\ halted \in BOOLEAN /\ mnd \in Mandate

NoTurn == [st |-> "none", run |-> FALSE, ok |-> FALSE, out |-> "none", acted |-> FALSE, adv |-> TRUE, stale |-> FALSE]
QueuedTurn == [NoTurn EXCEPT !.st = "queued", !.adv = FALSE]

MandatesInit ==
    /\ clock = 0 /\ owner = 0 /\ halted = FALSE
    /\ mnd = [status |-> "draft", unres |-> FALSE, cycles |-> <<>>, turn |-> NoTurn, works |-> <<>>, occs |-> <<>>,
              sched |-> [status |-> "none", version |-> 0, due |-> 0, end |-> 0, consumed |-> 0, limit |-> 0]]

-----------------------------------------------------------------------------
(* Rows.  Only the last cycle can be open, and its last turn is m.turn.    *)

Newest(m) == Len(m.cycles)
IsOpen(m, c) == m.cycles[c].state \in {"active", "waiting", "blocked"}
HasOpen(m) == \E c \in DOMAIN m.cycles : IsOpen(m, c)
InCycle(m, c) == {k \in DOMAIN m.works : m.works[k].c = c}
Created(m, kind) == {k \in InCycle(m, Newest(m)) : m.works[k].kind = kind}
WorkTerminal(w) == w.st = "done" \/ (w.kind = "group" /\ w.st = "blocked")
Unsettled(m) == {k \in InCycle(m, Newest(m)) : ~WorkTerminal(m.works[k])}
DueOrHeld(m) == {o \in DOMAIN m.occs : m.occs[o].state \in {"due", "held"}}

Dequeued(turn) == IF turn.st = "queued" THEN [turn EXCEPT !.st = "cancelled"] ELSE turn

BlockCycle(m) ==
    LET c == Newest(m)  o == m.cycles[c].occ
        cancelled(w) == w.c = c /\ w.kind = "task" /\ w.st \in {"queued", "blocked"}
    IN [m EXCEPT !.cycles[c] = [@ EXCEPT !.state = "blocked", !.retry = 0], !.turn = Dequeued(@),
                 !.works = [k \in DOMAIN @ |-> IF cancelled(@[k]) THEN [@[k] EXCEPT !.st = "done"] ELSE @[k]],
                 !.occs = [k \in DOMAIN @ |-> IF k = o THEN [@[k] EXCEPT !.state = "blocked"] ELSE @[k]]]

\* A mutant of EnqueueReview: a review is reserved past the envelope's executions.
EnqueueUnlimited(m) ==
    LET c == Newest(m)
    IN [m EXCEPT !.cycles[c] = [@ EXCEPT !.reserved = m.cycles[c].reserved + 1, !.state = "active", !.retry = 0], !.turn = QueuedTurn]

\* One more execution reserved for the last cycle, which is blocked when there is none left.
EnqueueReview(m) ==
    LET c == Newest(m)
    IN IF m.cycles[c].reserved = MaxExecutions THEN BlockCycle(m)
       ELSE [m EXCEPT !.cycles[c] = [@ EXCEPT !.reserved = m.cycles[c].reserved + 1, !.state = "active", !.retry = 0], !.turn = QueuedTurn]

CanOpen(m) == m.status = "active" /\ ~m.unres /\ ~HasOpen(m) /\ Len(m.cycles) < MaxCycles
OpenCycle(m, o) ==
    [m EXCEPT !.cycles = Append(@, [state |-> "active", occ |-> o, started |-> FALSE, fails |-> 0, retry |-> 0, reserved |-> 1,
                                    deadline |-> clock + CycleTime, decided |-> FALSE, action |-> "none"]),
              !.turn = QueuedTurn]

StopMandate(m) ==
    LET stopped(w) == IF w.kind = "group" THEN w.st = "running" ELSE w.st \in {"queued", "blocked"}
    IN [m EXCEPT !.status = "stopped",
                 !.sched = IF @.status \in {"active", "paused"} THEN [@ EXCEPT !.status = "cancelled", !.due = 0] ELSE @,
                 !.occs = [o \in DOMAIN @ |-> IF o \in DueOrHeld(m) THEN [@[o] EXCEPT !.state = "cancelled"] ELSE @[o]],
                 !.cycles = [c \in DOMAIN @ |-> IF IsOpen(m, c) THEN [@[c] EXCEPT !.state = "cancelled"] ELSE @[c]],
                 !.turn = Dequeued(@),
                 !.works = [k \in DOMAIN @ |-> IF stopped(@[k]) THEN [@[k] EXCEPT !.st = IF m.works[k].kind = "group" THEN "blocked" ELSE "done"]
                                               ELSE @[k]]]

\* unstartedSchedule(): the last cycle answers an occurrence and has not run yet.
Unstarted(m) == Newest(m) > 0 /\ m.cycles[Newest(m)].occ # 0 /\ ~m.cycles[Newest(m)].started
Superseded(m) == m.occs[m.cycles[Newest(m)].occ].version # m.sched.version

InvalidateQueued(m, state) ==
    LET hit == {o \in DOMAIN m.occs : /\ m.occs[o].state \in {"due", "held", "queued"}
                                      /\ m.occs[o].cycle # 0 => ~m.cycles[m.occs[o].cycle].started}
        closing == {m.occs[o].cycle : o \in hit}
    IN [m EXCEPT !.occs = [o \in DOMAIN @ |-> IF o \in hit THEN [@[o] EXCEPT !.state = state] ELSE @[o]],
                 !.cycles = [c \in DOMAIN @ |-> IF c \in closing THEN [@[c] EXCEPT !.state = "cancelled"] ELSE @[c]],
                 !.turn = IF Newest(m) \in closing THEN Dequeued(@) ELSE @]

-----------------------------------------------------------------------------
(* The owner.                                                              *)

Set(m) == mnd' = m /\ UNCHANGED <<clock, owner, halted>>
Intervene(m) == owner < OwnerBound /\ owner' = owner + 1 /\ mnd' = m /\ UNCHANGED <<clock, halted>>

HaltCompany == ~halted /\ owner < OwnerBound /\ owner' = owner + 1 /\ halted' = TRUE /\ UNCHANGED <<clock, mnd>>
ResumeCompany == halted /\ halted' = FALSE /\ UNCHANGED <<clock, owner, mnd>>

Activate == mnd.status = "draft" /\ CanOpen([mnd EXCEPT !.status = "active"]) /\ Set(OpenCycle([mnd EXCEPT !.status = "active"], 0))
PauseMandate == mnd.status = "active" /\ Intervene([mnd EXCEPT !.status = "paused"])
ResumeMandate == mnd.status = "paused" /\ ~mnd.unres /\ Set([mnd EXCEPT !.status = "active"])
ReviewNow == CanOpen(mnd) /\ Set(OpenCycle(mnd, 0))
Stop == mnd.status # "stopped" /\ Set(StopMandate(mnd))

\* saveSchedule() by the owner (a worker's is the same, of an active mandate).
SaveSchedule(due, end, limit) ==
    LET s == mnd.sched IN
    /\ mnd.status \in {"active", "paused"}
    /\ due > clock /\ end > due /\ limit \in s.consumed + 1..MaxOccurrences
    /\ s.status \in {"none", "active", "paused"} \/ (s.status = "exhausted" /\ DueOrHeld(mnd) # {})
    /\ Intervene(InvalidateQueued([mnd EXCEPT !.sched = [@ EXCEPT !.status = IF s.status = "paused" THEN "paused" ELSE "active",
                                                           !.version = s.version + 1, !.due = due, !.end = end, !.limit = limit]],
                            "superseded"))

ControlSchedule(action) ==
    LET s == mnd.sched
        pending == \E o \in DOMAIN mnd.occs : mnd.occs[o].state \in {"due", "held", "queued"}
    IN /\ s.status \notin {"none", "cancelled"}
       /\ \/ /\ action = "pause" /\ (s.status = "active" \/ (s.status = "exhausted" /\ pending))
             /\ Intervene([mnd EXCEPT !.sched.status = "paused"])
          \/ /\ action = "resume" /\ s.status = "paused"
             /\ Intervene([mnd EXCEPT !.sched.status = IF s.due # 0 THEN "active" ELSE "exhausted"])
          \/ /\ action = "cancel"
             /\ Intervene(InvalidateQueued([mnd EXCEPT !.sched.status = "cancelled", !.sched.due = 0], "cancelled"))

\* withdrawObservation(): the scope of the conversation changes, the groups that were
\* given evidence are blocked, and a queued review is replaced.
WithdrawObservation(given) ==
    LET works == [k \in DOMAIN mnd.works |->
                    IF mnd.works[k].kind = "task" /\ mnd.works[k].st = "queued" THEN [mnd.works[k] EXCEPT !.st = "done"]
                    ELSE IF k \in given THEN [mnd.works[k] EXCEPT !.st = "blocked"] ELSE mnd.works[k]]
        m == [mnd EXCEPT !.turn.stale = TRUE, !.works = works]
    IN /\ \A k \in given : mnd.works[k].kind = "group"
       /\ Intervene(IF mnd.turn.st = "queued" THEN EnqueueReview([m EXCEPT !.turn = [@ EXCEPT !.st = "cancelled", !.adv = TRUE]])
                    ELSE m)

-----------------------------------------------------------------------------
(* A review of the coordinator.                                            *)

AuthorizeReview(m) ==
    LET c == Newest(m) IN
    /\ m.status = "active" \/ (m.status = "paused" /\ m.turn.st # "queued")
    /\ m.cycles[c].state = "active" /\ m.cycles[c].deadline > clock
    /\ Unstarted(m) => ~Superseded(m) /\ m.sched.status \notin {"cancelled", "paused"} /\ m.sched.end >= clock

Held(m) == m.status = "paused" \/ (Unstarted(m) /\ m.sched.status = "paused")

ClaimReview ==
    /\ mnd.turn.st = "queued" /\ ~Held(mnd) /\ ~halted
    /\ Set(IF AuthorizeReview(mnd) /\ ~mnd.unres
           THEN [mnd EXCEPT !.turn.st = "replying", !.turn.run = TRUE, !.cycles[Newest(mnd)].started = TRUE]
           ELSE [mnd EXCEPT !.turn.st = "undone"])

Acting == mnd.turn.run /\ mnd.turn.out = "none" /\ ~mnd.turn.stale /\ mnd.status = "active" /\ AuthorizeReview(mnd)

RecordDecision == Acting /\ Set([mnd EXCEPT !.cycles[Newest(mnd)].decided = TRUE])

\* Work handed out within the envelope; a group needs no decision and starts at once.
Assign(kind, allowed, executions) ==
    LET c == Newest(mnd) IN
    /\ Acting /\ Cardinality(Created(mnd, kind)) < allowed /\ Cardinality(Unsettled(mnd)) < MaxPending
    /\ mnd.cycles[c].reserved + executions <= MaxExecutions
    /\ Set([mnd EXCEPT !.cycles[c].reserved = @ + executions,
                       !.works = Append(@, [c |-> c, kind |-> kind, st |-> IF kind = "task" THEN "queued" ELSE "running",
                                            delivered |-> FALSE])])
AssignTask == mnd.turn.run /\ mnd.cycles[Newest(mnd)].decided /\ Assign("task", MaxTasks, 1)
ConveneGroup == Assign("group", MaxGroups, GroupExecutions)

\* One action to a turn, for a decision of the cycle; its target takes one at a time.
ProposeAction ==
    LET c == Newest(mnd) IN
    /\ Acting /\ ~halted /\ mnd.cycles[c].decided /\ ~mnd.turn.acted /\ mnd.cycles[c].action # "pending"
    /\ Set([mnd EXCEPT !.cycles[c].action = "pending", !.turn.acted = TRUE])

\* Mutant: a cycle closes over a result nobody was shown.
CloseUndelivered(m, stop) ==
    /\ m.cycles[Newest(m)].action # "pending" /\ m.cycles[Newest(m)].decided /\ Unsettled(m) = {}
    /\ stop \/ (m.sched.status = "active" /\ m.sched.due # 0) \/ DueOrHeld(m) # {}
CanClose(m, stop) ==
    /\ m.cycles[Newest(m)].action # "pending" /\ m.cycles[Newest(m)].decided /\ Unsettled(m) = {}
    /\ \A k \in InCycle(m, Newest(m)) : m.works[k].delivered
    /\ stop \/ (m.sched.status = "active" /\ m.sched.due # 0) \/ DueOrHeld(m) # {}

\* commitTurn(): wait for internal work or for the action of this turn, or close the
\* cycle (and stop the mandate).
CommitReview(out) ==
    /\ Acting
    /\ \/ out = "wait" /\ \E k \in InCycle(mnd, Newest(mnd)) : ~mnd.works[k].delivered
       \/ out = "action_wait" /\ mnd.turn.acted
       \/ out \in {"close", "stop"} /\ CanClose(mnd, out = "stop")
    /\ Set([mnd EXCEPT !.turn.out = out, !.turn.st = "completed"])

\* The execution ends; authority is checked once more, the output alone is not success.
FinishReview(completed, known) ==
    /\ mnd.turn.run /\ (completed => known)
    /\ Set([mnd EXCEPT !.turn.run = FALSE, !.unres = @ \/ ~known,
                       !.turn.ok = completed /\ ~mnd.turn.stale /\ mnd.turn.out # "none" /\ AuthorizeReview(mnd),
                       !.turn.st = IF @ = "replying" THEN "undone" ELSE @])

-----------------------------------------------------------------------------
(* Internal work and the external action move on their own.                *)

\* internalEligible(), in the claim of the company.
TaskStarts(k) ==
    LET c == mnd.works[k].c IN
    /\ mnd.works[k].kind = "task" /\ mnd.works[k].st = "queued" /\ ~halted
    /\ mnd.status = "active" /\ mnd.cycles[c].state \in {"active", "waiting"} /\ mnd.cycles[c].deadline > clock
    /\ Set([mnd EXCEPT !.works[k].st = "running"])

\* An execution of the task or a turn of the group ends it, or leaves it blocked (a task has
\* a single attempt); the owner cancels the task, or stops or archives the group.
WorkEnds(k, st) ==
    /\ \/ mnd.works[k].st = "running"
       \/ st = "done" /\ (mnd.works[k].st = "blocked" \/ (mnd.works[k].kind = "task" /\ mnd.works[k].st = "queued"))
    /\ Set([mnd EXCEPT !.works[k].st = st])

\* control() of discussions.ts (resume, finish) asks nothing of the mandate.
GroupReopens(k) ==
    /\ mnd.works[k].kind = "group" /\ mnd.works[k].st = "blocked" /\ mnd.cycles[mnd.works[k].c].deadline > clock
    /\ Intervene([mnd EXCEPT !.works[k].st = "running"])

\* decide(), execute() and the expiry of business.ts.
ActionSettles(c) == mnd.cycles[c].action = "pending" /\ Set([mnd EXCEPT !.cycles[c].action = "settled"])

-----------------------------------------------------------------------------
(* The dispatcher's pass: progress() of the open cycle, then tick() of the *)
(* schedule and of each occurrence, each a transaction of its own.         *)

\* A review that ended well: what it waits for, or the end of the cycle.
AdvanceReview(m) ==
    LET c == Newest(m)
        read == [m EXCEPT !.turn.adv = TRUE]
        delivered == [read EXCEPT !.works = [k \in DOMAIN @ |-> IF @[k].c = c THEN [@[k] EXCEPT !.delivered = TRUE] ELSE @[k]]]
        closed == [read EXCEPT !.cycles[c].state = "closed",
                               !.occs = [o \in DOMAIN @ |-> IF o = m.cycles[c].occ THEN [@[o] EXCEPT !.state = "completed"] ELSE @[o]]]
        waiting == [m EXCEPT !.cycles[c].state = "waiting"]
    IN CASE m.turn.out = "action_wait" -> IF m.cycles[c].action = "pending" THEN waiting ELSE EnqueueReview(read)
         [] m.turn.out = "wait" -> IF Unsettled(m) # {} THEN waiting ELSE EnqueueReview(delivered)
         [] m.turn.out = "stop" -> StopMandate(closed)
         [] OTHER -> closed

\* A review that failed: the retries of a cycle wait 30 s and 60 s.
RetryReview(m) ==
    LET c == Newest(m)
        read == [m EXCEPT !.turn.adv = TRUE]
    IN IF m.cycles[c].fails = Failures THEN BlockCycle(read)
       ELSE [read EXCEPT !.cycles[c] = [@ EXCEPT !.state = "waiting", !.fails = m.cycles[c].fails + 1, !.retry = clock + 1 + m.cycles[c].fails]]

ProgressCycle(m) ==
    LET cy == m.cycles[Newest(m)]
    IN IF Newest(m) = 0 \/ ~(cy.state \in {"active", "waiting"}) THEN m
       ELSE IF Unstarted(m) /\ (Superseded(m) \/ m.sched.status = "cancelled" \/ m.sched.end < clock) THEN InvalidateQueued(m, "cancelled")
       ELSE IF cy.deadline <= clock THEN BlockCycle(m)
       ELSE IF m.status # "active" \/ m.turn.run THEN m
       ELSE IF m.unres THEN BlockCycle(m)
       ELSE IF cy.retry # 0 THEN IF cy.retry > clock THEN m ELSE EnqueueReview(m)
       ELSE IF m.turn.adv \/ m.turn.st = "queued" THEN m
       ELSE IF m.turn.ok THEN AdvanceReview(m) ELSE RetryReview(m)

\* Due instants up to now, within the end and the limit of the schedule.
DueCount(s) == Cardinality({k \in 0..MaxOccurrences : /\ s.due + k * Interval <= clock /\ s.due + k * Interval <= s.end
                                                      /\ s.consumed + k < s.limit})

TickSchedule(m) ==
    LET s == m.sched  n == DueCount(s)  next == s.due + n * Interval
        ended == s.consumed + n >= s.limit \/ next > s.end
        held == {o \in DueOrHeld(m) : m.occs[o].version = s.version}
    IN IF ~(s.status = "active" /\ s.due # 0 /\ s.due <= clock) THEN m
       ELSE [m EXCEPT !.sched = [@ EXCEPT !.consumed = s.consumed + n, !.due = IF n = 0 \/ ended THEN 0 ELSE next,
                                          !.status = IF n = 0 \/ ended THEN "exhausted" ELSE "active"],
                      !.occs = IF n = 0 THEN @
                               ELSE IF held # {} THEN [o \in DOMAIN @ |-> IF o \in held THEN [@[o] EXCEPT !.missed = m.occs[o].missed + n] ELSE @[o]]
                               ELSE Append(@, [version |-> s.version, missed |-> n - 1, cycle |-> 0, state |-> "due"])]

\* What the transaction of a due or held occurrence makes of it.
Verdict(m, o) ==
    CASE m.sched.version # m.occs[o].version -> "superseded"
      [] m.sched.version = m.occs[o].version /\ (m.sched.status = "cancelled" \/ m.status = "stopped" \/ clock > m.sched.end) -> "cancelled"
      [] OTHER -> IF halted \/ m.status = "paused" \/ m.sched.status = "paused" \/ HasOpen(m) THEN "held"
                  ELSE IF CanOpen(m) THEN "queued" ELSE "blocked"

\* The transactions of the first n occurrences: one that opens a cycle holds those after it.
TickOccurrences(m, n) ==
    LET due == {o \in DueOrHeld(m) : o <= n}
        opening == {o \in due : Verdict(m, o) = "queued"}
        first == CHOOSE o \in opening : \A p \in opening : o <= p
        ticked == [m EXCEPT !.occs = [o \in DOMAIN @ |-> IF o \in due
                                        THEN [@[o] EXCEPT !.state = IF o \in opening /\ o # first THEN "held" ELSE Verdict(m, o)]
                                        ELSE @[o]]]
    IN IF opening = {} THEN ticked ELSE OpenCycle([ticked EXCEPT !.occs[first].cycle = Len(m.cycles) + 1], first)

PassUpTo(m, n) == TickOccurrences(TickSchedule(ProgressCycle(m)), n)
Pass(m) == PassUpTo(m, Len(TickSchedule(ProgressCycle(m)).occs))

\* A pass that ends early is one HQ died in: each transaction is kept or not made.
Wake ==
    /\ \/ Set(ProgressCycle(mnd))
       \/ \E n \in 0..Len(TickSchedule(ProgressCycle(mnd)).occs) : Set(PassUpTo(mnd, n))
    /\ mnd' # mnd

ClockTicks == clock < ClockBound /\ clock' = clock + 1 /\ UNCHANGED <<owner, halted, mnd>>

MandatesNext ==
    \/ HaltCompany \/ ResumeCompany
    \/ Activate \/ PauseMandate \/ ResumeMandate \/ ReviewNow \/ Stop
    \/ \E given \in SUBSET (DOMAIN mnd.works) : WithdrawObservation(given)
    \/ \E due, end \in 1..ClockBound, limit \in 1..MaxOccurrences : SaveSchedule(due, end, limit)
    \/ \E action \in {"pause", "resume", "cancel"} : ControlSchedule(action)
    \/ ClaimReview \/ RecordDecision \/ AssignTask \/ ConveneGroup \/ ProposeAction
    \/ \E out \in {"wait", "action_wait", "close", "stop"} : CommitReview(out)
    \/ \E completed, known \in BOOLEAN : FinishReview(completed, known)
    \/ \E k \in DOMAIN mnd.works : TaskStarts(k) \/ GroupReopens(k) \/ \E st \in {"blocked", "done"} : WorkEnds(k, st)
    \/ \E c \in DOMAIN mnd.cycles : ActionSettles(c)
    \/ Wake \/ ClockTicks

MandatesSpec == MandatesInit /\ [][MandatesNext]_mndVars

-----------------------------------------------------------------------------
(* Properties.                                                             *)

\* Every due instant of the schedule is accounted for by exactly one
\* occurrence: coalescing, edits, pauses and a crash between the transactions
\* of a pass neither lose an instant nor consume it twice.
DueOnce ==
    Cardinality(UNION {{o} \X (0..mnd.occs[o].missed) : o \in DOMAIN mnd.occs}) = mnd.sched.consumed

\* A cycle is closed only over a recorded decision and internal work that was
\* handed to a later review, its tasks ended, although the work, the owner and
\* the deadline all move between the review that closes it and the pass.
ClosedReviewed ==
    \A c \in DOMAIN mnd.cycles : mnd.cycles[c].state = "closed" =>
        /\ mnd.cycles[c].decided
        /\ \A k \in InCycle(mnd, c) : mnd.works[k].delivered /\ (mnd.works[k].kind = "task" => mnd.works[k].st = "done")
=============================================================================
