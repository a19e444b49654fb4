--------------------------- MODULE MandatesProofs ---------------------------
(***************************************************************************)
(* Proofs about Mandates, for every envelope, recurrence and retry limit:  *)
(* the type invariant, DueOnce and ClosedReviewed.                         *)
(*                                                                         *)
(* MandateKept is the inductive invariant, a predicate of the rows: a      *)
(* version of the schedule has one occurrence to come (OneHeld), which is  *)
(* why a due instant is added to one; a review that commits to end its     *)
(* cycle had decided and seen all its work (EndsWell), and so had a cycle  *)
(* that ended (ClosedWell); the instants of the occurrences are those the  *)
(* schedule consumed (Counted).  Most operators only let the rows move     *)
(* forward (MandateFollows), which keeps it (FollowsKept), so that a pass, *)
(* which composes several of them, is kept by one lemma for each.          *)
(***************************************************************************)
EXTENDS Mandates, FiniteSetTheorems, SequenceTheorems, WellFoundedInduction, TLAPS

LEMMA SequenceAsFunction ==
  ASSUME NEW S, NEW s \in Seq(S)
  PROVE  Len(s) \in Nat /\ DOMAIN s = 1..Len(s) /\ s \in [1..Len(s) -> S]
  BY LenProperties

LEMMA FunctionAsSequence ==
  ASSUME NEW S, NEW s \in Seq(S), NEW f \in [DOMAIN s -> S]
  PROVE  f \in Seq(S) /\ DOMAIN f = DOMAIN s /\ Len(f) = Len(s)
<1>1. Len(s) \in Nat /\ DOMAIN s = 1..Len(s)
  BY SequenceAsFunction
<1>2. f \in Seq(S)
  BY <1>1, IsASeq
<1> QED
  BY <1>1, <1>2, LenProperties

\* A set of numbers that is not empty has a smallest one.
LEMMA Smallest ==
  ASSUME NEW S \in SUBSET Nat, S # {}
  PROVE  \E k \in S : \A j \in S : k <= j
<1> DEFINE R == {p \in Nat \X Nat : p[1] < p[2]}
<1>1. IsWellFoundedOn(R, Nat)
  BY NatLessThanWellFounded DEF OpToRel
<1>2. PICK k \in S : \A j \in S : ~ (<<j, k>> \in R)
  BY <1>1, WFMin
<1>3. \A j \in S : ~ (j < k) /\ j \in Nat /\ k \in Nat
  BY <1>2
<1> QED
  BY <1>3

-----------------------------------------------------------------------------
(* The invariant, and the operators that only move the rows forward.      *)

\* The instants each occurrence stands for.
Instants(occs) == UNION {{o} \X (0..occs[o].missed) : o \in DOMAIN occs}

\* A version of the schedule has one occurrence to come.
OneHeld(m) == \A o, p \in DueOrHeld(m) : m.occs[o].version = m.occs[p].version => o = p
WorksPlaced(m) == \A k \in DOMAIN m.works : m.works[k].c \in DOMAIN m.cycles
TurnPlaced(m) == m.turn.st # "none" \/ m.turn.run => Len(m.cycles) > 0
\* The work of a cycle was shown to a review, and its tasks ended.
Shown(m, c) == \A k \in DOMAIN m.works :
    m.works[k].c = c => m.works[k].delivered /\ (m.works[k].kind = "task" => m.works[k].st = "done")
\* A review that committed to end its cycle had decided, and seen all its work.
EndsWell(m) == m.turn.out \in {"close", "stop"} =>
    Len(m.cycles) > 0 /\ m.cycles[Len(m.cycles)].decided /\ Shown(m, Len(m.cycles))
SucceedsCommitted(m) == m.turn.ok => m.turn.out # "none"
ClosedWell(m) == \A c \in DOMAIN m.cycles : m.cycles[c].state = "closed" => m.cycles[c].decided /\ Shown(m, c)
CountIs(occs, k) == IsFiniteSet(Instants(occs)) /\ Cardinality(Instants(occs)) = k
Counted(m) == CountIs(m.occs, m.sched.consumed)

MandateKept(m) ==
    /\ m \in Mandate /\ OneHeld(m) /\ WorksPlaced(m) /\ TurnPlaced(m)
    /\ EndsWell(m) /\ SucceedsCommitted(m) /\ ClosedWell(m) /\ Counted(m)

\* What most steps do to the rows: no row is added, and nothing that was decided, shown,
\* ended or counted is undone.
CyclesFollow(a, b) ==
    /\ b \in Seq(Cycle) /\ Len(b) = Len(a)
    /\ \A c \in DOMAIN a : (a[c].decided => b[c].decided) /\ (b[c].state = "closed" => a[c].state = "closed")
WorksFollow(a, b) ==
    /\ b \in Seq(InternalWork) /\ Len(b) = Len(a)
    /\ \A k \in DOMAIN a :
        /\ b[k].c = a[k].c /\ b[k].kind = a[k].kind /\ (a[k].delivered => b[k].delivered)
        /\ a[k].kind = "task" /\ a[k].st = "done" => b[k].st = "done"
OccsFollow(a, b) ==
    /\ b \in Seq(Occurrence) /\ Len(b) = Len(a)
    /\ \A o \in DOMAIN a :
        /\ b[o].version = a[o].version /\ b[o].missed = a[o].missed
        /\ b[o].state \in {"due", "held"} => a[o].state \in {"due", "held"}
TurnFollows(a, b) ==
    /\ b \in MandateTurn /\ (b.ok => b.out # "none")
    /\ b.out \in {"close", "stop"} => a.out \in {"close", "stop"}
RestFollows(a, b) ==
    /\ b.status \in {"draft", "active", "paused", "stopped"} /\ b.unres \in BOOLEAN
    /\ b.sched \in ReviewSchedule /\ b.sched.consumed = a.sched.consumed
    /\ b = [status |-> b.status, unres |-> b.unres, cycles |-> b.cycles, turn |-> b.turn, works |-> b.works,
            sched |-> b.sched, occs |-> b.occs]
    /\ b.turn.st # "none" \/ b.turn.run => Len(b.cycles) > 0
MandateFollows(a, b) ==
    /\ CyclesFollow(a.cycles, b.cycles) /\ WorksFollow(a.works, b.works) /\ OccsFollow(a.occs, b.occs)
    /\ TurnFollows(a.turn, b.turn) /\ RestFollows(a, b)

LEMMA MandateColumns ==
  ASSUME NEW m \in Mandate
  PROVE  /\ m.status \in {"draft", "active", "paused", "stopped"} /\ m.unres \in BOOLEAN
         /\ m.cycles \in Seq(Cycle) /\ m.turn \in MandateTurn /\ m.works \in Seq(InternalWork)
         /\ m.sched \in ReviewSchedule /\ m.occs \in Seq(Occurrence)
         /\ Len(m.cycles) \in Nat /\ DOMAIN m.cycles = 1..Len(m.cycles) /\ \A c \in 1..Len(m.cycles) : m.cycles[c] \in Cycle
         /\ Len(m.works) \in Nat /\ DOMAIN m.works = 1..Len(m.works) /\ \A k \in 1..Len(m.works) : m.works[k] \in InternalWork
         /\ Len(m.occs) \in Nat /\ DOMAIN m.occs = 1..Len(m.occs) /\ \A o \in 1..Len(m.occs) : m.occs[o] \in Occurrence
<1>1. /\ m.status \in {"draft", "active", "paused", "stopped"} /\ m.unres \in BOOLEAN
      /\ m.cycles \in Seq(Cycle) /\ m.turn \in MandateTurn /\ m.works \in Seq(InternalWork)
      /\ m.sched \in ReviewSchedule /\ m.occs \in Seq(Occurrence)
  BY DEF Mandate
<1>2. Len(m.cycles) \in Nat /\ DOMAIN m.cycles = 1..Len(m.cycles) /\ \A c \in 1..Len(m.cycles) : m.cycles[c] \in Cycle
  BY <1>1, SequenceAsFunction
<1>3. Len(m.works) \in Nat /\ DOMAIN m.works = 1..Len(m.works) /\ \A k \in 1..Len(m.works) : m.works[k] \in InternalWork
  BY <1>1, SequenceAsFunction
<1>4. Len(m.occs) \in Nat /\ DOMAIN m.occs = 1..Len(m.occs) /\ \A o \in 1..Len(m.occs) : m.occs[o] \in Occurrence
  BY <1>1, SequenceAsFunction
<1> QED
  BY <1>1, <1>2, <1>3, <1>4

LEMMA MandateFollowsType ==
  ASSUME NEW m \in Mandate, NEW n, MandateFollows(m, n)
  PROVE  n \in Mandate
<1>1. /\ n.cycles \in Seq(Cycle) /\ n.works \in Seq(InternalWork) /\ n.occs \in Seq(Occurrence) /\ n.turn \in MandateTurn
      /\ n.status \in {"draft", "active", "paused", "stopped"} /\ n.unres \in BOOLEAN /\ n.sched \in ReviewSchedule
      /\ n = [status |-> n.status, unres |-> n.unres, cycles |-> n.cycles, turn |-> n.turn, works |-> n.works,
              sched |-> n.sched, occs |-> n.occs]
  BY Zenon DEF MandateFollows, CyclesFollow, WorksFollow, OccsFollow, TurnFollows, RestFollows
<1>2. [status |-> n.status, unres |-> n.unres, cycles |-> n.cycles, turn |-> n.turn, works |-> n.works,
              sched |-> n.sched, occs |-> n.occs] \in Mandate
  BY <1>1, Zenon DEF Mandate
<1> QED
  BY <1>1, <1>2

LEMMA InstantsSame ==
  ASSUME NEW a \in Seq(Occurrence), NEW b, OccsFollow(a, b)
  PROVE  Instants(b) = Instants(a)
<1>1. DOMAIN b = DOMAIN a
  BY SequenceAsFunction DEF OccsFollow
<1>2. \A o \in DOMAIN a : b[o].missed = a[o].missed
  BY DEF OccsFollow
<1>3. \A o \in DOMAIN a : {o} \X (0..b[o].missed) = {o} \X (0..a[o].missed)
  BY <1>2
<1> HIDE DEF OccsFollow
<1> QED
  BY <1>1, <1>3, Zenon DEF Instants

LEMMA FollowsKept ==
  ASSUME NEW m, MandateKept(m), NEW n, MandateFollows(m, n)
  PROVE  MandateKept(n)
<1>1. m \in Mandate /\ n \in Mandate
  BY MandateFollowsType DEF MandateKept
<1> USE <1>1, MandateColumns
<1>2. DOMAIN n.cycles = DOMAIN m.cycles /\ DOMAIN n.works = DOMAIN m.works /\ DOMAIN n.occs = DOMAIN m.occs
  BY DEF MandateFollows, CyclesFollow, WorksFollow, OccsFollow
<1>3. OneHeld(n)
  <2>1. \A o \in DOMAIN m.occs : n.occs[o].version = m.occs[o].version /\ (o \in DueOrHeld(n) => o \in DueOrHeld(m))
    BY <1>2 DEF DueOrHeld, MandateFollows, OccsFollow
  <2>2. DueOrHeld(n) \subseteq DOMAIN m.occs
    BY <1>2 DEF DueOrHeld
  <2> QED
    BY <2>1, <2>2 DEF OneHeld, MandateKept
<1>4. WorksPlaced(n)
  BY <1>2 DEF WorksPlaced, MandateKept, MandateFollows, WorksFollow
<1>5. TurnPlaced(n)
  BY DEF TurnPlaced, MandateFollows, RestFollows
<1>6. \A c : Shown(m, c) => Shown(n, c)
  BY <1>2 DEF Shown, MandateFollows, WorksFollow
<1>7. EndsWell(n)
  BY <1>2, <1>6 DEF EndsWell, MandateKept, MandateFollows, CyclesFollow, TurnFollows
<1>8. SucceedsCommitted(n)
  BY DEF SucceedsCommitted, MandateFollows, TurnFollows
<1>9. ClosedWell(n)
  BY <1>2, <1>6 DEF ClosedWell, MandateKept, MandateFollows, CyclesFollow
<1>10. Counted(n)
  <2>1. Instants(n.occs) = Instants(m.occs)
    BY InstantsSame DEF MandateFollows
  <2> QED
    BY <2>1 DEF Counted, CountIs, MandateKept, MandateFollows, RestFollows
<1> QED
  BY <1>3, <1>4, <1>5, <1>7, <1>8, <1>9, <1>10 DEF MandateKept

LEMMA MandatesConstants ==
  /\ MaxTasks \in Nat /\ MaxGroups \in Nat /\ MaxPending \in Nat /\ MaxCycles \in Nat /\ MaxOccurrences \in Nat
  /\ GroupExecutions \in Nat /\ ClockBound \in Nat /\ OwnerBound \in Nat
  /\ MaxExecutions \in Nat \ {0} /\ CycleTime \in Nat \ {0} /\ Interval \in Nat \ {0} /\ Failures \in 0..2
  BY MandatesAssumption

LEMMA CycleSet ==
  ASSUME NEW s \in Seq(Cycle), NEW c \in 1..Len(s), NEW r \in Cycle, NEW t, t = [s EXCEPT ![c] = r]
  PROVE  t \in Seq(Cycle) /\ Len(t) = Len(s) /\ DOMAIN t = DOMAIN s /\ t[c] = r
         /\ \A d \in DOMAIN s : d # c => t[d] = s[d]
<1>1. Len(s) \in Nat /\ DOMAIN s = 1..Len(s) /\ s \in [1..Len(s) -> Cycle]
  BY SequenceAsFunction
<1>2. t \in [DOMAIN s -> Cycle] /\ t[c] = r /\ \A d \in DOMAIN s : d # c => t[d] = s[d]
  BY <1>1
<1> QED
  BY <1>2, FunctionAsSequence

\* A cycle row changed in place follows when it keeps its decision and is not closed.
LEMMA CycleFollows ==
  ASSUME NEW s \in Seq(Cycle), NEW c \in 1..Len(s), NEW r \in Cycle, NEW t, t = [s EXCEPT ![c] = r],
         s[c].decided => r.decided, r.state = "closed" => s[c].state = "closed"
  PROVE  CyclesFollow(s, t)
<1>1. t \in Seq(Cycle) /\ Len(t) = Len(s) /\ t[c] = r /\ \A d \in DOMAIN s : d # c => t[d] = s[d]
  BY CycleSet
<1>2. ASSUME NEW d \in DOMAIN s PROVE (s[d].decided => t[d].decided) /\ (t[d].state = "closed" => s[d].state = "closed")
  <2>1. CASE d = c
    BY <2>1, <1>1
  <2>2. CASE d # c
    BY <2>2, <1>1, <1>2
  <2> QED
    BY <2>1, <2>2
<1> QED
  BY <1>1, <1>2 DEF CyclesFollow

LEMMA WorksMap ==
  ASSUME NEW s \in Seq(InternalWork), NEW t \in [DOMAIN s -> InternalWork],
         \A k \in DOMAIN s : /\ t[k].c = s[k].c /\ t[k].kind = s[k].kind
                             /\ s[k].delivered => t[k].delivered
                             /\ s[k].kind = "task" /\ s[k].st = "done" => t[k].st = "done"
  PROVE  WorksFollow(s, t)
  BY FunctionAsSequence DEF WorksFollow

LEMMA OccsMap ==
  ASSUME NEW s \in Seq(Occurrence), NEW t \in [DOMAIN s -> Occurrence],
         \A o \in DOMAIN s : /\ t[o].version = s[o].version /\ t[o].missed = s[o].missed
                             /\ t[o].state \in {"due", "held"} => s[o].state \in {"due", "held"}
  PROVE  OccsFollow(s, t)
  BY FunctionAsSequence DEF OccsFollow

LEMMA Unmoved ==
  ASSUME NEW m, MandateKept(m)
  PROVE  /\ CyclesFollow(m.cycles, m.cycles) /\ WorksFollow(m.works, m.works) /\ OccsFollow(m.occs, m.occs)
         /\ TurnFollows(m.turn, m.turn)
<1>1. m \in Mandate /\ SucceedsCommitted(m)
  BY DEF MandateKept
<1> USE <1>1, MandateColumns
<1>2. CyclesFollow(m.cycles, m.cycles)
  BY DEF CyclesFollow
<1>3. WorksFollow(m.works, m.works)
  BY DEF WorksFollow
<1>4. OccsFollow(m.occs, m.occs)
  BY DEF OccsFollow
<1>5. TurnFollows(m.turn, m.turn)
  BY DEF TurnFollows, SucceedsCommitted
<1> QED
  BY <1>2, <1>3, <1>4, <1>5

LEMMA DequeuedTurn ==
  ASSUME NEW t \in MandateTurn
  PROVE  /\ Dequeued(t) \in MandateTurn /\ Dequeued(t).out = t.out /\ Dequeued(t).ok = t.ok
         /\ Dequeued(t).run = t.run /\ (Dequeued(t).st = "none" <=> t.st = "none")
  BY DEF Dequeued, MandateTurn

LEMMA DequeuedFollows ==
  ASSUME NEW m, MandateKept(m)
  PROVE  TurnFollows(m.turn, Dequeued(m.turn))
<1>1. m.turn \in MandateTurn /\ (m.turn.ok => m.turn.out # "none")
  BY MandateColumns DEF MandateKept, SucceedsCommitted
<1> QED
  BY <1>1, DequeuedTurn DEF TurnFollows

LEMMA BlockFollows ==
  ASSUME NEW m, MandateKept(m), Len(m.cycles) > 0
  PROVE  MandateFollows(m, BlockCycle(m))
<1> DEFINE n == BlockCycle(m)
           c == Len(m.cycles)
           cancelled(w) == w.c = c /\ w.kind = "task" /\ w.st \in {"queued", "blocked"}
<1>1. m \in Mandate /\ TurnPlaced(m)
  BY DEF MandateKept
<1>2. c \in 1..Len(m.cycles) /\ m.cycles[c] \in Cycle
  BY <1>1, MandateColumns
<1> DEFINE r == [m.cycles[c] EXCEPT !.state = "blocked", !.retry = 0]
           cs == [m.cycles EXCEPT ![c] = r]
           ws == [k \in DOMAIN m.works |-> IF cancelled(m.works[k]) THEN [m.works[k] EXCEPT !.st = "done"] ELSE m.works[k]]
           os == [k \in DOMAIN m.occs |-> IF k = m.cycles[c].occ THEN [m.occs[k] EXCEPT !.state = "blocked"] ELSE m.occs[k]]
<1>20. n = [m EXCEPT !.cycles = cs, !.turn = Dequeued(m.turn), !.works = ws, !.occs = os]
  BY DEF BlockCycle, Newest
<1>21. n = [m EXCEPT !.status = m.status, !.cycles = cs, !.turn = Dequeued(m.turn), !.works = ws, !.sched = m.sched, !.occs = os]
  <2> HIDE DEF cs, ws, os, n
  <2> QED
    BY <1>1, <1>20 DEF Mandate
<1> HIDE DEF n
<1>3. /\ n.status = m.status /\ n.unres = m.unres /\ n.sched = m.sched /\ n.turn = Dequeued(m.turn)
      /\ n.cycles = cs /\ n.works = ws /\ n.occs = os
      /\ n = [status |-> n.status, unres |-> n.unres, cycles |-> n.cycles, turn |-> n.turn, works |-> n.works,
              sched |-> n.sched, occs |-> n.occs]
  <2> HIDE DEF cs, ws, os
  <2> QED
    BY <1>1, <1>21 DEF Mandate
<1>32. n.works = ws
  BY <1>3
<1>33. n.occs = os
  BY <1>3
<1>34. r \in Cycle /\ r.decided = m.cycles[c].decided /\ r.state # "closed"
  BY <1>2 DEF Cycle
<1> HIDE DEF r
<1>4. CyclesFollow(m.cycles, n.cycles)
  <2>1. m.cycles \in Seq(Cycle)
    BY <1>1, MandateColumns
  <2>2. n.cycles = [m.cycles EXCEPT ![c] = r]
    BY <1>3
  <2> HIDE DEF cs, c
  <2> QED
    BY <2>1, <2>2, <1>2, <1>34, CycleFollows
<1>5. WorksFollow(m.works, n.works)
  <2>1. ASSUME NEW k \in DOMAIN m.works
        PROVE  /\ n.works[k] \in InternalWork /\ n.works[k].c = m.works[k].c /\ n.works[k].kind = m.works[k].kind
               /\ m.works[k].delivered => n.works[k].delivered
               /\ m.works[k].kind = "task" /\ m.works[k].st = "done" => n.works[k].st = "done"
    <3>1. m.works[k] \in InternalWork
      BY <1>1, MandateColumns
    <3> QED
      BY <3>1, <1>32 DEF InternalWork
  <2>2. n.works \in [DOMAIN m.works -> InternalWork]
    BY <1>32, <2>1
  <2> QED
    <3>1. m.works \in Seq(InternalWork)
      BY <1>1, MandateColumns
    <3> QED
      BY <3>1, <2>1, <2>2, WorksMap
<1>6. OccsFollow(m.occs, n.occs)
  <2>1. ASSUME NEW o \in DOMAIN m.occs
        PROVE  /\ n.occs[o] \in Occurrence /\ n.occs[o].version = m.occs[o].version /\ n.occs[o].missed = m.occs[o].missed
               /\ n.occs[o].state \in {"due", "held"} => m.occs[o].state \in {"due", "held"}
    <3>1. m.occs[o] \in Occurrence
      BY <1>1, MandateColumns
    <3> QED
      BY <3>1, <1>33 DEF Occurrence
  <2>2. n.occs \in [DOMAIN m.occs -> Occurrence]
    BY <1>33, <2>1
  <2> QED
    <3>1. m.occs \in Seq(Occurrence)
      BY <1>1, MandateColumns
    <3> QED
      BY <3>1, <2>1, <2>2, OccsMap
<1>7. TurnFollows(m.turn, n.turn)
  BY <1>3, DequeuedFollows
<1>8. RestFollows(m, n)
  <2>1. Len(n.cycles) > 0
    BY <1>4, <1>1, MandateColumns DEF CyclesFollow
  <2> QED
    BY <1>1, <1>3, <2>1, MandateColumns DEF RestFollows
<1> QED
  BY <1>4, <1>5, <1>6, <1>7, <1>8 DEF MandateFollows, n

LEMMA QueuedFollows ==
  ASSUME NEW t
  PROVE  TurnFollows(t, QueuedTurn)
  BY DEF TurnFollows, QueuedTurn, NoTurn, MandateTurn

LEMMA EnqueueKept ==
  ASSUME NEW m, MandateKept(m), Len(m.cycles) > 0
  PROVE  MandateKept(EnqueueReview(m))
<1> DEFINE c == Len(m.cycles)
<1>1. m \in Mandate
  BY DEF MandateKept
<1>2. c \in 1..Len(m.cycles) /\ m.cycles[c] \in Cycle /\ m.cycles[c].reserved \in 0..MaxExecutions
  BY <1>1, MandateColumns DEF Cycle
<1>3. CASE m.cycles[c].reserved = MaxExecutions
  <2>1. EnqueueReview(m) = BlockCycle(m)
    BY <1>3 DEF EnqueueReview, Newest
  <2> QED
    BY <2>1, BlockFollows, FollowsKept
<1>4. CASE m.cycles[c].reserved # MaxExecutions
  <2> DEFINE n == EnqueueReview(m)
             r == [m.cycles[c] EXCEPT !.reserved = m.cycles[c].reserved + 1, !.state = "active", !.retry = 0]
  <2> DEFINE cs == [m.cycles EXCEPT ![c] = r]
  <2>0. n = [m EXCEPT !.cycles = cs, !.turn = QueuedTurn]
    BY <1>4 DEF EnqueueReview, Newest
  <2> HIDE DEF n, r
  <2>10. /\ n.status = m.status /\ n.unres = m.unres /\ n.sched = m.sched /\ n.turn = QueuedTurn
         /\ n.cycles = cs /\ n.works = m.works /\ n.occs = m.occs
         /\ n = [status |-> n.status, unres |-> n.unres, cycles |-> n.cycles, turn |-> n.turn, works |-> n.works,
                 sched |-> n.sched, occs |-> n.occs]
    <3> HIDE DEF cs
    <3> QED
      BY <1>1, <2>0 DEF Mandate
  <2>1. /\ n.status = m.status /\ n.unres = m.unres /\ n.sched = m.sched /\ n.turn = QueuedTurn
        /\ n.cycles = [m.cycles EXCEPT ![c] = r] /\ n.works = m.works /\ n.occs = m.occs
        /\ n = [status |-> n.status, unres |-> n.unres, cycles |-> n.cycles, turn |-> n.turn, works |-> n.works,
                sched |-> n.sched, occs |-> n.occs]
    BY <2>10
  <2>20. m.cycles[c].reserved + 1 \in 0..MaxExecutions
    BY <1>2, <1>4, MandatesConstants
  <2>2. r \in Cycle /\ r.decided = m.cycles[c].decided /\ r.state # "closed"
    BY <1>2, <2>20 DEF Cycle, r
  <2>3. CyclesFollow(m.cycles, n.cycles)
    <3>1. m.cycles \in Seq(Cycle)
      BY <1>1, MandateColumns
    <3> QED
      BY <3>1, <1>2, <2>1, <2>2, CycleFollows
  <2>4. RestFollows(m, n)
    <3>1. Len(n.cycles) > 0
      BY <2>3, <1>1, MandateColumns DEF CyclesFollow
    <3> QED
      BY <1>1, <2>1, <3>1, MandateColumns DEF RestFollows
  <2>5. MandateFollows(m, n)
    BY <2>1, <2>3, <2>4, Unmoved, QueuedFollows DEF MandateFollows
  <2> QED
    BY <2>5, FollowsKept DEF n
<1> QED
  BY <1>3, <1>4

LEMMA InvalidateFollows ==
  ASSUME NEW m, MandateKept(m), NEW state \in {"cancelled", "superseded"}
  PROVE  MandateFollows(m, InvalidateQueued(m, state))
<1> DEFINE n == InvalidateQueued(m, state)
           hit == {o \in DOMAIN m.occs : /\ m.occs[o].state \in {"due", "held", "queued"}
                                         /\ m.occs[o].cycle # 0 => ~m.cycles[m.occs[o].cycle].started}
           closing == {m.occs[o].cycle : o \in hit}
           os == [o \in DOMAIN m.occs |-> IF o \in hit THEN [m.occs[o] EXCEPT !.state = state] ELSE m.occs[o]]
           cs == [c \in DOMAIN m.cycles |-> IF c \in closing THEN [m.cycles[c] EXCEPT !.state = "cancelled"] ELSE m.cycles[c]]
           t == IF Newest(m) \in closing THEN Dequeued(m.turn) ELSE m.turn
<1>1. m \in Mandate /\ TurnPlaced(m)
  BY DEF MandateKept
<1>2. n = [m EXCEPT !.occs = os, !.cycles = cs, !.turn = t]
  BY DEF InvalidateQueued
<1> HIDE DEF n, hit, closing
<1>3. /\ n.status = m.status /\ n.unres = m.unres /\ n.sched = m.sched /\ n.turn = t
      /\ n.cycles = cs /\ n.works = m.works /\ n.occs = os
      /\ n = [status |-> n.status, unres |-> n.unres, cycles |-> n.cycles, turn |-> n.turn, works |-> n.works,
              sched |-> n.sched, occs |-> n.occs]
  <2> HIDE DEF cs, os, t
  <2> QED
    BY <1>1, <1>2 DEF Mandate
<1>4. CyclesFollow(m.cycles, n.cycles)
  <2>1. ASSUME NEW c \in DOMAIN m.cycles
        PROVE  cs[c] \in Cycle /\ cs[c].decided = m.cycles[c].decided /\ (cs[c].state = "closed" => m.cycles[c].state = "closed")
    <3>1. m.cycles[c] \in Cycle
      BY <1>1, MandateColumns
    <3> QED
      BY <3>1 DEF Cycle
  <2>2. cs \in [DOMAIN m.cycles -> Cycle] /\ m.cycles \in Seq(Cycle)
    BY <1>1, <2>1, MandateColumns
  <2> HIDE DEF cs
  <2> QED
    BY <1>3, <2>1, <2>2, FunctionAsSequence DEF CyclesFollow
<1>5. OccsFollow(m.occs, n.occs)
  <2>1. ASSUME NEW o \in DOMAIN m.occs
        PROVE  /\ os[o] \in Occurrence /\ os[o].version = m.occs[o].version /\ os[o].missed = m.occs[o].missed
               /\ os[o].state \in {"due", "held"} => m.occs[o].state \in {"due", "held"}
    <3>1. m.occs[o] \in Occurrence
      BY <1>1, MandateColumns
    <3> QED
      BY <3>1 DEF Occurrence
  <2>2. os \in [DOMAIN m.occs -> Occurrence] /\ m.occs \in Seq(Occurrence)
    BY <1>1, <2>1, MandateColumns
  <2> HIDE DEF os
  <2>3. OccsFollow(m.occs, os)
    BY ONLY <2>1, <2>2, OccsMap
  <2> QED
    BY <1>3, <2>3
<1>6. TurnFollows(m.turn, n.turn) /\ (n.turn.st # "none" \/ n.turn.run => m.turn.st # "none" \/ m.turn.run)
  <2>1. m.turn \in MandateTurn
    BY <1>1, MandateColumns
  <2> QED
    BY <1>3, <2>1, Unmoved, DequeuedFollows, DequeuedTurn
<1>7. RestFollows(m, n)
  <2>1. Len(n.cycles) = Len(m.cycles)
    BY <1>4 DEF CyclesFollow
  <2> QED
    BY <1>1, <1>3, <1>6, <2>1, MandateColumns DEF RestFollows, TurnPlaced
<1>8. WorksFollow(m.works, n.works)
  BY <1>3, Unmoved
<1> QED
  BY <1>4, <1>5, <1>6, <1>7, <1>8 DEF MandateFollows, n

LEMMA StopFollows ==
  ASSUME NEW m, MandateKept(m)
  PROVE  MandateFollows(m, StopMandate(m))
<1> DEFINE n == StopMandate(m)
           stopped(w) == IF w.kind = "group" THEN w.st = "running" ELSE w.st \in {"queued", "blocked"}
           sc == IF m.sched.status \in {"active", "paused"} THEN [m.sched EXCEPT !.status = "cancelled", !.due = 0] ELSE m.sched
           os == [o \in DOMAIN m.occs |-> IF o \in DueOrHeld(m) THEN [m.occs[o] EXCEPT !.state = "cancelled"] ELSE m.occs[o]]
           cs == [c \in DOMAIN m.cycles |-> IF IsOpen(m, c) THEN [m.cycles[c] EXCEPT !.state = "cancelled"] ELSE m.cycles[c]]
           ws == [k \in DOMAIN m.works |-> IF stopped(m.works[k])
                    THEN [m.works[k] EXCEPT !.st = IF m.works[k].kind = "group" THEN "blocked" ELSE "done"] ELSE m.works[k]]
<1>1. m \in Mandate /\ TurnPlaced(m)
  BY DEF MandateKept
<1>2. n = [m EXCEPT !.status = "stopped", !.sched = sc, !.occs = os, !.cycles = cs, !.turn = Dequeued(m.turn), !.works = ws]
  BY DEF StopMandate
<1> HIDE DEF n
<1>3. /\ n.status = "stopped" /\ n.unres = m.unres /\ n.sched = sc /\ n.turn = Dequeued(m.turn)
      /\ n.cycles = cs /\ n.works = ws /\ n.occs = os
      /\ n = [status |-> n.status, unres |-> n.unres, cycles |-> n.cycles, turn |-> n.turn, works |-> n.works,
              sched |-> n.sched, occs |-> n.occs]
  <2> HIDE DEF cs, os, ws, sc
  <2> QED
    BY <1>1, <1>2 DEF Mandate
<1>4. CyclesFollow(m.cycles, n.cycles)
  <2>1. ASSUME NEW c \in DOMAIN m.cycles
        PROVE  cs[c] \in Cycle /\ cs[c].decided = m.cycles[c].decided /\ (cs[c].state = "closed" => m.cycles[c].state = "closed")
    <3>1. m.cycles[c] \in Cycle
      BY <1>1, MandateColumns
    <3> QED
      BY <3>1 DEF Cycle
  <2>2. cs \in [DOMAIN m.cycles -> Cycle] /\ m.cycles \in Seq(Cycle)
    BY <1>1, <2>1, MandateColumns
  <2> HIDE DEF cs
  <2> QED
    BY <1>3, <2>1, <2>2, FunctionAsSequence DEF CyclesFollow
<1>5. OccsFollow(m.occs, n.occs)
  <2>1. ASSUME NEW o \in DOMAIN m.occs
        PROVE  /\ os[o] \in Occurrence /\ os[o].version = m.occs[o].version /\ os[o].missed = m.occs[o].missed
               /\ os[o].state \in {"due", "held"} => m.occs[o].state \in {"due", "held"}
    <3>1. m.occs[o] \in Occurrence
      BY <1>1, MandateColumns
    <3> QED
      BY <3>1 DEF Occurrence
  <2>2. os \in [DOMAIN m.occs -> Occurrence] /\ m.occs \in Seq(Occurrence)
    BY <1>1, <2>1, MandateColumns
  <2> HIDE DEF os
  <2>3. OccsFollow(m.occs, os)
    BY ONLY <2>1, <2>2, OccsMap
  <2> QED
    BY <1>3, <2>3
<1>6. TurnFollows(m.turn, n.turn) /\ (n.turn.st # "none" \/ n.turn.run => m.turn.st # "none" \/ m.turn.run)
  <2>1. m.turn \in MandateTurn
    BY <1>1, MandateColumns
  <2> QED
    BY <1>3, <2>1, DequeuedFollows, DequeuedTurn
<1>7. RestFollows(m, n)
  <2>1. Len(n.cycles) = Len(m.cycles)
    BY <1>4 DEF CyclesFollow
  <2>2. sc \in ReviewSchedule /\ sc.consumed = m.sched.consumed
    <3>1. m.sched \in ReviewSchedule
      BY <1>1, MandateColumns
    <3> QED
      BY <3>1 DEF ReviewSchedule
  <2> HIDE DEF sc
  <2> QED
    BY <1>1, <1>3, <1>6, <2>1, <2>2, MandateColumns DEF RestFollows, TurnPlaced
<1>8. WorksFollow(m.works, n.works)
  <2>1. ASSUME NEW k \in DOMAIN m.works
        PROVE  /\ ws[k] \in InternalWork /\ ws[k].c = m.works[k].c /\ ws[k].kind = m.works[k].kind
               /\ m.works[k].delivered => ws[k].delivered
               /\ m.works[k].kind = "task" /\ m.works[k].st = "done" => ws[k].st = "done"
    <3>1. m.works[k] \in InternalWork
      BY <1>1, MandateColumns
    <3> QED
      BY <3>1 DEF InternalWork
  <2>2. ws \in [DOMAIN m.works -> InternalWork] /\ m.works \in Seq(InternalWork)
    BY <1>1, <2>1, MandateColumns
  <2> HIDE DEF ws
  <2>3. WorksFollow(m.works, ws)
    BY ONLY <2>1, <2>2, WorksMap
  <2> QED
    BY <1>3, <2>3
<1> QED
  BY <1>4, <1>5, <1>6, <1>7, <1>8 DEF MandateFollows, n

\* One row changed.
LEMMA TurnKept ==
  ASSUME NEW m, MandateKept(m), NEW t, TurnFollows(m.turn, t), t.st # "none" \/ t.run => Len(m.cycles) > 0,
         NEW n, n = [m EXCEPT !.turn = t]
  PROVE  MandateKept(n)
<1>1. m \in Mandate
  BY DEF MandateKept
<1>2. /\ n.status = m.status /\ n.unres = m.unres /\ n.sched = m.sched /\ n.turn = t
      /\ n.cycles = m.cycles /\ n.works = m.works /\ n.occs = m.occs
      /\ n = [status |-> n.status, unres |-> n.unres, cycles |-> n.cycles, turn |-> n.turn, works |-> n.works,
              sched |-> n.sched, occs |-> n.occs]
  BY <1>1 DEF Mandate
<1>3. RestFollows(m, n)
  BY <1>1, <1>2, MandateColumns DEF RestFollows
<1>4. MandateFollows(m, n)
  BY <1>2, <1>3, Unmoved DEF MandateFollows
<1> QED
  BY <1>4, FollowsKept

LEMMA CycleKept ==
  ASSUME NEW m, MandateKept(m), NEW c \in 1..Len(m.cycles), NEW r \in Cycle,
         m.cycles[c].decided => r.decided, r.state = "closed" => m.cycles[c].state = "closed",
         NEW n, n = [m EXCEPT !.cycles = [m.cycles EXCEPT ![c] = r]]
  PROVE  MandateKept(n)
<1>1. m \in Mandate /\ TurnPlaced(m)
  BY DEF MandateKept
<1> DEFINE cs == [m.cycles EXCEPT ![c] = r]
<1>2. /\ n.status = m.status /\ n.unres = m.unres /\ n.sched = m.sched /\ n.turn = m.turn
      /\ n.cycles = cs /\ n.works = m.works /\ n.occs = m.occs
      /\ n = [status |-> n.status, unres |-> n.unres, cycles |-> n.cycles, turn |-> n.turn, works |-> n.works,
              sched |-> n.sched, occs |-> n.occs]
  <2>1. n = [m EXCEPT !.cycles = cs]
    OBVIOUS
  <2> HIDE DEF cs
  <2> QED
    BY <1>1, <2>1 DEF Mandate
<1>3. CyclesFollow(m.cycles, n.cycles)
  <2>1. m.cycles \in Seq(Cycle)
    BY <1>1, MandateColumns
  <2>2. CyclesFollow(m.cycles, cs)
    BY <2>1, CycleFollows
  <2> QED
    BY <1>2, <2>2
<1>4. RestFollows(m, n)
  <2>1. Len(n.cycles) = Len(m.cycles)
    BY <1>3 DEF CyclesFollow
  <2> HIDE DEF cs
  <2> QED
    BY <1>1, <1>2, <2>1, MandateColumns DEF RestFollows, TurnPlaced
<1>5. MandateFollows(m, n)
  BY <1>2, <1>3, <1>4, Unmoved DEF MandateFollows
<1> QED
  BY <1>5, FollowsKept

LEMMA WorksKept ==
  ASSUME NEW m, MandateKept(m), NEW ws, WorksFollow(m.works, ws), NEW n, n = [m EXCEPT !.works = ws]
  PROVE  MandateKept(n)
<1>1. m \in Mandate /\ TurnPlaced(m)
  BY DEF MandateKept
<1>2. /\ n.status = m.status /\ n.unres = m.unres /\ n.sched = m.sched /\ n.turn = m.turn
      /\ n.cycles = m.cycles /\ n.works = ws /\ n.occs = m.occs
      /\ n = [status |-> n.status, unres |-> n.unres, cycles |-> n.cycles, turn |-> n.turn, works |-> n.works,
              sched |-> n.sched, occs |-> n.occs]
  BY <1>1 DEF Mandate
<1>3. RestFollows(m, n)
  BY <1>1, <1>2, MandateColumns DEF RestFollows, TurnPlaced
<1>4. MandateFollows(m, n)
  BY <1>2, <1>3, Unmoved DEF MandateFollows
<1> QED
  BY <1>4, FollowsKept

LEMMA ScheduleKept ==
  ASSUME NEW m, MandateKept(m), NEW s \in ReviewSchedule, s.consumed = m.sched.consumed, NEW n, n = [m EXCEPT !.sched = s]
  PROVE  MandateKept(n)
<1>1. m \in Mandate /\ TurnPlaced(m)
  BY DEF MandateKept
<1>2. /\ n.status = m.status /\ n.unres = m.unres /\ n.sched = s /\ n.turn = m.turn
      /\ n.cycles = m.cycles /\ n.works = m.works /\ n.occs = m.occs
      /\ n = [status |-> n.status, unres |-> n.unres, cycles |-> n.cycles, turn |-> n.turn, works |-> n.works,
              sched |-> n.sched, occs |-> n.occs]
  BY <1>1 DEF Mandate
<1>3. RestFollows(m, n)
  BY <1>1, <1>2, MandateColumns DEF RestFollows, TurnPlaced
<1>4. MandateFollows(m, n)
  BY <1>2, <1>3, Unmoved DEF MandateFollows
<1> QED
  BY <1>4, FollowsKept

LEMMA StatusKept ==
  ASSUME NEW m, MandateKept(m), NEW s \in {"draft", "active", "paused", "stopped"}, NEW n, n = [m EXCEPT !.status = s]
  PROVE  MandateKept(n)
<1>1. m \in Mandate /\ TurnPlaced(m)
  BY DEF MandateKept
<1>2. /\ n.status = s /\ n.unres = m.unres /\ n.sched = m.sched /\ n.turn = m.turn
      /\ n.cycles = m.cycles /\ n.works = m.works /\ n.occs = m.occs
      /\ n = [status |-> n.status, unres |-> n.unres, cycles |-> n.cycles, turn |-> n.turn, works |-> n.works,
              sched |-> n.sched, occs |-> n.occs]
  BY <1>1 DEF Mandate
<1>3. RestFollows(m, n)
  BY <1>1, <1>2, MandateColumns DEF RestFollows, TurnPlaced
<1>4. MandateFollows(m, n)
  BY <1>2, <1>3, Unmoved DEF MandateFollows
<1> QED
  BY <1>4, FollowsKept

LEMMA OccsKept ==
  ASSUME NEW m, MandateKept(m), NEW os, OccsFollow(m.occs, os), NEW n, n = [m EXCEPT !.occs = os]
  PROVE  MandateKept(n)
<1>1. m \in Mandate /\ TurnPlaced(m)
  BY DEF MandateKept
<1>2. /\ n.status = m.status /\ n.unres = m.unres /\ n.sched = m.sched /\ n.turn = m.turn
      /\ n.cycles = m.cycles /\ n.works = m.works /\ n.occs = os
      /\ n = [status |-> n.status, unres |-> n.unres, cycles |-> n.cycles, turn |-> n.turn, works |-> n.works,
              sched |-> n.sched, occs |-> n.occs]
  BY <1>1 DEF Mandate
<1>3. RestFollows(m, n)
  BY <1>1, <1>2, MandateColumns DEF RestFollows, TurnPlaced
<1>4. MandateFollows(m, n)
  BY <1>2, <1>3, Unmoved DEF MandateFollows
<1> QED
  BY <1>4, FollowsKept

\* A cycle is closed that its review had decided on and whose work was shown.
LEMMA CloseKept ==
  ASSUME NEW m, MandateKept(m), NEW c \in 1..Len(m.cycles), m.cycles[c].decided, Shown(m, c),
         NEW r, r = [m.cycles[c] EXCEPT !.state = "closed"],
         NEW n, n = [m EXCEPT !.cycles = [m.cycles EXCEPT ![c] = r]]
  PROVE  MandateKept(n)
<1>1. m \in Mandate
  BY DEF MandateKept
<1> DEFINE cs == [m.cycles EXCEPT ![c] = r]
<1>2. /\ n.status = m.status /\ n.unres = m.unres /\ n.sched = m.sched /\ n.turn = m.turn
      /\ n.cycles = cs /\ n.works = m.works /\ n.occs = m.occs
      /\ n = [status |-> n.status, unres |-> n.unres, cycles |-> n.cycles, turn |-> n.turn, works |-> n.works,
              sched |-> n.sched, occs |-> n.occs]
  <2>1. n = [m EXCEPT !.cycles = cs]
    OBVIOUS
  <2> HIDE DEF cs
  <2> QED
    BY <1>1, <2>1 DEF Mandate
<1>3. r \in Cycle /\ r.decided
  <2>1. m.cycles[c] \in Cycle
    BY <1>1, MandateColumns
  <2> QED
    BY <2>1 DEF Cycle
<1>4. /\ n.cycles \in Seq(Cycle) /\ Len(n.cycles) = Len(m.cycles) /\ DOMAIN n.cycles = DOMAIN m.cycles /\ n.cycles[c] = r
      /\ \A d \in DOMAIN m.cycles : d # c => n.cycles[d] = m.cycles[d]
  <2>1. m.cycles \in Seq(Cycle)
    BY <1>1, MandateColumns
  <2> QED
    BY <2>1, <1>2, <1>3, CycleSet
<1> HIDE DEF cs
<1>5. n \in Mandate
  <2>1. [status |-> n.status, unres |-> n.unres, cycles |-> n.cycles, turn |-> n.turn, works |-> n.works,
              sched |-> n.sched, occs |-> n.occs] \in Mandate
    BY <1>1, <1>2, <1>4, MandateColumns DEF Mandate
  <2> QED
    BY <1>2, <2>1
<1>6. \A d : Shown(m, d) => Shown(n, d)
  BY <1>2 DEF Shown
<1>7. OneHeld(n) /\ WorksPlaced(n) /\ TurnPlaced(n) /\ SucceedsCommitted(n) /\ Counted(n)
  BY <1>2, <1>4 DEF MandateKept, OneHeld, DueOrHeld, WorksPlaced, TurnPlaced, SucceedsCommitted, Counted
<1>8. \A d \in DOMAIN m.cycles : (m.cycles[d].decided => n.cycles[d].decided)
  BY <1>3, <1>4
<1>9. EndsWell(n)
  <2>1. SUFFICES ASSUME n.turn.out \in {"close", "stop"}
                 PROVE  Len(n.cycles) > 0 /\ n.cycles[Len(n.cycles)].decided /\ Shown(n, Len(n.cycles))
    BY DEF EndsWell
  <2>2. Len(m.cycles) > 0 /\ m.cycles[Len(m.cycles)].decided /\ Shown(m, Len(m.cycles))
    BY <2>1, <1>2 DEF MandateKept, EndsWell
  <2>3. Len(m.cycles) \in DOMAIN m.cycles
    BY <2>2, <1>1, MandateColumns
  <2> QED
    BY <2>2, <2>3, <1>4, <1>6, <1>8
<1>10. ClosedWell(n)
  <2>1. ASSUME NEW d \in DOMAIN n.cycles, n.cycles[d].state = "closed" PROVE n.cycles[d].decided /\ Shown(n, d)
    <3>1. CASE d = c
      BY <3>1, <1>3, <1>4, <1>6
    <3>2. CASE d # c
      BY <3>2, <2>1, <1>4, <1>6, <1>8 DEF MandateKept, ClosedWell
    <3> QED
      BY <3>1, <3>2
  <2> QED
    BY <2>1 DEF ClosedWell
<1> QED
  BY <1>5, <1>7, <1>9, <1>10 DEF MandateKept

LEMMA OpenKept ==
  ASSUME NEW m, MandateKept(m), NEW o \in Nat, clock \in Nat
  PROVE  MandateKept(OpenCycle(m, o))
<1> DEFINE n == OpenCycle(m, o)
           r == [state |-> "active", occ |-> o, started |-> FALSE, fails |-> 0, retry |-> 0, reserved |-> 1,
                 deadline |-> clock + CycleTime, decided |-> FALSE, action |-> "none"]
           cs == Append(m.cycles, r)
<1>1. m \in Mandate
  BY DEF MandateKept
<1>2. n = [m EXCEPT !.cycles = cs, !.turn = QueuedTurn]
  BY DEF OpenCycle
<1>3. r \in Cycle /\ r.state # "closed"
  BY MandatesConstants DEF Cycle
<1> HIDE DEF n, r
<1>4. /\ n.status = m.status /\ n.unres = m.unres /\ n.sched = m.sched /\ n.turn = QueuedTurn
      /\ n.cycles = cs /\ n.works = m.works /\ n.occs = m.occs
      /\ n = [status |-> n.status, unres |-> n.unres, cycles |-> n.cycles, turn |-> n.turn, works |-> n.works,
              sched |-> n.sched, occs |-> n.occs]
  <2> HIDE DEF cs
  <2> QED
    BY <1>1, <1>2 DEF Mandate
<1>5. /\ n.cycles \in Seq(Cycle) /\ Len(n.cycles) = Len(m.cycles) + 1 /\ n.cycles[Len(m.cycles) + 1] = r
      /\ \A d \in 1..Len(m.cycles) : n.cycles[d] = m.cycles[d]
      /\ DOMAIN n.cycles = 1..(Len(m.cycles) + 1) /\ Len(m.cycles) \in Nat /\ DOMAIN m.cycles = 1..Len(m.cycles)
  <2>1. m.cycles \in Seq(Cycle) /\ Len(m.cycles) \in Nat /\ DOMAIN m.cycles = 1..Len(m.cycles)
    BY <1>1, MandateColumns
  <2>2. /\ cs \in Seq(Cycle) /\ Len(cs) = Len(m.cycles) + 1 /\ cs[Len(m.cycles) + 1] = r
        /\ \A d \in 1..Len(m.cycles) : cs[d] = m.cycles[d]
    BY <2>1, <1>3, AppendProperties
  <2>3. DOMAIN cs = 1..(Len(m.cycles) + 1)
    BY <2>2, SequenceAsFunction
  <2> QED
    BY <1>4, <2>1, <2>2, <2>3
<1> HIDE DEF cs
<1>6. QueuedTurn \in MandateTurn /\ QueuedTurn.out = "none" /\ ~QueuedTurn.ok
  BY DEF QueuedTurn, NoTurn, MandateTurn
<1>7. n \in Mandate
  <2>1. [status |-> n.status, unres |-> n.unres, cycles |-> n.cycles, turn |-> n.turn, works |-> n.works,
              sched |-> n.sched, occs |-> n.occs] \in Mandate
    BY <1>1, <1>4, <1>5, <1>6, MandateColumns DEF Mandate
  <2> QED
    BY <1>4, <2>1
<1>8. \A d : Shown(m, d) => Shown(n, d)
  BY <1>4 DEF Shown
<1>9. OneHeld(n) /\ Counted(n)
  BY <1>4 DEF MandateKept, OneHeld, DueOrHeld, Counted
<1>10. WorksPlaced(n)
  BY <1>4, <1>5 DEF MandateKept, WorksPlaced
<1>11. TurnPlaced(n) /\ SucceedsCommitted(n) /\ EndsWell(n)
  BY <1>4, <1>5, <1>6 DEF TurnPlaced, SucceedsCommitted, EndsWell
<1>12. ClosedWell(n)
  BY <1>3, <1>5, <1>8 DEF MandateKept, ClosedWell
<1> QED
  BY <1>7, <1>9, <1>10, <1>11, <1>12 DEF MandateKept, n

LEMMA RetryKept ==
  ASSUME NEW m, MandateKept(m), Len(m.cycles) > 0, clock \in Nat
  PROVE  MandateKept(RetryReview(m))
<1> DEFINE c == Len(m.cycles)
           read == [m EXCEPT !.turn.adv = TRUE]
           t == [m.turn EXCEPT !.adv = TRUE]
<1>1. m \in Mandate /\ SucceedsCommitted(m)
  BY DEF MandateKept
<1>2. m.turn \in MandateTurn /\ c \in 1..Len(m.cycles) /\ m.cycles[c] \in Cycle
  BY <1>1, MandateColumns
<1>3. read = [m EXCEPT !.turn = t]
  BY <1>1 DEF Mandate
<1>4. TurnFollows(m.turn, t)
  BY <1>1, <1>2 DEF MandateTurn, TurnFollows, SucceedsCommitted
<1>5. MandateKept(read)
  BY <1>3, <1>4, TurnKept
<1>6. read.cycles = m.cycles
  BY <1>1 DEF Mandate
<1>7. CASE m.cycles[c].fails = Failures
  <2>1. RetryReview(m) = BlockCycle(read)
    BY <1>7 DEF RetryReview, Newest
  <2> HIDE DEF read
  <2> QED
    BY <2>1, <1>5, <1>6, BlockFollows, FollowsKept
<1>8. CASE m.cycles[c].fails # Failures
  <2> DEFINE r == [m.cycles[c] EXCEPT !.state = "waiting", !.fails = m.cycles[c].fails + 1, !.retry = clock + 1 + m.cycles[c].fails]
             n == RetryReview(m)
  <2>1. m.cycles[c].fails + 1 \in 0..Failures /\ clock + 1 + m.cycles[c].fails \in Nat
    BY <1>2, <1>8, MandatesConstants DEF Cycle
  <2>2. r \in Cycle /\ r.decided = m.cycles[c].decided /\ r.state # "closed"
    BY <2>1, <1>2 DEF Cycle
  <2>3. n = [read EXCEPT !.cycles = [read.cycles EXCEPT ![c] = r]]
    BY <1>6, <1>8 DEF RetryReview, Newest
  <2> HIDE DEF r, n, read
  <2>4. MandateKept(n)
    BY <1>2, <1>5, <1>6, <2>2, <2>3, CycleKept
  <2> QED
    BY <2>4 DEF n
<1> QED
  BY <1>7, <1>8

LEMMA WaitingKept ==
  ASSUME NEW m, MandateKept(m), NEW c, c = Len(m.cycles), c > 0, NEW n, n = [m EXCEPT !.cycles[c].state = "waiting"]
  PROVE  MandateKept(n)
<1> DEFINE r == [m.cycles[c] EXCEPT !.state = "waiting"]
<1>1. m \in Mandate
  BY DEF MandateKept
<1>2. c \in 1..Len(m.cycles) /\ m.cycles[c] \in Cycle
  BY <1>1, MandateColumns
<1>3. r \in Cycle /\ r.decided = m.cycles[c].decided /\ r.state # "closed"
  BY <1>2 DEF Cycle
<1>4. n = [m EXCEPT !.cycles = [m.cycles EXCEPT ![c] = r]]
  BY <1>1 DEF Mandate
<1> HIDE DEF r
<1> QED
  BY <1>2, <1>3, <1>4, CycleKept

LEMMA AdvanceKept ==
  ASSUME NEW m, MandateKept(m), Len(m.cycles) > 0, m.turn.ok
  PROVE  MandateKept(AdvanceReview(m))
<1> DEFINE c == Len(m.cycles)
           read == [m EXCEPT !.turn.adv = TRUE]
           t == [m.turn EXCEPT !.adv = TRUE]
           ws == [k \in DOMAIN read.works |-> IF read.works[k].c = c THEN [read.works[k] EXCEPT !.delivered = TRUE] ELSE read.works[k]]
           os == [o \in DOMAIN read.occs |-> IF o = m.cycles[c].occ THEN [read.occs[o] EXCEPT !.state = "completed"] ELSE read.occs[o]]
           r == [m.cycles[c] EXCEPT !.state = "closed"]
           shown == [read EXCEPT !.works = ws]
           answered == [read EXCEPT !.occs = os]
           closed == [answered EXCEPT !.cycles = [answered.cycles EXCEPT ![c] = r]]
           waiting == [m EXCEPT !.cycles[c].state = "waiting"]
           n == AdvanceReview(m)
<1>1. m \in Mandate /\ SucceedsCommitted(m) /\ EndsWell(m)
  BY DEF MandateKept
<1>2. m.turn \in MandateTurn /\ c \in 1..Len(m.cycles) /\ m.cycles[c] \in Cycle
  BY <1>1, MandateColumns
<1>3. read = [m EXCEPT !.turn = t]
  BY <1>1 DEF Mandate
<1>4. TurnFollows(m.turn, t)
  BY <1>1, <1>2 DEF MandateTurn, TurnFollows, SucceedsCommitted
<1>5. MandateKept(read)
  BY <1>3, <1>4, TurnKept
<1>6. read.cycles = m.cycles /\ read.works = m.works /\ read.occs = m.occs
  BY <1>1 DEF Mandate
<1>7. MandateKept(EnqueueReview(read))
  <2> HIDE DEF read
  <2> QED
    BY <1>5, <1>6, EnqueueKept
<1>8. MandateKept(waiting)
  BY WaitingKept
<1>9. MandateKept(shown)
  <2> HIDE DEF read
  <2>1. ASSUME NEW k \in DOMAIN read.works
        PROVE  /\ ws[k] \in InternalWork /\ ws[k].c = read.works[k].c /\ ws[k].kind = read.works[k].kind
               /\ read.works[k].delivered => ws[k].delivered
               /\ read.works[k].kind = "task" /\ read.works[k].st = "done" => ws[k].st = "done"
    <3>1. read.works[k] \in InternalWork
      BY <1>5, MandateColumns DEF MandateKept
    <3> QED
      BY <3>1 DEF InternalWork
  <2>2. ws \in [DOMAIN read.works -> InternalWork] /\ read.works \in Seq(InternalWork)
    BY <1>5, <2>1, MandateColumns DEF MandateKept
  <2> HIDE DEF ws
  <2>3. WorksFollow(read.works, ws)
    BY ONLY <2>1, <2>2, WorksMap
  <2> QED
    BY <1>5, <2>3, WorksKept
<1>10. MandateKept(answered)
  <2> HIDE DEF read
  <2>1. ASSUME NEW o \in DOMAIN read.occs
        PROVE  /\ os[o] \in Occurrence /\ os[o].version = read.occs[o].version /\ os[o].missed = read.occs[o].missed
               /\ os[o].state \in {"due", "held"} => read.occs[o].state \in {"due", "held"}
    <3>1. read.occs[o] \in Occurrence
      BY <1>5, MandateColumns DEF MandateKept
    <3> QED
      BY <3>1 DEF Occurrence
  <2>2. os \in [DOMAIN read.occs -> Occurrence] /\ read.occs \in Seq(Occurrence)
    BY <1>5, <2>1, MandateColumns DEF MandateKept
  <2> HIDE DEF os
  <2>3. OccsFollow(read.occs, os)
    BY ONLY <2>1, <2>2, OccsMap
  <2> QED
    BY <1>5, <2>3, OccsKept
<1>11. answered.cycles = m.cycles /\ answered.works = m.works
  <2> HIDE DEF os
  <2> QED
    BY <1>1 DEF Mandate
<1>12. MandateKept(shown) /\ shown.cycles = m.cycles
  <2> HIDE DEF ws
  <2> QED
    BY <1>1, <1>9 DEF Mandate
<1>13. MandateKept(EnqueueReview(shown))
  <2> HIDE DEF shown
  <2> QED
    BY <1>12, EnqueueKept
<1>14. m.turn.out \in {"wait", "action_wait", "close", "stop"}
  BY <1>1, <1>2 DEF MandateTurn, SucceedsCommitted
<1>15. ASSUME m.turn.out \in {"close", "stop"} PROVE MandateKept(closed)
  <2>1. m.cycles[c].decided /\ Shown(m, c)
    BY <1>1, <1>15 DEF EndsWell
  <2> HIDE DEF answered, r
  <2>2. answered.cycles[c].decided /\ Shown(answered, c)
    BY <2>1, <1>11 DEF Shown
  <2>3. r = [answered.cycles[c] EXCEPT !.state = "closed"]
    BY <1>11 DEF r
  <2> QED
    BY <1>2, <1>10, <1>11, <2>2, <2>3, CloseKept
<1>16. closed = [read EXCEPT !.cycles[c].state = "closed",
                             !.occs = [o \in DOMAIN @ |-> IF o = m.cycles[c].occ THEN [@[o] EXCEPT !.state = "completed"] ELSE @[o]]]
  <2> DEFINE x == [read EXCEPT !.cycles[c].state = "closed", !.occs = os]
             cs == [m.cycles EXCEPT ![c] = r]
  <2>1. x = [read EXCEPT !.cycles = cs, !.occs = os]
    <3> HIDE DEF os
    <3> QED
      BY <1>1 DEF Mandate
  <2>2. closed = [answered EXCEPT !.cycles = cs]
    BY <1>11
  <2>3. closed = [read EXCEPT !.cycles = cs, !.occs = os]
    <3> HIDE DEF os, cs
    <3> QED
      BY <1>1, <2>2 DEF Mandate
  <2> QED
    BY <2>1, <2>3
<1>17. CASE m.turn.out = "action_wait"
  <2>1. n = IF m.cycles[c].action = "pending" THEN waiting ELSE EnqueueReview(read)
    BY <1>17 DEF AdvanceReview, Newest
  <2> HIDE DEF n, waiting, read
  <2>2. MandateKept(n)
    BY <2>1, <1>7, <1>8
  <2> QED
    BY <2>2 DEF n
<1>18. CASE m.turn.out = "wait"
  <2>1. n = IF Unsettled(m) # {} THEN waiting ELSE EnqueueReview(shown)
    BY <1>18 DEF AdvanceReview, Newest
  <2> HIDE DEF n, waiting, shown
  <2>2. MandateKept(n)
    BY <2>1, <1>8, <1>13
  <2> QED
    BY <2>2 DEF n
<1>19. CASE m.turn.out = "stop"
  <2>1. n = StopMandate(closed)
    BY <1>16, <1>19, Zenon DEF AdvanceReview, Newest
  <2> HIDE DEF n, closed
  <2>2. MandateKept(n)
    BY <2>1, <1>15, <1>19, StopFollows, FollowsKept
  <2> QED
    BY <2>2 DEF n
<1>20. CASE m.turn.out = "close"
  <2>1. n = closed
    BY <1>16, <1>20, Zenon DEF AdvanceReview, Newest
  <2> HIDE DEF n, closed
  <2>2. MandateKept(n)
    BY <2>1, <1>15, <1>20
  <2> QED
    BY <2>2 DEF n
<1> QED
  BY <1>14, <1>17, <1>18, <1>19, <1>20

LEMMA ProgressCycleKept ==
  ASSUME NEW m, MandateKept(m), clock \in Nat
  PROVE  MandateKept(ProgressCycle(m))
<1>1. CASE Newest(m) = 0
  <2>1. ProgressCycle(m) = m
    BY <1>1 DEF ProgressCycle
  <2> QED
    BY <2>1
<1>2. CASE Newest(m) # 0
  <2>1. Len(m.cycles) > 0
    BY <1>2, MandateColumns DEF MandateKept, Newest
  <2>2. /\ MandateKept(BlockCycle(m)) /\ MandateKept(EnqueueReview(m)) /\ MandateKept(RetryReview(m))
        /\ MandateKept(InvalidateQueued(m, "cancelled")) /\ (m.turn.ok => MandateKept(AdvanceReview(m)))
    BY <2>1, BlockFollows, EnqueueKept, RetryKept, InvalidateFollows, AdvanceKept, FollowsKept
  <2>3. ProgressCycle(m) \in {m, BlockCycle(m), EnqueueReview(m), RetryReview(m), InvalidateQueued(m, "cancelled")}
        \/ (m.turn.ok /\ ProgressCycle(m) = AdvanceReview(m))
    BY Zenon DEF ProgressCycle
  <2> QED
    BY <2>2, <2>3
<1> QED
  BY <1>1, <1>2

LEMMA SetsAdded ==
  ASSUME NEW S, IsFiniteSet(S), NEW k \in Nat, Cardinality(S) = k, NEW T, IsFiniteSet(T), NEW n \in Nat, Cardinality(T) = n,
         S \cap T = {}, NEW U, U = S \cup T
  PROVE  IsFiniteSet(U) /\ Cardinality(U) = k + n
<1>1. /\ IsFiniteSet(S \cup T)
      /\ Cardinality(S \cup T) = Cardinality(S) + Cardinality(T) - Cardinality(S \cap T)
  BY FS_Union
<1>2. Cardinality(S \cap T) = 0
  BY FS_EmptySet
<1> QED
  BY <1>1, <1>2

\* n instants of one occurrence, from a.
Span(o, a, n) == {o} \X (a..(a + n - 1))
LEMMA SpanCount ==
  ASSUME NEW o, NEW a \in Int, NEW n \in Nat, n > 0
  PROVE  IsFiniteSet(Span(o, a, n)) /\ Cardinality(Span(o, a, n)) = n
<1> DEFINE b == a + n - 1
           I == a..b
           O == {o}
<1>1. a <= b /\ b \in Int
  OBVIOUS
<1>2. IsFiniteSet(I) /\ Cardinality(I) = n
  <2>1. IsFiniteSet(a..b) /\ Cardinality(a..b) = b - a + 1
    BY <1>1, FS_Interval
  <2> QED
    BY <2>1
<1>3. IsFiniteSet(O) /\ Cardinality(O) = 1
  BY FS_Singleton
<1>4. Span(o, a, n) = O \X I
  BY DEF Span
<1> HIDE DEF b, I, O
<1>5. IsFiniteSet(O \X I) /\ Cardinality(O \X I) = Cardinality(O) * Cardinality(I)
  BY <1>2, <1>3, FS_Product, Zenon
<1>6. Cardinality(O \X I) = n
  BY <1>2, <1>3, <1>5
<1> QED
  BY <1>4, <1>5, <1>6

LEMMA InstantsAppended ==
  ASSUME NEW os \in Seq(Occurrence), NEW x \in Occurrence
  PROVE  /\ Instants(Append(os, x)) = Instants(os) \cup ({Len(os) + 1} \X (0..x.missed))
         /\ Instants(os) \cap ({Len(os) + 1} \X (0..x.missed)) = {}
<1>1. Len(os) \in Nat /\ DOMAIN os = 1..Len(os)
  BY SequenceAsFunction
<1> DEFINE a == Append(os, x)
<1>2. a \in Seq(Occurrence) /\ Len(a) = Len(os) + 1 /\ a[Len(os) + 1] = x /\ \A o \in 1..Len(os) : a[o] = os[o]
  BY AppendProperties
<1>3. DOMAIN a = 1..(Len(os) + 1)
  BY <1>2, SequenceAsFunction
<1> HIDE DEF a
<1>4. DOMAIN a = DOMAIN os \cup {Len(os) + 1}
  BY <1>1, <1>3
<1>5. \A o \in DOMAIN os : {o} \X (0..a[o].missed) = {o} \X (0..os[o].missed)
  BY <1>1, <1>2
<1>6. {Len(os) + 1} \X (0..a[Len(os) + 1].missed) = {Len(os) + 1} \X (0..x.missed)
  BY <1>2
<1>7. Instants(a) = Instants(os) \cup ({Len(os) + 1} \X (0..x.missed))
  <2>1. ASSUME NEW p \in Instants(a) PROVE p \in Instants(os) \cup ({Len(os) + 1} \X (0..x.missed))
    <3>1. PICK o \in DOMAIN a : p \in {o} \X (0..a[o].missed)
      BY DEF Instants
    <3>2. CASE o \in DOMAIN os
      BY <3>1, <3>2, <1>5 DEF Instants
    <3>3. CASE o = Len(os) + 1
      BY <3>1, <3>3, <1>6
    <3> QED
      BY <3>2, <3>3, <1>4
  <2>2. ASSUME NEW p \in Instants(os) PROVE p \in Instants(a)
    <3>1. PICK o \in DOMAIN os : p \in {o} \X (0..os[o].missed)
      BY DEF Instants
    <3>2. o \in DOMAIN a /\ p \in {o} \X (0..a[o].missed)
      BY <3>1, <1>4, <1>5
    <3> QED
      BY <3>2 DEF Instants
  <2>3. ASSUME NEW p \in {Len(os) + 1} \X (0..x.missed) PROVE p \in Instants(a)
    <3>1. Len(os) + 1 \in DOMAIN a
      BY <1>4
    <3> QED
      BY <3>1, <2>3, <1>6 DEF Instants
  <2> QED
    BY <2>1, <2>2, <2>3
<1>8. \A p \in Instants(os) : p[1] \in DOMAIN os
  BY DEF Instants
<1>9. \A p \in {Len(os) + 1} \X (0..x.missed) : p[1] = Len(os) + 1
  OBVIOUS
<1>10. Instants(os) \cap ({Len(os) + 1} \X (0..x.missed)) = {}
  BY <1>1, <1>8, <1>9
<1> QED
  BY <1>7, <1>10 DEF a

LEMMA InstantsGrown ==
  ASSUME NEW a \in Seq(Occurrence), NEW h \in DOMAIN a, NEW n \in Nat, n > 0,
         NEW b, DOMAIN b = DOMAIN a, b[h].missed = a[h].missed + n, \A o \in DOMAIN a : o # h => b[o].missed = a[o].missed
  PROVE  /\ Instants(b) = Instants(a) \cup ({h} \X ((a[h].missed + 1)..(a[h].missed + n)))
         /\ Instants(a) \cap ({h} \X ((a[h].missed + 1)..(a[h].missed + n))) = {}
<1> DEFINE k == a[h].missed
           more == {h} \X ((k + 1)..(k + n))
<1>1. k \in Nat
  <2>1. a[h] \in Occurrence
    BY SequenceAsFunction
  <2> QED
    BY <2>1 DEF Occurrence
<1>2. 0..(k + n) = (0..k) \cup ((k + 1)..(k + n))
  BY <1>1
<1>3. {h} \X (0..b[h].missed) = ({h} \X (0..k)) \cup more
  BY <1>2
<1>4. \A o \in DOMAIN a : o # h => {o} \X (0..b[o].missed) = {o} \X (0..a[o].missed)
  OBVIOUS
<1> HIDE DEF more
<1>5. Instants(b) = Instants(a) \cup more
  <2>1. ASSUME NEW p \in Instants(b) PROVE p \in Instants(a) \cup more
    <3>1. PICK o \in DOMAIN a : p \in {o} \X (0..b[o].missed)
      BY DEF Instants
    <3>2. CASE o # h
      BY <3>1, <3>2, <1>4 DEF Instants
    <3>3. CASE o = h
      <4>1. p \in {h} \X (0..a[h].missed) \/ p \in more
        BY <3>1, <3>3, <1>3
      <4> QED
        BY <4>1 DEF Instants
    <3> QED
      BY <3>2, <3>3
  <2>2. ASSUME NEW p \in Instants(a) PROVE p \in Instants(b)
    <3>1. PICK o \in DOMAIN a : p \in {o} \X (0..a[o].missed)
      BY DEF Instants
    <3>2. p \in {o} \X (0..b[o].missed)
      <4>1. CASE o # h
        BY <3>1, <4>1, <1>4
      <4>2. CASE o = h
        BY <3>1, <4>2, <1>3
      <4> QED
        BY <4>1, <4>2
    <3> QED
      BY <3>2 DEF Instants
  <2>3. ASSUME NEW p \in more PROVE p \in Instants(b)
    BY <2>3, <1>3 DEF Instants
  <2> QED
    BY <2>1, <2>2, <2>3
<1>6. Instants(a) \cap more = {}
  <2>1. ASSUME NEW p \in Instants(a), p \in more PROVE FALSE
    <3>1. PICK o \in DOMAIN a : p \in {o} \X (0..a[o].missed)
      BY DEF Instants
    <3>2. p[1] = o /\ p[2] \in 0..a[o].missed
      BY <3>1
    <3>3. p[1] = h /\ p[2] \in (k + 1)..(k + n)
      BY <2>1 DEF more
    <3> QED
      BY <3>2, <3>3, <1>1
  <2> QED
    BY <2>1
<1> QED
  BY <1>5, <1>6 DEF more

\* What n more instants make of a count.
LEMMA CountGrown ==
  ASSUME NEW os \in Seq(Occurrence), NEW k \in Nat, CountIs(os, k),
         NEW h \in DOMAIN os, NEW n \in Nat, n > 0, NEW t,
         DOMAIN t = DOMAIN os, t[h].missed = os[h].missed + n,
         \A o \in DOMAIN os : o # h => t[o].missed = os[o].missed
  PROVE  CountIs(t, k + n)
<1> DEFINE a == os[h].missed + 1
           S == Instants(os)
           U == Instants(t)
           T == Span(h, a, n)
<1>1. U = S \cup T /\ S \cap T = {}
  <2>1. os[h] \in Occurrence
    BY SequenceAsFunction
  <2>2. a + n - 1 = os[h].missed + n /\ a \in Int
    BY <2>1 DEF Occurrence
  <2> QED
    BY <2>2, InstantsGrown DEF Span
<1>3. a \in Int
  <2>1. os[h] \in Occurrence
    BY SequenceAsFunction
  <2> QED
    BY <2>1 DEF Occurrence
<1>4. IsFiniteSet(S) /\ Cardinality(S) = k
  BY DEF CountIs
<1> HIDE DEF a, S, U
<1>7. IsFiniteSet(T) /\ Cardinality(T) = n
  BY <1>3, SpanCount
<1> HIDE DEF T
<1>6. IsFiniteSet(U) /\ Cardinality(U) = k + n
  BY <1>1, <1>4, <1>7, SetsAdded
<1> QED
  BY <1>6 DEF U, CountIs

LEMMA CountAppended ==
  ASSUME NEW os \in Seq(Occurrence), NEW k \in Nat, CountIs(os, k),
         NEW x \in Occurrence, x.missed \in Nat
  PROVE  CountIs(Append(os, x), k + (x.missed + 1))
<1> DEFINE h == Len(os) + 1
           a == 0
           S == Instants(os)
           U == Instants(Append(os, x))
           n == x.missed + 1
           T == Span(h, a, n)
<1>1. U = S \cup T /\ S \cap T = {}
  <2>1. a + n - 1 = x.missed
    OBVIOUS
  <2> QED
    BY <2>1, InstantsAppended DEF Span
<1>3. a \in Int
  OBVIOUS
<1>2. n \in Nat /\ n > 0
  OBVIOUS
<1>4. IsFiniteSet(S) /\ Cardinality(S) = k
  BY DEF CountIs
<1> HIDE DEF a, S, U
<1>7. IsFiniteSet(T) /\ Cardinality(T) = n
  BY <1>2, <1>3, SpanCount
<1> HIDE DEF T
<1>6. IsFiniteSet(U) /\ Cardinality(U) = k + n
  BY <1>1, <1>2, <1>4, <1>7, SetsAdded
<1> QED
  BY <1>6 DEF U, n, CountIs

LEMMA DueCountType ==
  ASSUME NEW s
  PROVE  DueCount(s) \in Nat
<1> DEFINE D == {k \in 0..MaxOccurrences : /\ s.due + k * Interval <= clock /\ s.due + k * Interval <= s.end
                                           /\ s.consumed + k < s.limit}
<1>1. IsFiniteSet(0..MaxOccurrences)
  BY MandatesConstants, FS_Interval
<1>2. IsFiniteSet(D)
  <2>1. D \in SUBSET (0..MaxOccurrences)
    OBVIOUS
  <2> HIDE DEF D
  <2> QED
    BY <1>1, <2>1, FS_Subset
<1>3. DueCount(s) = Cardinality(D)
  BY DEF DueCount
<1> HIDE DEF D
<1> QED
  BY <1>2, <1>3, FS_CardinalityType

LEMMA ConsumedKept ==
  ASSUME NEW m, MandateKept(m), NEW sc \in ReviewSchedule, NEW os \in Seq(Occurrence),
         NEW n, n = [m EXCEPT !.sched = sc, !.occs = os], OneHeld(n), Counted(n)
  PROVE  MandateKept(n)
<1>1. m \in Mandate
  BY DEF MandateKept
<1>2. /\ n.status = m.status /\ n.unres = m.unres /\ n.sched = sc /\ n.turn = m.turn
      /\ n.cycles = m.cycles /\ n.works = m.works /\ n.occs = os
      /\ n = [status |-> n.status, unres |-> n.unres, cycles |-> n.cycles, turn |-> n.turn, works |-> n.works,
              sched |-> n.sched, occs |-> n.occs]
  BY <1>1 DEF Mandate
<1>3. n \in Mandate
  <2>1. [status |-> n.status, unres |-> n.unres, cycles |-> n.cycles, turn |-> n.turn, works |-> n.works,
              sched |-> n.sched, occs |-> n.occs] \in Mandate
    BY <1>1, <1>2, MandateColumns DEF Mandate
  <2> QED
    BY <1>2, <2>1
<1>4. \A c : Shown(n, c) <=> Shown(m, c)
  BY <1>2 DEF Shown
<1>5. WorksPlaced(n) /\ TurnPlaced(n) /\ SucceedsCommitted(n)
  BY <1>2 DEF MandateKept, WorksPlaced, TurnPlaced, SucceedsCommitted
<1>6. EndsWell(n) /\ ClosedWell(n)
  BY <1>2, <1>4 DEF MandateKept, EndsWell, ClosedWell
<1> QED
  BY <1>3, <1>5, <1>6 DEF MandateKept

LEMMA TickScheduleKept ==
  ASSUME NEW m, MandateKept(m)
  PROVE  MandateKept(TickSchedule(m))
<1> DEFINE s == m.sched
           n == DueCount(s)
           next == s.due + n * Interval
           ended == s.consumed + n >= s.limit \/ next > s.end
           held == {o \in DueOrHeld(m) : m.occs[o].version = s.version}
           sc == [s EXCEPT !.consumed = s.consumed + n, !.due = IF n = 0 \/ ended THEN 0 ELSE next,
                           !.status = IF n = 0 \/ ended THEN "exhausted" ELSE "active"]
           x == [version |-> s.version, missed |-> n - 1, cycle |-> 0, state |-> "due"]
           os == IF n = 0 THEN m.occs
                 ELSE IF held # {} THEN [o \in DOMAIN m.occs |-> IF o \in held THEN [m.occs[o] EXCEPT !.missed = m.occs[o].missed + n]
                                                                 ELSE m.occs[o]]
                 ELSE Append(m.occs, x)
           r == TickSchedule(m)
<1>1. m \in Mandate /\ OneHeld(m) /\ Counted(m)
  BY DEF MandateKept
<1>2. s \in ReviewSchedule /\ n \in Nat /\ next \in Nat /\ s.consumed + n \in Nat
  <2>1. s \in ReviewSchedule /\ s.due \in Nat /\ s.consumed \in Nat
    BY <1>1, MandateColumns DEF ReviewSchedule
  <2>2. n \in Nat
    BY DueCountType
  <2> HIDE DEF n, s
  <2>3. n * Interval \in Nat
    BY <2>2, MandatesConstants
  <2> QED
    BY <2>1, <2>2, <2>3
<1>3. m.occs \in Seq(Occurrence) /\ DOMAIN m.occs = 1..Len(m.occs) /\ Len(m.occs) \in Nat
      /\ \A o \in DOMAIN m.occs : m.occs[o] \in Occurrence
  BY <1>1, MandateColumns
<1>4. r = m \/ r = [m EXCEPT !.sched = sc, !.occs = os]
  BY Zenon DEF TickSchedule
<1> HIDE DEF n, next
<1>5. sc \in ReviewSchedule /\ sc.consumed = s.consumed + n
  <2> DEFINE d == IF n = 0 \/ ended THEN 0 ELSE next
             st == IF n = 0 \/ ended THEN "exhausted" ELSE "active"
  <2>1. d \in Nat /\ st \in {"exhausted", "active"}
    BY <1>2
  <2> HIDE DEF d, st
  <2>2. [s EXCEPT !.consumed = s.consumed + n, !.due = d, !.status = st] \in ReviewSchedule
    BY <1>2, <2>1 DEF ReviewSchedule
  <2>3. sc = [s EXCEPT !.consumed = s.consumed + n, !.due = d, !.status = st]
    BY DEF d, st
  <2>4. [s EXCEPT !.consumed = s.consumed + n, !.due = d, !.status = st].consumed = s.consumed + n
    BY <1>2 DEF ReviewSchedule
  <2> HIDE DEF sc
  <2> QED
    BY <2>2, <2>3, <2>4
<1> HIDE DEF r, sc, os
<1>6. ASSUME r = [m EXCEPT !.sched = sc, !.occs = os] PROVE MandateKept(r)
  <2>1. r.sched = sc /\ r.occs = os
    BY <1>1, <1>6 DEF Mandate
  <2>2. CASE n = 0
    <3>1. os = m.occs
      BY <2>2 DEF os
    <3>2. OneHeld(r)
      BY <2>1, <3>1, <1>1 DEF OneHeld, DueOrHeld
    <3>3. Counted(r)
      BY <2>1, <2>2, <3>1, <1>1, <1>2, <1>5 DEF Counted, ReviewSchedule
    <3> QED
      BY <1>3, <1>5, <1>6, <3>1, <3>2, <3>3, ConsumedKept
  <2>3. CASE n # 0 /\ held # {}
    <3>1. PICK h \in held : TRUE
      BY <2>3
    <3>2. h \in DOMAIN m.occs /\ \A o \in held : o = h
      BY <3>1, <1>1 DEF OneHeld, DueOrHeld
    <3>3. os = [o \in DOMAIN m.occs |-> IF o \in held THEN [m.occs[o] EXCEPT !.missed = m.occs[o].missed + n] ELSE m.occs[o]]
      BY <2>3 DEF os
    <3> HIDE DEF held
    <3>4. ASSUME NEW o \in DOMAIN m.occs
          PROVE  /\ os[o] \in Occurrence /\ os[o].version = m.occs[o].version /\ os[o].state = m.occs[o].state
                 /\ os[o].missed = IF o = h THEN m.occs[o].missed + n ELSE m.occs[o].missed
      <4>1. m.occs[o] \in Occurrence
        BY <1>3
      <4>2. m.occs[o].missed \in Nat
        BY <4>1 DEF Occurrence
      <4>3. CASE o = h
        <5>1. os[o] = [m.occs[o] EXCEPT !.missed = m.occs[o].missed + n]
          BY <3>1, <3>3, <4>3
        <5> QED
          BY <4>1, <4>2, <4>3, <5>1, <1>2 DEF Occurrence
      <4>4. CASE o # h
        <5>1. os[o] = m.occs[o]
          BY <3>2, <3>3, <4>4
        <5> QED
          BY <4>1, <4>4, <5>1
      <4> QED
        BY <4>3, <4>4
    <3>5. os \in [DOMAIN m.occs -> Occurrence]
      BY <3>3, <3>4
    <3>6. os \in Seq(Occurrence) /\ DOMAIN os = DOMAIN m.occs
      BY <1>3, <3>5, FunctionAsSequence
    <3>7. OneHeld(r)
      BY <2>1, <3>4, <3>6, <1>1 DEF OneHeld, DueOrHeld
    <3>8. Counted(r)
      <4> DEFINE k == m.sched.consumed
      <4>1. CountIs(m.occs, k) /\ k \in Nat
        BY <1>1, MandateColumns DEF Counted, ReviewSchedule
      <4>2. n > 0 /\ DOMAIN os = DOMAIN m.occs /\ os[h].missed = m.occs[h].missed + n
            /\ \A o \in DOMAIN m.occs : o # h => os[o].missed = m.occs[o].missed
        BY <1>2, <2>3, <3>2, <3>4, <3>6
      <4> HIDE DEF k, s
      <4>3. CountIs(os, k + n)
        BY <1>2, <1>3, <3>2, <4>1, <4>2, CountGrown
      <4> QED
        BY <2>1, <1>5, <4>3 DEF Counted, k, s
    <3> QED
      BY <1>5, <1>6, <3>6, <3>7, <3>8, ConsumedKept
  <2>4. CASE n # 0 /\ held = {}
    <3>1. os = Append(m.occs, x)
      BY <2>4 DEF os
    <3>2. x \in Occurrence
      BY <1>2, <2>4 DEF Occurrence, ReviewSchedule
    <3>3. x.version = s.version /\ x.missed = n - 1
      OBVIOUS
    <3> HIDE DEF x
    <3>4. /\ os \in Seq(Occurrence) /\ Len(os) = Len(m.occs) + 1 /\ os[Len(m.occs) + 1] = x
          /\ \A o \in 1..Len(m.occs) : os[o] = m.occs[o]
      BY <1>3, <3>1, <3>2, AppendProperties
    <3>5. DOMAIN os = DOMAIN m.occs \cup {Len(m.occs) + 1}
      <4>1. DOMAIN os = 1..(Len(m.occs) + 1)
        BY <3>4, SequenceAsFunction
      <4> QED
        BY <4>1, <1>3
    <3>6. OneHeld(r)
      <4>1. ASSUME NEW o \in DueOrHeld(r), NEW p \in DueOrHeld(r), os[o].version = os[p].version PROVE o = p
        <5>1. \A q \in DOMAIN m.occs : q \in DueOrHeld(r) => q \in DueOrHeld(m) /\ os[q].version # x.version
          BY <1>3, <2>1, <2>4, <3>3, <3>4 DEF DueOrHeld
        <5>2. o \in DOMAIN os /\ p \in DOMAIN os
          BY <2>1 DEF DueOrHeld
        <5> QED
          BY <1>1, <1>3, <4>1, <5>1, <5>2, <3>4, <3>5 DEF OneHeld
      <4> QED
        BY <2>1, <4>1 DEF OneHeld
    <3>7. Counted(r)
      <4> DEFINE k == m.sched.consumed
      <4>1. CountIs(m.occs, k) /\ k \in Nat
        BY <1>1, MandateColumns DEF Counted, ReviewSchedule
      <4>2. x.missed \in Nat /\ k + (x.missed + 1) = k + n
        BY <1>2, <2>4, <3>3, <4>1
      <4> HIDE DEF k, s
      <4>3. CountIs(os, k + n)
        BY <1>3, <3>1, <3>2, <4>1, <4>2, CountAppended
      <4> QED
        BY <2>1, <1>5, <4>3 DEF Counted, k, s
    <3> QED
      BY <1>5, <1>6, <3>4, <3>6, <3>7, ConsumedKept
  <2> QED
    BY <2>2, <2>3, <2>4
<1> QED
  BY <1>4, <1>6 DEF r

LEMMA VerdictType ==
  ASSUME NEW m, NEW o
  PROVE  Verdict(m, o) \in {"superseded", "cancelled", "held", "queued", "blocked"}
  BY DEF Verdict

LEMMA TickOccurrencesKept ==
  ASSUME NEW m, MandateKept(m), NEW n \in Nat, clock \in Nat
  PROVE  MandateKept(TickOccurrences(m, n))
<1> DEFINE due == {o \in DueOrHeld(m) : o <= n}
           opening == {o \in due : Verdict(m, o) = "queued"}
           first == CHOOSE o \in opening : \A p \in opening : o <= p
           state(o) == IF o \in opening /\ o # first THEN "held" ELSE Verdict(m, o)
           os == [o \in DOMAIN m.occs |-> IF o \in due THEN [m.occs[o] EXCEPT !.state = state(o)] ELSE m.occs[o]]
           ticked == [m EXCEPT !.occs = os]
           opened == [ticked EXCEPT !.occs[first].cycle = Len(m.cycles) + 1]
<1>1. m \in Mandate
  BY DEF MandateKept
<1>2. m.occs \in Seq(Occurrence) /\ DOMAIN m.occs = 1..Len(m.occs) /\ Len(m.occs) \in Nat
      /\ (\A o \in DOMAIN m.occs : m.occs[o] \in Occurrence) /\ Len(m.cycles) \in Nat
  BY <1>1, MandateColumns
<1>3. TickOccurrences(m, n) = IF opening = {} THEN ticked ELSE OpenCycle(opened, first)
  BY DEF TickOccurrences
<1>4. \A o : state(o) \in {"superseded", "cancelled", "held", "queued", "blocked"}
  BY VerdictType
<1>5. due \subseteq DOMAIN m.occs /\ opening \subseteq due /\ \A o \in due : m.occs[o].state \in {"due", "held"}
  BY DEF DueOrHeld
<1>6. opening # {} => first \in opening
  <2>1. ASSUME opening # {} PROVE \E o \in opening : \A p \in opening : o <= p
    <3>1. opening \in SUBSET Nat
      BY <1>2, <1>5
    <3> HIDE DEF opening
    <3> QED
      BY <2>1, <3>1, Smallest
  <2> QED
    BY <2>1
<1> HIDE DEF due, opening, first, state
<1>7. ASSUME NEW o \in DOMAIN m.occs
      PROVE  /\ os[o] \in Occurrence /\ os[o].version = m.occs[o].version /\ os[o].missed = m.occs[o].missed
             /\ os[o].state \in {"due", "held"} => m.occs[o].state \in {"due", "held"}
  <2>1. m.occs[o] \in Occurrence
    BY <1>2
  <2>2. CASE o \in due
    <3>1. os[o] = [m.occs[o] EXCEPT !.state = state(o)]
      BY <2>2
    <3>2. state(o) \in {"superseded", "cancelled", "held", "queued", "blocked"}
      BY <1>4
    <3> QED
      BY <2>1, <2>2, <3>1, <3>2, <1>5 DEF Occurrence
  <2>3. CASE o \notin due
    BY <2>1, <2>3
  <2> QED
    BY <2>2, <2>3
<1>8. os \in [DOMAIN m.occs -> Occurrence]
  BY <1>7
<1>9. OccsFollow(m.occs, os)
  <2> HIDE DEF os
  <2> QED
    BY ONLY <1>2, <1>7, <1>8, OccsMap
<1>10. MandateKept(ticked) /\ ticked.occs = os
  <2> HIDE DEF os
  <2>1. ticked.occs = os
    BY <1>1 DEF Mandate
  <2> QED
    BY <1>9, <2>1, OccsKept
<1>11. ASSUME opening # {} PROVE MandateKept(OpenCycle(opened, first))
  <2> DEFINE t == [os EXCEPT ![first] = [os[first] EXCEPT !.cycle = Len(m.cycles) + 1]]
  <2>1. first \in DOMAIN m.occs /\ first \in Nat
    BY <1>2, <1>5, <1>6, <1>11
  <2>2. DOMAIN os = DOMAIN m.occs /\ os \in Seq(Occurrence)
    BY <1>2, <1>8, FunctionAsSequence
  <2>3. ASSUME NEW o \in DOMAIN os
        PROVE  /\ t[o] \in Occurrence /\ t[o].version = os[o].version /\ t[o].missed = os[o].missed
               /\ t[o].state \in {"due", "held"} => os[o].state \in {"due", "held"}
    <3> HIDE DEF os
    <3>1. os[o] \in Occurrence
      BY <1>8, <2>2
    <3>2. CASE o = first
      <4>1. t[o] = [os[o] EXCEPT !.cycle = Len(m.cycles) + 1]
        BY <3>2
      <4> QED
        BY <3>1, <4>1, <1>2 DEF Occurrence
    <3>3. CASE o # first
      <4>1. t[o] = os[o]
        BY <3>3
      <4> QED
        BY <3>1, <4>1
    <3> QED
      BY <3>2, <3>3
  <2> HIDE DEF os
  <2>4. t \in [DOMAIN os -> Occurrence]
    <3>1. os \in [DOMAIN os -> Occurrence] /\ os[first] \in Occurrence
      BY <1>8, <2>1, <2>2
    <3>2. ASSUME NEW e \in Occurrence, NEW k \in Nat PROVE [e EXCEPT !.cycle = k] \in Occurrence
      BY DEF Occurrence
    <3>3. Len(m.cycles) + 1 \in Nat
      BY <1>2
    <3>4. [os[first] EXCEPT !.cycle = Len(m.cycles) + 1] \in Occurrence
      BY <3>1, <3>2, <3>3
    <3> QED
      BY <3>1, <3>4
  <2> HIDE DEF t
  <2>5. OccsFollow(os, t)
    BY ONLY <2>2, <2>3, <2>4, OccsMap
  <2>6. opened = [ticked EXCEPT !.occs = t]
    BY <1>1 DEF Mandate, t
  <2>7. MandateKept(opened)
    <3> HIDE DEF opened, ticked
    <3> QED
      BY <1>10, <2>5, <2>6, OccsKept
  <2> HIDE DEF opened
  <2> QED
    BY <2>1, <2>7, OpenKept
<1> HIDE DEF ticked, opened
<1> QED
  BY <1>3, <1>10, <1>11

LEMMA PassKept ==
  ASSUME NEW m, MandateKept(m), NEW n \in Nat, clock \in Nat
  PROVE  MandateKept(PassUpTo(m, n))
  BY ProgressCycleKept, TickScheduleKept, TickOccurrencesKept DEF PassUpTo

LEMMA UnresKept ==
  ASSUME NEW m, MandateKept(m), NEW u \in BOOLEAN, NEW n, n = [m EXCEPT !.unres = u]
  PROVE  MandateKept(n)
<1>1. m \in Mandate /\ TurnPlaced(m)
  BY DEF MandateKept
<1>2. /\ n.status = m.status /\ n.unres = u /\ n.sched = m.sched /\ n.turn = m.turn
      /\ n.cycles = m.cycles /\ n.works = m.works /\ n.occs = m.occs
      /\ n = [status |-> n.status, unres |-> n.unres, cycles |-> n.cycles, turn |-> n.turn, works |-> n.works,
              sched |-> n.sched, occs |-> n.occs]
  BY <1>1 DEF Mandate
<1>3. RestFollows(m, n)
  BY <1>1, <1>2, MandateColumns DEF RestFollows, TurnPlaced
<1>4. MandateFollows(m, n)
  BY <1>2, <1>3, Unmoved DEF MandateFollows
<1> QED
  BY <1>4, FollowsKept

LEMMA WorkMoved ==
  ASSUME NEW m, MandateKept(m), NEW k \in DOMAIN m.works, NEW st \in {"queued", "running", "blocked", "done"},
         m.works[k].kind = "task" /\ m.works[k].st = "done" => st = "done",
         NEW n, n = [m EXCEPT !.works[k].st = st]
  PROVE  MandateKept(n)
<1> DEFINE w == [m.works[k] EXCEPT !.st = st]
           ws == [m.works EXCEPT ![k] = w]
<1>1. m \in Mandate
  BY DEF MandateKept
<1>2. m.works \in Seq(InternalWork) /\ \A j \in DOMAIN m.works : m.works[j] \in InternalWork
  BY <1>1, MandateColumns
<1>3. w \in InternalWork /\ w.c = m.works[k].c /\ w.kind = m.works[k].kind /\ w.delivered = m.works[k].delivered /\ w.st = st
  BY <1>2 DEF InternalWork
<1>4. n = [m EXCEPT !.works = ws]
  BY <1>1 DEF Mandate
<1> HIDE DEF w
<1>5. ws \in [DOMAIN m.works -> InternalWork]
  BY <1>2, <1>3
<1>6. WorksFollow(m.works, ws)
  <2>1. \A j \in DOMAIN m.works :
          /\ ws[j].c = m.works[j].c /\ ws[j].kind = m.works[j].kind
          /\ m.works[j].delivered => ws[j].delivered
          /\ m.works[j].kind = "task" /\ m.works[j].st = "done" => ws[j].st = "done"
    BY <1>3
  <2> HIDE DEF ws
  <2> QED
    BY <1>2, <1>5, <2>1, WorksMap
<1> HIDE DEF ws
<1> QED
  BY <1>4, <1>6, WorksKept

LEMMA ActionMoved ==
  ASSUME NEW m, MandateKept(m), NEW c \in DOMAIN m.cycles, NEW a \in {"pending", "settled"},
         NEW n, n = [m EXCEPT !.cycles[c].action = a]
  PROVE  MandateKept(n)
<1> DEFINE r == [m.cycles[c] EXCEPT !.action = a]
<1>1. m \in Mandate
  BY DEF MandateKept
<1>2. c \in 1..Len(m.cycles) /\ m.cycles[c] \in Cycle
  BY <1>1, MandateColumns
<1>3. r \in Cycle /\ (m.cycles[c].decided => r.decided) /\ (r.state = "closed" => m.cycles[c].state = "closed")
  BY <1>2 DEF Cycle
<1>4. n = [m EXCEPT !.cycles = [m.cycles EXCEPT ![c] = r]]
  BY <1>1 DEF Mandate
<1> HIDE DEF r
<1> QED
  BY <1>2, <1>3, <1>4, CycleKept

\* The owner.
LEMMA ActivateKept ==
  ASSUME MandateKept(mnd), clock \in Nat, Activate \/ ReviewNow \/ PauseMandate \/ ResumeMandate \/ Stop
  PROVE  MandateKept(mnd')
<1> DEFINE m(s) == [mnd EXCEPT !.status = s]
<1>1. \A s \in {"active", "paused"} : MandateKept(m(s))
  BY StatusKept
<1>2. CASE Activate
  <2>1. mnd' = OpenCycle(m("active"), 0)
    BY <1>2 DEF Activate, Set
  <2> HIDE DEF m
  <2> QED
    BY <1>1, <2>1, OpenKept
<1>3. CASE ReviewNow
  <2>1. mnd' = OpenCycle(mnd, 0)
    BY <1>3 DEF ReviewNow, Set
  <2> QED
    BY <2>1, OpenKept
<1>4. CASE PauseMandate
  BY <1>1, <1>4 DEF PauseMandate, Intervene
<1>5. CASE ResumeMandate
  BY <1>1, <1>5 DEF ResumeMandate, Set
<1>6. CASE Stop
  <2>1. mnd' = StopMandate(mnd)
    BY <1>6 DEF Stop, Set
  <2>2. MandateFollows(mnd, StopMandate(mnd))
    BY StopFollows
  <2> QED
    BY <2>1, <2>2, FollowsKept
<1> QED
  BY <1>2, <1>3, <1>4, <1>5, <1>6

LEMMA InvalidateKept ==
  ASSUME NEW m, MandateKept(m), NEW state \in {"cancelled", "superseded"}
  PROVE  MandateKept(InvalidateQueued(m, state))
<1>1. MandateFollows(m, InvalidateQueued(m, state))
  BY InvalidateFollows
<1> QED
  BY <1>1, FollowsKept

LEMMA SaveScheduleKept ==
  ASSUME MandateKept(mnd), NEW due \in 1..ClockBound, NEW end \in 1..ClockBound, NEW limit \in 1..MaxOccurrences,
         SaveSchedule(due, end, limit)
  PROVE  MandateKept(mnd')
<1> DEFINE s == mnd.sched
           st == IF s.status = "paused" THEN "paused" ELSE "active"
           t == [s EXCEPT !.status = st, !.version = s.version + 1, !.due = due, !.end = end, !.limit = limit]
           m == [mnd EXCEPT !.sched = t]
<1>1. mnd \in Mandate
  BY DEF MandateKept
<1>2. s \in ReviewSchedule /\ s.version \in Nat
  BY <1>1, MandateColumns DEF ReviewSchedule
<1>3. due \in Nat /\ end \in Nat /\ limit \in 0..MaxOccurrences /\ st \in {"paused", "active"} /\ s.version + 1 \in Nat
  BY <1>2, MandatesConstants
<1>4. mnd' = InvalidateQueued(m, "superseded")
  BY <1>1 DEF SaveSchedule, Intervene, Mandate
<1> HIDE DEF st, s
<1>5. t \in ReviewSchedule /\ t.consumed = s.consumed
  BY <1>2, <1>3 DEF ReviewSchedule
<1> HIDE DEF t
<1>6. MandateKept(m)
  BY <1>5, ScheduleKept DEF s
<1> HIDE DEF m
<1> QED
  BY <1>4, <1>6, InvalidateKept

LEMMA ControlScheduleKept ==
  ASSUME MandateKept(mnd), NEW action, ControlSchedule(action)
  PROVE  MandateKept(mnd')
<1> DEFINE s == mnd.sched
           m(st) == [mnd EXCEPT !.sched = [s EXCEPT !.status = st]]
           n == [mnd EXCEPT !.sched = [s EXCEPT !.status = "cancelled", !.due = 0]]
<1>1. mnd \in Mandate
  BY DEF MandateKept
<1>2. s \in ReviewSchedule
  BY <1>1, MandateColumns
<1>3. ASSUME NEW st \in {"paused", "active", "exhausted"} PROVE MandateKept(m(st))
  <2> DEFINE t == [s EXCEPT !.status = st]
  <2>1. t \in ReviewSchedule /\ t.consumed = s.consumed
    BY <1>2 DEF ReviewSchedule
  <2> HIDE DEF t
  <2>2. MandateKept([mnd EXCEPT !.sched = t])
    BY <2>1, ScheduleKept
  <2> QED
    BY <2>2 DEF t
<1>4. MandateKept(n)
  <2> DEFINE t == [s EXCEPT !.status = "cancelled", !.due = 0]
  <2>1. t \in ReviewSchedule /\ t.consumed = s.consumed
    BY <1>2 DEF ReviewSchedule
  <2> HIDE DEF t
  <2>2. MandateKept([mnd EXCEPT !.sched = t])
    BY <2>1, ScheduleKept
  <2> QED
    BY <2>2 DEF t
<1>5. mnd' \in {m("paused"), m("active"), m("exhausted"), InvalidateQueued(n, "cancelled")}
  BY <1>1 DEF ControlSchedule, Intervene, Mandate
<1>6. MandateKept(m("paused")) /\ MandateKept(m("active")) /\ MandateKept(m("exhausted"))
  BY <1>3
<1> HIDE DEF m, n
<1>7. MandateKept(InvalidateQueued(n, "cancelled"))
  BY <1>4, InvalidateKept
<1> QED
  BY <1>5, <1>6, <1>7

LEMMA WithdrawObservationKept ==
  ASSUME MandateKept(mnd), NEW given \in SUBSET (DOMAIN mnd.works), WithdrawObservation(given)
  PROVE  MandateKept(mnd')
<1> DEFINE queued(k) == mnd.works[k].kind = "task" /\ mnd.works[k].st = "queued"
           ws == [k \in DOMAIN mnd.works |->
                    IF mnd.works[k].kind = "task" /\ mnd.works[k].st = "queued" THEN [mnd.works[k] EXCEPT !.st = "done"]
                    ELSE IF k \in given THEN [mnd.works[k] EXCEPT !.st = "blocked"] ELSE mnd.works[k]]
           t == [mnd.turn EXCEPT !.stale = TRUE]
           u == [t EXCEPT !.st = "cancelled", !.adv = TRUE]
           a == [mnd EXCEPT !.turn = t]
           m == [a EXCEPT !.works = ws]
           n == [m EXCEPT !.turn = u]
<1>1. mnd \in Mandate /\ SucceedsCommitted(mnd) /\ TurnPlaced(mnd)
  BY DEF MandateKept
<1>2. /\ mnd.works \in Seq(InternalWork) /\ \A k \in DOMAIN mnd.works : mnd.works[k] \in InternalWork
      /\ mnd.turn \in MandateTurn /\ Len(mnd.cycles) \in Nat
  BY <1>1, MandateColumns
<1>3. \A k \in given : mnd.works[k].kind = "group"
  BY DEF WithdrawObservation
<1>4. ws \in [DOMAIN mnd.works -> InternalWork]
  <2>1. \A w \in InternalWork : [w EXCEPT !.st = "done"] \in InternalWork /\ [w EXCEPT !.st = "blocked"] \in InternalWork
    BY DEF InternalWork
  <2> QED
    BY <1>2, <2>1
<1>5. ASSUME NEW k \in DOMAIN mnd.works
      PROVE  /\ ws[k].c = mnd.works[k].c /\ ws[k].kind = mnd.works[k].kind /\ (mnd.works[k].delivered => ws[k].delivered)
             /\ mnd.works[k].kind = "task" /\ mnd.works[k].st = "done" => ws[k].st = "done"
  <2>1. \A w \in InternalWork, st \in {"done", "blocked"} :
           LET v == [w EXCEPT !.st = st] IN v.c = w.c /\ v.kind = w.kind /\ v.delivered = w.delivered /\ v.st = st
    BY DEF InternalWork
  <2>2. mnd.works[k] \in InternalWork
    BY <1>2
  <2>3. CASE queued(k)
    <3>1. ws[k] = [mnd.works[k] EXCEPT !.st = "done"]
      BY <2>3
    <3> QED
      BY <2>1, <2>2, <2>3, <3>1
  <2>4. CASE ~queued(k) /\ k \in given
    <3>1. ws[k] = [mnd.works[k] EXCEPT !.st = "blocked"]
      BY <2>4
    <3>2. mnd.works[k].kind = "group"
      BY <1>3, <2>4
    <3> QED
      BY <2>1, <2>2, <3>1, <3>2
  <2>5. CASE ~queued(k) /\ k \notin given
    <3>1. ws[k] = mnd.works[k]
      BY <2>5
    <3> QED
      BY <3>1
  <2> QED
    BY <2>3, <2>4, <2>5
<1>6. WorksFollow(mnd.works, ws)
  <2> HIDE DEF ws
  <2> QED
    BY <1>2, <1>4, <1>5, WorksMap
<1>7. mnd' = m \/ (mnd.turn.st = "queued" /\ mnd' = EnqueueReview(n))
  <2>1. mnd' = LET works == ws
                   p == [mnd EXCEPT !.turn.stale = TRUE, !.works = works]
               IN IF mnd.turn.st = "queued" THEN EnqueueReview([p EXCEPT !.turn = [@ EXCEPT !.st = "cancelled", !.adv = TRUE]])
                  ELSE p
    BY Zenon DEF WithdrawObservation, Intervene
  <2> HIDE DEF ws
  <2>2. [mnd EXCEPT !.turn.stale = TRUE, !.works = ws] = m
    BY <1>1 DEF Mandate
  <2>3. [m EXCEPT !.turn = [@ EXCEPT !.st = "cancelled", !.adv = TRUE]] = n
    BY <1>1 DEF Mandate
  <2> HIDE DEF m, n
  <2> QED
    BY <2>1, <2>2, <2>3
<1>8. /\ TurnFollows(mnd.turn, t) /\ (t.st # "none" \/ t.run => Len(mnd.cycles) > 0)
      /\ TurnFollows(t, u) /\ (u.st # "none" \/ u.run => Len(mnd.cycles) > 0 \/ mnd.turn.st # "queued")
  <2>1. t \in MandateTurn /\ t.out = mnd.turn.out /\ t.ok = mnd.turn.ok /\ t.st = mnd.turn.st /\ t.run = mnd.turn.run
    BY <1>2 DEF MandateTurn
  <2> HIDE DEF t
  <2>2. u \in MandateTurn /\ u.out = t.out /\ u.ok = t.ok
    BY <2>1 DEF MandateTurn
  <2> HIDE DEF u
  <2> QED
    BY <1>1, <2>1, <2>2 DEF TurnFollows, SucceedsCommitted, TurnPlaced
<1> HIDE DEF t, u, ws
<1>9. MandateKept(a) /\ a.works = mnd.works /\ a.turn = t /\ a.cycles = mnd.cycles
  <2>1. a.works = mnd.works /\ a.turn = t /\ a.cycles = mnd.cycles
    BY <1>1 DEF Mandate
  <2> QED
    BY <1>8, <2>1, TurnKept
<1>10. MandateKept(m) /\ m.turn = t /\ m.cycles = mnd.cycles
  <2> HIDE DEF a
  <2>1. m.turn = t /\ m.cycles = mnd.cycles
    BY <1>9 DEF MandateKept, Mandate
  <2> QED
    BY <1>6, <1>9, <2>1, WorksKept
<1>11. ASSUME mnd.turn.st = "queued" PROVE MandateKept(EnqueueReview(n))
  <2> HIDE DEF m
  <2>1. Len(mnd.cycles) > 0
    BY <1>1, <1>11 DEF TurnPlaced
  <2>2. MandateKept(n)
    BY <1>8, <1>10, <2>1, TurnKept
  <2>3. n.cycles = mnd.cycles
    BY <1>10 DEF MandateKept, Mandate
  <2> HIDE DEF n
  <2> QED
    BY <2>1, <2>2, <2>3, EnqueueKept
<1> HIDE DEF m, n
<1> QED
  BY <1>7, <1>10, <1>11

\* The reviews.
LEMMA ClaimReviewKept ==
  ASSUME MandateKept(mnd), ClaimReview
  PROVE  MandateKept(mnd')
<1> DEFINE c == Len(mnd.cycles)
           t == [mnd.turn EXCEPT !.st = "replying", !.run = TRUE]
           u == [mnd.turn EXCEPT !.st = "undone"]
           r == [mnd.cycles[c] EXCEPT !.started = TRUE]
           m == [mnd EXCEPT !.turn = t]
           n == [m EXCEPT !.cycles = [m.cycles EXCEPT ![c] = r]]
           l == [mnd EXCEPT !.turn = u]
<1>1. mnd \in Mandate /\ SucceedsCommitted(mnd) /\ TurnPlaced(mnd)
  BY DEF MandateKept
<1>2. c \in Nat /\ c > 0 /\ mnd.turn \in MandateTurn /\ mnd.turn.st = "queued"
  BY <1>1, MandateColumns DEF ClaimReview, TurnPlaced
<1>3. c \in 1..Len(mnd.cycles) /\ mnd.cycles[c] \in Cycle
  BY <1>1, <1>2, MandateColumns
<1>4. mnd' = n \/ mnd' = l
  BY <1>1 DEF ClaimReview, Set, Newest, Mandate
<1>5. TurnFollows(mnd.turn, t) /\ TurnFollows(mnd.turn, u)
  <2>1. t \in MandateTurn /\ t.out = mnd.turn.out /\ t.ok = mnd.turn.ok
    BY <1>2 DEF MandateTurn
  <2>2. u \in MandateTurn /\ u.out = mnd.turn.out /\ u.ok = mnd.turn.ok
    BY <1>2 DEF MandateTurn
  <2> HIDE DEF t, u
  <2> QED
    BY <1>1, <2>1, <2>2 DEF TurnFollows, SucceedsCommitted
<1>6. r \in Cycle /\ r.decided = mnd.cycles[c].decided /\ r.state = mnd.cycles[c].state
  BY <1>3 DEF Cycle
<1> HIDE DEF t, u, r
<1>7. MandateKept(l)
  BY <1>2, <1>5, TurnKept
<1>8. MandateKept(m) /\ m.cycles = mnd.cycles
  <2>1. m.cycles = mnd.cycles
    BY <1>1 DEF Mandate
  <2> QED
    BY <1>2, <1>5, <2>1, TurnKept
<1> HIDE DEF m
<1>9. MandateKept(n)
  BY <1>3, <1>6, <1>8, CycleKept
<1> QED
  BY <1>4, <1>7, <1>9

LEMMA RecordDecisionKept ==
  ASSUME MandateKept(mnd), RecordDecision
  PROVE  MandateKept(mnd')
<1> DEFINE c == Len(mnd.cycles)
           r == [mnd.cycles[c] EXCEPT !.decided = TRUE]
<1>1. mnd \in Mandate /\ TurnPlaced(mnd)
  BY DEF MandateKept
<1>2. c \in 1..Len(mnd.cycles) /\ mnd.cycles[c] \in Cycle
  BY <1>1, MandateColumns DEF RecordDecision, Acting, TurnPlaced
<1>3. mnd' = [mnd EXCEPT !.cycles = [mnd.cycles EXCEPT ![c] = r]]
  BY <1>1 DEF RecordDecision, Set, Newest, Mandate
<1>4. r \in Cycle /\ r.decided /\ r.state = mnd.cycles[c].state
  BY <1>2 DEF Cycle
<1> HIDE DEF r
<1> QED
  BY <1>2, <1>3, <1>4, CycleKept

\* Work is added to the last cycle, which is open and whose review has not ended.
LEMMA WorkAdded ==
  ASSUME NEW m, MandateKept(m), Len(m.cycles) > 0, m.turn.out = "none", m.cycles[Len(m.cycles)].state # "closed",
         NEW w \in InternalWork, w.c = Len(m.cycles), NEW n, n = [m EXCEPT !.works = Append(m.works, w)]
  PROVE  MandateKept(n)
<1> DEFINE ws == Append(m.works, w)
<1>1. m \in Mandate
  BY DEF MandateKept
<1>2. /\ n.status = m.status /\ n.unres = m.unres /\ n.sched = m.sched /\ n.turn = m.turn
      /\ n.cycles = m.cycles /\ n.works = ws /\ n.occs = m.occs
      /\ n = [status |-> n.status, unres |-> n.unres, cycles |-> n.cycles, turn |-> n.turn, works |-> n.works,
              sched |-> n.sched, occs |-> n.occs]
  BY <1>1 DEF Mandate
<1>3. /\ n.works \in Seq(InternalWork) /\ n.works[Len(m.works) + 1] = w
      /\ \A k \in 1..Len(m.works) : n.works[k] = m.works[k]
      /\ DOMAIN n.works = 1..(Len(m.works) + 1) /\ Len(m.works) \in Nat /\ DOMAIN m.works = 1..Len(m.works)
  <2>1. m.works \in Seq(InternalWork) /\ Len(m.works) \in Nat /\ DOMAIN m.works = 1..Len(m.works)
    BY <1>1, MandateColumns
  <2>2. /\ ws \in Seq(InternalWork) /\ Len(ws) = Len(m.works) + 1 /\ ws[Len(m.works) + 1] = w
        /\ \A k \in 1..Len(m.works) : ws[k] = m.works[k]
    BY <2>1, AppendProperties
  <2>3. DOMAIN ws = 1..(Len(m.works) + 1)
    BY <2>2, SequenceAsFunction
  <2> QED
    BY <1>2, <2>1, <2>2, <2>3
<1> HIDE DEF ws
<1>4. n \in Mandate
  <2>1. [status |-> n.status, unres |-> n.unres, cycles |-> n.cycles, turn |-> n.turn, works |-> n.works,
              sched |-> n.sched, occs |-> n.occs] \in Mandate
    BY <1>1, <1>2, <1>3, MandateColumns DEF Mandate
  <2> QED
    BY <1>2, <2>1
<1>5. OneHeld(n) /\ Counted(n) /\ TurnPlaced(n) /\ SucceedsCommitted(n)
  BY <1>2 DEF MandateKept, OneHeld, DueOrHeld, Counted, TurnPlaced, SucceedsCommitted
<1>6. WorksPlaced(n)
  BY <1>1, <1>2, <1>3, MandateColumns DEF MandateKept, WorksPlaced
<1>7. EndsWell(n)
  BY <1>2 DEF EndsWell
<1>8. ClosedWell(n)
  <2>1. ASSUME NEW d \in DOMAIN m.cycles, m.cycles[d].state = "closed" PROVE m.cycles[d].decided /\ Shown(n, d)
    <3>1. m.cycles[d].decided /\ Shown(m, d) /\ d # w.c
      BY <2>1 DEF MandateKept, ClosedWell
    <3>2. Shown(n, d)
      BY <1>3, <3>1 DEF Shown
    <3> QED
      BY <3>1, <3>2
  <2> QED
    BY <1>2, <2>1 DEF ClosedWell
<1> QED
  BY <1>4, <1>5, <1>6, <1>7, <1>8 DEF MandateKept

LEMMA AssignKept ==
  ASSUME MandateKept(mnd), NEW kind \in {"task", "group"}, NEW allowed, NEW executions \in Nat, Assign(kind, allowed, executions)
  PROVE  MandateKept(mnd')
<1> DEFINE c == Len(mnd.cycles)
           more == mnd.cycles[c].reserved + executions
           r == [mnd.cycles[c] EXCEPT !.reserved = more]
           st == IF kind = "task" THEN "queued" ELSE "running"
           w == [c |-> c, kind |-> kind, st |-> st, delivered |-> FALSE]
           m == [mnd EXCEPT !.cycles = [mnd.cycles EXCEPT ![c] = r]]
<1>1. mnd \in Mandate /\ TurnPlaced(mnd)
  BY DEF MandateKept
<1>2. c \in 1..Len(mnd.cycles) /\ mnd.cycles[c] \in Cycle /\ c \in Nat /\ c > 0
  BY <1>1, MandateColumns DEF Assign, Acting, TurnPlaced
<1>3. mnd.turn.out = "none" /\ mnd.cycles[c].state = "active" /\ more <= MaxExecutions
  BY DEF Assign, Acting, AuthorizeReview, Newest
<1>4. mnd' = [m EXCEPT !.works = Append(m.works, w)]
  BY <1>1 DEF Assign, Set, Newest, Mandate
<1>5. more \in 0..MaxExecutions
  BY SMTT(30), <1>2, <1>3, MandatesConstants DEF Cycle
<1> HIDE DEF more
<1>6. r \in Cycle /\ r.decided = mnd.cycles[c].decided /\ r.state = mnd.cycles[c].state
  BY <1>2, <1>5 DEF Cycle
<1>7. w \in InternalWork /\ w.c = c
  BY <1>2 DEF InternalWork
<1> HIDE DEF r, st, w
<1>8. MandateKept(m)
  BY <1>2, <1>6, CycleKept
<1>9. Len(m.cycles) = c /\ m.cycles[c].state = "active" /\ m.turn.out = "none"
  <2>1. m.cycles = [mnd.cycles EXCEPT ![c] = r] /\ m.turn = mnd.turn
    BY <1>1 DEF Mandate
  <2>2. mnd.cycles \in Seq(Cycle)
    BY <1>1, MandateColumns
  <2>3. Len([mnd.cycles EXCEPT ![c] = r]) = c /\ [mnd.cycles EXCEPT ![c] = r][c] = r
    BY <1>2, <1>6, <2>2, CycleSet
  <2> QED
    BY <1>3, <1>6, <2>1, <2>3
<1> HIDE DEF m
<1> QED
  BY <1>2, <1>4, <1>7, <1>8, <1>9, WorkAdded

LEMMA ProposeActionKept ==
  ASSUME MandateKept(mnd), ProposeAction
  PROVE  MandateKept(mnd')
<1> DEFINE c == Len(mnd.cycles)
           t == [mnd.turn EXCEPT !.acted = TRUE]
           m == [mnd EXCEPT !.turn = t]
<1>1. mnd \in Mandate /\ SucceedsCommitted(mnd) /\ TurnPlaced(mnd)
  BY DEF MandateKept
<1>2. c \in Nat /\ c > 0 /\ mnd.turn \in MandateTurn /\ DOMAIN mnd.cycles = 1..c
  BY <1>1, MandateColumns DEF ProposeAction, Acting, TurnPlaced
<1>3. mnd' = [m EXCEPT !.cycles[c].action = "pending"]
  BY <1>1 DEF ProposeAction, Set, Newest, Mandate
<1>4. TurnFollows(mnd.turn, t)
  <2>1. t \in MandateTurn /\ t.out = mnd.turn.out /\ t.ok = mnd.turn.ok
    BY <1>2 DEF MandateTurn
  <2> HIDE DEF t
  <2> QED
    BY <1>1, <2>1 DEF TurnFollows, SucceedsCommitted
<1> HIDE DEF t
<1>5. MandateKept(m) /\ m.cycles = mnd.cycles
  <2>1. m.cycles = mnd.cycles
    BY <1>1 DEF Mandate
  <2> QED
    BY <1>2, <1>4, <2>1, TurnKept
<1> HIDE DEF m
<1>6. c \in DOMAIN m.cycles
  BY <1>2, <1>5
<1> QED
  BY <1>3, <1>5, <1>6, ActionMoved

\* What canClose() asks makes the end of the cycle one of reviewed work.
LEMMA CommitReviewKept ==
  ASSUME MandateKept(mnd), NEW out \in {"wait", "action_wait", "close", "stop"}, CommitReview(out)
  PROVE  MandateKept(mnd')
<1> DEFINE t == [mnd.turn EXCEPT !.out = out, !.st = "completed"]
           n == mnd'
<1>1. mnd \in Mandate /\ TurnPlaced(mnd)
  BY DEF MandateKept
<1>2. Len(mnd.cycles) > 0 /\ mnd.turn \in MandateTurn /\ Len(mnd.cycles) \in Nat
  BY <1>1, MandateColumns DEF CommitReview, Acting, TurnPlaced
<1>3. n = [mnd EXCEPT !.turn = t]
  BY <1>1 DEF CommitReview, Set, Mandate
<1>4. t \in MandateTurn /\ t.out = out
  BY <1>2 DEF MandateTurn
<1> HIDE DEF t
<1>5. /\ n.status = mnd.status /\ n.unres = mnd.unres /\ n.sched = mnd.sched /\ n.turn = t
      /\ n.cycles = mnd.cycles /\ n.works = mnd.works /\ n.occs = mnd.occs
      /\ n = [status |-> n.status, unres |-> n.unres, cycles |-> n.cycles, turn |-> n.turn, works |-> n.works,
              sched |-> n.sched, occs |-> n.occs]
  BY <1>1, <1>3 DEF Mandate
<1> HIDE DEF n
<1>6. n \in Mandate
  <2>1. [status |-> n.status, unres |-> n.unres, cycles |-> n.cycles, turn |-> n.turn, works |-> n.works,
              sched |-> n.sched, occs |-> n.occs] \in Mandate
    BY <1>1, <1>4, <1>5, MandateColumns DEF Mandate
  <2> QED
    BY <1>5, <2>1
<1>7. OneHeld(n) /\ Counted(n) /\ WorksPlaced(n)
  BY <1>5 DEF MandateKept, OneHeld, DueOrHeld, Counted, WorksPlaced
<1>8. ClosedWell(n)
  BY <1>5 DEF MandateKept, ClosedWell, Shown
<1>9. TurnPlaced(n) /\ SucceedsCommitted(n)
  BY <1>2, <1>4, <1>5 DEF TurnPlaced, SucceedsCommitted
<1>10. EndsWell(n)
  <2>1. ASSUME out \in {"close", "stop"} PROVE mnd.cycles[Len(mnd.cycles)].decided /\ Shown(mnd, Len(mnd.cycles))
    <3> DEFINE c == Len(mnd.cycles)
    <3>1. CanClose(mnd, out = "stop")
      BY <2>1 DEF CommitReview
    <3>2. mnd.cycles[c].decided /\ Unsettled(mnd) = {} /\ \A k \in InCycle(mnd, c) : mnd.works[k].delivered
      BY <3>1 DEF CanClose, Newest
    <3>3. ASSUME NEW k \in DOMAIN mnd.works, mnd.works[k].c = c
          PROVE  mnd.works[k].delivered /\ (mnd.works[k].kind = "task" => mnd.works[k].st = "done")
      <4>1. k \in InCycle(mnd, c)
        BY <3>3 DEF InCycle
      <4>2. WorkTerminal(mnd.works[k])
        BY <3>2, <4>1 DEF Unsettled, Newest
      <4> QED
        BY <3>2, <4>1, <4>2 DEF WorkTerminal
    <3> QED
      BY <3>2, <3>3 DEF Shown
  <2>2. Shown(mnd, Len(mnd.cycles)) => Shown(n, Len(mnd.cycles))
    BY <1>5 DEF Shown
  <2> QED
    BY <1>2, <1>4, <1>5, <2>1, <2>2 DEF EndsWell
<1> QED
  BY <1>6, <1>7, <1>8, <1>9, <1>10 DEF MandateKept, n

LEMMA FinishReviewKept ==
  ASSUME MandateKept(mnd), NEW completed \in BOOLEAN, NEW known \in BOOLEAN, FinishReview(completed, known)
  PROVE  MandateKept(mnd')
<1> DEFINE ok == completed /\ ~mnd.turn.stale /\ mnd.turn.out # "none" /\ AuthorizeReview(mnd)
           st == IF mnd.turn.st = "replying" THEN "undone" ELSE mnd.turn.st
           t == [mnd.turn EXCEPT !.run = FALSE, !.ok = ok, !.st = st]
           u == mnd.unres \/ ~known
           m == [mnd EXCEPT !.turn = t]
<1>1. mnd \in Mandate /\ SucceedsCommitted(mnd) /\ TurnPlaced(mnd)
  BY DEF MandateKept
<1>2. mnd.turn \in MandateTurn /\ Len(mnd.cycles) > 0
  <2>1. mnd.turn.run
    BY Zenon DEF FinishReview
  <2> QED
    BY <1>1, <2>1, MandateColumns DEF TurnPlaced
<1>3. mnd' = [m EXCEPT !.unres = u]
  BY <1>1 DEF FinishReview, Set, Mandate
<1>4. ok \in BOOLEAN /\ (ok => mnd.turn.out # "none") /\ u \in BOOLEAN
  OBVIOUS
<1>5. st \in {"none", "queued", "replying", "completed", "undone", "cancelled"}
  BY <1>2 DEF MandateTurn
<1> HIDE DEF ok, st, u
<1>6. TurnFollows(mnd.turn, t)
  <2>1. \A b \in BOOLEAN : LET v == [mnd.turn EXCEPT !.run = FALSE, !.ok = b, !.st = st]
                           IN v \in MandateTurn /\ v.out = mnd.turn.out /\ v.ok = b
    BY <1>2, <1>5 DEF MandateTurn
  <2>2. t \in MandateTurn /\ t.out = mnd.turn.out /\ t.ok = ok
    BY <1>4, <2>1
  <2> HIDE DEF t
  <2> QED
    BY <1>4, <2>2 DEF TurnFollows
<1> HIDE DEF t
<1>7. MandateKept(m)
  BY <1>2, <1>6, TurnKept
<1> HIDE DEF m
<1> QED
  BY <1>3, <1>4, <1>7, UnresKept

\* The work of a cycle, its action and the pass of the dispatcher.
LEMMA WorkKept ==
  ASSUME MandateKept(mnd), NEW k \in DOMAIN mnd.works,
         TaskStarts(k) \/ GroupReopens(k) \/ \E st \in {"blocked", "done"} : WorkEnds(k, st)
  PROVE  MandateKept(mnd')
<1>1. CASE TaskStarts(k)
  <2>1. mnd' = [mnd EXCEPT !.works[k].st = "running"] /\ mnd.works[k].st = "queued"
    BY <1>1 DEF TaskStarts, Set
  <2> QED
    BY <2>1, WorkMoved
<1>2. CASE GroupReopens(k)
  <2>1. mnd' = [mnd EXCEPT !.works[k].st = "running"] /\ mnd.works[k].st = "blocked"
    BY <1>2 DEF GroupReopens, Intervene
  <2> QED
    BY <2>1, WorkMoved
<1>3. ASSUME NEW st \in {"blocked", "done"}, WorkEnds(k, st) PROVE MandateKept(mnd')
  <2>1. mnd' = [mnd EXCEPT !.works[k].st = st] /\ (mnd.works[k].st = "running" \/ st = "done")
    BY <1>3 DEF WorkEnds, Set
  <2> QED
    BY <2>1, WorkMoved
<1> QED
  BY <1>1, <1>2, <1>3

LEMMA ActionSettlesKept ==
  ASSUME MandateKept(mnd), NEW c \in DOMAIN mnd.cycles, ActionSettles(c)
  PROVE  MandateKept(mnd')
<1>1. mnd' = [mnd EXCEPT !.cycles[c].action = "settled"]
  BY DEF ActionSettles, Set
<1> QED
  BY <1>1, ActionMoved

LEMMA WakeKept ==
  ASSUME MandateKept(mnd), clock \in Nat, Wake
  PROVE  MandateKept(mnd')
<1>1. CASE mnd' = ProgressCycle(mnd)
  BY <1>1, ProgressCycleKept
<1>2. ASSUME NEW n \in 0..Len(TickSchedule(ProgressCycle(mnd)).occs), mnd' = PassUpTo(mnd, n) PROVE MandateKept(mnd')
  <2>1. n \in Nat
    BY <1>2
  <2> QED
    BY <1>2, <2>1, PassKept
<1> QED
  BY <1>1, <1>2, Zenon DEF Wake, Set

MandatesInv == MandatesTypeOK /\ MandateKept(mnd)

LEMMA MandateStart ==
  ASSUME MandatesInit
  PROVE  MandatesInv
<1>1. clock \in 0..ClockBound /\ owner \in 0..OwnerBound /\ halted \in BOOLEAN
  <2>1. clock = 0 /\ owner = 0
    BY Zenon DEF MandatesInit
  <2>2. halted \in BOOLEAN
    BY Zenon DEF MandatesInit
  <2>3. 0 \in 0..ClockBound /\ 0 \in 0..OwnerBound
    BY MandatesConstants
  <2> QED
    BY <2>1, <2>2, <2>3
<1> DEFINE sc == [status |-> "none", version |-> 0, due |-> 0, end |-> 0, consumed |-> 0, limit |-> 0]
<1>2. mnd = [status |-> "draft", unres |-> FALSE, cycles |-> <<>>, turn |-> NoTurn, works |-> <<>>, occs |-> <<>>, sched |-> sc]
  BY DEF MandatesInit
<1>3. sc \in ReviewSchedule /\ sc.consumed = 0
  BY MandatesConstants DEF ReviewSchedule
<1>4. NoTurn \in MandateTurn /\ NoTurn.st = "none" /\ ~NoTurn.run /\ NoTurn.out = "none" /\ ~NoTurn.ok
  BY DEF NoTurn, MandateTurn
<1>5. <<>> \in Seq(Cycle) /\ <<>> \in Seq(InternalWork) /\ <<>> \in Seq(Occurrence)
  BY EmptySeq
<1> HIDE DEF sc
<1>6. mnd \in Mandate
  BY <1>2, <1>3, <1>4, <1>5 DEF Mandate
<1>7. /\ mnd.cycles = <<>> /\ mnd.works = <<>> /\ mnd.occs = <<>> /\ mnd.turn = NoTurn /\ mnd.sched = sc
  BY <1>2
<1>8. DOMAIN mnd.cycles = {} /\ DOMAIN mnd.works = {} /\ DOMAIN mnd.occs = {}
  BY <1>7
<1>9. OneHeld(mnd) /\ WorksPlaced(mnd) /\ ClosedWell(mnd)
  BY <1>8 DEF OneHeld, DueOrHeld, WorksPlaced, ClosedWell
<1>10. TurnPlaced(mnd) /\ EndsWell(mnd) /\ SucceedsCommitted(mnd)
  BY <1>4, <1>7 DEF TurnPlaced, EndsWell, SucceedsCommitted
<1>11. Counted(mnd)
  <2>1. Instants(mnd.occs) = {}
    BY <1>8 DEF Instants
  <2> QED
    BY <1>3, <1>7, <2>1, FS_EmptySet DEF Counted, CountIs
<1> QED
  BY <1>1, <1>6, <1>9, <1>10, <1>11 DEF MandatesInv, MandatesTypeOK, MandateKept

LEMMA MandateClock ==
  ASSUME MandatesTypeOK, MandatesNext
  PROVE  clock' \in 0..ClockBound /\ owner' \in 0..OwnerBound /\ halted' \in BOOLEAN
<1> USE MandatesConstants DEF MandatesTypeOK
<1>1. ASSUME NEW m, Set(m) PROVE clock' = clock /\ owner' = owner /\ halted' = halted
  BY <1>1 DEF Set
<1>2. ASSUME NEW m, Intervene(m) PROVE clock' = clock /\ owner' \in 0..OwnerBound /\ halted' = halted
  BY <1>2 DEF Intervene
<1>3. CASE HaltCompany
  BY <1>3 DEF HaltCompany
<1>4. CASE ResumeCompany
  BY <1>4 DEF ResumeCompany
<1>5. CASE ClockTicks
  BY <1>5 DEF ClockTicks
<1>6. CASE \E m : Set(m) \/ Intervene(m)
  BY <1>1, <1>2, <1>6
<1>7. MandatesNext => HaltCompany \/ ResumeCompany \/ ClockTicks \/ \E m : Set(m) \/ Intervene(m)
  BY Zenon DEF MandatesNext, Activate, PauseMandate, ResumeMandate, ReviewNow, Stop, WithdrawObservation, SaveSchedule, ControlSchedule,
        ClaimReview, RecordDecision, AssignTask, ConveneGroup, Assign, ProposeAction, CommitReview, FinishReview,
        TaskStarts, GroupReopens, WorkEnds, ActionSettles, Wake
<1> QED
  BY <1>3, <1>4, <1>5, <1>6, <1>7

LEMMA MandatesSteps ==
  ASSUME MandatesInv, MandatesNext \/ UNCHANGED mndVars
  PROVE  MandatesInv'
<1>1. MandateKept(mnd) /\ MandatesTypeOK /\ clock \in Nat
  BY MandatesConstants DEF MandatesInv, MandatesTypeOK
<1>2. CASE UNCHANGED mndVars
  BY <1>1, <1>2 DEF mndVars, MandatesInv, MandatesTypeOK
<1>3. ASSUME MandatesNext PROVE MandateKept(mnd')
  <2>1. CASE HaltCompany \/ ResumeCompany \/ ClockTicks
    <3>1. mnd' = mnd
      BY <2>1 DEF HaltCompany, ResumeCompany, ClockTicks
    <3> QED
      BY <1>1, <3>1
  <2>2. CASE Activate \/ ReviewNow \/ PauseMandate \/ ResumeMandate \/ Stop
    BY <1>1, <2>2, ActivateKept
  <2>3. CASE \E given \in SUBSET (DOMAIN mnd.works) : WithdrawObservation(given)
    BY <1>1, <2>3, WithdrawObservationKept
  <2>4. CASE \E due, end \in 1..ClockBound, limit \in 1..MaxOccurrences : SaveSchedule(due, end, limit)
    BY <1>1, <2>4, SaveScheduleKept
  <2>5. CASE \E action \in {"pause", "resume", "cancel"} : ControlSchedule(action)
    BY <1>1, <2>5, ControlScheduleKept
  <2>6. CASE ClaimReview
    BY <1>1, <2>6, ClaimReviewKept
  <2>7. CASE RecordDecision
    BY <1>1, <2>7, RecordDecisionKept
  <2>8. CASE AssignTask \/ ConveneGroup
    BY <1>1, <2>8, AssignKept, MandatesConstants DEF AssignTask, ConveneGroup
  <2>9. CASE ProposeAction
    BY <1>1, <2>9, ProposeActionKept
  <2>10. CASE \E out \in {"wait", "action_wait", "close", "stop"} : CommitReview(out)
    BY <1>1, <2>10, CommitReviewKept
  <2>11. CASE \E completed, known \in BOOLEAN : FinishReview(completed, known)
    BY <1>1, <2>11, FinishReviewKept
  <2>12. CASE \E k \in DOMAIN mnd.works : TaskStarts(k) \/ GroupReopens(k) \/ \E st \in {"blocked", "done"} : WorkEnds(k, st)
    BY <1>1, <2>12, WorkKept
  <2>13. CASE \E c \in DOMAIN mnd.cycles : ActionSettles(c)
    BY <1>1, <2>13, ActionSettlesKept
  <2>14. CASE Wake
    BY <1>1, <2>14, WakeKept
  <2> QED
    BY <1>3, <2>1, <2>2, <2>3, <2>4, <2>5, <2>6, <2>7, <2>8, <2>9, <2>10, <2>11, <2>12, <2>13, <2>14 DEF MandatesNext
<1>4. ASSUME MandatesNext PROVE MandatesInv'
  <2>1. mnd' \in Mandate
    BY <1>3, <1>4 DEF MandateKept
  <2>2. clock' \in 0..ClockBound /\ owner' \in 0..OwnerBound /\ halted' \in BOOLEAN
    BY <1>1, <1>4, MandateClock
  <2>3. MandatesTypeOK'
    BY <2>1, <2>2 DEF MandatesTypeOK
  <2> QED
    BY <1>3, <1>4, <2>3 DEF MandatesInv
<1> QED
  BY <1>2, <1>4

LEMMA MandatesReviewed ==
  ASSUME MandatesInv
  PROVE  DueOnce /\ ClosedReviewed
<1>1. DueOnce
  BY DEF MandatesInv, MandateKept, Counted, CountIs, Instants, DueOnce
<1>2. ClosedReviewed
  BY DEF MandatesInv, MandateKept, ClosedWell, Shown, InCycle, ClosedReviewed
<1> QED
  BY <1>1, <1>2

\* The rows of a mandate have their types, a review past the envelope is never
\* reserved (mandates.ts: enqueue, reserve).
THEOREM MandatesTyped == MandatesSpec => []MandatesTypeOK
<1>1. MandatesInit => MandatesInv
  BY MandateStart
<1>2. MandatesInv /\ [MandatesNext]_mndVars => MandatesInv'
  BY MandatesSteps
<1>3. MandatesInv => MandatesTypeOK
  BY DEF MandatesInv
<1> QED
  BY <1>1, <1>2, <1>3, PTL DEF MandatesSpec
=============================================================================
