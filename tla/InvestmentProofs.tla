-------------------------- MODULE InvestmentProofs --------------------------
(***************************************************************************)
(* The paper loop and the publication of its journal (PaperHolds and       *)
(* ChannelTrue of MCMarket), for every number of sessions, holds, jobs and *)
(* lives of HQ.                                                            *)
(*                                                                         *)
(* A tick of the loop runs its whole agenda on a copy of the state, so     *)
(* what it keeps (Held) and what it never does over (Stays) are shown of   *)
(* each operation on a copy, and of the agenda by its smallest             *)
(* counterexample.                                                         *)
(*                                                                         *)
(* The channel's invariant relates the rows of the database, of its backup *)
(* and of the permit of a clean stop to what the receiver holds: wherever  *)
(* two of them share a batch they share all before it (Agree), and what is *)
(* held of any came in its order (Continued).  A request of a dead HQ is   *)
(* the next batch in all of them, or held (Fits); while the receiver would *)
(* take it HQ may not deliver, because every way back to delivering (a new *)
(* generation, or a permit of this one) has outlived it (LateKept,         *)
(* PermitKept).  Then the watermark that a reconciliation asks for shows   *)
(* the rows to be the receiver's whole history (Watermark, Told).          *)
(***************************************************************************)
EXTENDS MCMarket, WellFoundedInduction, FiniteSetTheorems, SequenceTheorems, TLAPS

\* A set of numbers that is not empty has a smallest one.
LEMMA Smallest ==
  ASSUME NEW S \in SUBSET Nat, S # {}
  PROVE  \E k \in S : \A j \in S : k <= j
<1> DEFINE R == {p \in Nat \X Nat : p[1] < p[2]}
<1>1. IsWellFoundedOn(R, Nat)
  BY NatLessThanWellFounded DEF OpToRel
<1>2. PICK k \in S : \A j \in S : ~ (<<j, k>> \in R)
  BY <1>1, WFMin
<1>3. \A j \in S : ~ (j < k) /\ j \in Nat /\ k \in Nat
  BY <1>2
<1> QED
  BY <1>3

-----------------------------------------------------------------------------
(* The paper loop.                                                         *)

\* The copies of the state that a tick works on.
PaperStates == [loop : Loop, occ : Occurrences, talk : Talk, paper : Portfolio]

\* Whatever is not active has no pending order; a loop that is held or over has
\* a run that is too, and no research; a turn that runs while the discussion is
\* open is of the current research.
Held(s) ==
    /\ s \in PaperStates
    /\ s.loop.st \notin {"draft", "active"} => s.paper.life # "active" /\ Researching(s) = {}
    /\ s.paper.life # "active" => \A d \in Session : s.paper.order[d] # "pending"
    /\ s.talk.group = "active" => \A d \in ActiveExecutions(s) : d \in Researching(s) /\ s.talk.gen[d] = s.loop.gen

\* What ended in s has stayed so in t.
Stays(s, t) ==
    /\ \A x \in Session \X Stage : s.occ.st[x] \notin {"pending", "running"} => t.occ.st[x] = s.occ.st[x]
    /\ \A d \in Session : s.paper.order[d] \notin {"none", "pending"} => t.paper.order[d] = s.paper.order[d]

LEMMA StaysOn == ASSUME NEW s, NEW t, NEW u, Stays(s, t), Stays(t, u) PROVE Stays(s, u)
  BY DEF Stays

OccStates == {"pending", "running", "complete", "missed", "blocked", "cancelled"}
Groups == {"draft", "active", "paused", "blocked", "completed", "stopped"}

LEMMA PaperFields ==
  ASSUME NEW s \in PaperStates
  PROVE  /\ s = [loop |-> s.loop, occ |-> s.occ, talk |-> s.talk, paper |-> s.paper]
         /\ s.loop \in Loop /\ s.occ \in Occurrences /\ s.talk \in Talk /\ s.paper \in Portfolio
         /\ s.loop.gen \in Nat /\ s.loop.clock \in 0..Horizon /\ s.loop.clear \in BOOLEAN
         /\ s.occ.st \in [Session \X Stage -> OccStates] /\ s.occ.gen \in [Session -> Nat]
         /\ s.talk.group \in Groups /\ s.talk.turn \in [Session -> {"none", "queued", "running"}] /\ s.talk.gen \in [Session -> Nat]
         /\ s.paper.ready \in [Session -> BOOLEAN]
         /\ s.paper.life \in {"active", "paused", "ended"}
         /\ s.paper.order \in [Session -> {"none", "pending", "filled", "expired", "cancelled", "rejected"}]
  BY DEF PaperStates, Loop, Occurrences, Talk, Portfolio, OccStates, Groups

\* The ledger's control command.
LEMMA Controls ==
  ASSUME NEW s \in PaperStates, NEW life \in {"active", "paused", "ended"},
         s.paper.life # "active" => \A d \in Session : s.paper.order[d] # "pending"
  PROVE  LET t == ControlRun(s, life) IN
         /\ t \in PaperStates /\ t.loop = s.loop /\ t.occ = s.occ /\ t.talk = s.talk /\ Stays(s, t)
         /\ t.paper.life # "active" => \A d \in Session : t.paper.order[d] # "pending"
         /\ life # "active" => t.paper.life # "active"
         /\ life = "active" /\ s.paper.life # "ended" => t.paper.life = "active"
<1> DEFINE t == ControlRun(s, life)
<1>1. CASE s.paper.life = "ended" /\ life # "ended"
  <2>1. t = s
    BY <1>1 DEF ControlRun
  <2> QED
    BY <1>1, <2>1 DEF Stays
<1>2. CASE ~(s.paper.life = "ended" /\ life # "ended")
  <2> DEFINE order == [d \in Session |-> IF life # "active" /\ s.paper.order[d] = "pending" THEN "cancelled" ELSE s.paper.order[d]]
  <2>1. t = [s EXCEPT !.paper.life = life, !.paper.order = order]
    BY <1>2 DEF ControlRun
  <2>2. order \in [Session -> {"none", "pending", "filled", "expired", "cancelled", "rejected"}]
    BY PaperFields
  <2>3. \A d \in Session : order[d] = IF life # "active" /\ s.paper.order[d] = "pending" THEN "cancelled" ELSE s.paper.order[d]
    OBVIOUS
  <2> HIDE DEF t, order
  <2>4. t \in PaperStates
    BY <2>1, <2>2 DEF PaperStates, Portfolio
  <2>5. t.loop = s.loop /\ t.occ = s.occ /\ t.talk = s.talk /\ t.paper.life = life /\ t.paper.order = order
    BY <2>1 DEF PaperStates, Portfolio
  <2>6. Stays(s, t)
    BY <2>3, <2>5 DEF Stays
  <2>7. life # "active" => \A d \in Session : order[d] # "pending"
    BY <2>3
  <2> QED
    BY <2>4, <2>5, <2>6, <2>7 DEF t
<1> QED
  BY <1>1, <1>2

LEMMA Cancels ==
  ASSUME NEW s \in PaperStates
  PROVE  LET t == CancelModel(s) IN
         /\ t \in PaperStates /\ t.loop = s.loop /\ t.occ = s.occ /\ t.paper = s.paper /\ t.talk.group # "active"
         /\ ActiveExecutions(t) = ActiveExecutions(s) /\ Researching(t) = Researching(s) /\ Stays(s, t)
<1> DEFINE t == CancelModel(s)
           turn == [d \in Session |-> IF s.talk.turn[d] = "queued" THEN "none" ELSE s.talk.turn[d]]
           group == IF s.talk.group \in {"completed", "stopped", "draft"} THEN s.talk.group ELSE "paused"
<1>1. t = [s EXCEPT !.talk.turn = turn, !.talk.group = group]
  BY DEF CancelModel
<1>2. turn \in [Session -> {"none", "queued", "running"}] /\ group \in Groups /\ group # "active"
  BY PaperFields DEF Groups
<1>3. \A d \in Session : turn[d] = "running" <=> s.talk.turn[d] = "running"
  OBVIOUS
<1> HIDE DEF t, turn, group
<1>4. t \in PaperStates
  BY <1>1, <1>2 DEF PaperStates, Talk, Groups
<1>5. t.loop = s.loop /\ t.occ = s.occ /\ t.paper = s.paper /\ t.talk.turn = turn /\ t.talk.group = group
  BY <1>1 DEF PaperStates, Talk
<1>6. ActiveExecutions(t) = ActiveExecutions(s) /\ Researching(t) = Researching(s)
  BY <1>3, <1>5 DEF ActiveExecutions, Researching
<1>7. Stays(s, t)
  BY <1>5 DEF Stays
<1> QED
  BY <1>2, <1>4, <1>5, <1>6, <1>7 DEF t

\* Blocking holds the loop, its discussions and its run.
LEMMA Blocks ==
  ASSUME NEW s \in PaperStates, s.paper.life # "active" => \A d \in Session : s.paper.order[d] # "pending"
  PROVE  LET t == Block(s) IN
         /\ Held(t) /\ Stays(s, t) /\ t.loop.st = "blocked" /\ t.loop.clock = s.loop.clock /\ t.talk.group # "active"
         /\ \A x \in Session \X Stage : t.occ.st[x] = s.occ.st[x] \/ (s.occ.st[x] = "running" /\ t.occ.st[x] = "blocked")
<1> DEFINE a == [s EXCEPT !.loop.st = "blocked", !.loop.gen = @ + 1]
           b == CancelModel(a)
           st == [x \in Session \X Stage |-> IF b.occ.st[x] = "running" THEN "blocked" ELSE b.occ.st[x]]
           c == [b EXCEPT !.occ.st = st]
           t == ControlRun(c, "paused")
<1>1. Block(s) = t
  BY DEF Block, BlockDiscussion
<1>2. a \in PaperStates /\ a.occ = s.occ /\ a.paper = s.paper /\ a.loop.st = "blocked" /\ a.loop.clock = s.loop.clock
  <2>1. s.loop.gen + 1 \in Nat
    BY PaperFields
  <2> DEFINE n == s.loop.gen + 1
  <2>2. a = [s EXCEPT !.loop.st = "blocked", !.loop.gen = n]
    OBVIOUS
  <2> HIDE DEF a, n
  <2> QED
    BY <2>1, <2>2 DEF PaperStates, Loop, n
<1> HIDE DEF a
<1>3. b \in PaperStates /\ b.loop = a.loop /\ b.occ = a.occ /\ b.paper = a.paper /\ b.talk.group # "active"
  BY <1>2, Cancels
<1> HIDE DEF b
<1>4. st \in [Session \X Stage -> OccStates]
  BY <1>3, PaperFields DEF OccStates
<1>5. \A x \in Session \X Stage : st[x] = IF s.occ.st[x] = "running" THEN "blocked" ELSE s.occ.st[x]
  BY <1>2, <1>3
<1> HIDE DEF st
<1>6. c \in PaperStates
  BY <1>3, <1>4 DEF PaperStates, Occurrences, OccStates
<1>7. c.loop = b.loop /\ c.talk = b.talk /\ c.paper = b.paper /\ c.occ.st = st
  BY <1>3 DEF PaperStates, Occurrences
<1> HIDE DEF c
<1>8. /\ t \in PaperStates /\ t.loop = c.loop /\ t.occ = c.occ /\ t.talk = c.talk /\ Stays(c, t)
      /\ t.paper.life # "active" /\ \A d \in Session : t.paper.order[d] # "pending"
  BY <1>2, <1>3, <1>6, <1>7, Controls
<1> HIDE DEF t
<1>9. Stays(s, c)
  BY <1>2, <1>3, <1>5, <1>7 DEF Stays
<1>10. Researching(t) = {}
  <2>1. \A d \in Session : <<d, "research">> \in Session \X Stage
    BY DEF Stage
  <2> QED
    BY <2>1, <1>5, <1>7, <1>8 DEF Researching
<1>11. Held(t)
  BY <1>2, <1>3, <1>7, <1>8, <1>10 DEF Held
<1>12. Stays(s, t)
  BY <1>8, <1>9, StaysOn
<1>13. \A x \in Session \X Stage : t.occ.st[x] = s.occ.st[x] \/ (s.occ.st[x] = "running" /\ t.occ.st[x] = "blocked")
  BY <1>5, <1>7, <1>8
<1>14. t.loop.st = "blocked" /\ t.loop.clock = s.loop.clock /\ t.talk.group # "active"
  BY <1>2, <1>3, <1>7, <1>8
<1> QED
  BY <1>1, <1>11, <1>12, <1>13, <1>14

\* Putting an occurrence into a state.
LEMMA Sets ==
  ASSUME NEW s \in PaperStates, NEW d \in Session, NEW stage \in Stage, NEW v \in OccStates
  PROVE  LET t == Set(s, d, stage, v) IN
         /\ t \in PaperStates /\ t.loop = s.loop /\ t.talk = s.talk /\ t.paper = s.paper /\ t.occ.gen = s.occ.gen
         /\ t.occ.st[<<d, stage>>] = v
         /\ \A x \in Session \X Stage : x # <<d, stage>> => t.occ.st[x] = s.occ.st[x]
         /\ s.occ.st[<<d, stage>>] \in {"pending", "running"} => Stays(s, t)
         /\ \A e \in Session : e # d \/ stage # "research" => (e \in Researching(t) <=> e \in Researching(s))
<1> DEFINE t == Set(s, d, stage, v)
           st == [s.occ.st EXCEPT ![<<d, stage>>] = v]
<1>1. t = [s EXCEPT !.occ.st = st]
  BY DEF Set
<1>2. /\ st \in [Session \X Stage -> OccStates] /\ st[<<d, stage>>] = v
      /\ \A x \in Session \X Stage : x # <<d, stage>> => st[x] = s.occ.st[x]
  BY PaperFields
<1> HIDE DEF t, st
<1>3. t \in PaperStates
  BY <1>1, <1>2 DEF PaperStates, Occurrences, OccStates
<1>4. t.loop = s.loop /\ t.talk = s.talk /\ t.paper = s.paper /\ t.occ.gen = s.occ.gen /\ t.occ.st = st
  BY <1>1 DEF PaperStates, Occurrences
<1>5. s.occ.st[<<d, stage>>] \in {"pending", "running"} => Stays(s, t)
  BY <1>2, <1>4 DEF Stays
<1>6. ASSUME NEW e \in Session, e # d \/ stage # "research" PROVE e \in Researching(t) <=> e \in Researching(s)
  <2>1. <<e, "research">> \in Session \X Stage /\ <<e, "research">> # <<d, stage>>
    BY <1>6 DEF Stage
  <2> QED
    BY <2>1, <1>2, <1>4 DEF Researching
<1> QED
  BY <1>2, <1>3, <1>4, <1>5, <1>6 DEF t

\* Trusted cleanup.
LEMMA Cleans ==
  ASSUME NEW s, Held(s)
  PROVE  Held(Cleanup(s)) /\ Stays(s, Cleanup(s)) /\ Cleanup(s).loop = s.loop
<1> DEFINE t == Cleanup(s)
           due == {d \in Session : s.occ.st[<<d, "expire">>] = "pending" /\ Due(d, "expire") <= s.loop.clock}
           st == [x \in Session \X Stage |-> IF x[1] \in due /\ x[2] = "expire" THEN "complete" ELSE s.occ.st[x]]
           order == [d \in Session |-> IF d \in due /\ s.paper.order[d] = "pending" THEN "expired" ELSE s.paper.order[d]]
<1>1. t = [s EXCEPT !.occ.st = st, !.paper.order = order]
  BY DEF Cleanup
<1>2. s \in PaperStates
  BY DEF Held
<1>3. /\ st \in [Session \X Stage -> OccStates]
      /\ order \in [Session -> {"none", "pending", "filled", "expired", "cancelled", "rejected"}]
  BY <1>2, PaperFields DEF OccStates
<1>4. \A x \in Session \X Stage : st[x] = s.occ.st[x] \/ (x[2] = "expire" /\ s.occ.st[x] = "pending" /\ st[x] = "complete")
  <2> TAKE x \in Session \X Stage
  <2>1. x = <<x[1], x[2]>>
    OBVIOUS
  <2> QED
    BY <2>1
<1>5. \A d \in Session : order[d] = s.paper.order[d] \/ (s.paper.order[d] = "pending" /\ order[d] = "expired")
  OBVIOUS
<1> HIDE DEF t, due, st, order
<1>6. t \in PaperStates
  BY <1>1, <1>2, <1>3 DEF PaperStates, Occurrences, Portfolio, OccStates
<1>7. t.loop = s.loop /\ t.talk = s.talk /\ t.paper.life = s.paper.life /\ t.paper.order = order /\ t.occ.st = st
  BY <1>1, <1>2 DEF PaperStates, Occurrences, Portfolio
<1>8. Stays(s, t)
  BY <1>4, <1>5, <1>7 DEF Stays
<1>9. Researching(t) = Researching(s) /\ ActiveExecutions(t) = ActiveExecutions(s)
  <2>1. \A d \in Session : <<d, "research">> \in Session \X Stage /\ <<d, "research">>[2] # "expire"
    BY DEF Stage
  <2>2. \A d \in Session : t.occ.st[<<d, "research">>] = s.occ.st[<<d, "research">>]
    BY <2>1, <1>4, <1>7
  <2> QED
    BY <2>2, <1>7 DEF Researching, ActiveExecutions
<1>10. Held(t)
  BY <1>5, <1>6, <1>7, <1>9 DEF Held
<1> QED
  BY <1>7, <1>8, <1>10 DEF t

\* Research that is late is missed, and its discussion cancelled.
LEMMA Expires ==
  ASSUME NEW s, Held(s)
  PROVE  Held(ExpireResearch(s)) /\ Stays(s, ExpireResearch(s)) /\ ExpireResearch(s).loop = s.loop
<1> DEFINE late == {d \in Researching(s) : s.loop.clock >= WindowEnds(d, "research")}
           st == [x \in Session \X Stage |-> IF x[1] \notin late THEN s.occ.st[x]
                                             ELSE CASE x[2] = "research" -> "missed"
                                                    [] x[2] = "cutoff" /\ s.occ.st[x] = "pending" -> "complete"
                                                    [] OTHER -> s.occ.st[x]]
           a == [s EXCEPT !.occ.st = st]
           t == CancelModel(a)
<1>1. ExpireResearch(s) = IF late = {} THEN s ELSE t
  BY DEF ExpireResearch
<1>2. s \in PaperStates
  BY DEF Held
<1>3. CASE late = {}
  BY <1>1, <1>3 DEF Stays
<1>4. CASE late # {}
  <2>1. st \in [Session \X Stage -> OccStates]
    BY <1>2, PaperFields DEF OccStates
  <2>2. \A x \in Session \X Stage : s.occ.st[x] \notin {"pending", "running"} => st[x] = s.occ.st[x]
    <3> TAKE x \in Session \X Stage
    <3>1. x = <<x[1], x[2]>>
      OBVIOUS
    <3>2. x[1] \in late => s.occ.st[<<x[1], "research">>] = "running"
      BY DEF Researching
    <3> QED
      BY <3>1, <3>2
  <2>3. s.loop.st \in {"draft", "active"}
    BY <1>4 DEF Held
  <2> HIDE DEF st, late
  <2>4. a \in PaperStates
    BY <1>2, <2>1 DEF PaperStates, Occurrences, OccStates
  <2>5. a.loop = s.loop /\ a.talk = s.talk /\ a.paper = s.paper /\ a.occ.st = st
    BY <1>2 DEF PaperStates, Occurrences
  <2>6. Stays(s, a)
    BY <2>2, <2>5 DEF Stays
  <2> HIDE DEF a
  <2>7. /\ t \in PaperStates /\ t.loop = a.loop /\ t.paper = a.paper /\ t.talk.group # "active" /\ Stays(a, t)
    BY <2>4, Cancels
  <2> HIDE DEF t
  <2>8. Held(t)
    BY <2>3, <2>5, <2>7 DEF Held
  <2>9. Stays(s, t)
    BY <2>6, <2>7, StaysOn
  <2> QED
    BY <1>1, <1>4, <2>5, <2>7, <2>8, <2>9
<1> QED
  BY <1>3, <1>4

\* A research occurrence that falls due.
LEMMA StartsResearch ==
  ASSUME NEW s, Held(s), s.loop.st = "active", NEW d \in Session, s.occ.st[<<d, "research">>] = "pending", NEW how
  PROVE  Held(StartResearch(s, d, how)) /\ Stays(s, StartResearch(s, d, how))
<1> DEFINE t == StartResearch(s, d, how)
<1>1. s \in PaperStates /\ "research" \in Stage /\ d \notin Researching(s)
  BY DEF Held, Stage, Researching
<1>2. CASE s.loop.clock >= WindowEnds(d, "research")
  <2> DEFINE a == Set(s, d, "research", "missed")
  <2>1. t = a
    BY <1>2 DEF StartResearch
  <2>2. /\ a \in PaperStates /\ a.loop = s.loop /\ a.talk = s.talk /\ a.paper = s.paper /\ Stays(s, a)
        /\ a.occ.st[<<d, "research">>] = "missed"
        /\ \A e \in Session : e # d => (e \in Researching(a) <=> e \in Researching(s))
    <3>1. "missed" \in OccStates
      BY DEF OccStates
    <3> QED
      BY <1>1, <3>1, Sets
  <2> HIDE DEF a
  <2>3. d \notin Researching(a)
    BY <2>2 DEF Researching
  <2>4. Researching(a) = Researching(s) /\ ActiveExecutions(a) = ActiveExecutions(s)
    BY <1>1, <2>2, <2>3 DEF Researching, ActiveExecutions
  <2>5. Held(a)
    BY <2>2, <2>4 DEF Held
  <2> QED
    BY <2>1, <2>2, <2>5
<1>3. CASE ~(s.loop.clock >= WindowEnds(d, "research")) /\ how = "wait"
  <2>1. t = s
    BY <1>3 DEF StartResearch
  <2> QED
    BY <2>1 DEF Stays
<1>4. CASE ~(s.loop.clock >= WindowEnds(d, "research")) /\ how # "wait" /\ ~Prepared(s, d, how)
  <2> DEFINE b == Block(s)
             a == Set(b, d, "research", "blocked")
  <2>1. t = a
    BY <1>4 DEF StartResearch
  <2>2. /\ Held(b) /\ Stays(s, b) /\ b.loop.st = "blocked" /\ b.talk.group # "active"
        /\ \A x \in Session \X Stage : b.occ.st[x] = s.occ.st[x] \/ (s.occ.st[x] = "running" /\ b.occ.st[x] = "blocked")
    BY <1>1, Blocks DEF Held
  <2>3. b.occ.st[<<d, "research">>] = "pending"
    BY <1>1, <2>2
  <2> HIDE DEF b
  <2>4. /\ a \in PaperStates /\ a.loop = b.loop /\ a.talk = b.talk /\ a.paper = b.paper /\ Stays(b, a)
        /\ a.occ.st[<<d, "research">>] = "blocked"
        /\ \A e \in Session : e # d => (e \in Researching(a) <=> e \in Researching(b))
    <3>1. "blocked" \in OccStates /\ b \in PaperStates
      BY <2>2 DEF OccStates, Held
    <3> QED
      BY <1>1, <2>3, <3>1, Sets
  <2> HIDE DEF a
  <2>5. d \notin Researching(a) /\ Researching(b) = {}
    BY <2>2, <2>4 DEF Researching, Held
  <2>6. Researching(a) = {}
    BY <2>4, <2>5 DEF Researching
  <2>7. Held(a)
    BY <2>2, <2>4, <2>6 DEF Held
  <2>8. Stays(s, a)
    BY <2>2, <2>4, StaysOn
  <2> QED
    BY <2>1, <2>7, <2>8
<1>5. CASE ~(s.loop.clock >= WindowEnds(d, "research")) /\ how # "wait" /\ Prepared(s, d, how)
  <2> DEFINE a == Set(s, d, "research", "running")
             g == s.loop.gen
             b == [a EXCEPT !.occ.gen[d] = g, !.talk.group = "active", !.talk.turn[d] = "queued", !.talk.gen[d] = g]
  <2>1. t = b
    BY <1>5 DEF StartResearch
  <2>2. a \in PaperStates /\ a.loop = s.loop /\ a.talk = s.talk /\ a.paper = s.paper /\ Stays(s, a)
    <3>1. "running" \in OccStates
      BY DEF OccStates
    <3> QED
      BY <1>1, <3>1, Sets
  <2>3. ActiveExecutions(s) = {} /\ g \in Nat
    BY <1>1, <1>5, PaperFields DEF Prepared
  <2> HIDE DEF a, g
  <2>4. b \in PaperStates
    BY <2>2, <2>3 DEF PaperStates, Occurrences, Talk
  <2>5. /\ b.loop = a.loop /\ b.paper = a.paper /\ b.occ.st = a.occ.st
        /\ \A e \in Session : b.talk.turn[e] = a.talk.turn[e] \/ b.talk.turn[e] = "queued"
    BY <2>2 DEF PaperStates, Occurrences, Talk
  <2> HIDE DEF b
  <2>6. ActiveExecutions(b) = {}
    BY <2>2, <2>3, <2>5 DEF ActiveExecutions
  <2>7. Held(b)
    BY <2>2, <2>4, <2>5, <2>6 DEF Held
  <2>8. Stays(s, b)
    BY <2>2, <2>5 DEF Stays
  <2> QED
    BY <2>1, <2>7, <2>8
<1> QED
  BY <1>2, <1>3, <1>4, <1>5

\* A fill.
LEMMA Fills ==
  ASSUME NEW s, Held(s), NEW d \in Session, NEW how
  PROVE  LET t == Fill(s, d, how) IN Held(t) /\ Stays(s, t) /\ t.occ = s.occ /\ t.loop = s.loop
<1> DEFINE t == Fill(s, d, how)
           st == IF how = "go" THEN "filled" ELSE "rejected"
           order == [s.paper.order EXCEPT ![d] = st]
<1>1. CASE s.paper.order[d] # "pending" \/ how \in {"wait", "spent"}
  <2>1. t = s
    BY <1>1 DEF Fill
  <2> QED
    BY <2>1 DEF Stays
<1>2. CASE ~(s.paper.order[d] # "pending" \/ how \in {"wait", "spent"})
  <2>1. t = [s EXCEPT !.paper.order = order]
    BY <1>2 DEF Fill
  <2>2. s \in PaperStates /\ s.paper.life = "active"
    BY <1>2 DEF Held
  <2>3. /\ order \in [Session -> {"none", "pending", "filled", "expired", "cancelled", "rejected"}]
        /\ \A e \in Session : s.paper.order[e] \notin {"none", "pending"} => order[e] = s.paper.order[e]
    BY <1>2, <2>2, PaperFields
  <2> HIDE DEF t, order, st
  <2>4. t \in PaperStates
    BY <2>1, <2>2, <2>3 DEF PaperStates, Portfolio
  <2>5. t.loop = s.loop /\ t.talk = s.talk /\ t.occ = s.occ /\ t.paper.life = s.paper.life /\ t.paper.order = order
    BY <2>1, <2>2 DEF PaperStates, Portfolio
  <2>6. Researching(t) = Researching(s) /\ ActiveExecutions(t) = ActiveExecutions(s)
    BY <2>5 DEF Researching, ActiveExecutions
  <2>7. Held(t)
    BY <2>2, <2>4, <2>5, <2>6 DEF Held
  <2>8. Stays(s, t)
    BY <2>3, <2>5 DEF Stays
  <2> QED
    BY <2>5, <2>7, <2>8 DEF t
<1> QED
  BY <1>1, <1>2

\* An occurrence that is not of research changes its state only.
LEMMA SetsOther ==
  ASSUME NEW s, Held(s), NEW d \in Session, NEW stage \in Stage \ {"research"}, NEW v \in OccStates, s.occ.st[<<d, stage>>] = "pending"
  PROVE  LET t == Set(s, d, stage, v) IN
         Held(t) /\ Stays(s, t) /\ t.loop = s.loop /\ Researching(t) = Researching(s) /\ t.talk = s.talk
<1> DEFINE t == Set(s, d, stage, v)
<1>1. /\ t \in PaperStates /\ t.loop = s.loop /\ t.talk = s.talk /\ t.paper = s.paper /\ Stays(s, t)
      /\ \A e \in Session : e \in Researching(t) <=> e \in Researching(s)
  BY Sets DEF Held
<1> HIDE DEF t
<1>2. Researching(t) = Researching(s) /\ ActiveExecutions(t) = ActiveExecutions(s)
  BY <1>1 DEF Researching, ActiveExecutions
<1>3. Held(t)
  BY <1>1, <1>2 DEF Held
<1> QED
  BY <1>1, <1>2, <1>3 DEF t

LEMMA Deterministics ==
  ASSUME NEW s, Held(s), NEW d \in Session, s.occ.st[<<d, "open">>] = "pending", NEW how
  PROVE  Held(Deterministic(s, d, how)) /\ Stays(s, Deterministic(s, d, how))
<1>1. "open" \in Stage \ {"research"}
  BY DEF Stage
<1>2. CASE s.loop.clock > WindowEnds(d, "open")
  BY <1>1, <1>2, SetsOther DEF Deterministic, OccStates
<1>3. CASE ~(s.loop.clock > WindowEnds(d, "open"))
  <2> DEFINE waits == how \in {"wait", "spent"}
             v == IF ~waits THEN "complete" ELSE IF how = "spent" \/ s.loop.clock = WindowEnds(d, "open") THEN "blocked" ELSE "pending"
             f == Fill(s, d, how)
  <2>1. Deterministic(s, d, how) = Set(f, d, "open", v)
    BY <1>3 DEF Deterministic
  <2>2. v \in OccStates
    BY DEF OccStates
  <2>3. Held(f) /\ Stays(s, f) /\ f.occ = s.occ
    BY Fills
  <2> HIDE DEF f, v
  <2>4. Held(Set(f, d, "open", v)) /\ Stays(f, Set(f, d, "open", v))
    BY <1>1, <2>2, <2>3, SetsOther
  <2> QED
    BY <2>1, <2>3, <2>4, StaysOn
<1> QED
  BY <1>2, <1>3

LEMMA Cuts ==
  ASSUME NEW s, Held(s), s.loop.st = "active", NEW d \in Session, s.occ.st[<<d, "cutoff">>] = "pending"
  PROVE  Held(Cutoff(s, d)) /\ Stays(s, Cutoff(s, d))
<1>1. "cutoff" \in Stage \ {"research"} /\ "research" \in Stage /\ s \in PaperStates
  BY DEF Stage, Held
<1>2. CASE d \notin Researching(s)
  BY <1>1, <1>2, SetsOther DEF Cutoff, OccStates
<1>3. CASE d \in Researching(s)
  <2> DEFINE a == Set(s, d, "research", "missed")
             b == Set(a, d, "cutoff", "complete")
             t == CancelModel(b)
  <2>1. Cutoff(s, d) = t
    BY <1>3 DEF Cutoff
  <2>2. s.occ.st[<<d, "research">>] = "running"
    BY <1>3 DEF Researching
  <2>3. a \in PaperStates /\ a.loop = s.loop /\ a.paper = s.paper /\ Stays(s, a) /\ a.occ.st[<<d, "cutoff">>] = "pending"
    <3>1. "missed" \in OccStates /\ <<d, "cutoff">> \in Session \X Stage /\ <<d, "cutoff">> # <<d, "research">>
      BY <1>1 DEF OccStates
    <3> QED
      BY <1>1, <2>2, <3>1, Sets
  <2> HIDE DEF a
  <2>4. b \in PaperStates /\ b.loop = s.loop /\ b.paper = s.paper /\ Stays(a, b)
    <3>1. "complete" \in OccStates
      BY DEF OccStates
    <3> QED
      BY <1>1, <2>3, <3>1, Sets
  <2> HIDE DEF b
  <2>5. t \in PaperStates /\ t.loop = s.loop /\ t.paper = s.paper /\ t.talk.group # "active" /\ Stays(b, t)
    BY <2>4, Cancels
  <2> HIDE DEF t
  <2>6. Held(t)
    BY <2>5 DEF Held
  <2>7. Stays(s, t)
    BY <2>3, <2>4, <2>5, StaysOn
  <2> QED
    BY <2>1, <2>6, <2>7
<1> QED
  BY <1>2, <1>3

\* Any occurrence that the agenda comes to.
LEMMA Occurs ==
  ASSUME NEW s, Held(s), NEW d \in Session, NEW stage \in Stage \ {"expire"}, NEW how
  PROVE  Held(Occurrence(s, <<d, stage>>, how)) /\ Stays(s, Occurrence(s, <<d, stage>>, how))
<1> DEFINE x == <<d, stage>>
<1>1. x[1] = d /\ x[2] = stage
  OBVIOUS
<1>2. CASE s.loop.st # "active" \/ s.occ.st[x] # "pending" \/ Due(x[1], x[2]) > s.loop.clock
  <2>1. Occurrence(s, x, how) = s
    BY <1>2 DEF Occurrence
  <2> QED
    BY <2>1 DEF Stays
<1>3. CASE ~(s.loop.st # "active" \/ s.occ.st[x] # "pending" \/ Due(x[1], x[2]) > s.loop.clock)
  <2>1. CASE stage = "research"
    <3>1. Occurrence(s, x, how) = StartResearch(s, d, how)
      BY <1>3, <2>1 DEF Occurrence
    <3> QED
      BY <1>3, <2>1, <3>1, StartsResearch
  <2>2. CASE stage = "cutoff"
    <3>1. Occurrence(s, x, how) = Cutoff(s, d)
      BY <1>3, <2>2 DEF Occurrence
    <3> QED
      BY <1>3, <2>2, <3>1, Cuts
  <2>3. CASE stage = "open"
    <3>1. Occurrence(s, x, how) = Deterministic(s, d, how)
      BY <1>3, <2>3 DEF Occurrence
    <3> QED
      BY <1>3, <2>3, <3>1, Deterministics
  <2> QED
    BY <2>1, <2>2, <2>3 DEF Stage
<1> QED
  BY <1>2, <1>3

\* The states an agenda leads through exist, one after the other.
AgendaFrom(g, s, how, n) == g = [k \in 0..n |-> IF k = 0 THEN s ELSE Occurrence(g[k - 1], Agenda[k], how)]
LEMMA AgendaRuns ==
  ASSUME NEW s, NEW how, NEW n \in Nat
  PROVE  \E g : AgendaFrom(g, s, how, n)
<1> DEFINE Bad == {k \in Nat : k <= n /\ ~ \E g : AgendaFrom(g, s, how, k)}
<1>1. SUFFICES ASSUME Bad # {} PROVE FALSE
  OBVIOUS
<1>2. PICK k \in Bad : \A j \in Bad : k <= j
  BY <1>1, Smallest
<1>3. CASE k = 0
  <2> DEFINE g == [j \in 0..0 |-> s]
  <2>1. g = [j \in 0..0 |-> IF j = 0 THEN s ELSE Occurrence(g[j - 1], Agenda[j], how)]
    OBVIOUS
  <2>2. AgendaFrom(g, s, how, 0)
    BY <2>1 DEF AgendaFrom
  <2> QED
    BY <1>2, <1>3, <2>2
<1>4. CASE k # 0
  <2>1. k - 1 \in Nat /\ k - 1 <= n /\ k - 1 \notin Bad /\ k \in Nat
    BY <1>2, <1>4
  <2>2. PICK h : AgendaFrom(h, s, how, k - 1)
    BY <2>1
  <2> DEFINE g == [j \in 0..k |-> IF j = k THEN Occurrence(h[k - 1], Agenda[k], how) ELSE h[j]]
  <2>3. \A j \in 0..(k - 1) : g[j] = h[j]
    BY <2>1
  <2>4. \A j \in 0..(k - 1) : h[j] = IF j = 0 THEN s ELSE Occurrence(h[j - 1], Agenda[j], how)
    BY <2>2 DEF AgendaFrom
  <2>5. \A j \in 0..k : g[j] = IF j = 0 THEN s ELSE Occurrence(g[j - 1], Agenda[j], how)
    <3>1. TAKE j \in 0..k
    <3>2. CASE j = k
      <4>1. g[k] = Occurrence(h[k - 1], Agenda[k], how) /\ g[k - 1] = h[k - 1]
        BY <2>1, <2>3
      <4> QED
        BY <1>4, <3>2, <4>1
    <3>3. CASE j # k
      <4>1. j \in 0..(k - 1) /\ (j # 0 => j - 1 \in 0..(k - 1))
        BY <2>1, <3>1, <3>3
      <4>2. g[j] = h[j] /\ (j # 0 => g[j - 1] = h[j - 1])
        BY <2>3, <4>1
      <4> HIDE DEF g
      <4> QED
        BY <2>4, <4>1, <4>2
    <3> QED
      BY <3>2, <3>3
  <2>6. g = [j \in 0..k |-> g[j]]
    OBVIOUS
  <2> HIDE DEF g
  <2>7. AgendaFrom(g, s, how, k)
    BY <2>5, <2>6 DEF AgendaFrom
  <2> QED
    BY <1>2, <2>7
<1> QED
  BY <1>3, <1>4

\* Every entry of the agenda is a stage of a session.
LEMMA AgendaEntries ==
  ASSUME NEW n \in 1..3 * Days
  PROVE  \E d \in Session, stage \in Stage \ {"expire"} : Agenda[n] = <<d, stage>>
<1> DEFINE d == ((n - 1) \div 3) + 1
           m == ((n - 1) % 3) + 1
           stage == <<"research", "cutoff", "open">>[m]
<1>1. Agenda[n] = <<d, stage>>
  BY DEF Agenda
<1>2. m \in 1..3 /\ d \in 1..Days
  BY PaperAssumption
<1> HIDE DEF m, d
<1>3. stage \in Stage \ {"expire"}
  BY <1>2 DEF Stage
<1> QED
  BY <1>1, <1>2, <1>3 DEF Session

\* The whole agenda.
LEMMA AgendaHeld ==
  ASSUME NEW s, Held(s), NEW how
  PROVE  Held(RunAgenda(s, how)) /\ Stays(s, RunAgenda(s, how))
<1> DEFINE L == 3 * Days
           f == CHOOSE g : g = [n \in 0..L |-> IF n = 0 THEN s ELSE Occurrence(g[n - 1], Agenda[n], how)]
<1>1. L \in Nat
  BY PaperAssumption
<1>2. RunAgenda(s, how) = f[L]
  BY DEF RunAgenda
<1>3. f = [n \in 0..L |-> IF n = 0 THEN s ELSE Occurrence(f[n - 1], Agenda[n], how)]
  BY SMTT(30), <1>1, AgendaRuns DEF AgendaFrom
<1> HIDE DEF f
<1> DEFINE Fine(k) == Held(f[k]) /\ Stays(s, f[k])
           Bad == {k \in Nat : k <= L /\ ~Fine(k)}
<1>4. Fine(0)
  <2>1. f[0] = s
    BY <1>1, <1>3
  <2> QED
    BY <2>1 DEF Stays
<1>5. ASSUME NEW k \in Nat, k < L, Fine(k)  PROVE Fine(k + 1)
  <2>1. f[k + 1] = Occurrence(f[k], Agenda[k + 1], how) /\ k + 1 \in 1..L
    BY <1>1, <1>3, <1>5
  <2>2. PICK d \in Session, stage \in Stage \ {"expire"} : Agenda[k + 1] = <<d, stage>>
    BY <2>1, AgendaEntries
  <2>3. Held(f[k + 1]) /\ Stays(f[k], f[k + 1])
    BY <1>5, <2>1, <2>2, Occurs
  <2> QED
    BY <1>5, <2>3, StaysOn
<1> HIDE DEF Fine
<1>6. Bad = {}
  <2>1. SUFFICES ASSUME Bad # {} PROVE FALSE
    OBVIOUS
  <2>2. PICK k \in Bad : \A j \in Bad : k <= j
    BY <2>1, Smallest
  <2>3. k # 0 /\ k \in Nat /\ k <= L
    BY <1>4, <2>2
  <2>4. k - 1 \in Nat /\ k - 1 < L /\ k - 1 \notin Bad /\ (k - 1) + 1 = k
    BY <1>1, <2>2, <2>3
  <2>5. Fine(k - 1)
    BY <1>1, <2>4
  <2>6. Fine((k - 1) + 1)
    BY <1>5, <2>4, <2>5
  <2> QED
    BY <2>2, <2>4, <2>6
<1>7. Fine(L)
  BY <1>1, <1>6
<1> QED
  BY <1>2, <1>7 DEF Fine

\* A loop none of whose occurrences is to come ends.
LEMMA Ends ==
  ASSUME NEW s, Held(s)
  PROVE  Held(LoopEnds(s)) /\ Stays(s, LoopEnds(s))
<1> DEFINE all == {s.occ.st[x] : x \in Session \X Stage}
           blocked == "blocked" \in all
           life == IF blocked THEN "paused" ELSE "ended"
           c == ControlRun(s, life)
           st == IF blocked THEN "blocked" ELSE "finished"
           group == IF blocked \/ c.talk.group = "completed" THEN c.talk.group ELSE "stopped"
           t == [c EXCEPT !.loop.st = st, !.talk.group = group]
<1>1. CASE s.loop.st # "active" \/ all \cap {"pending", "running"} # {}
  <2>1. LoopEnds(s) = s
    BY <1>1 DEF LoopEnds
  <2> QED
    BY <2>1 DEF Stays
<1>2. CASE ~(s.loop.st # "active" \/ all \cap {"pending", "running"} # {})
  <2>1. LoopEnds(s) = t
    BY <1>2 DEF LoopEnds
  <2>2. s \in PaperStates /\ life \in {"active", "paused", "ended"} /\ life # "active"
    BY DEF Held
  <2>3. \A x \in Session \X Stage : s.occ.st[x] # "running"
    BY <1>2
  <2>4. Researching(s) = {}
    BY <2>3 DEF Researching, Stage
  <2>5. st \in {"blocked", "finished"}
    OBVIOUS
  <2> HIDE DEF life, all
  <2>6. /\ c \in PaperStates /\ c.loop = s.loop /\ c.occ = s.occ /\ c.talk = s.talk /\ Stays(s, c)
        /\ c.paper.life # "active" /\ \A d \in Session : c.paper.order[d] # "pending"
    BY <2>2, Controls DEF Held
  <2>7. group \in Groups /\ (group = "active" => s.talk.group = "active")
    BY <2>6, PaperFields DEF Groups
  <2> HIDE DEF c, st, group
  <2>8. t \in PaperStates
    BY <2>5, <2>6, <2>7 DEF PaperStates, Loop, Talk, Groups
  <2>9. /\ t.loop.st = st /\ t.loop.gen = c.loop.gen /\ t.occ = c.occ /\ t.paper = c.paper
        /\ t.talk.group = group /\ t.talk.turn = c.talk.turn /\ t.talk.gen = c.talk.gen
    BY <2>6 DEF PaperStates, Loop, Talk
  <2> HIDE DEF t
  <2>10. Researching(t) = Researching(s) /\ ActiveExecutions(t) = ActiveExecutions(s)
    BY <2>6, <2>9 DEF Researching, ActiveExecutions
  <2>11. Held(t)
    BY <2>4, <2>6, <2>7, <2>8, <2>9, <2>10 DEF Held
  <2>12. Stays(s, t)
    BY <2>6, <2>9 DEF Stays
  <2> QED
    BY <2>1, <2>11, <2>12
<1> QED
  BY <1>1, <1>2

\* A tick of a loop that is active.
LEMMA Advances ==
  ASSUME NEW s, Held(s), s.loop.st = "active", NEW how
  PROVE  Held(Advance(s, how)) /\ Stays(s, Advance(s, how))
<1> DEFINE timely == ExpireResearch(s)
           st == [x \in Session \X Stage |-> IF timely.occ.st[x] = "running" THEN "complete" ELSE timely.occ.st[x]]
           closed == [timely EXCEPT !.occ.st = st]
           seen == IF timely.talk.group # "completed" THEN timely ELSE closed
<1>1. Held(timely) /\ Stays(s, timely) /\ timely.loop = s.loop
  BY Expires
<1>2. Advance(s, how) = IF ~s.loop.clear THEN Block(s)
                        ELSE IF Researching(timely) # {} /\ timely.talk.group = "blocked" THEN Block(timely)
                        ELSE LoopEnds(RunAgenda(seen, how))
  BY DEF Advance
<1> HIDE DEF timely
<1>3. Held(Block(s)) /\ Stays(s, Block(s))
  BY Blocks DEF Held
<1>4. Held(Block(timely)) /\ Stays(timely, Block(timely))
  BY <1>1, Blocks DEF Held
<1>5. Held(seen) /\ Stays(timely, seen)
  <2>1. CASE timely.talk.group # "completed"
    BY <1>1, <2>1 DEF Stays
  <2>2. CASE timely.talk.group = "completed"
    <3>1. timely \in PaperStates
      BY <1>1 DEF Held
    <3>2. st \in [Session \X Stage -> OccStates]
      BY <3>1, PaperFields DEF OccStates
    <3>3. \A x \in Session \X Stage : timely.occ.st[x] \notin {"pending", "running"} => st[x] = timely.occ.st[x]
      OBVIOUS
    <3> HIDE DEF st
    <3>4. closed \in PaperStates
      BY <3>1, <3>2 DEF PaperStates, Occurrences, OccStates
    <3>5. closed.loop = timely.loop /\ closed.talk = timely.talk /\ closed.paper = timely.paper /\ closed.occ.st = st
      BY <3>1 DEF PaperStates, Occurrences
    <3> HIDE DEF closed
    <3>6. Held(closed)
      BY <1>1, <2>2, <3>4, <3>5 DEF Held
    <3>7. Stays(timely, closed)
      BY <3>3, <3>5 DEF Stays
    <3> QED
      BY <2>2, <3>6, <3>7
  <2> QED
    BY <2>1, <2>2
<1> HIDE DEF seen
<1>6. Held(RunAgenda(seen, how)) /\ Stays(seen, RunAgenda(seen, how))
  BY <1>5, AgendaHeld
<1>7. Held(LoopEnds(RunAgenda(seen, how))) /\ Stays(RunAgenda(seen, how), LoopEnds(RunAgenda(seen, how)))
  BY <1>6, Ends
<1> QED
  BY <1>1, <1>2, <1>3, <1>4, <1>5, <1>6, <1>7, StaysOn

\* What a step of the loop does: it keeps the invariant, undoes nothing that
\* ended, and makes a held loop active only by resuming it.
PaperMoves ==
    /\ Held(Now)'
    /\ Stays(Now, Now')
    /\ loop.st \in {"paused", "blocked"} /\ loop'.st = "active" =>
         \A x \in Session \X (Stage \ {"expire"}) : occ'.st[x] = "pending" => Due(x[1], x[2]) > loop.clock

LEMMA NowFields == Now.loop = loop /\ Now.occ = occ /\ Now.talk = talk /\ Now.paper = paper
  BY DEF Now

\* A handler that ends with a copy of the state.
LEMMA Becoming ==
  ASSUME NEW t, Held(t), Stays(Now, t), Becomes(t), ~(loop.st \in {"paused", "blocked"} /\ t.loop.st = "active")
  PROVE  PaperMoves
<1>1. Now' = t
  BY PaperFields DEF Held, Becomes, Now
<1>2. loop' = t.loop
  BY DEF Becomes
<1> QED
  BY <1>1, <1>2 DEF PaperMoves

LEMMA TickMoves == ASSUME Held(Now), Tick PROVE PaperMoves
<1> DEFINE clean == Cleanup(Now)
<1>1. PICK how \in Findings : Becomes(IF loop.st = "active" THEN Advance(clean, how) ELSE clean)
  BY DEF Tick
<1>2. Held(clean) /\ Stays(Now, clean) /\ clean.loop = loop
  BY Cleans, NowFields
<1> HIDE DEF clean
<1>3. CASE loop.st = "active"
  <2>1. Held(Advance(clean, how)) /\ Stays(clean, Advance(clean, how))
    BY <1>2, <1>3, Advances
  <2>2. Stays(Now, Advance(clean, how)) /\ Becomes(Advance(clean, how))
    BY <1>1, <1>2, <1>3, <2>1, StaysOn
  <2> QED
    BY <1>3, <2>1, <2>2, Becoming
<1>4. CASE loop.st # "active"
  BY <1>1, <1>2, <1>4, Becoming
<1> QED
  BY <1>3, <1>4

LEMMA StartMoves == ASSUME Held(Now), StartLoop PROVE PaperMoves
<1> DEFINE t == [Now EXCEPT !.loop.st = "active"]
<1>1. Now \in PaperStates
  BY DEF Held
<1>2. t \in PaperStates
  BY <1>1 DEF PaperStates, Loop
<1>3. t.loop = [loop EXCEPT !.st = "active"] /\ t.loop.gen = loop.gen /\ t.occ = occ /\ t.talk = talk /\ t.paper = paper
  BY <1>1 DEF PaperStates, Loop, Now
<1>4. t.loop.st = "active"
  BY <1>1 DEF PaperStates, Loop
<1> HIDE DEF t
<1>5. Researching(t) = Researching(Now) /\ ActiveExecutions(t) = ActiveExecutions(Now)
  BY <1>3, NowFields DEF Researching, ActiveExecutions
<1>6. Held(t)
  BY <1>2, <1>3, <1>4, <1>5, NowFields DEF Held
<1>7. Stays(Now, t) /\ Becomes(t)
  BY <1>3, NowFields DEF Stays, Becomes, StartLoop
<1> QED
  BY <1>6, <1>7, Becoming DEF StartLoop

LEMMA TimeMoves == ASSUME Held(Now), TimePasses \/ LoopAuthorityEnds PROVE PaperMoves
<1>1. PICK c \in 0..Horizon, ok \in BOOLEAN : loop' = [loop EXCEPT !.clock = c, !.clear = ok] /\ occ' = occ /\ talk' = talk /\ paper' = paper
  <2>1. Now \in PaperStates /\ loop \in Loop /\ loop.clock \in 0..Horizon /\ Horizon \in Int
    BY PaperFields, NowFields, PaperAssumption DEF Held, Horizon, Due
  <2>2. CASE TimePasses
    <3>1. loop.clock + 1 \in 0..Horizon /\ loop.clear \in BOOLEAN
      BY <2>1, <2>2 DEF TimePasses, Loop
    <3>2. loop' = [loop EXCEPT !.clock = loop.clock + 1, !.clear = loop.clear]
      BY <2>1, <2>2 DEF TimePasses, Loop
    <3> QED
      BY <2>2, <3>1, <3>2 DEF TimePasses
  <2>3. CASE LoopAuthorityEnds
    <3>1. loop' = [loop EXCEPT !.clock = loop.clock, !.clear = FALSE]
      BY <2>1, <2>3 DEF LoopAuthorityEnds, Loop
    <3> QED
      BY <2>1, <2>3, <3>1 DEF LoopAuthorityEnds
  <2> QED
    BY <2>2, <2>3
<1> DEFINE t == [Now EXCEPT !.loop.clock = c, !.loop.clear = ok]
<1>2. Now \in PaperStates
  BY DEF Held
<1>3. t \in PaperStates
  BY <1>2 DEF PaperStates, Loop
<1>4. t.loop = [loop EXCEPT !.clock = c, !.clear = ok] /\ t.loop.gen = loop.gen /\ t.occ = occ /\ t.talk = talk /\ t.paper = paper /\ t.loop.st = loop.st
  BY <1>2 DEF PaperStates, Loop, Now
<1> HIDE DEF t
<1>5. Researching(t) = Researching(Now) /\ ActiveExecutions(t) = ActiveExecutions(Now)
  BY <1>4, NowFields DEF Researching, ActiveExecutions
<1>6. Held(t)
  BY <1>3, <1>4, <1>5, NowFields DEF Held
<1>7. Stays(Now, t) /\ Becomes(t)
  BY <1>1, <1>4, NowFields DEF Stays, Becomes
<1> QED
  BY <1>4, <1>6, <1>7, Becoming

LEMMA PauseMoves == ASSUME Held(Now), NEW stop \in BOOLEAN, PauseOrStop(stop) PROVE PaperMoves
<1> DEFINE st == IF stop THEN "stopped" ELSE "paused"
           life == IF stop THEN "ended" ELSE "paused"
           n == Now.loop.gen + 1
           a == [Now EXCEPT !.loop.st = st, !.loop.gen = n]
           b == ControlRun(a, life)
           c == CancelModel(b)
           group == IF stop /\ c.talk.group # "completed" THEN "stopped" ELSE c.talk.group
           occs == [x \in Session \X Stage |-> IF c.occ.st[x] = "running" \/ (stop /\ c.occ.st[x] = "pending") THEN "cancelled" ELSE c.occ.st[x]]
           t == [c EXCEPT !.talk.group = group, !.occ.st = occs]
<1>1. Becomes(t)
  BY DEF PauseOrStop
<1>2. Now \in PaperStates /\ n \in Nat /\ st \in {"stopped", "paused"} /\ life \in {"active", "paused", "ended"} /\ life # "active"
  BY PaperFields DEF Held
<1> HIDE DEF st, life, n
<1>3. a \in PaperStates /\ a.loop.st = st /\ a.occ = occ /\ a.talk = talk /\ a.paper = paper
  BY <1>2, NowFields DEF PaperStates, Loop
<1> HIDE DEF a
<1>4. /\ b \in PaperStates /\ b.loop = a.loop /\ b.occ = a.occ /\ b.talk = a.talk /\ Stays(a, b)
      /\ b.paper.life # "active" /\ \A d \in Session : b.paper.order[d] # "pending"
  BY <1>2, <1>3, Controls, NowFields DEF Held
<1> HIDE DEF b
<1>5. c \in PaperStates /\ c.loop = b.loop /\ c.occ = b.occ /\ c.paper = b.paper /\ c.talk.group # "active"
  BY <1>4, Cancels
<1> HIDE DEF c
<1>6. group \in Groups /\ group # "active"
  BY <1>5, PaperFields DEF Groups
<1>7. occs \in [Session \X Stage -> OccStates]
  BY <1>5, PaperFields DEF OccStates
<1>8. \A x \in Session \X Stage : occs[x] # "running" /\ (c.occ.st[x] \notin {"pending", "running"} => occs[x] = c.occ.st[x])
  OBVIOUS
<1> HIDE DEF group, occs
<1>9. t \in PaperStates
  BY <1>5, <1>6, <1>7 DEF PaperStates, Talk, Occurrences, Groups, OccStates
<1>10. t.loop = c.loop /\ t.paper = c.paper /\ t.talk.group = group /\ t.occ.st = occs
  BY <1>5 DEF PaperStates, Talk, Occurrences
<1> HIDE DEF t
<1>11. Researching(t) = {}
  BY <1>8, <1>10 DEF Researching, Stage
<1>12. Held(t)
  BY <1>4, <1>5, <1>6, <1>9, <1>10, <1>11 DEF Held
<1>13. Stays(Now, t)
  BY <1>3, <1>4, <1>5, <1>8, <1>10, NowFields DEF Stays
<1>14. t.loop.st # "active"
  BY <1>2, <1>3, <1>4, <1>5, <1>10
<1> QED
  BY <1>1, <1>12, <1>13, <1>14, Becoming

LEMMA ResumeMoves == ASSUME Held(Now), ResumeLoop PROVE PaperMoves
<1> DEFINE a == ControlRun(Now, "active")
           n == a.loop.gen + 1
           occs == [x \in Session \X Stage |-> IF a.occ.st[x] = "pending" /\ Elapsed(x) THEN "missed" ELSE a.occ.st[x]]
           t == [a EXCEPT !.loop.st = "active", !.loop.gen = n, !.occ.st = occs]
<1>1. Becomes(t)
  BY DEF ResumeLoop
<1>2. Now \in PaperStates /\ ActiveExecutions(Now) = {} /\ Now.paper.life # "ended"
  BY NowFields DEF Held, ResumeLoop
<1>3. /\ a \in PaperStates /\ a.loop = loop /\ a.occ = occ /\ a.talk = talk /\ Stays(Now, a) /\ a.paper.life = "active"
  BY <1>2, Controls, NowFields DEF Held
<1> HIDE DEF a
<1>4. n \in Nat /\ occs \in [Session \X Stage -> OccStates]
  BY <1>3, PaperFields DEF OccStates
<1>5. \A x \in Session \X Stage : occs[x] = IF a.occ.st[x] = "pending" /\ Elapsed(x) THEN "missed" ELSE a.occ.st[x]
  OBVIOUS
<1> HIDE DEF n, occs
<1>6. t \in PaperStates
  BY <1>3, <1>4 DEF PaperStates, Loop, Occurrences, OccStates
<1>7. t.loop.st = "active" /\ t.talk = a.talk /\ t.paper = a.paper /\ t.occ.st = occs
  BY <1>3 DEF PaperStates, Loop, Occurrences
<1> HIDE DEF t
<1>8. ActiveExecutions(t) = {}
  BY <1>2, <1>3, <1>7, NowFields DEF ActiveExecutions
<1>9. Held(t)
  BY <1>3, <1>6, <1>7, <1>8 DEF Held
<1>10. Stays(Now, t)
  BY <1>3, <1>5, <1>7, NowFields DEF Stays
<1>11. Now' = t /\ occ' = t.occ
  BY <1>1, <1>6, PaperFields DEF Becomes, Now
<1>12. ASSUME NEW x \in Session \X (Stage \ {"expire"}), occ'.st[x] = "pending" PROVE Due(x[1], x[2]) > loop.clock
  <2>1. ~Elapsed(x) /\ x[2] # "expire" /\ x[1] \in Session /\ x[2] \in Stage
    BY <1>5, <1>7, <1>11, <1>12
  <2>2. ~(Due(x[1], x[2]) <= loop.clock)
    BY <2>1 DEF Elapsed
  <2>3. Due(x[1], x[2]) \in Int /\ loop.clock \in Int
    BY <1>2, <2>1, PaperFields, NowFields, PaperAssumption DEF Due, Session, Stage, Horizon
  <2> QED
    BY <2>2, <2>3
<1> QED
  BY <1>9, <1>10, <1>11, <1>12 DEF PaperMoves

\* A handler that ends with given rows.
LEMMA FourRows ==
  ASSUME NEW l \in Loop, NEW o \in Occurrences, NEW k \in Talk, NEW p \in Portfolio
  PROVE  LET t == [loop |-> l, occ |-> o, talk |-> k, paper |-> p] IN
         t \in PaperStates /\ t.loop = l /\ t.occ = o /\ t.talk = k /\ t.paper = p
  BY DEF PaperStates

LEMMA PaperRows ==
  ASSUME Held(Now)
  PROVE  /\ loop \in Loop /\ occ \in Occurrences /\ talk \in Talk /\ paper \in Portfolio
         /\ loop.st \notin {"draft", "active"} => paper.life # "active" /\ Researching(Now) = {}
         /\ paper.life # "active" => \A d \in Session : paper.order[d] # "pending"
         /\ talk.group = "active" => \A d \in Session : talk.turn[d] = "running" => d \in Researching(Now) /\ talk.gen[d] = loop.gen
  BY NowFields, PaperFields DEF Held, ActiveExecutions

LEMMA CancelMoves == ASSUME Held(Now), NEW d \in Session, CancelOrder(d) PROVE PaperMoves
<1> DEFINE p == [paper EXCEPT !.order[d] = "cancelled"]
           t == [loop |-> loop, occ |-> occ, talk |-> talk, paper |-> p]
<1>1. /\ p \in Portfolio /\ p.life = paper.life
      /\ \A e \in Session : p.order[e] = paper.order[e] \/ (p.order[e] = "cancelled" /\ paper.order[e] = "pending")
  BY PaperRows DEF Portfolio, CancelOrder
<1>2. paper' = p
  BY DEF CancelOrder
<1> HIDE DEF p
<1>3. t \in PaperStates /\ t.loop = loop /\ t.occ = occ /\ t.talk = talk /\ t.paper = p
  BY <1>1, PaperRows, FourRows
<1> HIDE DEF t
<1>4. Researching(t) = Researching(Now) /\ ActiveExecutions(t) = ActiveExecutions(Now)
  BY <1>3, NowFields DEF Researching, ActiveExecutions
<1>5. Held(t) /\ Stays(Now, t)
  BY <1>1, <1>3, <1>4, NowFields DEF Held, Stays
<1>6. Becomes(t)
  BY <1>2, <1>3 DEF Becomes, CancelOrder
<1> QED
  BY <1>3, <1>5, <1>6, Becoming

LEMMA ClaimMoves == ASSUME Held(Now), NEW d \in Session, ClaimTurn(d) PROVE PaperMoves
<1> DEFINE k == [talk EXCEPT !.turn[d] = "running", !.did = FALSE]
           t == [loop |-> loop, occ |-> occ, talk |-> k, paper |-> paper]
<1>1. /\ k \in Talk /\ k.group = talk.group /\ k.gen = talk.gen
      /\ \A e \in Session : e # d => k.turn[e] = talk.turn[e]
  BY PaperRows DEF Talk
<1>2. talk' = k
  BY DEF ClaimTurn
<1> HIDE DEF k
<1>3. t \in PaperStates /\ t.loop = loop /\ t.occ = occ /\ t.talk = k /\ t.paper = paper
  BY <1>1, PaperRows, FourRows
<1> HIDE DEF t
<1>4. Researching(t) = Researching(Now)
  BY <1>3, NowFields DEF Researching
<1>5. d \in Researching(Now) /\ talk.gen[d] = loop.gen
  BY DEF ClaimTurn
<1>6. \A e \in ActiveExecutions(t) : e = d \/ e \in ActiveExecutions(Now)
  BY <1>1, <1>3, NowFields DEF ActiveExecutions
<1>7. Held(t)
  BY <1>1, <1>3, <1>4, <1>5, <1>6, NowFields DEF Held
<1>8. Stays(Now, t) /\ Becomes(t)
  BY <1>2, <1>3, NowFields DEF Stays, Becomes, ClaimTurn
<1> QED
  BY <1>3, <1>7, <1>8, Becoming

LEMMA ToolMoves == ASSUME Held(Now), NEW d \in Session, NEW session \in Session, PaperTool(d, session) PROVE PaperMoves
<1> DEFINE k == [talk EXCEPT !.did = TRUE]
<1>1. /\ k \in Talk /\ k.group = talk.group /\ k.gen = talk.gen /\ k.turn = talk.turn /\ talk' = k
  BY PaperRows DEF Talk, PaperTool
<1> HIDE DEF k
<1>2. PICK p \in Portfolio : /\ paper' = p /\ p.life = paper.life
                            /\ \A e \in Session : paper.order[e] # "none" => p.order[e] = paper.order[e]
  <2>1. CASE paper.ready[session]
    <3>1. PICK st \in {"pending", "rejected"} : paper' = [paper EXCEPT !.order[session] = st]
      BY <2>1 DEF PaperTool
    <3>2. paper.order[session] = "none"
      BY DEF PaperTool
    <3> DEFINE p == [paper EXCEPT !.order[session] = st]
    <3>3. p \in Portfolio /\ p.life = paper.life /\ \A e \in Session : paper.order[e] # "none" => p.order[e] = paper.order[e]
      BY <3>2, PaperRows DEF Portfolio
    <3> QED
      BY <3>1, <3>3
  <2>2. CASE ~paper.ready[session]
    <3> DEFINE p == [paper EXCEPT !.ready[session] = TRUE]
    <3>1. paper' = p
      BY <2>2 DEF PaperTool
    <3>2. p \in Portfolio /\ p.life = paper.life /\ p.order = paper.order
      BY PaperRows DEF Portfolio
    <3> QED
      BY <3>1, <3>2
  <2> QED
    BY <2>1, <2>2
<1> DEFINE t == [loop |-> loop, occ |-> occ, talk |-> k, paper |-> p]
<1>3. t \in PaperStates /\ t.loop = loop /\ t.occ = occ /\ t.talk = k /\ t.paper = p
  BY <1>1, PaperRows, FourRows
<1> HIDE DEF t
<1>4. Researching(t) = Researching(Now) /\ ActiveExecutions(t) = ActiveExecutions(Now)
  BY <1>1, <1>3, NowFields DEF Researching, ActiveExecutions
<1>5. loop.st = "active" /\ paper.life = "active"
  BY DEF PaperTool
<1>6. Held(t)
  BY <1>1, <1>2, <1>3, <1>4, <1>5, NowFields DEF Held
<1>7. Stays(Now, t) /\ Becomes(t)
  BY <1>1, <1>2, <1>3, NowFields DEF Stays, Becomes, PaperTool
<1> QED
  BY <1>3, <1>5, <1>6, <1>7, Becoming

LEMMA CompletesMoves == ASSUME Held(Now), NEW d \in Session, NEW goesOn \in BOOLEAN, TurnCompletes(d, goesOn) PROVE PaperMoves
<1> DEFINE waits == \E n \in Session : n > d /\ occ.st[<<n, "research">>] = "pending"
           ends == talk.group = "active" /\ ~goesOn /\ d \in Researching(Now)
           turn == IF goesOn /\ talk.group = "active" THEN "queued" ELSE "none"
           group == IF ~ends THEN talk.group ELSE IF waits THEN "paused" ELSE "completed"
           k == [talk EXCEPT !.turn[d] = turn, !.group = group]
           st == IF ends /\ waits THEN "complete" ELSE occ.st[<<d, "research">>]
           o == [occ EXCEPT !.st[<<d, "research">>] = st]
           t == [loop |-> loop, occ |-> o, talk |-> k, paper |-> paper]
<1>1. talk' = k /\ occ' = o
  BY DEF TurnCompletes
<1>2. <<d, "research">> \in Session \X Stage
  BY DEF Stage
<1>3. ends => occ.st[<<d, "research">>] = "running"
  BY NowFields DEF Researching
<1>4. /\ turn \in {"queued", "none"} /\ group \in Groups /\ (group = "active" => talk.group = "active" /\ ~ends)
      /\ st \in OccStates /\ (~ends => st = occ.st[<<d, "research">>])
      /\ (st = occ.st[<<d, "research">>] \/ (occ.st[<<d, "research">>] = "running" /\ st = "complete"))
  BY <1>2, <1>3, PaperRows DEF Talk, Occurrences, Groups, OccStates
<1> HIDE DEF waits, ends, turn, group, st
<1>5. k \in Talk /\ k.group = group /\ k.gen = talk.gen /\ \A e \in Session : k.turn[e] = "running" => talk.turn[e] = "running"
  BY <1>4, PaperRows DEF Talk, Groups
<1>6. /\ o \in Occurrences
      /\ \A x \in Session \X Stage : o.st[x] = occ.st[x] \/ (~(~ends) /\ occ.st[x] = "running" /\ o.st[x] = "complete")
  <2>1. o \in Occurrences
    BY <1>4, PaperRows DEF Occurrences, OccStates
  <2>2. o.st = [occ.st EXCEPT ![<<d, "research">>] = st] /\ occ.st \in [Session \X Stage -> OccStates]
    BY PaperRows DEF Occurrences, OccStates
  <2>3. \A x \in Session \X Stage : o.st[x] = IF x = <<d, "research">> THEN st ELSE occ.st[x]
    BY <1>2, <2>2
  <2> QED
    BY <1>4, <2>1, <2>3
<1> HIDE DEF k, o
<1>7. t \in PaperStates /\ t.loop = loop /\ t.occ = o /\ t.talk = k /\ t.paper = paper
  BY <1>5, <1>6, PaperRows, FourRows
<1> HIDE DEF t
<1>8. \A e \in Session : <<e, "research">> \in Session \X Stage
  BY DEF Stage
<1>9. Researching(t) \subseteq Researching(Now) /\ (~ends => Researching(t) = Researching(Now))
  BY <1>6, <1>7, <1>8, NowFields DEF Researching
<1>10. ActiveExecutions(t) \subseteq ActiveExecutions(Now)
  BY <1>5, <1>7, NowFields DEF ActiveExecutions
<1>11. Held(t)
  <2>1. t.loop.st \notin {"draft", "active"} => t.paper.life # "active" /\ Researching(t) = {}
    BY <1>7, <1>9, PaperRows
  <2>2. t.talk.group = "active" => \A e \in ActiveExecutions(t) : e \in Researching(t) /\ t.talk.gen[e] = t.loop.gen
    BY <1>4, <1>5, <1>7, <1>9, <1>10, NowFields DEF Held
  <2>3. t.paper.life # "active" => \A e \in Session : t.paper.order[e] # "pending"
    BY <1>7, PaperRows
  <2> QED
    BY <1>7, <2>1, <2>2, <2>3 DEF Held
<1>12. Stays(Now, t)
  BY <1>6, <1>7, NowFields DEF Stays
<1>13. Becomes(t)
  BY <1>1, <1>7 DEF Becomes, TurnCompletes
<1> QED
  BY <1>7, <1>11, <1>12, <1>13, Becoming

LEMMA FailsMoves == ASSUME Held(Now), NEW d \in Session, NEW settled \in BOOLEAN, TurnFails(d, settled) PROVE PaperMoves
<1> DEFINE group == IF talk.group = "active" THEN "blocked" ELSE talk.group
           k == [talk EXCEPT !.turn[d] = "none", !.group = group]
           clear == loop.clear /\ settled
           l == [loop EXCEPT !.clear = clear]
           ready == paper.ready[d] /\ ~(talk.did /\ paper.order[d] = "none")
           p == [paper EXCEPT !.ready[d] = ready]
           t == [loop |-> l, occ |-> occ, talk |-> k, paper |-> p]
<1>1. talk' = k /\ loop' = l /\ paper' = p /\ occ' = occ
  BY DEF TurnFails
<1>2. clear \in BOOLEAN /\ ready \in BOOLEAN /\ group \in Groups /\ group # "active"
  BY PaperRows DEF Loop, Portfolio, Talk, Groups
<1> HIDE DEF clear, ready, group
<1>3. l \in Loop /\ l.st = loop.st
  BY <1>2, PaperRows DEF Loop
<1>4. p \in Portfolio /\ p.life = paper.life /\ p.order = paper.order
  BY <1>2, PaperRows DEF Portfolio
<1>5. k \in Talk /\ k.group # "active"
  BY <1>2, PaperRows DEF Talk, Groups
<1> HIDE DEF k, l, p
<1>6. t \in PaperStates /\ t.loop = l /\ t.occ = occ /\ t.talk = k /\ t.paper = p
  BY <1>3, <1>4, <1>5, PaperRows, FourRows
<1> HIDE DEF t
<1>7. Researching(t) = Researching(Now)
  BY <1>6, NowFields DEF Researching
<1>8. Held(t)
  BY <1>3, <1>4, <1>5, <1>6, <1>7, PaperRows DEF Held
<1>9. Stays(Now, t) /\ Becomes(t)
  BY <1>1, <1>4, <1>6, NowFields DEF Stays, Becomes
<1> QED
  BY <1>3, <1>6, <1>8, <1>9, Becoming

\* Every step of the loop.
LEMMA PaperStep == ASSUME Held(Now), PaperNext PROVE PaperMoves
<1>1. CASE Tick
  BY <1>1, TickMoves
<1>2. CASE StartLoop
  BY <1>2, StartMoves
<1>3. CASE ResumeLoop
  BY <1>3, ResumeMoves
<1>4. CASE TimePasses \/ LoopAuthorityEnds
  BY <1>4, TimeMoves
<1>5. CASE \E stop \in BOOLEAN : PauseOrStop(stop)
  BY <1>5, PauseMoves
<1>6. ASSUME NEW d \in Session, CancelOrder(d) PROVE PaperMoves
  BY <1>6, CancelMoves
<1>7. ASSUME NEW d \in Session, ClaimTurn(d) PROVE PaperMoves
  BY <1>7, ClaimMoves
<1>8. ASSUME NEW d \in Session, NEW session \in Session, PaperTool(d, session) PROVE PaperMoves
  BY <1>8, ToolMoves
<1>9. ASSUME NEW d \in Session, NEW yes \in BOOLEAN, TurnCompletes(d, yes) PROVE PaperMoves
  BY <1>9, CompletesMoves
<1>10. ASSUME NEW d \in Session, NEW yes \in BOOLEAN, TurnFails(d, yes) PROVE PaperMoves
  BY <1>10, FailsMoves
<1> QED
  BY <1>1, <1>2, <1>3, <1>4, <1>5, <1>6, <1>7, <1>8, <1>9, <1>10 DEF PaperNext

LEMMA PaperStarts == ASSUME PaperInit PROVE Held(Now)
<1>1. loop \in Loop /\ talk \in Talk /\ occ \in Occurrences /\ paper \in Portfolio
  <2>1. 0 \in 0..Horizon
    BY PaperAssumption DEF Horizon, Due
  <2> QED
    BY <2>1 DEF PaperInit, Loop, Talk, Occurrences, Portfolio
<1>2. Now \in PaperStates
  BY <1>1 DEF Now, PaperStates
<1>3. loop.st = "draft" /\ talk.group = "draft" /\ paper.life = "active"
  BY DEF PaperInit
<1> QED
  BY <1>2, <1>3, NowFields DEF Held

LEMMA PaperStutters == ASSUME Held(Now), UNCHANGED paperVars PROVE Held(Now)'
<1>1. Now' = Now
  BY DEF Now, paperVars
<1> QED
  BY <1>1

LEMMA PaperMeans == ASSUME Held(Now) PROVE PaperHeld /\ PaperTypeOK
  BY NowFields, PaperFields DEF Held, PaperHeld, PaperTypeOK

PaperKept == part = "paper" => Held(Now)

\* A held paper loop holds everything that acts for it, and what was missed,
\* cancelled or finished in it is never done over, for any number of sessions,
\* holds and resumptions.
THEOREM LoopHeld == MarketSpec => PaperHolds
<1>1. MarketInit => PaperKept
  BY PaperStarts DEF MarketInit, PaperKept
<1>2. PaperKept /\ [MarketNext]_MarketVars => PaperKept'
  <2> SUFFICES ASSUME PaperKept, [MarketNext]_MarketVars, part' = "paper" PROVE Held(Now)'
    BY DEF PaperKept
  <2>1. CASE UNCHANGED MarketVars
    BY <2>1, PaperStutters DEF PaperKept, MarketVars
  <2>2. CASE MarketNext
    <3>1. part = "paper" /\ PaperNext
      BY <2>2 DEF MarketNext
    <3> QED
      BY <3>1, PaperStep DEF PaperKept, PaperMoves
  <2> QED
    BY <2>1, <2>2
<1>3. PaperKept => (part = "paper" => PaperHeld)
  BY PaperMeans DEF PaperKept
<1>4. PaperKept /\ [MarketNext]_MarketVars => [part = "paper" => DoneOnce]_MarketVars
  <2> SUFFICES ASSUME PaperKept, MarketNext, part = "paper" PROVE DoneOnce
    OBVIOUS
  <2>1. PaperNext
    BY DEF MarketNext
  <2>2. PaperMoves /\ Now.occ = occ /\ Now.paper = paper /\ (Now.occ)' = occ' /\ (Now.paper)' = paper'
    BY <2>1, PaperStep DEF PaperKept, Now
  <2> QED
    BY <2>2 DEF PaperMoves, Stays, DoneOnce
<1> QED
  BY <1>1, <1>2, <1>3, <1>4, PTL DEF MarketSpec, PaperHolds

-----------------------------------------------------------------------------
(* The publication channel.                                                *)

Has(h, id) == \E n \in DOMAIN h : h[n] = id

\* Rows in the order they were staged: ids grow, and the batches count their
\* source's events.
Ordered(r, top) ==
    /\ r.jobs \in Seq(Job) /\ r.seq \in 0..JobBound /\ Len(r.jobs) <= top /\ r.seq <= Len(r.jobs)
    /\ \A n \in DOMAIN r.jobs : r.jobs[n].id <= top
    /\ \A m, n \in DOMAIN r.jobs : m < n => r.jobs[m].id < r.jobs[n].id
    /\ \A m, n \in Batches(r) : m < n => r.jobs[m].seq < r.jobs[n].seq
    /\ \A n \in Batches(r) : r.jobs[n].seq \in 1..r.seq
    /\ \A q \in 1..r.seq : \E n \in Batches(r) : r.jobs[n].seq = q

\* What the receiver holds of the batches of some rows came in their order.
Continued(r, h) ==
    /\ \A n \in DOMAIN r.jobs : Has(h, r.jobs[n].id) => IsBatch(r.jobs[n])
    /\ \A n \in Batches(r) : Has(h, r.jobs[n].id) =>
          /\ r.jobs[n].seq <= Len(h)
          /\ \A m \in Batches(r) : r.jobs[m].seq <= r.jobs[n].seq => h[r.jobs[m].seq] = r.jobs[m].id

Arrived(r, h) == \A n \in Batches(r) : r.jobs[n].st = "delivered" => Has(h, r.jobs[n].id)

\* Two rows that share a job share what came before it.
Agree(r, s) ==
    /\ \A n \in DOMAIN r.jobs, m \in DOMAIN s.jobs : r.jobs[n].id = s.jobs[m].id => r.jobs[n].kind = s.jobs[m].kind
    /\ \A n \in Batches(r), m \in Batches(s) : r.jobs[n].id = s.jobs[m].id =>
          /\ r.jobs[n].seq = s.jobs[m].seq
          /\ \A k \in Batches(r), l \in Batches(s) :
                r.jobs[k].seq = s.jobs[l].seq /\ r.jobs[k].seq <= r.jobs[n].seq => r.jobs[k].id = s.jobs[l].id

\* Rows that differ in how their jobs stand.
Same(r, s) ==
    /\ s.seq = r.seq /\ s.jobs \in Seq(Job) /\ Len(s.jobs) = Len(r.jobs) /\ DOMAIN s.jobs = DOMAIN r.jobs
    /\ \A n \in DOMAIN r.jobs : s.jobs[n].id = r.jobs[n].id /\ s.jobs[n].kind = r.jobs[n].kind /\ s.jobs[n].seq = r.jobs[n].seq

Chronicle(r, h, top) == Ordered(r, top) /\ Continued(r, h) /\ Arrived(r, h)
Receipts(h, top) == h \in Seq(1..JobBound) /\ (\A n \in DOMAIN h : h[n] <= top) /\ (\A m, n \in DOMAIN h : h[m] = h[n] => m = n)

\* The rows of the database, of its backup and of the permit, and the receiver's.
PastKept(d, c, s, h, top) ==
    /\ Receipts(h, top) /\ top \in 0..JobBound
    /\ Chronicle(d, h, top) /\ Chronicle(c, h, top) /\ Chronicle(s, h, top)
    /\ Agree(d, c) /\ Agree(d, s) /\ Agree(c, s)

\* Job x is the next one for the receiver, as far as rows r say.
Fits(r, h, x) ==
    \A n \in DOMAIN r.jobs : r.jobs[n].id = x =>
        /\ IsBatch(r.jobs[n]) /\ r.jobs[n].seq = Len(h) + 1
        /\ \A m \in Batches(r) : r.jobs[m].seq <= Len(h) => h[r.jobs[m].seq] = r.jobs[m].id

\* What the receiver holds is what the rows count.
Told(r, h) == \A q \in DOMAIN h : \E k \in Batches(r) : r.jobs[k].seq = q /\ r.jobs[k].id = h[q]

\* A held batch of the rows is known to be, or has its receipt asked for.
Known(r, h) == \A n \in Batches(r) : Has(h, r.jobs[n].id) => r.jobs[n].st = "delivered" \/ r.jobs[n].need

GensOf(r) == 1 <= r.gen /\ r.gen <= receiver.newest /\ (r.recon = r.gen => r.gen <= receiver.gen)
GensKept == GensOf(db) /\ GensOf(away.copy) /\ GensOf(away.state) /\ receiver.gen <= receiver.newest

\* A dead HQ's request that the receiver would still take.
Live == away.late.job # 0 /\ away.late.gen = receiver.gen

\* The job that HQ asks about: all before it were delivered.
CallAt(n) ==
    /\ db.jobs[n].id = hq.call.job /\ (IsBatch(db.jobs[n]) => db.jobs[n].need) /\ (hq.call.op = "receipt" => IsBatch(db.jobs[n]))
    /\ (hq.call.answer = "receipt" /\ IsBatch(db.jobs[n]) => Has(receiver.held, hq.call.job))
    /\ (hq.call.answer = "absent" => IsBatch(db.jobs[n]) /\ ~Has(receiver.held, hq.call.job))
    /\ \A k \in Batches(db) : k < n => Has(receiver.held, db.jobs[k].id)

CallKept ==
    hq.call # NoCall =>
        /\ ~RestoreRequired /\ hq.call.gen = db.gen
        /\ \E n \in DOMAIN db.jobs : CallAt(n)
        /\ ~away.restored /\ hq.call.op = "write" /\ hq.call.answer = "none" => ~Has(receiver.held, hq.call.job)

LateKept ==
    /\ away.late.job <= away.staged /\ away.late.gen <= receiver.gen
    /\ Live =>
          /\ RestoreRequired
          /\ \/ Has(receiver.held, away.late.job)
             \/ /\ Fits(db, receiver.held, away.late.job) /\ Fits(away.copy, receiver.held, away.late.job)
                /\ Fits(away.state, receiver.held, away.late.job)
          /\ ~away.restored => \A n \in Batches(db) : db.jobs[n].id = away.late.job => db.jobs[n].st = "delivered" \/ db.jobs[n].need
    /\ hq.fence # 0 /\ db.gen > hq.fence => away.late.gen < db.gen

PermitKept ==
    away.permit = "ready" =>
        /\ away.state.gen <= receiver.gen
        /\ away.state.gen = receiver.gen => RestoreRequired /\ ~Live
        /\ hq.fence # 0 /\ db.gen > hq.fence => away.state.gen < db.gen

ChannelKept ==
    /\ PublicationTypeOK
    /\ PastKept(db, away.copy, away.state, receiver.held, away.staged)
    /\ GensKept /\ CallKept /\ LateKept /\ PermitKept
    /\ ~RestoreRequired => Told(db, receiver.held)
    /\ ~away.restored => Known(db, receiver.held)

LEMMA AgreeBack == ASSUME NEW r, NEW s, Agree(r, s) PROVE Agree(s, r)
  BY DEF Agree

LEMMA BatchOf ==
  ASSUME NEW r, NEW top, Ordered(r, top)
  PROVE  /\ DOMAIN r.jobs = 1..Len(r.jobs) /\ Len(r.jobs) \in Nat
         /\ \A n \in DOMAIN r.jobs : r.jobs[n] \in Job
         /\ \A n \in DOMAIN r.jobs : n \in Nat /\ r.jobs[n].id \in Nat /\ r.jobs[n].seq \in Nat
         /\ \A n \in Batches(r) : n \in DOMAIN r.jobs /\ IsBatch(r.jobs[n])
         /\ r.seq \in Nat
<1>1. r.jobs \in Seq(Job) /\ Len(r.jobs) \in Nat /\ DOMAIN r.jobs = 1..Len(r.jobs)
  BY LenProperties DEF Ordered
<1>2. \A n \in DOMAIN r.jobs : r.jobs[n] \in Job
  BY <1>1, ElementOfSeq
<1> QED
  BY <1>1, <1>2 DEF Batches, Ordered, Job

LEMMA SameIds ==
  ASSUME NEW r, NEW top, Ordered(r, top)
  PROVE  /\ \A m, n \in DOMAIN r.jobs : r.jobs[m].id = r.jobs[n].id => m = n
         /\ \A m, n \in Batches(r) : r.jobs[m].seq = r.jobs[n].seq => m = n
<1>1. SUFFICES ASSUME NEW m \in DOMAIN r.jobs, NEW n \in DOMAIN r.jobs, m # n
               PROVE  r.jobs[m].id # r.jobs[n].id /\ (m \in Batches(r) /\ n \in Batches(r) => r.jobs[m].seq # r.jobs[n].seq)
  BY BatchOf
<1>2. m < n \/ n < m
  BY <1>1, BatchOf
<1>3. r.jobs[m].id \in Nat /\ r.jobs[n].id \in Nat /\ r.jobs[m].seq \in Nat /\ r.jobs[n].seq \in Nat
  BY BatchOf
<1> QED
  BY <1>2, <1>3 DEF Ordered

LEMMA AgreeSelf == ASSUME NEW r, NEW top, Ordered(r, top) PROVE Agree(r, r)
<1>1. Batches(r) \subseteq DOMAIN r.jobs
  BY DEF Batches
<1> QED
  BY <1>1, SameIds DEF Agree

\* Rows that stand otherwise are as ordered, as continued and agree as before.
LEMMA SameKept ==
  ASSUME NEW r, NEW s, NEW h, NEW top, Chronicle(r, h, top), Same(r, s), Arrived(s, h)
  PROVE  Chronicle(s, h, top) /\ \A o : Agree(r, o) => Agree(s, o)
<1>1. Batches(s) = Batches(r)
  BY DEF Batches, Same, IsBatch
<1>2. Ordered(s, top)
  BY <1>1 DEF Same, Chronicle, Ordered, Batches
<1>3. Continued(s, h)
  BY <1>1 DEF Same, Chronicle, Continued, IsBatch, Batches
<1>4. ASSUME NEW o, Agree(r, o) PROVE Agree(s, o)
  <2>1. Batches(r) \subseteq DOMAIN r.jobs
    BY DEF Batches
  <2> QED
    BY <1>1, <1>4, <2>1 DEF Same, Agree
<1> QED
  BY <1>2, <1>3, <1>4 DEF Chronicle

LEMMA PastStands ==
  ASSUME NEW d, NEW c, NEW s, NEW h, NEW top, PastKept(d, c, s, h, top), NEW e, Same(d, e), Arrived(e, h)
  PROVE  PastKept(e, c, s, h, top)
  BY SameKept DEF PastKept

\* Copies are made of what there is.
LEMMA PastCopied ==
  ASSUME NEW d, NEW c, NEW s, NEW h, NEW top, PastKept(d, c, s, h, top),
         NEW d1 \in {d, c}, NEW c1 \in {d, c}, NEW s1 \in {d, s}
  PROVE  PastKept(d1, c1, s1, h, top)
<1>1. Agree(d, d) /\ Agree(c, c) /\ Agree(c, d) /\ Agree(s, d) /\ Agree(s, c)
  BY AgreeSelf, AgreeBack DEF PastKept, Chronicle
<1> QED
  BY <1>1 DEF PastKept

\* A job is staged.
LEMMA Stages2 ==
  ASSUME NEW r, NEW h, NEW top \in 0..JobBound, top < JobBound, Receipts(h, top), Chronicle(r, h, top), r \in Rows,
         NEW j \in Job, j.id = top + 1, j.st = "queued", NEW s,
         s.jobs = Append(r.jobs, j), s.seq = IF IsBatch(j) THEN r.seq + 1 ELSE r.seq, IsBatch(j) => j.seq = r.seq + 1,
         s.seq \in 0..JobBound
  PROVE  Chronicle(s, h, top + 1) /\ \A o : Ordered(o, top) /\ Agree(r, o) => Agree(s, o)
<1> DEFINE n == Len(r.jobs) + 1
<1>1. /\ r.jobs \in Seq(Job) /\ Len(r.jobs) \in Nat /\ DOMAIN r.jobs = 1..Len(r.jobs) /\ Ordered(r, top) /\ Len(r.jobs) <= top
      /\ top \in Nat /\ r.seq \in Nat
  BY BatchOf DEF Chronicle, Ordered
<1>2. /\ s.jobs \in Seq(Job) /\ Len(s.jobs) = n /\ DOMAIN s.jobs = 1..n /\ s.jobs[n] = j
      /\ \A k \in DOMAIN r.jobs : s.jobs[k] = r.jobs[k]
  BY <1>1, AppendProperties
<1>3. n \in Nat /\ n <= top + 1 /\ DOMAIN s.jobs = DOMAIN r.jobs \cup {n} /\ n \notin DOMAIN r.jobs /\ \A k \in DOMAIN r.jobs : k < n
  BY <1>1, <1>2
<1>4. Batches(s) = IF IsBatch(j) THEN Batches(r) \cup {n} ELSE Batches(r)
  BY <1>2, <1>3 DEF Batches
<1>5. Batches(r) \subseteq DOMAIN r.jobs
  BY DEF Batches
<1> HIDE DEF n
<1>6. \A k \in DOMAIN r.jobs : r.jobs[k].id \in Nat /\ r.jobs[k].id <= top
  BY <1>1, BatchOf DEF Ordered
<1>7. \A k \in Batches(r) : r.jobs[k].seq \in Nat /\ r.jobs[k].seq <= r.seq /\ 1 <= r.jobs[k].seq
  BY <1>1, BatchOf DEF Ordered
<1>8. Ordered(s, top + 1)
  <2>1. \A k \in DOMAIN s.jobs : s.jobs[k].id <= top + 1
    BY <1>1, <1>2, <1>3, <1>6
  <2>2. \A k, l \in DOMAIN s.jobs : k < l => s.jobs[k].id < s.jobs[l].id
    <3> SUFFICES ASSUME NEW k \in DOMAIN s.jobs, NEW l \in DOMAIN s.jobs, k < l PROVE s.jobs[k].id < s.jobs[l].id
      OBVIOUS
    <3>1. CASE l = n
      BY <1>1, <1>2, <1>3, <1>6, <3>1
    <3>2. CASE l # n
      <4>1. l \in DOMAIN r.jobs /\ k \in DOMAIN r.jobs
        BY <1>1, <1>3, <3>2
      <4> QED
        BY <1>1, <1>2, <4>1 DEF Ordered
    <3> QED
      BY <3>1, <3>2
  <2>3. \A k, l \in Batches(s) : k < l => s.jobs[k].seq < s.jobs[l].seq
    <3> SUFFICES ASSUME NEW k \in Batches(s), NEW l \in Batches(s), k < l PROVE s.jobs[k].seq < s.jobs[l].seq
      OBVIOUS
    <3>1. CASE l = n
      <4>1. IsBatch(j) /\ k \in Batches(r)
        BY <1>1, <1>3, <1>4, <1>5, <3>1
      <4> QED
        BY <1>1, <1>2, <1>3, <1>5, <1>7, <3>1, <4>1
    <3>2. CASE l # n
      <4>1. l \in Batches(r) /\ k \in Batches(r)
        BY <1>1, <1>3, <1>4, <1>5, <3>2
      <4> QED
        BY <1>1, <1>2, <1>5, <4>1 DEF Ordered
    <3> QED
      BY <3>1, <3>2
  <2>4. \A k \in Batches(s) : s.jobs[k].seq \in 1..s.seq
    BY <1>1, <1>2, <1>4, <1>5, <1>7
  <2>5. \A q \in 1..s.seq : \E k \in Batches(s) : s.jobs[k].seq = q
    <3> SUFFICES ASSUME NEW q \in 1..s.seq PROVE \E k \in Batches(s) : s.jobs[k].seq = q
      OBVIOUS
    <3>1. CASE q \in 1..r.seq
      <4>1. PICK k \in Batches(r) : r.jobs[k].seq = q
        BY <1>1, <3>1 DEF Ordered
      <4> QED
        BY <1>2, <1>4, <1>5, <4>1
    <3>2. CASE q \notin 1..r.seq
      <4>1. IsBatch(j) /\ q = r.seq + 1
        BY <1>1, <3>2
      <4> QED
        BY <1>2, <1>4, <4>1
    <3> QED
      BY <3>1, <3>2
  <2> QED
    <3>1. Len(s.jobs) <= top + 1 /\ s.seq <= Len(s.jobs)
      <4>1. r.seq <= Len(r.jobs)
        BY <1>1 DEF Ordered
      <4>2. Len(s.jobs) = Len(r.jobs) + 1
        BY <1>2 DEF n
      <4> QED
        BY <1>1, <4>1, <4>2
    <3> QED
      BY <1>2, <2>1, <2>2, <2>3, <2>4, <2>5, <3>1 DEF Ordered
<1>9. ~Has(h, j.id)
  BY <1>1 DEF Has, Receipts
<1>10. Continued(s, h) /\ Arrived(s, h)
  <2>1. \A k \in DOMAIN s.jobs : Has(h, s.jobs[k].id) => k \in DOMAIN r.jobs /\ s.jobs[k] = r.jobs[k]
    BY <1>2, <1>3, <1>9
  <2>2. Len(h) \in Nat
    BY LenProperties DEF Receipts
  <2>3. \A k \in DOMAIN s.jobs : Has(h, s.jobs[k].id) => IsBatch(s.jobs[k])
    BY <2>1 DEF Chronicle, Continued
  <2>4. ASSUME NEW k \in Batches(s), Has(h, s.jobs[k].id)
        PROVE  s.jobs[k].seq <= Len(h) /\ \A m \in Batches(s) : s.jobs[m].seq <= s.jobs[k].seq => h[s.jobs[m].seq] = s.jobs[m].id
    <3>1. k \in Batches(r) /\ s.jobs[k] = r.jobs[k] /\ r.jobs[k].seq \in Nat /\ r.jobs[k].seq <= r.seq
      BY <1>2, <1>4, <1>5, <1>7, <2>1, <2>4 DEF Batches
    <3>2. \A m \in Batches(s) : s.jobs[m].seq <= s.jobs[k].seq => m \in Batches(r) /\ s.jobs[m] = r.jobs[m]
      BY <1>1, <1>2, <1>4, <1>5, <3>1
    <3> QED
      BY <2>4, <3>1, <3>2 DEF Chronicle, Continued
  <2>5. Arrived(s, h)
    BY <1>2, <1>4, <1>5 DEF Chronicle, Arrived
  <2> QED
    BY <2>3, <2>4, <2>5 DEF Continued
<1>11. ASSUME NEW o, Ordered(o, top), Agree(r, o) PROVE Agree(s, o)
  <2>1. \A m \in DOMAIN o.jobs : o.jobs[m].id \in Nat /\ o.jobs[m].id <= top
    BY <1>11, BatchOf DEF Ordered
  <2>2. \A k \in DOMAIN s.jobs, m \in DOMAIN o.jobs : s.jobs[k].id = o.jobs[m].id => k \in DOMAIN r.jobs /\ s.jobs[k] = r.jobs[k]
    BY <1>1, <1>2, <1>3, <2>1
  <2>3. Batches(o) \subseteq DOMAIN o.jobs /\ Batches(s) \subseteq DOMAIN s.jobs
    BY DEF Batches
  <2>4. \A k \in DOMAIN s.jobs, m \in DOMAIN o.jobs : s.jobs[k].id = o.jobs[m].id => s.jobs[k].kind = o.jobs[m].kind
    BY <1>11, <2>2 DEF Agree
  <2>5. ASSUME NEW k \in Batches(s), NEW m \in Batches(o), s.jobs[k].id = o.jobs[m].id
        PROVE  /\ s.jobs[k].seq = o.jobs[m].seq
               /\ \A x \in Batches(s), l \in Batches(o) : s.jobs[x].seq = o.jobs[l].seq /\ s.jobs[x].seq <= s.jobs[k].seq => s.jobs[x].id = o.jobs[l].id
    <3>1. k \in Batches(r) /\ s.jobs[k] = r.jobs[k] /\ r.jobs[k].seq \in Nat /\ r.jobs[k].seq <= r.seq
      BY <1>2, <1>4, <1>5, <1>7, <2>2, <2>3, <2>5 DEF Batches
    <3>2. \A x \in Batches(s) : s.jobs[x].seq <= s.jobs[k].seq => x \in Batches(r) /\ s.jobs[x] = r.jobs[x]
      BY <1>1, <1>2, <1>4, <1>5, <3>1
    <3>3. r.jobs[k].seq = o.jobs[m].seq /\ \A x \in Batches(r), l \in Batches(o) :
             r.jobs[x].seq = o.jobs[l].seq /\ r.jobs[x].seq <= r.jobs[k].seq => r.jobs[x].id = o.jobs[l].id
      BY <1>11, <2>5, <3>1 DEF Agree
    <3> QED
      BY ZenonT(40), <3>1, <3>2, <3>3
  <2> QED
    BY <2>4, <2>5 DEF Agree
<1> QED
  BY <1>8, <1>10, <1>11 DEF Chronicle

\* The receiver takes the next batch.
LEMMA FitsElsewhere ==
  ASSUME NEW r, NEW s, NEW h, NEW top, NEW x, Ordered(r, top), Ordered(s, top), Agree(r, s), Len(h) \in Nat,
         NEW n \in DOMAIN r.jobs, r.jobs[n].id = x, Fits(r, h, x)
  PROVE  Fits(s, h, x)
<1>1. n \in Batches(r) /\ r.jobs[n].seq = Len(h) + 1 /\ \A m \in Batches(r) : r.jobs[m].seq <= Len(h) => h[r.jobs[m].seq] = r.jobs[m].id
  BY DEF Fits, Batches
<1>2. SUFFICES ASSUME NEW m \in DOMAIN s.jobs, s.jobs[m].id = x
               PROVE  /\ IsBatch(s.jobs[m]) /\ s.jobs[m].seq = Len(h) + 1
                      /\ \A k \in Batches(s) : s.jobs[k].seq <= Len(h) => h[s.jobs[k].seq] = s.jobs[k].id
  BY DEF Fits
<1>3. m \in Batches(s)
  BY <1>1, <1>2 DEF Agree, Batches, IsBatch
<1>4. /\ r.jobs[n].seq = s.jobs[m].seq
      /\ \A k \in Batches(r), l \in Batches(s) :
            r.jobs[k].seq = s.jobs[l].seq /\ r.jobs[k].seq <= r.jobs[n].seq => r.jobs[k].id = s.jobs[l].id
  BY <1>1, <1>2, <1>3 DEF Agree
<1>5. ASSUME NEW l \in Batches(s), s.jobs[l].seq <= Len(h) PROVE h[s.jobs[l].seq] = s.jobs[l].id
  <2>1. s.jobs[l].seq \in Nat /\ 1 <= s.jobs[l].seq
    BY BatchOf DEF Ordered
  <2>2. r.jobs[n].seq <= r.seq /\ r.seq \in Nat
    BY <1>1, BatchOf DEF Ordered
  <2>3. s.jobs[l].seq \in 1..r.seq
    BY <1>1, <1>5, <2>1, <2>2
  <2>4. PICK k \in Batches(r) : r.jobs[k].seq = s.jobs[l].seq
    BY <2>3 DEF Ordered
  <2>5. r.jobs[k].seq <= r.jobs[n].seq
    BY <1>1, <1>5, <2>1, <2>4
  <2>6. r.jobs[k].id = s.jobs[l].id
    BY <1>4, <2>4, <2>5
  <2> QED
    BY <1>1, <1>5, <2>4, <2>6
<1> QED
  BY <1>1, <1>3, <1>4, <1>5 DEF Batches

LEMMA Taken ==
  ASSUME NEW r, NEW h, NEW top, NEW x \in 1..JobBound, x <= top, top \in Nat, Receipts(h, top), ~Has(h, x),
         Chronicle(r, h, top), Fits(r, h, x)
  PROVE  Chronicle(r, Append(h, x), top) /\ Receipts(Append(h, x), top)
<1> DEFINE g == Append(h, x)
<1>1. h \in Seq(1..JobBound) /\ Len(h) \in Nat /\ DOMAIN h = 1..Len(h)
  BY LenProperties DEF Receipts
<1>2. /\ g \in Seq(1..JobBound) /\ Len(g) = Len(h) + 1 /\ g[Len(h) + 1] = x /\ DOMAIN g = 1..(Len(h) + 1)
      /\ \A n \in 1..Len(h) : g[n] = h[n]
  BY <1>1, AppendProperties
<1> HIDE DEF g
<1>3. DOMAIN g = DOMAIN h \cup {Len(h) + 1} /\ Len(h) + 1 \notin DOMAIN h
  BY <1>1, <1>2
<1>4. Receipts(g, top)
  <2>1. \A n \in DOMAIN g : g[n] <= top
    BY <1>1, <1>2, <1>3 DEF Receipts
  <2>2. \A m, n \in DOMAIN g : g[m] = g[n] => m = n
    BY <1>1, <1>2, <1>3 DEF Receipts, Has
  <2> QED
    BY <1>2, <2>1, <2>2 DEF Receipts
<1>5. \A id : Has(g, id) => Has(h, id) \/ id = x
  BY <1>1, <1>2, <1>3 DEF Has
<1>6. \A id : Has(h, id) => Has(g, id)
  BY <1>1, <1>2, <1>3 DEF Has
<1>7. Arrived(r, g)
  BY <1>6 DEF Chronicle, Arrived
<1>8. Continued(r, g)
  <2>1. \A n \in DOMAIN r.jobs : Has(g, r.jobs[n].id) => IsBatch(r.jobs[n])
    BY <1>5 DEF Chronicle, Continued, Fits
  <2>2. ASSUME NEW n \in Batches(r), Has(g, r.jobs[n].id)
        PROVE  r.jobs[n].seq <= Len(g) /\ \A m \in Batches(r) : r.jobs[m].seq <= r.jobs[n].seq => g[r.jobs[m].seq] = r.jobs[m].id
    <3>1. Ordered(r, top)
      BY DEF Chronicle
    <3>2. \A m \in Batches(r) : r.jobs[m].seq \in Nat /\ 1 <= r.jobs[m].seq /\ m \in DOMAIN r.jobs
      BY <3>1, BatchOf DEF Ordered
    <3>3. CASE Has(h, r.jobs[n].id)
      <4>1. r.jobs[n].seq <= Len(h) /\ \A m \in Batches(r) : r.jobs[m].seq <= r.jobs[n].seq => h[r.jobs[m].seq] = r.jobs[m].id
        BY <2>2, <3>3 DEF Chronicle, Continued
      <4>2. \A m \in Batches(r) : r.jobs[m].seq <= r.jobs[n].seq => r.jobs[m].seq \in 1..Len(h)
        BY <1>1, <3>2, <4>1
      <4> QED
        BY <1>1, <1>2, <3>2, <4>1, <4>2
    <3>4. CASE ~Has(h, r.jobs[n].id)
      <4>1. r.jobs[n].id = x
        BY <1>5, <2>2, <3>4
      <4>2. r.jobs[n].seq = Len(h) + 1 /\ \A m \in Batches(r) : r.jobs[m].seq <= Len(h) => h[r.jobs[m].seq] = r.jobs[m].id
        BY <3>2, <4>1 DEF Fits
      <4>3. ASSUME NEW m \in Batches(r), r.jobs[m].seq <= r.jobs[n].seq PROVE g[r.jobs[m].seq] = r.jobs[m].id
        <5>1. CASE r.jobs[m].seq = Len(h) + 1
          <6>1. m = n
            BY <3>1, <4>2, <5>1, SameIds
          <6> QED
            BY <1>2, <4>1, <4>2, <6>1
        <5>2. CASE r.jobs[m].seq # Len(h) + 1
          <6>1. r.jobs[m].seq \in 1..Len(h)
            BY <1>1, <3>2, <4>2, <4>3, <5>2
          <6> QED
            BY <1>2, <4>2, <6>1
        <5> QED
          BY <5>1, <5>2
      <4> QED
        BY <1>1, <1>2, <4>2, <4>3
    <3> QED
      BY <3>3, <3>4
  <2> QED
    BY <2>1, <2>2 DEF Continued
<1> QED
  BY <1>4, <1>7, <1>8 DEF Chronicle, g

LEMMA PastTaken ==
  ASSUME NEW d, NEW c, NEW s, NEW h, NEW top, PastKept(d, c, s, h, top), NEW x \in 1..JobBound, x <= top, ~Has(h, x),
         Fits(d, h, x), Fits(c, h, x), Fits(s, h, x)
  PROVE  PastKept(d, c, s, Append(h, x), top)
  BY Taken DEF PastKept

\* The last of the batches is the last that is held.
LEMMA Watermark ==
  ASSUME NEW r, NEW h, NEW top, Receipts(h, top), Chronicle(r, h, top), NEW n \in Batches(r),
         h # <<>>, h[Len(h)] = r.jobs[n].id
  PROVE  Told(r, h) /\ r.jobs[n].seq = Len(h)
<1>1. h \in Seq(1..JobBound) /\ Len(h) \in Nat /\ DOMAIN h = 1..Len(h) /\ Len(h) \in DOMAIN h
  BY LenProperties, EmptySeq DEF Receipts
<1>2. Has(h, r.jobs[n].id)
  BY <1>1 DEF Has
<1>3. /\ r.jobs[n].seq <= Len(h) /\ \A m \in Batches(r) : r.jobs[m].seq <= r.jobs[n].seq => h[r.jobs[m].seq] = r.jobs[m].id
      /\ r.jobs[n].seq \in Nat /\ 1 <= r.jobs[n].seq /\ r.jobs[n].seq <= r.seq /\ r.seq \in Nat
  BY <1>2, BatchOf DEF Chronicle, Continued, Ordered
<1>4. h[r.jobs[n].seq] = r.jobs[n].id /\ r.jobs[n].seq \in DOMAIN h
  BY <1>1, <1>3
<1>5. r.jobs[n].seq = Len(h)
  BY <1>1, <1>4 DEF Receipts
<1>6. ASSUME NEW q \in DOMAIN h PROVE \E k \in Batches(r) : r.jobs[k].seq = q /\ r.jobs[k].id = h[q]
  <2>1. q \in 1..r.seq /\ q <= r.jobs[n].seq
    BY <1>1, <1>3, <1>5
  <2>2. PICK k \in Batches(r) : r.jobs[k].seq = q
    BY <2>1 DEF Chronicle, Ordered
  <2> QED
    BY <1>3, <2>1, <2>2
<1> QED
  BY <1>5, <1>6 DEF Told

-----------------------------------------------------------------------------
(* The steps of the channel.                                               *)

LEMMA TypeOf ==
  ASSUME ChannelKept
  PROVE  /\ db \in Rows /\ away.copy \in Rows /\ away.state \in Rows
         /\ Chronicle(db, receiver.held, away.staged) /\ Ordered(db, away.staged) /\ Receipts(receiver.held, away.staged)
         /\ DOMAIN db.jobs = 1..Len(db.jobs) /\ Len(db.jobs) \in Nat /\ (\A n \in DOMAIN db.jobs : db.jobs[n] \in Job)
         /\ receiver.held \in Seq(1..JobBound) /\ Len(receiver.held) \in Nat /\ DOMAIN receiver.held = 1..Len(receiver.held)
         /\ away.staged \in 0..JobBound /\ away.staged \in Nat /\ Batches(db) \subseteq DOMAIN db.jobs
<1>1. /\ db \in Rows /\ away.copy \in Rows /\ away.state \in Rows /\ away.staged \in 0..JobBound
      /\ Chronicle(db, receiver.held, away.staged) /\ Ordered(db, away.staged) /\ Receipts(receiver.held, away.staged)
  BY DEF ChannelKept, PublicationTypeOK, PastKept, Chronicle
<1>2. DOMAIN db.jobs = 1..Len(db.jobs) /\ Len(db.jobs) \in Nat /\ (\A n \in DOMAIN db.jobs : db.jobs[n] \in Job)
  BY <1>1, BatchOf
<1>3. receiver.held \in Seq(1..JobBound) /\ Len(receiver.held) \in Nat /\ DOMAIN receiver.held = 1..Len(receiver.held)
  BY <1>1, LenProperties DEF Receipts
<1> QED
  BY <1>1, <1>2, <1>3 DEF Batches

LEMMA Found == ASSUME ChannelKept, NEW n \in DOMAIN db.jobs PROVE Place(db.jobs[n].id) = n
<1>1. \A m \in DOMAIN db.jobs : db.jobs[m].id = db.jobs[n].id => m = n
  BY TypeOf, SameIds
<1> QED
  BY <1>1 DEF Place

\* A job of some rows takes another state.
LEMMA Put ==
  ASSUME NEW r \in Rows, NEW n \in DOMAIN r.jobs, NEW j \in Job,
         j.id = r.jobs[n].id, j.kind = r.jobs[n].kind, j.seq = r.jobs[n].seq,
         NEW s, s = [r EXCEPT !.jobs[n] = j]
  PROVE  /\ s \in Rows /\ Same(r, s) /\ s.jobs[n] = j /\ \A k \in DOMAIN r.jobs : k # n => s.jobs[k] = r.jobs[k]
         /\ s.consent = r.consent /\ s.gen = r.gen /\ s.recon = r.recon /\ s.life = r.life /\ s.seq = r.seq
<1>1. r.jobs \in Seq(Job) /\ DOMAIN r.jobs = 1..Len(r.jobs) /\ Len(r.jobs) \in Nat
  BY LenProperties DEF Rows
<1> DEFINE js == [r.jobs EXCEPT ![n] = j]
<1>2. js \in Seq(Job) /\ Len(js) = Len(r.jobs) /\ js[n] = j /\ (\A k \in DOMAIN r.jobs : k # n => js[k] = r.jobs[k])
  BY <1>1, ExceptSeq
<1>3. DOMAIN js = DOMAIN r.jobs
  OBVIOUS
<1>4. s = [r EXCEPT !.jobs = js]
  BY DEF Rows
<1> HIDE DEF js
<1>5. s \in Rows /\ s.jobs = js /\ s.consent = r.consent /\ s.gen = r.gen /\ s.recon = r.recon /\ s.life = r.life /\ s.seq = r.seq
  BY <1>2, <1>4 DEF Rows
<1> QED
  BY <1>1, <1>2, <1>3, <1>5 DEF Same

LEMMA BatchesSame == ASSUME NEW r, NEW s, Same(r, s) PROVE Batches(s) = Batches(r)
  BY DEF Batches, Same, IsBatch

\* A step of HQ on the jobs it has, while nothing moves elsewhere.
LEMMA Restood ==
  ASSUME ChannelKept, db' \in Rows, Same(db, db'), db'.gen = db.gen, db'.recon = db.recon, db'.life = db.life,
         UNCHANGED <<away, receiver>>, hq'.life = hq.life, hq'.fence = hq.fence,
         PublicationTypeOK', Arrived(db', receiver.held), ~away.restored => Known(db', receiver.held),
         Live => \A n \in DOMAIN db.jobs : db'.jobs[n].need = db.jobs[n].need /\ (db'.jobs[n].st = "delivered" <=> db.jobs[n].st = "delivered"),
         CallKept'
  PROVE  ChannelKept'
<1>1. PastKept(db, away.copy, away.state, receiver.held, away.staged)'
  BY PastStands DEF ChannelKept
<1>2. RestoreRequired' = RestoreRequired /\ Live' = Live
  BY DEF RestoreRequired, Live
<1>3. GensKept'
  BY DEF ChannelKept, GensKept, GensOf
<1>4. Batches(db)' = Batches(db) /\ Batches(db') = Batches(db)
  BY BatchesSame DEF Batches
<1>5. LateKept'
  <2>1. ASSUME Fits(db, receiver.held, away.late.job) PROVE Fits(db, receiver.held, away.late.job)'
    BY <1>4, <2>1 DEF Fits, Same, IsBatch, Batches
  <2>2. Fits(away.copy, receiver.held, away.late.job)' = Fits(away.copy, receiver.held, away.late.job)
    BY DEF Fits, Batches
  <2>3. Fits(away.state, receiver.held, away.late.job)' = Fits(away.state, receiver.held, away.late.job)
    BY DEF Fits, Batches
  <2>4. Has(receiver.held, away.late.job)' = Has(receiver.held, away.late.job)
    BY DEF Has
  <2>5. ASSUME Live, ~away.restored
        PROVE  (\A n \in Batches(db) : db.jobs[n].id = away.late.job => db.jobs[n].st = "delivered" \/ db.jobs[n].need)'
    BY <1>4, <2>5, TypeOf DEF ChannelKept, LateKept, Same
  <2> QED
    BY <1>2, <2>1, <2>2, <2>3, <2>4, <2>5 DEF ChannelKept, LateKept
<1>6. PermitKept'
  BY <1>2 DEF ChannelKept, PermitKept
<1>7. (~RestoreRequired => Told(db, receiver.held))'
  BY <1>2, <1>4, TypeOf DEF ChannelKept, Told, Same
<1>8. (~away.restored => Known(db, receiver.held))'
  BY <1>4 DEF Known, Has
<1> QED
  BY <1>1, <1>3, <1>5, <1>6, <1>7, <1>8 DEF ChannelKept

LEMMA CallStands ==
  ASSUME ChannelKept, Same(db, db'), db'.gen = db.gen, db'.recon = db.recon, db'.life = db.life, UNCHANGED <<hq, away, receiver>>,
         \A n \in DOMAIN db.jobs : db'.jobs[n].need = db.jobs[n].need
  PROVE  CallKept'
<1>1. Batches(db)' = Batches(db) /\ Batches(db) \subseteq DOMAIN db.jobs
  BY BatchesSame, TypeOf DEF Batches
<1>2. ASSUME NEW n \in DOMAIN db.jobs, CallAt(n) PROVE CallAt(n)'
  BY <1>1, <1>2 DEF CallAt, Same, IsBatch, Has
<1>3. RestoreRequired' = RestoreRequired
  BY DEF RestoreRequired
<1>4. DOMAIN db'.jobs = DOMAIN db.jobs
  BY DEF Same
<1> QED
  BY <1>2, <1>3, <1>4 DEF ChannelKept, CallKept, Has

LEMMA SameSelf == ASSUME NEW r \in Rows, NEW s \in Rows, s.jobs = r.jobs, s.seq = r.seq PROVE Same(r, s)
  BY DEF Same, Rows

LEMMA StepConsentEnds == ASSUME ChannelKept, ConsentEnds PROVE ChannelKept'
<1>0. 0 \in Gens /\ db \in Rows /\ db' = [db EXCEPT !.consent = 0] /\ UNCHANGED <<hq, away, receiver>>
  BY TypeOf, PublicationAssumption DEF ConsentEnds, Gens
<1>1. db' \in Rows /\ db'.jobs = db.jobs /\ db'.seq = db.seq /\ db'.gen = db.gen /\ db'.recon = db.recon /\ db'.life = db.life
  BY <1>0 DEF Rows
<1>2. Same(db, db')
  BY <1>1, TypeOf, SameSelf
<1>3. PublicationTypeOK'
  BY <1>0, <1>1 DEF ChannelKept, PublicationTypeOK
<1>4. Arrived(db', receiver.held) /\ (~away.restored => Known(db', receiver.held))
  BY <1>1, TypeOf DEF ChannelKept, Chronicle, Arrived, Known, Batches
<1> QED
  BY <1>0, <1>1, <1>2, <1>3, <1>4, CallStands, Restood

\* Consent takes over what was blocked.
Unblocked ==
    db' = [db EXCEPT !.consent = db.gen,
                     !.jobs = [n \in DOMAIN db.jobs |-> [db.jobs[n] EXCEPT !.st = IF @ = "blocked" THEN "queued" ELSE @]]]

LEMMA StepUnblocked == ASSUME ChannelKept, Unblocked, UNCHANGED <<hq, away, receiver>> PROVE ChannelKept'
<1> DEFINE js == [n \in DOMAIN db.jobs |-> [db.jobs[n] EXCEPT !.st = IF @ = "blocked" THEN "queued" ELSE @]]
<1>1. db \in Rows /\ DOMAIN db.jobs = 1..Len(db.jobs) /\ Len(db.jobs) \in Nat /\ \A n \in DOMAIN db.jobs : db.jobs[n] \in Job
  BY TypeOf
<1>2. ASSUME NEW n \in DOMAIN db.jobs
      PROVE  /\ js[n] \in Job /\ js[n].id = db.jobs[n].id /\ js[n].kind = db.jobs[n].kind /\ js[n].seq = db.jobs[n].seq
             /\ js[n].need = db.jobs[n].need /\ (js[n].st = "delivered" <=> db.jobs[n].st = "delivered")
  <2>1. db.jobs[n] \in Job /\ js[n] = [db.jobs[n] EXCEPT !.st = IF @ = "blocked" THEN "queued" ELSE @]
    BY <1>1
  <2> HIDE DEF js
  <2> QED
    BY <2>1 DEF Job
<1>3. DOMAIN js = 1..Len(db.jobs) /\ js = [n \in 1..Len(db.jobs) |-> js[n]]
  BY <1>1
<1>4. js \in Seq(Job) /\ Len(js) = Len(db.jobs)
  <2>1. \A n \in 1..Len(db.jobs) : js[n] \in Job
    BY <1>1, <1>2
  <2> HIDE DEF js
  <2>2. js \in [1..Len(db.jobs) -> Job]
    BY <1>3, <2>1
  <2> QED
    BY <1>1, <1>3, <2>2, SeqDef, LenProperties
<1>5. db' = [db EXCEPT !.consent = db.gen, !.jobs = js]
  BY DEF Unblocked
<1> HIDE DEF js
<1>6. /\ db' \in Rows /\ db'.jobs = js /\ db'.seq = db.seq /\ db'.gen = db.gen /\ db'.recon = db.recon /\ db'.life = db.life
  BY <1>1, <1>4, <1>5 DEF Rows
<1>7. Same(db, db')
  BY <1>1, <1>2, <1>3, <1>4, <1>6 DEF Same
<1>8. PublicationTypeOK'
  BY <1>4, <1>6 DEF ChannelKept, PublicationTypeOK
<1>9. Batches(db') = Batches(db) /\ Batches(db) \subseteq DOMAIN db.jobs
  BY <1>7, BatchesSame, TypeOf
<1>10. Arrived(db', receiver.held) /\ (~away.restored => Known(db', receiver.held))
  BY <1>2, <1>6, <1>9, TypeOf DEF ChannelKept, Chronicle, Arrived, Known
<1> QED
  BY <1>2, <1>6, <1>7, <1>8, <1>10, CallStands, Restood

LEMMA LaterTop ==
  ASSUME NEW r, NEW h, NEW top \in Nat, Chronicle(r, h, top), Receipts(h, top)
  PROVE  Chronicle(r, h, top + 1) /\ Receipts(h, top + 1)
<1>1. Ordered(r, top)
  BY DEF Chronicle
<1>2. Len(r.jobs) <= top + 1 /\ \A n \in DOMAIN r.jobs : r.jobs[n].id <= top + 1
  BY <1>1, BatchOf DEF Ordered
<1>3. Ordered(r, top + 1)
  BY <1>1, <1>2 DEF Ordered
<1>4. \A n \in DOMAIN h : h[n] \in Nat
  BY ElementOfSeq, LenProperties, PublicationAssumption DEF Receipts
<1>5. Receipts(h, top + 1)
  BY <1>4 DEF Receipts
<1> QED
  BY <1>3, <1>5 DEF Chronicle

LEMMA StepAdds ==
  ASSUME ChannelKept, NEW kind \in {"batch", "heartbeat"}, db' = AddJob(db, kind), Staged, UNCHANGED <<hq, receiver>>
  PROVE  ChannelKept'
<1> DEFINE top == away.staged
           j == [id |-> top + 1, seq |-> IF kind = "batch" THEN db.seq + 1 ELSE 0, kind |-> kind, need |-> FALSE, tried |-> FALSE, st |-> "queued"]
           n0 == Len(db.jobs) + 1
<1>1. /\ db \in Rows /\ Ordered(db, top) /\ Chronicle(db, receiver.held, top) /\ Receipts(receiver.held, top) /\ top \in Nat /\ top \in 0..JobBound
      /\ DOMAIN db.jobs = 1..Len(db.jobs) /\ Len(db.jobs) \in Nat /\ Batches(db) \subseteq DOMAIN db.jobs /\ JobBound \in Nat
  BY TypeOf, PublicationAssumption
<1>2. top < JobBound /\ away' = [away EXCEPT !.staged = top + 1]
  BY DEF Staged
<1>3. /\ away'.staged = top + 1 /\ away'.copy = away.copy /\ away'.state = away.state /\ away'.late = away.late
      /\ away'.restored = away.restored /\ away'.permit = away.permit /\ DOMAIN away' = DOMAIN away
  BY <1>2 DEF ChannelKept, PublicationTypeOK
<1>4. db.seq \in Nat /\ db.seq <= Len(db.jobs) /\ Len(db.jobs) <= top
  BY <1>1, BatchOf DEF Ordered
<1>5. /\ j \in Job /\ j.id = top + 1 /\ j.st = "queued" /\ j.need = FALSE /\ (IsBatch(j) <=> kind = "batch") /\ (IsBatch(j) => j.seq = db.seq + 1)
      /\ j.kind = kind
  BY <1>1, <1>2, <1>4 DEF Job, IsBatch
<1>6. db' = [db EXCEPT !.jobs = Append(db.jobs, j), !.seq = IF kind = "batch" THEN db.seq + 1 ELSE db.seq]
  BY DEF AddJob
<1> HIDE DEF j
<1>7. Append(db.jobs, j) \in Seq(Job) /\ db.jobs \in Seq(Job)
  BY <1>1, <1>5, AppendProperties DEF Rows
<1>8. /\ db' \in Rows /\ db'.jobs = Append(db.jobs, j) /\ db'.seq = (IF IsBatch(j) THEN db.seq + 1 ELSE db.seq)
      /\ db'.gen = db.gen /\ db'.recon = db.recon /\ db'.life = db.life /\ db'.consent = db.consent /\ db'.seq \in 0..JobBound
  <2>1. (IF kind = "batch" THEN db.seq + 1 ELSE db.seq) \in 0..JobBound
    BY <1>1, <1>2, <1>4
  <2> QED
    BY <1>1, <1>5, <1>6, <1>7, <2>1 DEF Rows
<1>9. /\ DOMAIN db'.jobs = DOMAIN db.jobs \cup {n0} /\ n0 \notin DOMAIN db.jobs /\ n0 \in Nat /\ db'.jobs[n0] = j /\ Len(db'.jobs) = n0
      /\ (\A k \in DOMAIN db.jobs : db'.jobs[k] = db.jobs[k] /\ k < n0)
  BY <1>1, <1>7, <1>8, AppendProperties
<1>10. Batches(db') = IF IsBatch(j) THEN Batches(db) \cup {n0} ELSE Batches(db)
  BY <1>9 DEF Batches
<1>11. Chronicle(db', receiver.held, top + 1) /\ \A o : Ordered(o, top) /\ Agree(db, o) => Agree(db', o)
  BY <1>1, <1>2, <1>5, <1>8, Stages2
<1>12. PastKept(db, away.copy, away.state, receiver.held, away.staged)'
  <2>1. /\ Chronicle(away.copy, receiver.held, top) /\ Chronicle(away.state, receiver.held, top)
        /\ Agree(db, away.copy) /\ Agree(db, away.state) /\ Agree(away.copy, away.state)
    BY DEF ChannelKept, PastKept
  <2>2. Agree(db', away.copy) /\ Agree(db', away.state)
    BY <1>11, <2>1 DEF Chronicle
  <2>3. Chronicle(away.copy, receiver.held, top + 1) /\ Chronicle(away.state, receiver.held, top + 1) /\ Receipts(receiver.held, top + 1)
    BY <1>1, <2>1, LaterTop
  <2>4. top + 1 \in 0..JobBound
    BY <1>1, <1>2
  <2> QED
    BY <1>3, <1>11, <2>1, <2>2, <2>3, <2>4 DEF PastKept
<1>13. PublicationTypeOK'
  <2>1. top + 1 \in 0..JobBound /\ Len(db'.jobs) <= JobBound
    BY <1>1, <1>2, <1>4, <1>9
  <2>2. away' \in [copy : Rows, permit : {"none", "ready", "claimed", "completed"}, state : Rows,
                  late : [job : 0..JobBound, gen : Gens], staged : 0..JobBound, restored : BOOLEAN]
    BY <1>2, <2>1 DEF ChannelKept, PublicationTypeOK
  <2> QED
    BY <1>8, <2>1, <2>2 DEF ChannelKept, PublicationTypeOK
<1>14. RestoreRequired' = RestoreRequired /\ Live' = Live
  BY <1>3, <1>8 DEF RestoreRequired, Live
<1>15. GensKept'
  BY <1>3, <1>8 DEF ChannelKept, GensKept, GensOf
<1>16. \A k \in DOMAIN db.jobs : k \in Batches(db') <=> k \in Batches(db)
  BY <1>9 DEF Batches
<1>17. CallKept'
  <2>1. ASSUME NEW n \in DOMAIN db.jobs, CallAt(n) PROVE CallAt(n)'
    <3>1. ASSUME NEW k \in Batches(db'), k < n PROVE Has(receiver.held, db'.jobs[k].id)
      <4>1. k \in DOMAIN db.jobs
        BY <1>1, <1>9, <1>10, <3>1
      <4> QED
        BY <1>9, <1>16, <2>1, <3>1, <4>1 DEF CallAt
    <3> QED
      BY <1>9, <2>1, <3>1 DEF CallAt, Has, Batches
  <2> QED
    BY <1>3, <1>8, <1>9, <1>14, <2>1 DEF ChannelKept, CallKept, Has
<1>18. LateKept'
  <2>1. away.late.job \in Nat /\ away.late.job <= top
    BY DEF ChannelKept, LateKept, PublicationTypeOK
  <2>2. ASSUME Fits(db, receiver.held, away.late.job) PROVE Fits(db', receiver.held, away.late.job)
    <3>1. SUFFICES ASSUME NEW n \in DOMAIN db'.jobs, db'.jobs[n].id = away.late.job
                   PROVE  /\ IsBatch(db'.jobs[n]) /\ db'.jobs[n].seq = Len(receiver.held) + 1
                          /\ \A m \in Batches(db') : db'.jobs[m].seq <= Len(receiver.held) => receiver.held[db'.jobs[m].seq] = db'.jobs[m].id
      BY DEF Fits
    <3>2. n \in DOMAIN db.jobs /\ db'.jobs[n] = db.jobs[n]
      BY <1>1, <1>5, <1>9, <2>1, <3>1
    <3>3. /\ IsBatch(db.jobs[n]) /\ db.jobs[n].seq = Len(receiver.held) + 1
          /\ \A m \in Batches(db) : db.jobs[m].seq <= Len(receiver.held) => receiver.held[db.jobs[m].seq] = db.jobs[m].id
      BY <2>2, <3>1, <3>2 DEF Fits
    <3>4. db.jobs[n].seq <= db.seq
      BY <1>1, <3>2, <3>3 DEF Ordered, Batches
    <3>5. \A m \in Batches(db') : db'.jobs[m].seq <= Len(receiver.held) => m \in Batches(db) /\ db'.jobs[m] = db.jobs[m]
      <4>1. Len(receiver.held) \in Nat
        BY TypeOf
      <4> QED
        <5> SUFFICES ASSUME NEW m \in Batches(db'), db'.jobs[m].seq <= Len(receiver.held)
                     PROVE  m \in Batches(db) /\ db'.jobs[m] = db.jobs[m]
          OBVIOUS
        <5>1. CASE m = n0
          <6>1. IsBatch(j) /\ db'.jobs[m].seq = db.seq + 1
            BY <1>1, <1>5, <1>9, <1>10, <5>1
          <6> QED
            BY <1>4, <3>3, <3>4, <4>1, <6>1
        <5>2. CASE m # n0
          BY <1>1, <1>9, <1>10, <5>2
        <5> QED
          BY <5>1, <5>2
    <3> QED
      BY <3>2, <3>3, <3>5
  <2>3. \A n \in Batches(db') : db'.jobs[n].id = away.late.job => n \in Batches(db) /\ db'.jobs[n] = db.jobs[n]
    BY <1>1, <1>5, <1>9, <1>10, <2>1
  <2>4. away.late.job <= top + 1
    BY <1>1, <2>1
  <2>5. /\ Fits(db, receiver.held, away.late.job)' = Fits(db', receiver.held, away.late.job)
        /\ Fits(away.copy, receiver.held, away.late.job)' = Fits(away.copy, receiver.held, away.late.job)
        /\ Fits(away.state, receiver.held, away.late.job)' = Fits(away.state, receiver.held, away.late.job)
    BY <1>3 DEF Fits, Batches
  <2>6. ASSUME Live, ~away.restored
        PROVE  (\A n \in Batches(db) : db.jobs[n].id = away.late.job => db.jobs[n].st = "delivered" \/ db.jobs[n].need)'
    <3>1. \A n \in Batches(db') : db'.jobs[n].id = away.late.job => db'.jobs[n].st = "delivered" \/ db'.jobs[n].need
      BY <2>3, <2>6 DEF ChannelKept, LateKept
    <3> QED
      BY <1>3, <3>1 DEF Batches
  <2> QED
    BY <1>3, <1>8, <1>14, <2>2, <2>4, <2>5, <2>6 DEF ChannelKept, LateKept, Has
<1>19. PermitKept'
  BY <1>3, <1>8, <1>14 DEF ChannelKept, PermitKept
<1>20. (~RestoreRequired => Told(db, receiver.held))'
  BY SMTT(30), <1>1, <1>9, <1>10, <1>14 DEF ChannelKept, Told
<1>21. (~away.restored => Known(db, receiver.held))'
  <2>1. ~Has(receiver.held, j.id)
    BY <1>1, <1>5 DEF Has, Receipts
  <2> QED
    BY <1>1, <1>3, <1>9, <1>10, <2>1 DEF ChannelKept, Known, Has
<1> QED
  BY <1>12, <1>13, <1>15, <1>17, <1>18, <1>19, <1>20, <1>21 DEF ChannelKept

LEMMA StepConsent == ASSUME ChannelKept, Consent PROVE ChannelKept'
<1>1. CASE Unblocked /\ UNCHANGED <<hq, away, receiver>>
  BY <1>1, StepUnblocked
<1>2. CASE db' = AddJob(db, "batch") /\ Staged /\ UNCHANGED <<hq, receiver>>
  BY <1>2, StepAdds
<1> QED
  BY <1>1, <1>2 DEF Consent, Unblocked

LEMMA StepNewGeneration == ASSUME ChannelKept, NewGeneration PROVE ChannelKept'
<1> DEFINE next == receiver.newest + 1
           fence == IF db.jobs # <<>> /\ hq.fence = 0 THEN db.gen ELSE hq.fence
<1>1. /\ hq.call = NoCall /\ receiver.newest < LifeBound + 1 /\ receiver' = [receiver EXCEPT !.newest = next]
      /\ db' = [db EXCEPT !.gen = next, !.recon = 0, !.consent = 0] /\ hq' = [hq EXCEPT !.fence = fence] /\ away' = away
  BY DEF NewGeneration
<1>2. /\ db \in Rows /\ LifeBound \in Nat /\ receiver.newest \in Gens /\ receiver.gen \in Gens /\ db.gen \in Gens /\ hq.fence \in Gens
  BY TypeOf, PublicationAssumption DEF ChannelKept, PublicationTypeOK, Rows
<1>3. next \in Gens /\ 0 \in Gens /\ fence \in Gens /\ next > receiver.newest /\ next # 0
  BY <1>1, <1>2 DEF Gens
<1> HIDE DEF next, fence
<1>4. /\ db' \in Rows /\ db'.jobs = db.jobs /\ db'.seq = db.seq /\ db'.gen = next /\ db'.recon = 0 /\ db'.life = db.life
  BY <1>1, <1>2, <1>3 DEF Rows
<1>5. receiver' \in [held : Seq(1..JobBound), gen : Gens, newest : Gens] /\ receiver'.held = receiver.held /\ receiver'.gen = receiver.gen /\ receiver'.newest = next
  BY <1>1, <1>3 DEF ChannelKept, PublicationTypeOK
<1>6. /\ hq'.fence = fence /\ hq'.call = NoCall /\ hq'.life = hq.life
      /\ hq' \in [life : 1..LifeBound, fence : Gens,
               call : [job : 0..JobBound, op : {"none", "write", "receipt"}, gen : Gens,
                       answer : {"none", "receipt", "absent", "refused", "retry"}]]
  BY <1>1, <1>3 DEF ChannelKept, PublicationTypeOK
<1>7. PublicationTypeOK'
  BY <1>1, <1>4, <1>5, <1>6 DEF ChannelKept, PublicationTypeOK
<1>8. RestoreRequired'
  BY <1>3, <1>4 DEF RestoreRequired
<1>9. PastKept(db, away.copy, away.state, receiver.held, away.staged)'
  <2>1. Same(db, db') /\ Arrived(db', receiver.held)
    BY <1>2, <1>4, TypeOf, SameSelf DEF Chronicle, Arrived, Batches
  <2>2. PastKept(db', away.copy, away.state, receiver.held, away.staged)
    BY <2>1, PastStands DEF ChannelKept
  <2> QED
    BY <1>1, <1>5, <2>2
<1>10. /\ GensOf(db) /\ GensOf(away.copy) /\ GensOf(away.state) /\ receiver.gen <= receiver.newest
       /\ away.copy.gen \in Gens /\ away.state.gen \in Gens
  BY TypeOf DEF ChannelKept, GensKept, Rows
<1>11. GensKept'
  <2>1. next >= 1
    BY <1>2, <1>3 DEF Gens
  <2> QED
    BY SMTT(30), <1>1, <1>2, <1>3, <1>4, <1>5, <1>10, <2>1 DEF GensKept, GensOf, Gens
<1>12. Live' = Live
  BY <1>1, <1>5 DEF Live
<1>13. LateKept'
  <2>1. away.late.gen \in Gens /\ away.late.gen <= receiver.gen
    BY DEF ChannelKept, PublicationTypeOK, LateKept
  <2>2. away.late.gen < next
    BY <1>2, <1>3, <1>10, <2>1 DEF Gens
  <2>3. /\ Fits(db, receiver.held, away.late.job)' = Fits(db, receiver.held, away.late.job)
        /\ Fits(away.copy, receiver.held, away.late.job)' = Fits(away.copy, receiver.held, away.late.job)
        /\ Fits(away.state, receiver.held, away.late.job)' = Fits(away.state, receiver.held, away.late.job)
    BY <1>1, <1>4, <1>5 DEF Fits, Batches
  <2> QED
    BY <1>1, <1>4, <1>5, <1>8, <1>12, <2>1, <2>2, <2>3 DEF ChannelKept, LateKept, Has, Batches
<1>14. PermitKept'
  <2>1. ASSUME away.permit = "ready" PROVE away.state.gen <= receiver.gen /\ (away.state.gen = receiver.gen => ~Live) /\ away.state.gen < next
    BY <1>2, <1>3, <1>10, <2>1 DEF ChannelKept, PermitKept, Gens
  <2> QED
    BY <1>1, <1>4, <1>5, <1>8, <1>12, <2>1 DEF PermitKept
<1>15. CallKept'
  BY <1>6 DEF CallKept
<1>16. (~away.restored => Known(db, receiver.held))'
  BY <1>1, <1>4, <1>5 DEF ChannelKept, Known, Has, Batches
<1> QED
  BY <1>7, <1>8, <1>9, <1>11, <1>13, <1>14, <1>15, <1>16 DEF ChannelKept

LEMMA StepReceiverAdvances == ASSUME ChannelKept, ReceiverAdvances PROVE ChannelKept'
<1>1. receiver.gen # receiver.newest /\ receiver' = [receiver EXCEPT !.gen = receiver.gen + 1] /\ UNCHANGED <<db, hq, away>>
  BY DEF ReceiverAdvances
<1>2. /\ LifeBound \in Nat /\ receiver.newest \in Gens /\ receiver.gen \in Gens /\ receiver.gen <= receiver.newest
      /\ GensOf(db) /\ GensOf(away.copy) /\ GensOf(away.state) /\ db.gen \in Gens /\ away.copy.gen \in Gens /\ away.state.gen \in Gens
  BY TypeOf, PublicationAssumption DEF ChannelKept, PublicationTypeOK, GensKept, Rows
<1>3. receiver.gen + 1 \in Gens /\ receiver.gen + 1 <= receiver.newest /\ receiver.gen \in Nat
  BY <1>1, <1>2 DEF Gens
<1>4. /\ receiver'.held = receiver.held /\ receiver'.gen = receiver.gen + 1 /\ receiver'.newest = receiver.newest
      /\ receiver' \in [held : Seq(1..JobBound), gen : Gens, newest : Gens]
  BY <1>1, <1>3 DEF ChannelKept, PublicationTypeOK
<1>5. PublicationTypeOK'
  BY <1>1, <1>4 DEF ChannelKept, PublicationTypeOK
<1>6. RestoreRequired' = RestoreRequired
  BY <1>1 DEF RestoreRequired
<1>7. PastKept(db, away.copy, away.state, receiver.held, away.staged)'
  BY <1>1, <1>4 DEF ChannelKept
<1>8. GensKept'
  BY <1>1, <1>2, <1>3, <1>4 DEF GensKept, GensOf, Gens
<1>9. away.late.gen \in Nat /\ away.late.gen <= receiver.gen
  BY <1>2 DEF ChannelKept, PublicationTypeOK, LateKept, Gens
<1>10. ~Live'
  BY <1>1, <1>3, <1>4, <1>9 DEF Live
<1>11. LateKept'
  BY <1>1, <1>3, <1>4, <1>9, <1>10 DEF ChannelKept, LateKept
<1>12. PermitKept'
  BY <1>1, <1>2, <1>3, <1>4 DEF ChannelKept, PermitKept, Gens
<1>13. CallKept'
  BY <1>1, <1>4, <1>6 DEF ChannelKept, CallKept, CallAt, Has, Batches
<1>14. (~RestoreRequired => Told(db, receiver.held))' /\ (~away.restored => Known(db, receiver.held))'
  BY <1>1, <1>4, <1>6 DEF ChannelKept, Told, Known, Has, Batches
<1> QED
  BY <1>5, <1>7, <1>8, <1>11, <1>12, <1>13, <1>14 DEF ChannelKept

LEMMA StepCaptureJob == ASSUME ChannelKept, CaptureJob \/ Heartbeat PROVE ChannelKept'
  BY StepAdds DEF CaptureJob, Heartbeat

\* A job that is asked about is told apart in the rows.
LEMMA Calling ==
  ASSUME ChannelKept, hq.call # NoCall
  PROVE  /\ ~RestoreRequired /\ ~Live /\ hq.call.gen = db.gen /\ hq.fence = 0
         /\ \E n \in DOMAIN db.jobs : CallAt(n) /\ Place(hq.call.job) = n /\ db.jobs[n] \in Job
<1>1. PICK n \in DOMAIN db.jobs : CallAt(n)
  BY DEF ChannelKept, CallKept
<1>2. Place(hq.call.job) = n
  BY <1>1, Found DEF CallAt
<1>3. ~RestoreRequired /\ ~Live /\ hq.call.gen = db.gen
  BY DEF ChannelKept, CallKept, LateKept
<1>4. hq.fence = 0
  BY <1>3 DEF RestoreRequired
<1> QED
  BY <1>1, <1>2, <1>3, <1>4, TypeOf

LEMMA StepDeliver == ASSUME ChannelKept, Deliver PROVE ChannelKept'
<1>1. PICK n \in DOMAIN db.jobs :
        /\ IsPending(db.jobs[n]) /\ db.jobs[n].st # "blocked" /\ \A k \in 1..(n - 1) : ~IsPending(db.jobs[k])
        /\ hq' = [hq EXCEPT !.call = [job |-> db.jobs[n].id, op |-> Operation(db.jobs[n]), gen |-> db.gen, answer |-> "none"]]
        /\ Update(db.jobs[n].id, [db.jobs[n] EXCEPT !.st = "sending", !.need = IsBatch(db.jobs[n]), !.tried = TRUE])
  BY DEF Deliver
<1>2. ~RestoreRequired /\ hq.call = NoCall /\ UNCHANGED <<away, receiver>> /\ ~Live
  BY DEF Deliver, ChannelKept, LateKept
<1> DEFINE j == db.jobs[n]
           e == [j EXCEPT !.st = "sending", !.need = IsBatch(j), !.tried = TRUE]
           c == [job |-> j.id, op |-> Operation(j), gen |-> db.gen, answer |-> "none"]
<1>3. /\ db \in Rows /\ j \in Job /\ DOMAIN db.jobs = 1..Len(db.jobs) /\ Len(db.jobs) \in Nat /\ Batches(db) \subseteq DOMAIN db.jobs
      /\ Chronicle(db, receiver.held, away.staged) /\ db.gen \in Gens
  BY TypeOf DEF Rows
<1>4. e \in Job /\ e.id = j.id /\ e.kind = j.kind /\ e.seq = j.seq /\ e.st = "sending" /\ (IsBatch(j) => e.need) /\ e.need = IsBatch(j)
  <2>1. e = [j EXCEPT !.st = "sending", !.need = IsBatch(j), !.tried = TRUE] /\ IsBatch(j) \in BOOLEAN
    BY DEF IsBatch
  <2> HIDE DEF e
  <2> QED
    BY <1>3, <2>1 DEF Job
<1>5. db' = [db EXCEPT !.jobs[n] = e]
  BY <1>1, Found DEF Update
<1>6. /\ c.job = j.id /\ c.op = Operation(j) /\ c.gen = db.gen /\ c.answer = "none"
      /\ c \in [job : 0..JobBound, op : {"none", "write", "receipt"}, gen : Gens, answer : {"none", "receipt", "absent", "refused", "retry"}]
  <2>1. Operation(j) \in {"write", "receipt"}
    BY DEF Operation
  <2>2. j.id \in 0..JobBound
    BY <1>3, PublicationAssumption DEF Job
  <2> QED
    BY <1>3, <2>1, <2>2
<1>7. hq' = [hq EXCEPT !.call = c]
  BY <1>1
<1> HIDE DEF c, e
<1>8. /\ hq'.call = c /\ hq'.life = hq.life /\ hq'.fence = hq.fence
      /\ hq' \in [life : 1..LifeBound, fence : Gens,
               call : [job : 0..JobBound, op : {"none", "write", "receipt"}, gen : Gens,
                       answer : {"none", "receipt", "absent", "refused", "retry"}]]
  BY <1>6, <1>7 DEF ChannelKept, PublicationTypeOK
<1>9. /\ db' \in Rows /\ Same(db, db') /\ db'.jobs[n] = e /\ \A k \in DOMAIN db.jobs : k # n => db'.jobs[k] = db.jobs[k]
      /\ db'.gen = db.gen /\ db'.recon = db.recon /\ db'.life = db.life
  BY <1>3, <1>4, <1>5, Put
<1>10. PublicationTypeOK'
  BY <1>2, <1>8, <1>9 DEF ChannelKept, PublicationTypeOK, Same
<1>11. Batches(db') = Batches(db)
  BY <1>9, BatchesSame
<1>12. Arrived(db', receiver.held)
  BY <1>3, <1>4, <1>9, <1>11 DEF Chronicle, Arrived
<1>13. ~away.restored => Known(db', receiver.held)
  BY <1>3, <1>4, <1>9, <1>11 DEF ChannelKept, Known, Batches
<1>14. CallKept'
  <2>1. RestoreRequired' = RestoreRequired
    BY <1>8, <1>9 DEF RestoreRequired
  <2>2. \A k \in Batches(db') : k < n => Has(receiver.held, db'.jobs[k].id)
    <3> SUFFICES ASSUME NEW k \in Batches(db'), k < n PROVE Has(receiver.held, db'.jobs[k].id)
      OBVIOUS
    <3>1. k \in Batches(db) /\ k \in 1..(n - 1) /\ db'.jobs[k] = db.jobs[k]
      BY <1>3, <1>9, <1>11
    <3> QED
      BY <1>1, <1>3, <3>1 DEF IsPending, Chronicle, Arrived
  <2>3. CallAt(n)'
    <3>1. c.op = "receipt" => IsBatch(j)
      BY <1>6 DEF Operation
    <3>2. IsBatch(e) = IsBatch(j)
      BY <1>4 DEF IsBatch
    <3>3. db'.jobs[n].id = hq'.call.job
      BY <1>4, <1>6, <1>8, <1>9
    <3> QED
      BY <1>2, <1>4, <1>6, <1>8, <1>9, <2>2, <3>1, <3>2, <3>3 DEF CallAt, Batches
  <2>4. ASSUME ~away.restored, c.op = "write" PROVE ~Has(receiver.held, j.id)
    <3>1. CASE IsBatch(j)
      <4>1. n \in Batches(db) /\ ~j.need /\ j.st # "delivered"
        BY <1>1, <1>6, <2>4, <3>1 DEF Operation, Batches, IsPending
      <4> QED
        BY <2>4, <4>1 DEF ChannelKept, Known
    <3>2. CASE ~IsBatch(j)
      BY <1>3, <3>2 DEF Chronicle, Continued
    <3> QED
      BY <3>1, <3>2
  <2>5. DOMAIN db'.jobs = DOMAIN db.jobs
    BY <1>9 DEF Same
  <2> QED
    BY <1>2, <1>6, <1>8, <1>9, <2>1, <2>3, <2>4, <2>5 DEF CallKept, Has
<1> QED
  BY <1>2, <1>8, <1>9, <1>10, <1>12, <1>13, <1>14, Restood

LEMMA SettledIs ==
  ASSUME NEW j \in Job, NEW answer
  PROVE  /\ Settled(j, answer) \in Job
         /\ Settled(j, answer).id = j.id /\ Settled(j, answer).kind = j.kind /\ Settled(j, answer).seq = j.seq
         /\ Settled(j, answer).st = "delivered" => answer = "receipt"
         /\ answer \notin {"receipt", "absent"} => Settled(j, answer).need = j.need
         /\ answer = "receipt" => Settled(j, answer).st = "delivered"
<1>1. CASE answer = "receipt"
  <2>1. Settled(j, answer) = [j EXCEPT !.st = "delivered", !.need = FALSE]
    BY <1>1 DEF Settled
  <2> QED
    BY <1>1, <2>1 DEF Job
<1>2. CASE answer = "absent"
  <2>1. Settled(j, answer) = [j EXCEPT !.st = "queued", !.need = FALSE]
    BY <1>2 DEF Settled
  <2> QED
    BY <1>2, <2>1 DEF Job
<1>3. CASE answer = "refused"
  <2>1. Settled(j, answer) = [j EXCEPT !.st = "blocked"]
    BY <1>3 DEF Settled
  <2> QED
    BY <1>3, <2>1 DEF Job
<1>4. CASE answer = "retry"
  <2>1. Settled(j, answer) = [j EXCEPT !.st = IF IsBatch(j) THEN "uncertain" ELSE "queued"]
    BY <1>4 DEF Settled
  <2> QED
    BY <1>4, <2>1 DEF Job
<1>5. CASE answer \notin {"receipt", "absent", "refused", "retry"}
  <2>1. Settled(j, answer) = [j EXCEPT !.st = "uncertain"]
    BY <1>5 DEF Settled
  <2> QED
    BY <1>5, <2>1 DEF Job
<1> QED
  BY <1>1, <1>2, <1>3, <1>4, <1>5

LEMMA StepSettleCall == ASSUME ChannelKept, SettleCall PROVE ChannelKept'
<1>1. hq.call # NoCall /\ hq' = [hq EXCEPT !.call = NoCall] /\ UNCHANGED <<away, receiver>>
  BY DEF SettleCall
<1>2. PICK answer \in {hq.call.answer, "none"} : Update(hq.call.job, Settled(db.jobs[Place(hq.call.job)], answer))
  BY DEF SettleCall
<1>3. ~Live
  BY <1>1, Calling
<1>4. PICK n \in DOMAIN db.jobs : CallAt(n) /\ Place(hq.call.job) = n /\ db.jobs[n] \in Job
  BY <1>1, Calling
<1> DEFINE j == db.jobs[n]
           e == Settled(j, answer)
<1>5. db' = [db EXCEPT !.jobs[n] = e]
  BY <1>2, <1>4 DEF Update
<1>6. /\ e \in Job /\ e.id = j.id /\ e.kind = j.kind /\ e.seq = j.seq /\ (e.st = "delivered" => answer = "receipt")
      /\ (answer \notin {"receipt", "absent"} => e.need = j.need) /\ (answer = "receipt" => e.st = "delivered")
  BY <1>4, SettledIs
<1> HIDE DEF e
<1>7. /\ db' \in Rows /\ Same(db, db') /\ db'.jobs[n] = e /\ (\A k \in DOMAIN db.jobs : k # n => db'.jobs[k] = db.jobs[k])
      /\ db'.gen = db.gen /\ db'.recon = db.recon /\ db'.life = db.life
  BY <1>4, <1>5, <1>6, TypeOf, Put
<1>8. NoCall \in [job : 0..JobBound, op : {"none", "write", "receipt"}, gen : Gens, answer : {"none", "receipt", "absent", "refused", "retry"}]
  BY PublicationAssumption DEF NoCall, Gens
<1>9. /\ hq'.call = NoCall /\ hq'.life = hq.life /\ hq'.fence = hq.fence
      /\ hq' \in [life : 1..LifeBound, fence : Gens,
               call : [job : 0..JobBound, op : {"none", "write", "receipt"}, gen : Gens,
                       answer : {"none", "receipt", "absent", "refused", "retry"}]]
  BY <1>1, <1>8 DEF ChannelKept, PublicationTypeOK
<1>10. PublicationTypeOK'
  BY <1>1, <1>7, <1>9 DEF ChannelKept, PublicationTypeOK, Same
<1>11. Batches(db') = Batches(db) /\ Batches(db) \subseteq DOMAIN db.jobs
  BY <1>7, BatchesSame, TypeOf
<1>12. j.id = hq.call.job /\ (answer = "receipt" /\ IsBatch(j) => Has(receiver.held, j.id)) /\ (answer = "absent" => ~Has(receiver.held, j.id))
       /\ (IsBatch(j) => j.need)
  BY <1>2, <1>4 DEF CallAt
<1>13. Arrived(db', receiver.held)
  <2>1. n \in Batches(db) /\ e.st = "delivered" => Has(receiver.held, j.id)
    BY <1>6, <1>12 DEF Batches
  <2> QED
    BY <1>6, <1>7, <1>11, <2>1, TypeOf DEF Chronicle, Arrived
<1>14. ~away.restored => Known(db', receiver.held)
  <2>1. n \in Batches(db) /\ Has(receiver.held, j.id) => e.st = "delivered" \/ e.need
    BY <1>6, <1>12 DEF Batches
  <2> QED
    BY <1>6, <1>7, <1>11, <2>1 DEF ChannelKept, Known
<1>15. CallKept'
  BY <1>9 DEF CallKept
<1> QED
  BY <1>1, <1>3, <1>7, <1>9, <1>10, <1>13, <1>14, <1>15, Restood

LEMMA StepBackUp == ASSUME ChannelKept, BackUp PROVE ChannelKept'
<1>1. away' = [away EXCEPT !.copy = db] /\ UNCHANGED <<db, hq, receiver>>
  BY DEF BackUp
<1>2. /\ away'.copy = db /\ away'.state = away.state /\ away'.late = away.late /\ away'.staged = away.staged
      /\ away'.restored = away.restored /\ away'.permit = away.permit
      /\ away' \in [copy : Rows, permit : {"none", "ready", "claimed", "completed"}, state : Rows,
                   late : [job : 0..JobBound, gen : Gens], staged : 0..JobBound, restored : BOOLEAN]
  BY <1>1, TypeOf DEF ChannelKept, PublicationTypeOK
<1>3. PublicationTypeOK'
  BY <1>1, <1>2 DEF ChannelKept, PublicationTypeOK
<1>4. PastKept(db, db, away.state, receiver.held, away.staged)
  BY PastCopied DEF ChannelKept
<1>5. PastKept(db, away.copy, away.state, receiver.held, away.staged)'
  BY <1>1, <1>2, <1>4
<1>6. RestoreRequired' = RestoreRequired /\ Live' = Live
  BY <1>1, <1>2 DEF RestoreRequired, Live
<1>7. GensKept'
  BY <1>1, <1>2 DEF ChannelKept, GensKept, GensOf
<1>8. LateKept'
  BY <1>1, <1>2, <1>6 DEF ChannelKept, LateKept, Fits, Has, Batches
<1>9. CallKept'
  BY <1>1, <1>2, <1>6 DEF ChannelKept, CallKept, CallAt, Has, Batches
<1>10. PermitKept'
  BY <1>1, <1>2, <1>6 DEF ChannelKept, PermitKept
<1>11. (~RestoreRequired => Told(db, receiver.held))' /\ (~away.restored => Known(db, receiver.held))'
  BY <1>1, <1>2, <1>6 DEF ChannelKept, Told, Known, Has, Batches
<1> QED
  BY <1>3, <1>5, <1>7, <1>8, <1>9, <1>10, <1>11 DEF ChannelKept

\* What the receiver takes leaves the rest as it was.
LEMMA ReceivedType ==
  ASSUME ChannelKept, NEW x \in 1..JobBound, receiver' = [receiver EXCEPT !.held = Append(receiver.held, x)]
  PROVE  /\ receiver'.held = Append(receiver.held, x) /\ receiver'.gen = receiver.gen /\ receiver'.newest = receiver.newest
         /\ receiver' \in [held : Seq(1..JobBound), gen : Gens, newest : Gens]
         /\ DOMAIN receiver'.held = DOMAIN receiver.held \cup {Len(receiver.held) + 1} /\ receiver'.held[Len(receiver.held) + 1] = x
         /\ \A n \in DOMAIN receiver.held : receiver'.held[n] = receiver.held[n]
         /\ \A id : Has(receiver'.held, id) <=> Has(receiver.held, id) \/ id = x
<1> DEFINE g == Append(receiver.held, x)
<1>1. receiver.held \in Seq(1..JobBound) /\ Len(receiver.held) \in Nat /\ DOMAIN receiver.held = 1..Len(receiver.held)
  BY TypeOf
<1>2. /\ g \in Seq(1..JobBound) /\ DOMAIN g = DOMAIN receiver.held \cup {Len(receiver.held) + 1} /\ g[Len(receiver.held) + 1] = x
      /\ \A n \in DOMAIN receiver.held : g[n] = receiver.held[n]
  BY <1>1, AppendProperties
<1>3. receiver' = [receiver EXCEPT !.held = g]
  OBVIOUS
<1> HIDE DEF g
<1>4. /\ receiver'.held = g /\ receiver'.gen = receiver.gen /\ receiver'.newest = receiver.newest
      /\ receiver' \in [held : Seq(1..JobBound), gen : Gens, newest : Gens]
  BY <1>2, <1>3 DEF ChannelKept, PublicationTypeOK
<1>5. \A id : Has(g, id) <=> Has(receiver.held, id) \/ id = x
  BY <1>2 DEF Has
<1> QED
  BY <1>2, <1>4, <1>5 DEF g

LEMMA StepDeadRequestLands == ASSUME ChannelKept, DeadRequestLands PROVE ChannelKept'
<1> DEFINE x == away.late.job
           none == [job |-> 0, gen |-> 0]
<1>1. /\ x # 0 /\ away' = [away EXCEPT !.late = none] /\ UNCHANGED <<db, hq>>
      /\ IF Live THEN Receives(x) ELSE receiver' = receiver
  BY DEF DeadRequestLands, Live
<1>2. none \in [job : 0..JobBound, gen : Gens] /\ none.job = 0 /\ none.gen = 0
  BY PublicationAssumption DEF Gens
<1> HIDE DEF none
<1>3. /\ away'.copy = away.copy /\ away'.state = away.state /\ away'.late = none /\ away'.staged = away.staged
      /\ away'.restored = away.restored /\ away'.permit = away.permit
      /\ away' \in [copy : Rows, permit : {"none", "ready", "claimed", "completed"}, state : Rows,
                   late : [job : 0..JobBound, gen : Gens], staged : 0..JobBound, restored : BOOLEAN]
  BY <1>1, <1>2 DEF ChannelKept, PublicationTypeOK
<1>4. x \in 1..JobBound /\ x <= away.staged
  BY <1>1, PublicationAssumption DEF ChannelKept, PublicationTypeOK, LateKept
<1>5. RestoreRequired' = RestoreRequired /\ ~Live'
  BY <1>1, <1>2, <1>3 DEF RestoreRequired, Live
<1>6. db.gen \in Gens /\ db.gen >= 1 /\ LifeBound \in Nat
  BY TypeOf, PublicationAssumption DEF ChannelKept, GensKept, GensOf, Rows, Gens
<1>7. CASE receiver' = receiver
  <2>1. PublicationTypeOK'
    BY <1>1, <1>3, <1>7 DEF ChannelKept, PublicationTypeOK
  <2>2. PastKept(db, away.copy, away.state, receiver.held, away.staged)'
    BY <1>1, <1>3, <1>7 DEF ChannelKept
  <2>3. GensKept'
    BY <1>1, <1>3, <1>7 DEF ChannelKept, GensKept, GensOf
  <2>4. CallKept'
    BY <1>1, <1>3, <1>5, <1>7 DEF ChannelKept, CallKept, CallAt, Has, Batches
  <2>5. LateKept'
    <3>1. 0 <= away.staged /\ 0 <= receiver.gen
      BY <1>6, PublicationAssumption DEF ChannelKept, PublicationTypeOK, Gens
    <3>2. 0 < db.gen
      BY <1>6 DEF Gens
    <3> QED
      BY <1>1, <1>2, <1>3, <1>5, <1>7, <3>1, <3>2 DEF LateKept
  <2>6. PermitKept'
    BY <1>1, <1>3, <1>5, <1>7 DEF ChannelKept, PermitKept
  <2>7. (~RestoreRequired => Told(db, receiver.held))' /\ (~away.restored => Known(db, receiver.held))'
    BY <1>1, <1>3, <1>5, <1>7 DEF ChannelKept, Told, Known, Has, Batches
  <2> QED
    BY <2>1, <2>2, <2>3, <2>4, <2>5, <2>6, <2>7 DEF ChannelKept
<1>8. CASE receiver' # receiver
  <2>1. Live /\ Receives(x) /\ RestoreRequired
    BY <1>1, <1>8 DEF ChannelKept, LateKept
  <2>2. ~Has(receiver.held, x)
    <3>1. ASSUME Has(receiver.held, x) PROVE receiver' = receiver
      <4>1. IsHeld(x)
        BY <3>1 DEF Has, IsHeld
      <4> QED
        BY <2>1, <4>1 DEF Receives, ChannelKept, PublicationTypeOK
    <3> QED
      BY <1>8, <3>1
  <2>3. receiver' = [receiver EXCEPT !.held = Append(receiver.held, x)]
    BY <2>1, <2>2 DEF Receives, Has, IsHeld
  <2>4. /\ receiver'.held = Append(receiver.held, x) /\ receiver'.gen = receiver.gen /\ receiver'.newest = receiver.newest
        /\ receiver' \in [held : Seq(1..JobBound), gen : Gens, newest : Gens]
        /\ \A id : Has(receiver'.held, id) <=> Has(receiver.held, id) \/ id = x
    BY <1>4, <2>3, ReceivedType
  <2>5. Fits(db, receiver.held, x) /\ Fits(away.copy, receiver.held, x) /\ Fits(away.state, receiver.held, x)
    BY <2>1, <2>2 DEF ChannelKept, LateKept
  <2>6. PastKept(db, away.copy, away.state, receiver'.held, away.staged)
    BY <1>4, <2>2, <2>4, <2>5, PastTaken DEF ChannelKept
  <2>7. PastKept(db, away.copy, away.state, receiver.held, away.staged)'
    BY <1>1, <1>3, <2>6
  <2>8. PublicationTypeOK'
    BY <1>1, <1>3, <2>4 DEF ChannelKept, PublicationTypeOK
  <2>9. GensKept'
    BY <1>1, <1>3, <2>4 DEF ChannelKept, GensKept, GensOf
  <2>10. CallKept'
    BY <1>1, <2>1 DEF ChannelKept, CallKept
  <2>11. LateKept'
    <3>1. 0 <= away.staged /\ 0 <= receiver.gen
      BY <1>6, PublicationAssumption DEF ChannelKept, PublicationTypeOK, Gens
    <3>2. 0 < db.gen
      BY <1>6 DEF Gens
    <3> QED
      BY <1>1, <1>2, <1>3, <1>5, <2>4, <3>1, <3>2 DEF LateKept
  <2>12. PermitKept'
    BY <1>1, <1>3, <1>5, <2>4 DEF ChannelKept, PermitKept
  <2>13. (~RestoreRequired => Told(db, receiver.held))'
    BY <1>5, <2>1
  <2>14. (~away.restored => Known(db, receiver.held))'
    <3> SUFFICES ASSUME ~away.restored, NEW n \in Batches(db), Has(receiver'.held, db.jobs[n].id)
                 PROVE  db.jobs[n].st = "delivered" \/ db.jobs[n].need
      BY <1>1, <1>3 DEF Known, Batches
    <3>1. CASE Has(receiver.held, db.jobs[n].id)
      BY <3>1 DEF ChannelKept, Known
    <3>2. CASE db.jobs[n].id = x
      BY <2>1, <3>2 DEF ChannelKept, LateKept
    <3> QED
      BY <2>4, <3>1, <3>2
  <2> QED
    BY <2>7, <2>8, <2>9, <2>10, <2>11, <2>12, <2>13, <2>14 DEF ChannelKept
<1> QED
  BY <1>7, <1>8

LEMMA StepReaches == ASSUME ChannelKept, Reaches PROVE ChannelKept'
<1> DEFINE c == hq.call
           Answers(a) == hq' = [hq EXCEPT !.call.answer = a]
<1>1. c # NoCall /\ c.answer = "none" /\ UNCHANGED <<db, away>>
  BY DEF Reaches
<1>2. ~RestoreRequired /\ ~Live /\ c.gen = db.gen /\ hq.fence = 0
  BY <1>1, Calling
<1>3. PICK n \in DOMAIN db.jobs : CallAt(n) /\ Place(c.job) = n /\ db.jobs[n] \in Job
  BY <1>1, Calling
<1>4. /\ db \in Rows /\ Chronicle(db, receiver.held, away.staged) /\ Same(db, db') /\ db.jobs[n].id = c.job
      /\ c.job \in 1..JobBound /\ c.job <= away.staged /\ n \in DOMAIN db'.jobs
  BY <1>1, <1>3, TypeOf, SameSelf DEF CallAt, Job, Ordered
<1>5. ASSUME NEW a \in {"receipt", "absent", "refused", "retry"}, Answers(a)
      PROVE  /\ hq'.call.answer = a /\ hq'.call.job = c.job /\ hq'.call.op = c.op /\ hq'.call.gen = c.gen
             /\ hq'.life = hq.life /\ hq'.fence = hq.fence
             /\ hq' \in [life : 1..LifeBound, fence : Gens,
                     call : [job : 0..JobBound, op : {"none", "write", "receipt"}, gen : Gens,
                             answer : {"none", "receipt", "absent", "refused", "retry"}]]
  BY <1>5 DEF ChannelKept, PublicationTypeOK
<1>6. ASSUME NEW a \in {"receipt", "absent", "refused", "retry"}, Answers(a), receiver' = receiver,
             a = "receipt" /\ IsBatch(db.jobs[n]) => Has(receiver.held, c.job),
             a = "absent" => IsBatch(db.jobs[n]) /\ ~Has(receiver.held, c.job)
      PROVE  ChannelKept'
  <2>1. PublicationTypeOK'
    BY <1>1, <1>5, <1>6 DEF ChannelKept, PublicationTypeOK
  <2>2. CallAt(n)'
    BY <1>1, <1>3, <1>5, <1>6 DEF CallAt, Has, Batches
  <2>3. CallKept'
    BY <1>1, <1>2, <1>4, <1>5, <1>6, <2>2 DEF CallKept, RestoreRequired
  <2>4. Arrived(db', receiver.held) /\ (~away.restored => Known(db', receiver.held))
    BY <1>1, <1>4 DEF Chronicle, ChannelKept
  <2> QED
    BY <1>1, <1>2, <1>4, <1>5, <1>6, <2>1, <2>3, <2>4, Restood
<1>7. CASE c.gen # receiver.gen /\ Answers("refused") /\ receiver' = receiver
  BY <1>6, <1>7
<1>8. CASE Answers("retry") /\ receiver' = receiver
  BY <1>6, <1>8
<1>9. CASE c.gen = receiver.gen /\ c.op = "receipt" /\ receiver' = receiver /\ Answers(IF IsHeld(c.job) THEN "receipt" ELSE "absent")
  <2>1. IsHeld(c.job) <=> Has(receiver.held, c.job)
    BY DEF IsHeld, Has
  <2>2. IsBatch(db.jobs[n])
    BY <1>3, <1>9 DEF CallAt
  <2>3. CASE IsHeld(c.job)
    BY <1>6, <1>9, <2>1, <2>2, <2>3
  <2>4. CASE ~IsHeld(c.job)
    BY <1>6, <1>9, <2>1, <2>2, <2>4
  <2> QED
    BY <2>3, <2>4
<1>10. CASE /\ c.gen = receiver.gen /\ c.op = "write" /\ Answers("receipt")
            /\ IF IsBatch(db.jobs[n]) THEN InSequence(c.job) /\ Receives(c.job) ELSE receiver' = receiver
  <2>1. CASE ~IsBatch(db.jobs[n])
    BY <1>6, <1>10, <2>1
  <2>2. CASE IsBatch(db.jobs[n]) /\ Has(receiver.held, c.job)
    <3>1. IsHeld(c.job)
      BY <2>2 DEF IsHeld, Has
    <3>2. receiver' = receiver
      BY <1>10, <2>2, <3>1 DEF Receives, ChannelKept, PublicationTypeOK
    <3> QED
      BY <1>6, <1>10, <2>2, <3>2
  <2>3. CASE IsBatch(db.jobs[n]) /\ ~Has(receiver.held, c.job)
    <3>1. ~IsHeld(c.job)
      BY <2>3 DEF IsHeld, Has
    <3>2. receiver' = [receiver EXCEPT !.held = Append(receiver.held, c.job)] /\ db.jobs[n].seq = Len(receiver.held) + 1
      BY <1>3, <1>10, <2>3, <3>1 DEF Receives, InSequence
    <3>3. /\ receiver'.held = Append(receiver.held, c.job) /\ receiver'.gen = receiver.gen /\ receiver'.newest = receiver.newest
          /\ receiver' \in [held : Seq(1..JobBound), gen : Gens, newest : Gens]
          /\ DOMAIN receiver'.held = DOMAIN receiver.held \cup {Len(receiver.held) + 1} /\ receiver'.held[Len(receiver.held) + 1] = c.job
          /\ \A k \in DOMAIN receiver.held : receiver'.held[k] = receiver.held[k]
          /\ \A id : Has(receiver'.held, id) <=> Has(receiver.held, id) \/ id = c.job
      BY <1>4, <3>2, ReceivedType
    <3>4. Told(db, receiver.held)
      BY <1>2 DEF ChannelKept
    <3>5. Ordered(db, away.staged) /\ Len(receiver.held) \in Nat /\ DOMAIN receiver.held = 1..Len(receiver.held)
      BY TypeOf
    <3>6. Fits(db, receiver.held, c.job)
      <4>1. \A m \in DOMAIN db.jobs : db.jobs[m].id = c.job => m = n
        BY <1>4, <3>5, SameIds
      <4>2. ASSUME NEW m \in Batches(db), db.jobs[m].seq <= Len(receiver.held) PROVE receiver.held[db.jobs[m].seq] = db.jobs[m].id
        <5>1. db.jobs[m].seq \in DOMAIN receiver.held
          BY <3>5, <4>2, BatchOf DEF Ordered
        <5>2. PICK k \in Batches(db) : db.jobs[k].seq = db.jobs[m].seq /\ db.jobs[k].id = receiver.held[db.jobs[m].seq]
          BY <3>4, <5>1 DEF Told
        <5>3. k = m
          BY <3>5, <5>2, SameIds
        <5> QED
          BY <5>2, <5>3
      <4> QED
        BY <2>3, <3>2, <4>1, <4>2 DEF Fits
    <3>7. Fits(away.copy, receiver.held, c.job) /\ Fits(away.state, receiver.held, c.job)
      <4>1. /\ Ordered(away.copy, away.staged) /\ Ordered(away.state, away.staged) /\ Agree(db, away.copy) /\ Agree(db, away.state)
        BY DEF ChannelKept, PastKept, Chronicle
      <4> QED
        BY <1>4, <3>5, <3>6, <4>1, FitsElsewhere
    <3>8. PastKept(db, away.copy, away.state, receiver'.held, away.staged)
      BY <1>4, <2>3, <3>3, <3>6, <3>7, PastTaken DEF ChannelKept
    <3>9. PastKept(db, away.copy, away.state, receiver.held, away.staged)'
      BY <1>1, <3>8
    <3>10. /\ hq'.call.answer = "receipt" /\ hq'.call.job = c.job /\ hq'.call.op = c.op /\ hq'.call.gen = c.gen
           /\ hq'.life = hq.life /\ hq'.fence = hq.fence
           /\ hq' \in [life : 1..LifeBound, fence : Gens,
                   call : [job : 0..JobBound, op : {"none", "write", "receipt"}, gen : Gens,
                           answer : {"none", "receipt", "absent", "refused", "retry"}]]
      BY <1>5, <1>10
    <3>11. PublicationTypeOK'
      BY <1>1, <3>3, <3>10 DEF ChannelKept, PublicationTypeOK
    <3>12. RestoreRequired' = RestoreRequired /\ Live' = Live
      BY <1>1, <3>3, <3>10 DEF RestoreRequired, Live
    <3>13. GensKept'
      BY <1>1, <3>3 DEF ChannelKept, GensKept, GensOf
    <3>14. CallAt(n)'
      BY <1>1, <1>3, <1>4, <3>3, <3>10 DEF CallAt, Batches
    <3>15. CallKept'
      BY <1>1, <1>2, <3>10, <3>12, <3>14 DEF CallKept
    <3>16. LateKept'
      BY <1>1, <1>2, <3>3, <3>10, <3>12 DEF ChannelKept, LateKept
    <3>17. PermitKept'
      BY <1>1, <1>2, <3>3, <3>10, <3>12 DEF ChannelKept, PermitKept
    <3>18. n \in Batches(db)
      BY <2>3 DEF Batches
    <3>19. Told(db, receiver'.held)
      BY SMTT(30), <1>4, <3>2, <3>3, <3>4, <3>18 DEF Told
    <3>20. ~away.restored => Known(db, receiver'.held)
      <4>1. \A m \in Batches(db) : db.jobs[m].id = c.job => m = n
        BY <1>4, <3>5, SameIds, TypeOf
      <4>2. db.jobs[n].need
        BY <1>3, <2>3 DEF CallAt
      <4> QED
        BY <3>3, <4>1, <4>2 DEF ChannelKept, Known
    <3>21. (~RestoreRequired => Told(db, receiver.held))' /\ (~away.restored => Known(db, receiver.held))'
      BY <1>1, <3>19, <3>20 DEF Told, Known, Batches
    <3> QED
      BY <3>9, <3>11, <3>13, <3>15, <3>16, <3>17, <3>21 DEF ChannelKept
  <2> QED
    BY <2>1, <2>2, <2>3
<1>11. \/ c.gen # receiver.gen /\ Answers("refused") /\ receiver' = receiver
       \/ Answers("retry") /\ receiver' = receiver
       \/ c.gen = receiver.gen /\ c.op = "receipt" /\ receiver' = receiver /\ Answers(IF IsHeld(c.job) THEN "receipt" ELSE "absent")
       \/ /\ c.gen = receiver.gen /\ c.op = "write" /\ Answers("receipt")
          /\ IF IsBatch(db.jobs[n]) THEN InSequence(c.job) /\ Receives(c.job) ELSE receiver' = receiver
  BY <1>3 DEF Reaches
<1> QED
  BY <1>7, <1>8, <1>9, <1>10, <1>11

LEMMA StepReconcile == ASSUME ChannelKept, ReconcileChannel PROVE ChannelKept'
<1>1. /\ hq.fence # 0 /\ db.gen > hq.fence /\ UNCHANGED <<away, receiver>> /\ RestoreRequired
  BY DEF ReconcileChannel, RestoreRequired
<1>2. hq.call = NoCall
  BY <1>1 DEF ChannelKept, CallKept
<1>3. PICK n \in Batches(db) :
        LET asked == db.jobs[n]
            j == [asked EXCEPT !.tried = TRUE]
            absent == ~IsHeld(asked.id) /\ IsPending(j)
        IN IF receiver.gen = db.gen /\ Confirms(n)
           THEN /\ db' = [db EXCEPT !.recon = db.gen, !.life = hq.life,
                                    !.jobs[n] = IF absent THEN [j EXCEPT !.st = "queued", !.need = FALSE] ELSE j]
                /\ hq' = [hq EXCEPT !.fence = 0]
           ELSE db' = [db EXCEPT !.jobs[n] = j] /\ j # asked /\ UNCHANGED hq
  BY DEF ReconcileChannel
<1> DEFINE asked == db.jobs[n]
           j == [asked EXCEPT !.tried = TRUE]
           absent == ~IsHeld(asked.id) /\ IsPending(j)
           e == IF absent THEN [j EXCEPT !.st = "queued", !.need = FALSE] ELSE j
<1>4. /\ db \in Rows /\ n \in DOMAIN db.jobs /\ asked \in Job /\ Batches(db) \subseteq DOMAIN db.jobs /\ db.gen \in Gens /\ db.gen \in Nat
      /\ hq.life \in 1..LifeBound /\ Chronicle(db, receiver.held, away.staged) /\ 0 \in Gens
  <2>1. hq.life \in 1..LifeBound
    BY DEF ChannelKept, PublicationTypeOK
  <2>2. db \in Rows /\ n \in DOMAIN db.jobs /\ asked \in Job /\ Batches(db) \subseteq DOMAIN db.jobs /\ Chronicle(db, receiver.held, away.staged)
    BY TypeOf
  <2>3. db.gen \in Gens
    BY <2>2 DEF Rows
  <2> QED
    BY <2>1, <2>2, <2>3, PublicationAssumption DEF Gens
<1>5. /\ j \in Job /\ j.id = asked.id /\ j.kind = asked.kind /\ j.seq = asked.seq /\ j.need = asked.need /\ j.st = asked.st
  <2>1. j = [asked EXCEPT !.tried = TRUE]
    OBVIOUS
  <2> HIDE DEF j
  <2> QED
    BY <1>4, <2>1 DEF Job
<1>6. CASE receiver.gen = db.gen /\ Confirms(n)
  <2>1. db' = [db EXCEPT !.recon = db.gen, !.life = hq.life, !.jobs[n] = e] /\ hq' = [hq EXCEPT !.fence = 0]
    BY <1>3, <1>6
  <2>2. /\ e \in Job /\ e.id = asked.id /\ e.kind = asked.kind /\ e.seq = asked.seq
        /\ (e.st = "delivered" => asked.st = "delivered")
        /\ (Has(receiver.held, asked.id) => e.st = asked.st /\ e.need = asked.need)
    <3>1. CASE absent
      <4>1. e = [j EXCEPT !.st = "queued", !.need = FALSE]
        BY <3>1
      <4>2. ~Has(receiver.held, asked.id)
        BY <3>1 DEF Has, IsHeld
      <4> HIDE DEF e, j
      <4> QED
        BY <1>5, <4>1, <4>2 DEF Job
    <3>2. CASE ~absent
      <4>1. e = j
        BY <3>2
      <4> HIDE DEF e, j
      <4> QED
        BY <1>5, <4>1
    <3> QED
      BY <3>1, <3>2
  <2> HIDE DEF e
  <2> DEFINE r == [db EXCEPT !.jobs[n] = e]
  <2>3. /\ r \in Rows /\ Same(db, r) /\ r.jobs[n] = e /\ (\A k \in DOMAIN db.jobs : k # n => r.jobs[k] = db.jobs[k])
        /\ r.gen = db.gen /\ r.seq = db.seq
    BY <1>4, <2>2, Put
  <2>4. db' = [r EXCEPT !.recon = db.gen, !.life = hq.life]
    BY <1>4, <2>1 DEF Rows
  <2> HIDE DEF r
  <2>5. /\ db' \in Rows /\ db'.jobs = r.jobs /\ db'.seq = db.seq /\ db'.gen = db.gen /\ db'.recon = db.gen /\ db'.life = hq.life
    BY <1>4, <2>3, <2>4 DEF Rows
  <2>6. Same(db, db') /\ db'.jobs[n] = e /\ (\A k \in DOMAIN db.jobs : k # n => db'.jobs[k] = db.jobs[k])
    BY <2>3, <2>5 DEF Same
  <2>7. /\ hq'.fence = 0 /\ hq'.life = hq.life /\ hq'.call = NoCall
        /\ hq' \in [life : 1..LifeBound, fence : Gens,
               call : [job : 0..JobBound, op : {"none", "write", "receipt"}, gen : Gens,
                       answer : {"none", "receipt", "absent", "refused", "retry"}]]
    BY <1>2, <1>4, <2>1 DEF ChannelKept, PublicationTypeOK
  <2>8. PublicationTypeOK'
    BY <1>1, <2>5, <2>6, <2>7 DEF ChannelKept, PublicationTypeOK, Same
  <2>9. Batches(db') = Batches(db)
    BY <2>6, BatchesSame
  <2>10. Arrived(db', receiver.held)
    BY <1>4, <2>2, <2>6, <2>9 DEF Chronicle, Arrived
  <2>11. PastKept(db, away.copy, away.state, receiver.held, away.staged)'
    <3>1. PastKept(db', away.copy, away.state, receiver.held, away.staged)
      BY <2>6, <2>10, PastStands DEF ChannelKept
    <3> QED
      BY <1>1, <3>1
  <2>12. GensKept'
    BY <1>1, <1>4, <1>6, <2>5 DEF ChannelKept, GensKept, GensOf
  <2>13. CallKept'
    BY <2>7 DEF CallKept
  <2>14. away.late.gen < receiver.gen /\ away.late.gen \in Gens /\ receiver.gen \in Nat
    BY <1>1, <1>4, <1>6 DEF ChannelKept, LateKept, PublicationTypeOK
  <2>15. ~Live'
    BY <1>1, <2>14, PublicationAssumption DEF Live, Gens
  <2>16. LateKept'
    BY <1>1, <2>7, <2>15 DEF ChannelKept, LateKept
  <2>17. PermitKept'
    <3>1. away.permit = "ready" => away.state.gen < receiver.gen /\ away.state.gen <= receiver.gen /\ away.state.gen # receiver.gen
      <4>1. away.permit = "ready" => away.state.gen < receiver.gen
        BY <1>1, <1>6 DEF ChannelKept, PermitKept
      <4>2. away.state.gen \in Nat
        BY TypeOf, PublicationAssumption DEF Rows, Gens
      <4> QED
        BY <2>14, <4>1, <4>2
    <3> QED
      BY <1>1, <2>7, <3>1 DEF PermitKept
  <2>18. Told(db, receiver.held)
    <3>1. \A k \in Batches(db) : WatermarkOf(db.jobs[k].id) => Told(db, receiver.held)
      BY <1>4, TypeOf, Watermark DEF WatermarkOf
    <3>2. receiver.held = <<>> => Told(db, receiver.held)
      BY DEF Told
    <3>3. (\E k \in Batches(db) : WatermarkOf(db.jobs[k].id)) \/ receiver.held = <<>>
      BY <1>6 DEF Confirms
    <3> QED
      BY <3>1, <3>2, <3>3
  <2>19. Told(db', receiver.held)
    BY <1>4, <2>6, <2>9, <2>18 DEF Told, Same
  <2>20. ~away.restored => Known(db', receiver.held)
    BY <1>4, <2>2, <2>6, <2>9 DEF ChannelKept, Known
  <2>21. (~RestoreRequired => Told(db, receiver.held))' /\ (~away.restored => Known(db, receiver.held))'
    BY <1>1, <2>19, <2>20 DEF Told, Known, Batches
  <2> QED
    BY <2>8, <2>11, <2>12, <2>13, <2>16, <2>17, <2>21 DEF ChannelKept
<1>7. CASE ~(receiver.gen = db.gen /\ Confirms(n))
  <2>1. db' = [db EXCEPT !.jobs[n] = j] /\ UNCHANGED <<hq, away, receiver>>
    BY <1>1, <1>3, <1>7
  <2> HIDE DEF j
  <2>2. /\ db' \in Rows /\ Same(db, db') /\ db'.jobs[n] = j /\ (\A k \in DOMAIN db.jobs : k # n => db'.jobs[k] = db.jobs[k])
        /\ db'.gen = db.gen /\ db'.recon = db.recon /\ db'.life = db.life
    BY <1>4, <1>5, <2>1, Put
  <2>3. \A k \in DOMAIN db.jobs : db'.jobs[k].need = db.jobs[k].need /\ db'.jobs[k].st = db.jobs[k].st /\ db'.jobs[k].id = db.jobs[k].id
    BY <1>5, <2>2
  <2>4. PublicationTypeOK'
    BY <2>1, <2>2 DEF ChannelKept, PublicationTypeOK, Same
  <2>5. Batches(db') = Batches(db)
    BY <2>2, BatchesSame
  <2>6. Arrived(db', receiver.held) /\ (~away.restored => Known(db', receiver.held))
    BY <1>4, <2>3, <2>5 DEF Chronicle, Arrived, ChannelKept, Known
  <2>7. CallKept'
    BY <2>1, <2>2, <2>3, CallStands
  <2> QED
    BY <2>1, <2>2, <2>3, <2>4, <2>6, <2>7, Restood
<1> QED
  BY <1>6, <1>7

\* The batch that HQ writes is the next one, or is held.
LEMMA NextOne ==
  ASSUME NEW r, NEW h, NEW top, Chronicle(r, h, top), Receipts(h, top), Told(r, h), NEW n \in Batches(r), ~Has(h, r.jobs[n].id),
         \A k \in Batches(r) : k < n => Has(h, r.jobs[k].id)
  PROVE  Fits(r, h, r.jobs[n].id)
<1>1. Ordered(r, top) /\ Len(h) \in Nat /\ DOMAIN h = 1..Len(h)
  BY LenProperties DEF Chronicle, Receipts
<1>2. /\ n \in DOMAIN r.jobs /\ IsBatch(r.jobs[n]) /\ r.seq \in Nat
      /\ \A k \in Batches(r) : r.jobs[k].seq \in Nat /\ 1 <= r.jobs[k].seq /\ r.jobs[k].seq <= r.seq /\ k \in Nat
  BY <1>1, BatchOf DEF Ordered
<1>3. \A k \in Batches(r) : r.jobs[k].seq <= Len(h) => h[r.jobs[k].seq] = r.jobs[k].id
  <2> SUFFICES ASSUME NEW k \in Batches(r), r.jobs[k].seq <= Len(h) PROVE h[r.jobs[k].seq] = r.jobs[k].id
    OBVIOUS
  <2>1. r.jobs[k].seq \in DOMAIN h
    BY <1>1, <1>2
  <2>2. PICK l \in Batches(r) : r.jobs[l].seq = r.jobs[k].seq /\ r.jobs[l].id = h[r.jobs[k].seq]
    BY <2>1 DEF Told
  <2>3. l = k
    BY <1>1, <2>2, SameIds
  <2> QED
    BY <2>2, <2>3
<1>4. ~(r.jobs[n].seq <= Len(h))
  <2>1. SUFFICES ASSUME r.jobs[n].seq <= Len(h) PROVE FALSE
    OBVIOUS
  <2>2. h[r.jobs[n].seq] = r.jobs[n].id /\ r.jobs[n].seq \in DOMAIN h
    BY <1>1, <1>2, <1>3, <2>1
  <2> QED
    BY <2>2 DEF Has
<1>5. ~(r.jobs[n].seq > Len(h) + 1)
  <2>1. SUFFICES ASSUME r.jobs[n].seq > Len(h) + 1 PROVE FALSE
    OBVIOUS
  <2>2. Len(h) + 1 \in 1..r.seq
    BY <1>1, <1>2, <2>1
  <2>3. PICK m \in Batches(r) : r.jobs[m].seq = Len(h) + 1
    BY <1>1, <2>2 DEF Ordered
  <2>4. m < n
    <3>1. ~(n < m)
      BY <1>1, <1>2, <2>1, <2>3 DEF Ordered
    <3> QED
      BY <1>1, <1>2, <2>1, <2>3, <3>1
  <2>5. Has(h, r.jobs[m].id)
    BY <2>4
  <2>6. r.jobs[m].seq <= Len(h)
    BY <2>5 DEF Chronicle, Continued
  <2> QED
    BY <1>1, <2>3, <2>6
<1>6. r.jobs[n].seq = Len(h) + 1
  BY <1>1, <1>2, <1>4, <1>5
<1>7. \A m \in DOMAIN r.jobs : r.jobs[m].id = r.jobs[n].id => m = n
  BY <1>1, <1>2, SameIds
<1> QED
  BY <1>2, <1>3, <1>6, <1>7 DEF Fits

LEMMA StepRestart ==
  ASSUME ChannelKept, NEW rows \in {db, away.copy}, NEW clean \in BOOLEAN, Restart(rows, clean)
  PROVE  ChannelKept'
<1> DEFINE permit == IF clean THEN "ready" ELSE away.permit
           state == IF clean THEN db ELSE away.state
           claims == Permitted(permit, state, rows)
           confirmed == claims /\ CleanlyConfirmed(rows)
           writing == hq.call.op = "write" /\ hq.call.answer = "none" /\ IsBatch(db.jobs[Place(hq.call.job)])
           permit2 == IF ~claims THEN permit ELSE IF confirmed THEN "completed" ELSE "claimed"
           late == IF writing THEN [job |-> hq.call.job, gen |-> hq.call.gen] ELSE away.late
           restored == away.restored \/ rows # db
           h == receiver.held
<1>1. /\ hq.life < LifeBound /\ (clean => Quiescent)
      /\ db' = IF confirmed THEN [rows EXCEPT !.life = hq.life + 1] ELSE rows
      /\ hq' = [life |-> hq.life + 1, fence |-> IF confirmed THEN 0 ELSE rows.gen, call |-> NoCall]
      /\ away' = [away EXCEPT !.restored = restored, !.state = state, !.permit = permit2, !.late = late]
      /\ receiver' = receiver
  BY DEF Restart
<1>2. /\ db \in Rows /\ rows \in Rows /\ away.state \in Rows /\ state \in Rows /\ LifeBound \in Nat /\ hq.life \in 1..LifeBound /\ hq.life \in Nat
      /\ GensOf(rows) /\ GensOf(db) /\ GensOf(away.copy) /\ GensOf(state)
  <2>1. hq.life \in 1..LifeBound /\ LifeBound \in Nat
    BY PublicationAssumption DEF ChannelKept, PublicationTypeOK
  <2> QED
    BY <2>1, TypeOf DEF ChannelKept, GensKept
<1>3. rows.gen \in Gens /\ rows.gen # 0 /\ rows.gen >= 1 /\ db.gen \in Gens /\ state.gen \in Gens
  BY <1>2 DEF GensOf, Rows, Gens
<1>4. /\ Chronicle(rows, h, away.staged) /\ Receipts(h, away.staged) /\ Len(rows.jobs) <= JobBound /\ Chronicle(db, h, away.staged)
      /\ PastKept(rows, away.copy, state, h, away.staged)
  <2>1. Chronicle(rows, h, away.staged) /\ Receipts(h, away.staged) /\ Chronicle(db, h, away.staged)
    BY DEF ChannelKept, PastKept
  <2>2. Len(rows.jobs) \in Nat /\ Len(rows.jobs) <= away.staged /\ away.staged <= JobBound /\ away.staged \in Nat
    BY <2>1, BatchOf, TypeOf DEF Chronicle, Ordered
  <2> QED
    BY <2>1, <2>2, PastCopied, PublicationAssumption DEF ChannelKept
<1>5. hq.call # NoCall => ~RestoreRequired /\ ~Live
  BY DEF ChannelKept, CallKept, LateKept
<1>6. writing => hq.call # NoCall
  BY DEF NoCall
<1>7. clean => ~RestoreRequired /\ ~Live /\ ~writing /\ state = db /\ permit = "ready"
  BY <1>1, <1>6 DEF Quiescent, ChannelKept, LateKept
<1>8. ~clean => state = away.state /\ permit = away.permit
  OBVIOUS
<1>9. permit = "ready" =>
        /\ state.gen <= receiver.gen
        /\ state.gen = receiver.gen => ~Live /\ ~writing
  <2>1. CASE clean
    BY <1>2, <1>7, <2>1 DEF GensOf, RestoreRequired
  <2>2. CASE ~clean
    BY <1>5, <1>6, <1>8, <2>2 DEF ChannelKept, PermitKept
  <2> QED
    BY <2>1, <2>2
<1>10. confirmed => ~Live /\ ~writing /\ Told(rows, h)
  <2> SUFFICES ASSUME confirmed PROVE ~Live /\ ~writing /\ Told(rows, h)
    OBVIOUS
  <2>1. permit = "ready" /\ state = rows /\ receiver.gen = rows.gen
    BY DEF Permitted, CleanlyConfirmed
  <2>2. PICK n \in Batches(rows) : WatermarkOf(rows.jobs[n].id)
    BY DEF CleanlyConfirmed
  <2> QED
    BY <1>4, <1>9, <2>1, <2>2, Watermark DEF WatermarkOf
<1>11. writing =>
         /\ ~RestoreRequired /\ hq.call.gen = db.gen
         /\ \E n \in Batches(db) : CallAt(n) /\ db.jobs[n].id = hq.call.job /\ db.jobs[n].need
  <2> SUFFICES ASSUME writing
               PROVE  /\ ~RestoreRequired /\ hq.call.gen = db.gen
                      /\ \E n \in Batches(db) : CallAt(n) /\ db.jobs[n].id = hq.call.job /\ db.jobs[n].need
    OBVIOUS
  <2>1. PICK n \in DOMAIN db.jobs : CallAt(n) /\ Place(hq.call.job) = n
    BY <1>6, Calling
  <2>2. n \in Batches(db)
    BY <2>1 DEF Batches
  <2> QED
    BY <1>5, <1>6, <2>1, <2>2, Calling DEF CallAt, Batches
<1>12. /\ late \in [job : 0..JobBound, gen : Gens] /\ permit2 \in {"none", "ready", "claimed", "completed"} /\ restored \in BOOLEAN
       /\ (writing => late.job = hq.call.job /\ late.gen = hq.call.gen) /\ (~writing => late = away.late)
  BY <1>2 DEF ChannelKept, PublicationTypeOK
<1>13. (permit2 = "ready" => permit = "ready" /\ ~claims) /\ (confirmed => permit2 = "completed")
  OBVIOUS
<1> HIDE DEF permit, state, claims, confirmed, writing, permit2, late, restored
<1>14. /\ away'.copy = away.copy /\ away'.state = state /\ away'.late = late /\ away'.staged = away.staged
       /\ away'.restored = restored /\ away'.permit = permit2
       /\ away' \in [copy : Rows, permit : {"none", "ready", "claimed", "completed"}, state : Rows,
                   late : [job : 0..JobBound, gen : Gens], staged : 0..JobBound, restored : BOOLEAN]
  BY <1>1, <1>2, <1>12 DEF ChannelKept, PublicationTypeOK
<1>15. /\ db' \in Rows /\ db'.jobs = rows.jobs /\ db'.seq = rows.seq /\ db'.gen = rows.gen /\ db'.recon = rows.recon
       /\ (confirmed => db'.life = hq.life + 1)
  <2>1. hq.life + 1 \in 1..LifeBound
    BY <1>1, <1>2
  <2>2. CASE confirmed
    <3>1. db' = [rows EXCEPT !.life = hq.life + 1]
      BY <1>1, <2>2
    <3> QED
      BY <1>2, <2>1, <3>1 DEF Rows
  <2>3. CASE ~confirmed
    BY <1>1, <1>2, <2>3
  <2> QED
    BY <2>2, <2>3
<1>16. /\ hq'.life = hq.life + 1 /\ hq'.fence = (IF confirmed THEN 0 ELSE rows.gen) /\ hq'.call = NoCall
       /\ hq' \in [life : 1..LifeBound, fence : Gens,
               call : [job : 0..JobBound, op : {"none", "write", "receipt"}, gen : Gens,
                       answer : {"none", "receipt", "absent", "refused", "retry"}]]
  <2>1. NoCall \in [job : 0..JobBound, op : {"none", "write", "receipt"}, gen : Gens, answer : {"none", "receipt", "absent", "refused", "retry"}]
    BY PublicationAssumption DEF NoCall, Gens
  <2>2. hq.life + 1 \in 1..LifeBound /\ 0 \in Gens
    BY <1>1, <1>2 DEF Gens
  <2> QED
    BY <1>1, <1>3, <2>1, <2>2
<1>17. PublicationTypeOK'
  BY <1>1, <1>4, <1>14, <1>15, <1>16 DEF ChannelKept, PublicationTypeOK
<1>18. PastKept(db, away.copy, away.state, receiver.held, away.staged)'
  <2>1. Same(rows, db') /\ Arrived(db', h)
    BY <1>2, <1>4, <1>15, SameSelf DEF Chronicle, Arrived, Batches
  <2>2. PastKept(db', away.copy, state, h, away.staged)
    BY <1>4, <2>1, PastStands
  <2> QED
    BY <1>1, <1>14, <2>2
<1>19. GensKept'
  BY <1>1, <1>2, <1>14, <1>15 DEF ChannelKept, GensKept, GensOf
<1>20. CallKept'
  BY <1>16 DEF CallKept
<1>21. ~confirmed => RestoreRequired'
  BY <1>3, <1>16 DEF RestoreRequired
<1>22. Live' => (writing \/ Live) /\ ~confirmed
  BY <1>1, <1>10, <1>12, <1>14 DEF Live
<1>23. Batches(db') = Batches(rows)
  BY <1>15 DEF Batches
<1>24. LateKept'
  <2>1. late.job <= away.staged /\ late.gen <= receiver.gen
    <3>1. CASE writing
      <4>1. PICK n \in Batches(db) : db.jobs[n].id = hq.call.job
        BY <1>11, <3>1
      <4>2. hq.call.job <= away.staged
        BY <4>1, TypeOf DEF Ordered
      <4>3. hq.call.gen <= receiver.gen
        BY <1>2, <1>11, <3>1 DEF GensOf, RestoreRequired
      <4> QED
        BY <1>12, <3>1, <4>2, <4>3
    <3>2. CASE ~writing
      BY <1>12, <3>2 DEF ChannelKept, LateKept
    <3> QED
      BY <3>1, <3>2
  <2>2. ASSUME Live', ~Has(h, late.job)
        PROVE  Fits(db, h, late.job) /\ Fits(away.copy, h, late.job) /\ Fits(away.state, h, late.job)
    <3>1. CASE writing
      <4>1. PICK n \in Batches(db) : CallAt(n) /\ db.jobs[n].id = hq.call.job
        BY <1>11, <3>1
      <4>2. Told(db, h) /\ Chronicle(db, h, away.staged) /\ Receipts(h, away.staged) /\ late.job = db.jobs[n].id
        BY <1>11, <1>12, <3>1, <4>1, TypeOf DEF ChannelKept
      <4>3. Fits(db, h, late.job)
        BY <2>2, <4>1, <4>2, NextOne DEF CallAt
      <4>4. Ordered(db, away.staged) /\ Ordered(away.copy, away.staged) /\ Ordered(away.state, away.staged) /\ Agree(db, away.copy) /\ Agree(db, away.state)
        BY DEF ChannelKept, PastKept, Chronicle
      <4>5. n \in DOMAIN db.jobs /\ Len(h) \in Nat
        BY TypeOf
      <4> QED
        BY <4>2, <4>3, <4>4, <4>5, FitsElsewhere
    <3>2. CASE ~writing
      BY <1>12, <1>22, <2>2, <3>2 DEF ChannelKept, LateKept
    <3> QED
      BY <3>1, <3>2
  <2>3. ASSUME Live', ~Has(h, late.job) PROVE Fits(db', h, late.job) /\ Fits(away.copy, h, late.job) /\ Fits(state, h, late.job)
    <3>1. Fits(rows, h, late.job) /\ Fits(state, h, late.job)
      BY <2>2, <2>3 DEF state
    <3> QED
      BY <1>15, <2>2, <2>3, <3>1 DEF Fits, Batches
  <2>4. (Fits(db, receiver.held, away.late.job) /\ Fits(away.copy, receiver.held, away.late.job) /\ Fits(away.state, receiver.held, away.late.job))'
        = (Fits(db', h, late.job) /\ Fits(away.copy, h, late.job) /\ Fits(state, h, late.job))
    BY <1>1, <1>14 DEF Fits, Batches
  <2>5. ASSUME Live', ~restored
        PROVE  \A n \in Batches(db') : db'.jobs[n].id = late.job => db'.jobs[n].st = "delivered" \/ db'.jobs[n].need
    <3>1. rows = db /\ ~away.restored
      BY <2>5 DEF restored
    <3>2. CASE writing
      <4>1. PICK n \in Batches(db) : db.jobs[n].id = hq.call.job /\ db.jobs[n].need
        BY <1>11, <3>2
      <4>2. \A m \in Batches(db) : db.jobs[m].id = hq.call.job => m = n
        BY <4>1, TypeOf, SameIds
      <4> QED
        BY <1>12, <1>15, <1>23, <3>1, <3>2, <4>1, <4>2
    <3>3. CASE ~writing
      BY <1>12, <1>15, <1>22, <1>23, <2>5, <3>1, <3>3 DEF ChannelKept, LateKept
    <3> QED
      BY <3>2, <3>3
  <2>6. ~(hq'.fence # 0 /\ db'.gen > hq'.fence)
    BY <1>3, <1>15, <1>16 DEF Gens
  <2> QED
    BY <1>1, <1>14, <1>21, <1>22, <2>1, <2>3, <2>4, <2>5, <2>6 DEF LateKept, Has, Batches
<1>25. PermitKept'
  <2>1. ASSUME permit2 = "ready"
        PROVE  /\ state.gen <= receiver.gen
               /\ state.gen = receiver.gen => RestoreRequired' /\ ~Live'
    BY <1>9, <1>13, <1>21, <1>22, <2>1 DEF confirmed
  <2>2. ~(hq'.fence # 0 /\ db'.gen > hq'.fence)
    BY <1>3, <1>15, <1>16 DEF Gens
  <2> QED
    BY <1>1, <1>14, <2>1, <2>2 DEF PermitKept
<1>26. (~RestoreRequired => Told(db, receiver.held))'
  <2>1. confirmed => Told(db', h)
    BY <1>10, <1>15, <1>23 DEF Told
  <2> QED
    BY <1>1, <1>21, <2>1 DEF Told, Batches
<1>27. (~away.restored => Known(db, receiver.held))'
  <2>1. ~restored => Known(db', h)
    BY <1>15, <1>23 DEF restored, ChannelKept, Known, Batches
  <2> QED
    BY <1>1, <1>14, <2>1 DEF Known, Batches
<1> QED
  BY <1>17, <1>18, <1>19, <1>20, <1>24, <1>25, <1>26, <1>27 DEF ChannelKept

-----------------------------------------------------------------------------
(* The channel kept, and what it means.                                    *)

LEMMA ChannelMeans == ASSUME ChannelKept PROVE PublishedTruly /\ PublicationTypeOK
<1>1. PublicationTypeOK
  BY DEF ChannelKept
<1>2. SUFFICES ASSUME ~RestoreRequired PROVE PublishedTruly
  BY <1>1 DEF PublishedTruly
<1>3. \A id : IsHeld(id) <=> Has(receiver.held, id)
  BY DEF IsHeld, Has
<1>4. hq.call.op = "write" => hq.call # NoCall
  BY DEF NoCall
<1> QED
  BY <1>2, <1>3, <1>4, TypeOf DEF PublishedTruly, ChannelKept, Told, Chronicle, Arrived, CallKept

LEMMA ChannelStarts == PublicationInit => ChannelKept
<1> SUFFICES ASSUME PublicationInit PROVE ChannelKept
  OBVIOUS
<1>1. /\ db = [jobs |-> <<>>, seq |-> 0, consent |-> 0, gen |-> 1, recon |-> 1, life |-> 1]
      /\ hq = [life |-> 1, fence |-> 0, call |-> NoCall]
      /\ away = [copy |-> db, permit |-> "none", state |-> db, late |-> [job |-> 0, gen |-> 0], staged |-> 0, restored |-> FALSE]
      /\ receiver = [held |-> <<>>, gen |-> 1, newest |-> 1] /\ JobBound \in Nat /\ LifeBound \in Nat \ {0}
  BY PublicationAssumption DEF PublicationInit
<1>2. <<>> \in Seq(Job) /\ Len(<<>>) = 0 /\ <<>> \in Seq(1..JobBound) /\ DOMAIN <<>> = {} /\ 0 \in Gens /\ 1 \in Gens
  BY <1>1, EmptySeq DEF Gens
<1>3. /\ db \in Rows /\ db.jobs = <<>> /\ db.seq = 0 /\ db.gen = 1 /\ db.recon = 1 /\ db.life = 1
  BY <1>1, <1>2 DEF Rows
<1>4. NoCall \in [job : 0..JobBound, op : {"none", "write", "receipt"}, gen : Gens, answer : {"none", "receipt", "absent", "refused", "retry"}]
  BY <1>1, <1>2 DEF NoCall
<1>5. PublicationTypeOK
  BY <1>1, <1>2, <1>3, <1>4 DEF PublicationTypeOK
<1>6. Batches(db) = {} /\ DOMAIN db.jobs = {} /\ Len(db.jobs) = 0
  BY <1>2, <1>3 DEF Batches
<1>7. Chronicle(db, receiver.held, away.staged)
  BY <1>1, <1>2, <1>3, <1>6 DEF Chronicle, Ordered, Continued, Arrived
<1>8. PastKept(db, away.copy, away.state, receiver.held, away.staged)
  BY <1>1, <1>2, <1>6, <1>7 DEF PastKept, Receipts, Agree
<1>9. GensKept
  BY <1>1, <1>3 DEF GensKept, GensOf
<1>10. CallKept /\ LateKept /\ PermitKept
  BY <1>1, <1>3 DEF CallKept, LateKept, PermitKept, Live
<1>11. Told(db, receiver.held) /\ Known(db, receiver.held)
  BY <1>1, <1>2, <1>6 DEF Told, Known
<1> QED
  BY <1>5, <1>8, <1>9, <1>10, <1>11 DEF ChannelKept

LEMMA ChannelStep == ASSUME ChannelKept, PublicationNext PROVE ChannelKept'
  BY StepConsent, StepCaptureJob, StepConsentEnds, StepNewGeneration, StepReceiverAdvances, StepDeliver, StepReaches, StepSettleCall,
     StepBackUp, StepDeadRequestLands, StepReconcile, StepRestart DEF PublicationNext

LEMMA ChannelStutters == ASSUME ChannelKept, UNCHANGED publicationVars PROVE ChannelKept'
<1>1. db' = db /\ hq' = hq /\ away' = away /\ receiver' = receiver
  BY DEF publicationVars
<1>2. PublicationTypeOK'
  BY <1>1 DEF ChannelKept, PublicationTypeOK, Rows
<1>3. PastKept(db, away.copy, away.state, receiver.held, away.staged)' /\ GensKept' /\ LateKept' /\ PermitKept'
  BY <1>1 DEF ChannelKept, GensKept, GensOf, LateKept, PermitKept, Live, RestoreRequired
<1>4. CallKept'
  BY <1>1 DEF ChannelKept, CallKept, CallAt, RestoreRequired
<1>5. RestoreRequired' = RestoreRequired
  BY <1>1 DEF RestoreRequired
<1>6. (~RestoreRequired => Told(db, receiver.held))' /\ (~away.restored => Known(db, receiver.held))'
  BY <1>1, <1>5 DEF ChannelKept, Told, Known
<1> QED
  BY <1>2, <1>3, <1>4, <1>6 DEF ChannelKept

ChannelInvariant == part = "channel" => ChannelKept

\* An HQ that may deliver continues the receiver's history, whatever crashed,
\* was restored from a backup or landed late, for any number of jobs and lives.
THEOREM ChannelContinues == MarketSpec => []ChannelTrue
<1>1. MarketInit => ChannelInvariant
  BY ChannelStarts DEF MarketInit, ChannelInvariant
<1>2. ChannelInvariant /\ [MarketNext]_MarketVars => ChannelInvariant'
  <2> SUFFICES ASSUME ChannelInvariant, [MarketNext]_MarketVars, part' = "channel" PROVE ChannelKept'
    BY DEF ChannelInvariant
  <2>1. CASE UNCHANGED MarketVars
    BY <2>1, ChannelStutters DEF ChannelInvariant, MarketVars
  <2>2. CASE MarketNext
    <3>1. part = "channel" /\ PublicationNext
      BY <2>2 DEF MarketNext
    <3> QED
      BY <3>1, ChannelStep DEF ChannelInvariant
  <2> QED
    BY <2>1, <2>2
<1>3. ChannelInvariant => ChannelTrue
  BY ChannelMeans DEF ChannelInvariant, ChannelTrue
<1> QED
  BY <1>1, <1>2, <1>3, PTL DEF MarketSpec
=============================================================================
