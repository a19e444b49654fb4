---------------------------- MODULE Publication -----------------------------
(***************************************************************************)
(* The publication of a run's journal to a remote receiver: jobs staged    *)
(* under the owner's consent and delivered one at a time, with lost        *)
(* answers, crashes, copies restored from a backup, and the reconciliation *)
(* that must precede delivery after each of them.                          *)
(* Source: src/control/publication/service.ts and clean-restart.ts.        *)
(*                                                                         *)
(* A batch has one event; a heartbeat stands for what the receiver takes   *)
(* any number of times, content too.  A request of a living HQ lands       *)
(* before its deadline of 10 s or never; the one of a dead HQ may land at  *)
(* any time.  Abstracted: envelopes, scopes, rights and budgets (consent   *)
(* may end at any time), keys, retry times, and previews.                  *)
(***************************************************************************)
EXTENDS Integers, Sequences

CONSTANTS JobBound, LifeBound   \* bounds on jobs ever staged, and on lives of HQ

ASSUME PublicationAssumption == JobBound \in Nat /\ LifeBound \in Nat \ {0}

VARIABLES
    db,       \* the rows of the channel: jobs, the generation of the active consent (0: none), ...
    hq,       \* the life of HQ, its restart fence (0: none) and the request it waits for
    away,     \* backup copies, the permit of a clean restart, a dead HQ's request, what was ever staged
    receiver  \* the batches it holds, the generation it accepts and the newest it issued

publicationVars == <<db, hq, away, receiver>>
NoCall == [job |-> 0, op |-> "none", gen |-> 0, answer |-> "none"]
Gens == 0..(LifeBound + 1)
Job == [id : 1..JobBound, seq : 0..JobBound, kind : {"batch", "heartbeat"}, need : BOOLEAN, tried : BOOLEAN,
        st : {"queued", "sending", "uncertain", "delivered", "blocked"}]
Rows == [jobs : Seq(Job), seq : 0..JobBound, consent : Gens, gen : Gens, recon : Gens, life : 1..LifeBound]

PublicationTypeOK ==
    /\ db \in Rows /\ Len(db.jobs) <= JobBound
    /\ hq \in [life : 1..LifeBound, fence : Gens,
               call : [job : 0..JobBound, op : {"none", "write", "receipt"}, gen : Gens,
                       answer : {"none", "receipt", "absent", "refused", "retry"}]]
    /\ away \in [copy : Rows, permit : {"none", "ready", "claimed", "completed"}, state : Rows,
                 late : [job : 0..JobBound, gen : Gens], staged : 0..JobBound, restored : BOOLEAN]
    /\ receiver \in [held : Seq(1..JobBound), gen : Gens, newest : Gens]

PublicationInit ==
    /\ db = [jobs |-> <<>>, seq |-> 0, consent |-> 0, gen |-> 1, recon |-> 1, life |-> 1]
    /\ hq = [life |-> 1, fence |-> 0, call |-> NoCall]
    /\ away = [copy |-> db, permit |-> "none", state |-> db, late |-> [job |-> 0, gen |-> 0], staged |-> 0,
               restored |-> FALSE]
    /\ receiver = [held |-> <<>>, gen |-> 1, newest |-> 1]

IsBatch(j) == j.kind = "batch"
IsPending(j) == j.st # "delivered"
Batches(rows) == {n \in DOMAIN rows.jobs : IsBatch(rows.jobs[n])}
IsHeld(id) == \E n \in DOMAIN receiver.held : receiver.held[n] = id
ChannelAuthority == db.consent = db.gen
RestoreRequired == hq.fence # 0 \/ db.life # hq.life \/ db.recon # db.gen
Place(id) == CHOOSE n \in DOMAIN db.jobs : db.jobs[n].id = id
Update(id, j) == db' = [db EXCEPT !.jobs[Place(id)] = j]

-----------------------------------------------------------------------------
(* The owner and the source.                                               *)

\* The event of a batch has the next number of its source.
AddJob(rows, kind) ==
    LET seq == IF kind = "batch" THEN rows.seq + 1 ELSE 0 IN
    [rows EXCEPT !.jobs = Append(@, [id |-> away.staged + 1, seq |-> seq, kind |-> kind, need |-> FALSE, tried |-> FALSE, st |-> "queued"]),
                 !.seq = IF kind = "batch" THEN seq ELSE @]
Staged == away.staged < JobBound /\ away' = [away EXCEPT !.staged = @ + 1]

\* consent() of a preview: it takes over every pending job, and may stage new events.
Consent ==
    /\ \/ /\ db' = [db EXCEPT !.consent = db.gen,
                             !.jobs = [n \in DOMAIN db.jobs |-> [db.jobs[n] EXCEPT !.st = IF @ = "blocked" THEN "queued" ELSE @]]]
          /\ UNCHANGED away
       \/ db' = AddJob(db, "batch") /\ Staged
    /\ db' # db /\ UNCHANGED <<hq, receiver>>

CaptureJob == ~RestoreRequired /\ ChannelAuthority /\ Staged /\ db' = AddJob(db, "batch") /\ UNCHANGED <<hq, receiver>>

Heartbeat ==
    /\ ChannelAuthority /\ Staged /\ \A n \in DOMAIN db.jobs : IsPending(db.jobs[n]) => IsBatch(db.jobs[n])
    /\ db' = AddJob(db, "heartbeat") /\ UNCHANGED <<hq, receiver>>

\* Pause, revocation and expiry: only another consent goes on.
ConsentEnds == db.consent # 0 /\ db' = [db EXCEPT !.consent = 0] /\ UNCHANGED <<hq, away, receiver>>

\* The receiver's owner issued a new generation; HQ's owner enters it.
NewGeneration ==
    /\ hq.call = NoCall /\ receiver.newest < LifeBound + 1
    /\ LET next == receiver.newest + 1 IN
       /\ receiver' = [receiver EXCEPT !.newest = next]
       /\ db' = [db EXCEPT !.gen = next, !.recon = 0, !.consent = 0]
    /\ hq' = [hq EXCEPT !.fence = IF db.jobs # <<>> /\ @ = 0 THEN db.gen ELSE @]
    /\ UNCHANGED away

ReceiverAdvances == receiver.gen # receiver.newest /\ receiver' = [receiver EXCEPT !.gen = @ + 1] /\ UNCHANGED <<db, hq, away>>

-----------------------------------------------------------------------------
(* Delivery.                                                               *)

Operation(j) == IF IsBatch(j) /\ (j.need \/ j.st \in {"sending", "uncertain"}) THEN "receipt" ELSE "write"

\* deliver() up to its await, for the first job that is not delivered.
Deliver ==
    /\ ~RestoreRequired /\ hq.call = NoCall /\ ChannelAuthority
    /\ \E n \in DOMAIN db.jobs :
          LET j == db.jobs[n] IN
          /\ IsPending(j) /\ j.st # "blocked" /\ \A k \in 1..(n - 1) : ~IsPending(db.jobs[k])
          /\ hq' = [hq EXCEPT !.call = [job |-> j.id, op |-> Operation(j), gen |-> db.gen, answer |-> "none"]]
          /\ Update(j.id, [j EXCEPT !.st = "sending", !.need = IsBatch(j), !.tried = TRUE])
    /\ UNCHANGED <<away, receiver>>

Receives(id) == receiver' = [receiver EXCEPT !.held = IF IsHeld(id) THEN @ ELSE Append(@, id)]

\* The receiver takes the batches of a run in the order of their source sequence.
InSequence(id) == IsHeld(id) \/ db.jobs[Place(id)].seq = Len(receiver.held) + 1

Reaches ==
    LET c == hq.call
        answers(a) == hq' = [hq EXCEPT !.call.answer = a]
    IN /\ c # NoCall /\ c.answer = "none" /\ UNCHANGED <<db, away>>
       /\ \/ c.gen # receiver.gen /\ answers("refused") /\ UNCHANGED receiver
          \/ answers("retry") /\ UNCHANGED receiver
          \/ /\ c.gen = receiver.gen /\ c.op = "receipt" /\ UNCHANGED receiver
             /\ answers(IF IsHeld(c.job) THEN "receipt" ELSE "absent")
          \/ /\ c.gen = receiver.gen /\ c.op = "write" /\ answers("receipt")
             /\ IF IsBatch(db.jobs[Place(c.job)]) THEN InSequence(c.job) /\ Receives(c.job) ELSE UNCHANGED receiver

\* deliver() from its await: an answer, or none.
Settled(j, answer) ==
    CASE answer = "receipt" -> [j EXCEPT !.st = "delivered", !.need = FALSE]
      [] answer = "absent"  -> [j EXCEPT !.st = "queued", !.need = FALSE]
      [] answer = "refused" -> [j EXCEPT !.st = "blocked"]
      [] answer = "retry"   -> [j EXCEPT !.st = IF IsBatch(j) THEN "uncertain" ELSE "queued"]
      [] OTHER              -> [j EXCEPT !.st = "uncertain"]

SettleCall ==
    /\ hq.call # NoCall /\ hq' = [hq EXCEPT !.call = NoCall] /\ UNCHANGED <<away, receiver>>
    /\ \E answer \in {hq.call.answer, "none"} : Update(hq.call.job, Settled(db.jobs[Place(hq.call.job)], answer))

-----------------------------------------------------------------------------
(* Crashes, restored copies and their reconciliation.                      *)

\* One backup is enough to restore.
BackUp == away.copy.jobs = <<>> /\ db.jobs # <<>> /\ away' = [away EXCEPT !.copy = db] /\ UNCHANGED <<db, hq, receiver>>

Quiescent == hq.call = NoCall /\ ~RestoreRequired /\ \A n \in DOMAIN db.jobs : ~IsPending(db.jobs[n])

Permitted(permit, state, rows) == permit = "ready" /\ state = rows

\* The current watermark of the receiver is that of a batch.
WatermarkOf(id) == receiver.held # <<>> /\ receiver.held[Len(receiver.held)] = id

\* reconcileCleanRestart() finds what the permit's rows say.
CleanlyConfirmed(rows) ==
    /\ rows.consent = rows.gen /\ receiver.gen = rows.gen
    /\ \E n \in Batches(rows) : rows.jobs[n].seq = rows.seq /\ WatermarkOf(rows.jobs[n].id)

\* HQ stops, cleanly or not, and starts again from its own rows or from a
\* backup.  A clean stop ends with a permit for exactly its rows, outside of
\* the database; a start claims the permit before it asks the receiver.
Restart(rows, clean) ==
    LET permit == IF clean THEN "ready" ELSE away.permit
        state == IF clean THEN db ELSE away.state
        claims == Permitted(permit, state, rows)
        confirmed == claims /\ CleanlyConfirmed(rows)
        writing == hq.call.op = "write" /\ hq.call.answer = "none" /\ IsBatch(db.jobs[Place(hq.call.job)])
    IN /\ hq.life < LifeBound
       /\ clean => Quiescent /\ away.permit \in {"none", "completed"}
       /\ db' = IF confirmed THEN [rows EXCEPT !.life = hq.life + 1] ELSE rows
       /\ hq' = [life |-> hq.life + 1, fence |-> IF confirmed THEN 0 ELSE rows.gen, call |-> NoCall]
       /\ away' = [away EXCEPT !.restored = @ \/ rows # db, !.state = state,
                               !.permit = IF ~claims THEN permit ELSE IF confirmed THEN "completed" ELSE "claimed",
                               !.late = IF writing THEN [job |-> hq.call.job, gen |-> hq.call.gen] ELSE @]
       /\ UNCHANGED receiver

DeadRequestLands ==
    /\ away.late.job # 0 /\ away' = [away EXCEPT !.late = [job |-> 0, gen |-> 0]]
    /\ IF away.late.gen = receiver.gen THEN Receives(away.late.job) ELSE UNCHANGED receiver
    /\ UNCHANGED <<db, hq>>

\* A mutant of Confirms: the receipt suffices.
ConfirmsReceipt(n) == TRUE
Confirms(n) ==
    LET known == {k \in Batches(db) : k < n /\ db.jobs[k].st = "delivered"} IN
    IF IsHeld(db.jobs[n].id) THEN WatermarkOf(db.jobs[n].id)
    ELSE IF known # {} THEN \E k \in known : WatermarkOf(db.jobs[k].id) /\ \A other \in known : other <= k
    ELSE receiver.held = <<>> /\ \A k \in Batches(db) : db.jobs[k].st # "delivered"

\* The last batch that was attempted, or the first one.
AnchoredBy(n) ==
    LET tried == {k \in Batches(db) : db.jobs[k].tried} IN
    IF tried = {} THEN \A k \in Batches(db) : n <= k ELSE n \in tried /\ \A k \in tried : k <= n

\* reconcile(): the receipt of the anchor, then the public status.
ReconcileChannel ==
    /\ hq.fence # 0 /\ db.gen > hq.fence /\ db.recon = 0 /\ ChannelAuthority
    /\ \E n \in Batches(db) :
          LET anchor == db.jobs[n]
              j == [anchor EXCEPT !.tried = TRUE]
              absent == ~IsHeld(anchor.id) /\ IsPending(j)
          IN /\ AnchoredBy(n)
             /\ IF receiver.gen = db.gen /\ Confirms(n)
                THEN /\ db' = [db EXCEPT !.recon = db.gen, !.life = hq.life,
                                         !.jobs[n] = IF absent THEN [j EXCEPT !.st = "queued", !.need = FALSE] ELSE j]
                     /\ hq' = [hq EXCEPT !.fence = 0]
                ELSE db' = [db EXCEPT !.jobs[n] = j] /\ j # anchor /\ UNCHANGED hq
    /\ UNCHANGED <<away, receiver>>

PublicationNext ==
    \/ Consent \/ CaptureJob \/ Heartbeat \/ ConsentEnds \/ NewGeneration \/ ReceiverAdvances
    \/ Deliver \/ Reaches \/ SettleCall
    \/ BackUp \/ DeadRequestLands \/ ReconcileChannel
    \/ \E rows \in {db, away.copy}, clean \in BOOLEAN : Restart(rows, clean)

PublicationSpec == PublicationInit /\ [][PublicationNext]_publicationVars

-----------------------------------------------------------------------------
(* Properties.                                                             *)

\* An HQ that may deliver continues the history that the receiver holds,
\* whatever was lost, restored or landed late; what it counts as delivered is
\* held, and without a restored copy it never writes a batch that is held.
PublishedTruly ==
    ~RestoreRequired =>
        /\ \A n \in DOMAIN receiver.held : \E k \in Batches(db) : db.jobs[k].seq = n /\ db.jobs[k].id = receiver.held[n]
        /\ \A k \in Batches(db) : db.jobs[k].st = "delivered" => IsHeld(db.jobs[k].id)
        /\ ~away.restored /\ hq.call.op = "write" /\ hq.call.answer = "none" => ~IsHeld(hq.call.job)
=============================================================================
