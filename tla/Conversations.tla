--------------------------- MODULE Conversations ---------------------------
(***************************************************************************)
(* Direct conversations: reply requests, the worker sessions that answer   *)
(* them, one peer question per request with its reserved continuation, and *)
(* recovery after a crash.  Source: src/control/conversations.ts, with the *)
(* claim and finish transactions of src/control/company.ts around it.      *)
(*                                                                         *)
(* HQ is one process, so an action is one handler.  Abstracted: message    *)
(* bodies and the bounds on their size and rate, the causal chain counter  *)
(* (1 for a reply, 3 once it asked a peer: implied by the parent links),   *)
(* the receipts of Send, which make a repeated send a step without effect, *)
(* and the archived state, which here equals the muted one.                *)
(***************************************************************************)
EXTENDS Integers, Sequences, FiniteSets

CONSTANTS
    Talkers,        \* workers with a conversation endpoint
    Human,          \* the owner's principal
    ConvBound,      \* bound on conversations
    ReplyBound,     \* bound on reply requests
    ChangeBound,    \* bound on the owner's changes of state, participants and permissions
    SessionBound,   \* bound on sessions
    QueuedWorker,   \* CONVERSATION_LIMITS.queuedWorker
    TurnsPerSession \* CONVERSATION_LIMITS.turnsPerSession

ASSUME ConversationsAssumption ==
    /\ Human \notin Talkers
    /\ {ConvBound, ReplyBound, ChangeBound, SessionBound, QueuedWorker, TurnsPerSession} \subseteq Nat

VARIABLES
    changes, \* changes the owner has made so far (for ChangeBound)
    able,   \* workers enabled and permitted to communicate
    conv,   \* conversations: state, scope_version, who takes part, who is active
    req,    \* conversation_requests in rowid order, att = the provider attempt row
    ses,    \* conversation_sessions in rowid order
    run     \* the running conversation execution of each worker, or NoRun

convVars == <<changes, able, conv, req, ses, run>>
NoRun == [r |-> 0, s |-> 0]
Pending == {"queued", "waiting_peer", "replying"}
Dead == {"cancelled", "blocked", "failed", "interrupted"}

\* The control columns of the rows.
Conversation == [state : {"active", "muted"}, scope : Nat,
                 who : SUBSET (Talkers \cup {Human}), on : SUBSET (Talkers \cup {Human})]
ReplyRequest == [c : Nat, w : Talkers, by : Talkers \cup {Human}, kind : {"reply", "peer", "continuation"},
                 st : Pending \cup Dead \cup {"completed"}, parent : Nat, scope : Nat,
                 resp : BOOLEAN, att : {"none", "open", "settled"}]
ConversationSession == [w : Talkers, c : Nat, scope : Nat, seen : SUBSET (Talkers \cup {Human}), turns : Nat,
                        st : {"creating", "prepared", "active", "superseded", "blocked"},
                        roll : BOOLEAN, unres : BOOLEAN]
RunningReply == [r : Nat, s : Nat]

ConversationsTypeOK ==
    /\ changes \in 0..ChangeBound /\ able \subseteq Talkers
    /\ conv \in Seq(Conversation) /\ req \in Seq(ReplyRequest) /\ ses \in Seq(ConversationSession)
    /\ run \in [Talkers -> RunningReply]

-----------------------------------------------------------------------------
(* Guards shared by the handlers.                                          *)

May(c, p) == p \in conv[c].on /\ (p = Human \/ p \in able)

\* Authority is re-read at every use: conversation, scope and both ends.
Authorized(r) ==
    LET c == req[r].c IN
    /\ conv[c].state = "active" /\ conv[c].scope = req[r].scope
    /\ May(c, req[r].by) /\ May(c, req[r].w)

\* Mutant: only the session row is asked, not the attempts.
UnresolvedSession(w) == \E s \in DOMAIN ses : ses[s].w = w /\ ses[s].unres /\ ses[s].st = "active"
Unresolved(w) == \/ \E r \in DOMAIN req : req[r].w = w /\ req[r].att = "open"
                 \/ \E s \in DOMAIN ses : ses[s].w = w /\ ses[s].unres

\* The scope hash a handoff carries: who may take part right now.
Seen(c) == {p \in conv[c].on : May(c, p)}

Verified(w) ==
    LET r == run[w].r  s == run[w].s IN
    /\ run[w] # NoRun
    /\ ses[s].st \in {"creating", "prepared", "active"}
    /\ req[r].st \notin Dead
    /\ Authorized(r)
    /\ ses[s].scope = req[r].scope /\ ses[s].seen = Seen(ses[s].c)

Load(w) == Cardinality({r \in DOMAIN req : req[r].w = w /\ req[r].st \in Pending})

NewRequest(c, w, by, kind, st, parent, scope) ==
    [c |-> c, w |-> w, by |-> by, kind |-> kind, st |-> st, parent |-> parent, scope |-> scope,
     resp |-> FALSE, att |-> "none"]

\* The continuation reserved for peer request r, if there is one.
Continuation(r) == {k \in DOMAIN req : req[k].kind = "continuation" /\ req[k].parent = r}

\* Mutant: the reservation is left as it is.
KeepDelivery(rs, S) == rs
\* blockDelivery for every peer request in S: its waiting continuation is blocked.
BlockDelivery(rs, S) ==
    [k \in DOMAIN rs |-> IF rs[k].kind = "continuation" /\ rs[k].parent \in S /\ rs[k].st = "waiting_peer"
                         THEN [rs[k] EXCEPT !.st = "blocked"] ELSE rs[k]]

\* reply(): the response is committed and releases the reserved continuation.
CommitReply(rs, r) ==
    [k \in DOMAIN rs |-> CASE k = r -> [rs[k] EXCEPT !.st = "completed", !.resp = TRUE]
                           [] k # r /\ rs[k].kind = "continuation" /\ rs[k].parent = r /\ rs[k].st = "waiting_peer"
                              -> [rs[k] EXCEPT !.st = "queued"]
                           [] OTHER -> rs[k]]

-----------------------------------------------------------------------------
(* The owner.                                                              *)

ConversationsInit ==
    /\ changes = 0 /\ able = Talkers /\ conv = <<>> /\ req = <<>> /\ ses = <<>>
    /\ run = [w \in Talkers |-> NoRun]

Open(w) ==
    /\ Len(conv) < ConvBound /\ w \in able
    /\ conv' = Append(conv, [state |-> "active", scope |-> 1, who |-> {Human, w}, on |-> {Human, w}])
    /\ UNCHANGED <<changes, able, req, ses, run>>

\* A message that requests a reply (a passive one changes nothing here).
Send(c) ==
    /\ Human \in conv[c].on /\ conv[c].state = "active"
    /\ \E w \in conv[c].on \cap Talkers :
        /\ May(c, w) /\ Load(w) < QueuedWorker /\ Len(req) < ReplyBound
        /\ req' = Append(req, NewRequest(c, w, Human, "reply", "queued", 0, conv[c].scope))
    /\ UNCHANGED <<changes, able, conv, ses, run>>

Change == changes < ChangeBound /\ changes' = changes + 1

Control(c, state) ==
    /\ Change
    /\ state # conv[c].state
    /\ \A w \in Talkers : run[w] # NoRun => req[run[w].r].c # c
    /\ conv' = [conv EXCEPT ![c].state = state]
    /\ UNCHANGED <<able, req, ses, run>>

Participation(c, p) ==
    /\ Change /\ p \in conv[c].who
    /\ conv' = [conv EXCEPT ![c].scope = @ + 1, ![c].on = IF p \in @ THEN @ \ {p} ELSE @ \cup {p}]
    /\ UNCHANGED <<able, req, ses, run>>

Cancel(r) ==
    /\ req[r].st \notin {"completed", "cancelled", "replying"}
    /\ req' = BlockDelivery([req EXCEPT ![r].st = "cancelled"], {r})
    /\ UNCHANGED <<changes, able, conv, ses, run>>

RequestRollover(s) ==
    /\ run[ses[s].w] = NoRun /\ ~Unresolved(ses[s].w) /\ May(ses[s].c, ses[s].w)
    /\ ses[s].st = "active" /\ ~ses[s].roll
    /\ ses' = [ses EXCEPT ![s].roll = TRUE]
    /\ UNCHANGED <<changes, able, conv, req, run>>

\* The worker is disabled or loses its communication permission.
Disable(w) == Change /\ w \in able /\ able' = able \ {w} /\ UNCHANGED <<conv, req, ses, run>>

-----------------------------------------------------------------------------
(* Dispatch: candidate() walks the queue in order, blocks what may no      *)
(* longer run, and the first request that may run is claimed, all in one   *)
(* transaction.                                                            *)

Candidates == {r \in DOMAIN req : /\ req[r].st = "queued" /\ conv[req[r].c].state = "active"
                                  /\ run[req[r].w] = NoRun}
Good(r) == ~Unresolved(req[r].w) /\ Authorized(r)

Usable(s, r) ==
    /\ ses[s].w = req[r].w /\ ses[s].c = req[r].c /\ ses[s].st = "active"
    /\ ~ses[s].roll /\ ses[s].turns < TurnsPerSession
    /\ ses[s].scope = conv[req[r].c].scope /\ ses[s].seen = Seen(req[r].c)

Dispatch ==
    \E skipped \in SUBSET Candidates, got \in Candidates \cup {0} :
        /\ skipped \cup {got} # {0}
        /\ skipped = {r \in Candidates : ~Good(r) /\ (got = 0 \/ r < got)}
        /\ IF got = 0 THEN \A r \in Candidates : ~Good(r)
           ELSE Good(got) /\ \A r \in Candidates : Good(r) => got <= r
        /\ LET blocked == BlockDelivery([r \in DOMAIN req |-> IF r \in skipped THEN [req[r] EXCEPT !.st = "blocked"]
                                                                              ELSE req[r]], skipped)
           IN IF got = 0 THEN req' = blocked /\ UNCHANGED <<ses, run>>
              ELSE /\ req' = [blocked EXCEPT ![got].st = "replying"]
                   /\ \/ \E s \in DOMAIN ses :
                            /\ Usable(s, got)
                            /\ run' = [run EXCEPT ![req[got].w] = [r |-> got, s |-> s]]
                            /\ UNCHANGED ses
                      \/ /\ ~\E s \in DOMAIN ses : Usable(s, got)
                         /\ Len(ses) < SessionBound
                         /\ ses' = Append(ses, [w |-> req[got].w, c |-> req[got].c, scope |-> conv[req[got].c].scope,
                                                seen |-> Seen(req[got].c), turns |-> 0, st |-> "creating",
                                                roll |-> FALSE, unres |-> FALSE])
                         /\ run' = [run EXCEPT ![req[got].w] = [r |-> got, s |-> Len(ses) + 1]]
        /\ UNCHANGED <<changes, able, conv>>

-----------------------------------------------------------------------------
(* The execution, driven by the runtime adapter.                           *)

PrepareBinding(w) ==
    /\ Verified(w) /\ ses[run[w].s].st = "creating"
    /\ ses' = [ses EXCEPT ![run[w].s].st = "prepared"]
    /\ UNCHANGED <<changes, able, conv, req, run>>

ActivateBinding(w) ==
    LET s == run[w].s IN
    /\ Verified(w) /\ ses[s].st = "prepared"
    /\ ses' = [k \in DOMAIN ses |->
                 CASE k = s -> [ses[k] EXCEPT !.st = "active"]
                   [] k # s /\ ses[k].w = w /\ ses[k].c = ses[s].c /\ ses[k].st = "active"
                      -> [ses[k] EXCEPT !.st = "superseded"]
                   [] OTHER -> ses[k]]
    /\ UNCHANGED <<changes, able, conv, req, run>>

\* runtime_turn_starting: the durable intent that precedes the provider turn.
TurnStarting(w) ==
    /\ Verified(w) /\ ses[run[w].s].st = "active" /\ req[run[w].r].att = "none"
    /\ req' = [req EXCEPT ![run[w].r].att = "open"]
    /\ ses' = [ses EXCEPT ![run[w].s].unres = TRUE]
    /\ UNCHANGED <<changes, able, conv, run>>

\* The provider reports a context that is 65% full.
UsageHigh(w) ==
    /\ Verified(w) /\ req[run[w].r].att = "open" /\ ~ses[run[w].s].roll
    /\ ses' = [ses EXCEPT ![run[w].s].roll = TRUE]
    /\ UNCHANGED <<changes, able, conv, req, run>>

SubmitReply(w) ==
    /\ Verified(w) /\ req[run[w].r].att = "open" /\ ~req[run[w].r].resp
    /\ req' = CommitReply(req, run[w].r)
    /\ UNCHANGED <<changes, able, conv, ses, run>>

\* ask_peer: a conversation of the two workers, the question, and the
\* continuation that will deliver its answer, reserved at once.
AskPeer(w, peer) ==
    LET r == run[w].r  c == Len(conv) + 1 IN
    /\ Verified(w) /\ req[r].att = "open" /\ peer # w /\ {w, peer} \subseteq able
    /\ req[r].kind = "reply" /\ ~req[r].resp /\ ~\E k \in DOMAIN req : req[k].parent = r
    /\ c <= ConvBound /\ Len(req) + 2 <= ReplyBound
    /\ Load(peer) < QueuedWorker /\ Load(w) < QueuedWorker
    /\ conv' = Append(conv, [state |-> "active", scope |-> 1, who |-> {w, peer}, on |-> {w, peer}])
    /\ req' = req \o <<NewRequest(c, peer, w, "peer", "queued", r, 1),
                       NewRequest(c, w, peer, "continuation", "waiting_peer", Len(req) + 1, 1)>>
    /\ UNCHANGED <<changes, able, ses, run>>

\* finish(): the runtime's result.  The adapter says settled only of a turn it
\* sent; a completed turn without a committed reply commits its final text, or
\* fails when that is empty.
Finish(w, status, settled, empty) ==
    LET r == run[w].r  s == run[w].s
        ok == Verified(w)
        commit == ok /\ status = "completed" /\ ~req[r].resp /\ ~empty
        final == IF ~ok \/ (status = "completed" /\ ~req[r].resp /\ empty) THEN "failed" ELSE status
        closed == [req EXCEPT ![r].att = IF settled THEN "settled" ELSE @]
        undone == CASE final = "interrupted" -> "interrupted"
                    [] final # "interrupted" /\ settled -> "failed"
                    [] OTHER -> "blocked"
    IN /\ run[w] # NoRun
       /\ settled => req[r].att = "open"
       /\ status = "completed" => settled
       /\ req' = CASE commit -> CommitReply(closed, r)
                   [] ~commit /\ req[r].resp -> closed
                   [] OTHER -> BlockDelivery([closed EXCEPT ![r].st = undone], {r})
       /\ ses' = [ses EXCEPT ![s].unres = @ /\ ~settled,
                             ![s].turns = IF ses[s].st = "active" THEN @ + 1 ELSE @,
                             ![s].st = IF @ \in {"creating", "prepared"} THEN "blocked" ELSE @]
       /\ run' = [run EXCEPT ![w] = NoRun]
       /\ UNCHANGED <<changes, able, conv>>

\* Mutant: recovery queues an unanswered request again.
RecoverRequeued(rs, R) ==
    [r \in DOMAIN rs |-> IF r \in R /\ ~rs[r].resp THEN [rs[r] EXCEPT !.st = "queued", !.att = "none"] ELSE rs[r]]
\* recover() for every execution that was running: no automatic replay.
Recovered(rs, R) ==
    LET lost == {r \in R : ~rs[r].resp}
    IN BlockDelivery([r \in DOMAIN rs |-> IF r \in lost THEN [rs[r] EXCEPT !.st = "blocked"] ELSE rs[r]], lost)

\* HQ dies and starts again.  The two writes of TurnStarting are not one
\* transaction: `torn' are the workers for which only the first was made.
CrashAndRecover ==
    LET going == {w \in Talkers : run[w] # NoRun} IN
    /\ going # {}
    /\ \E torn \in SUBSET {w \in going : ses[run[w].s].st = "active" /\ req[run[w].r].att = "none"} :
        req' = Recovered([r \in DOMAIN req |-> IF \E w \in torn : run[w].r = r THEN [req[r] EXCEPT !.att = "open"]
                                                                              ELSE req[r]],
                         {run[w].r : w \in going})
    /\ ses' = [s \in DOMAIN ses |->
                 IF (\E w \in going : run[w].s = s) /\ (ses[s].st \in {"creating", "prepared"} \/ ses[s].unres)
                 THEN [ses[s] EXCEPT !.st = "blocked"] ELSE ses[s]]
    /\ run' = [w \in Talkers |-> NoRun]
    /\ UNCHANGED <<changes, able, conv>>

ConversationsNext ==
    \/ \E w \in Talkers : Open(w) \/ Disable(w)
    \/ \E c \in DOMAIN conv : Send(c) \/ \E p \in conv[c].who : Participation(c, p)
    \/ \E c \in DOMAIN conv, state \in {"active", "muted"} : Control(c, state)
    \/ \E r \in DOMAIN req : Cancel(r)
    \/ \E s \in DOMAIN ses : RequestRollover(s)
    \/ Dispatch
    \/ \E w \in Talkers : PrepareBinding(w) \/ ActivateBinding(w) \/ TurnStarting(w) \/ UsageHigh(w) \/ SubmitReply(w)
    \/ \E w, peer \in Talkers : AskPeer(w, peer)
    \/ \E w \in Talkers, status \in {"completed", "failed", "interrupted"}, settled, empty \in BOOLEAN :
         Finish(w, status, settled, empty)
    \/ CrashAndRecover

ConversationsSpec == ConversationsInit /\ [][ConversationsNext]_convVars

-----------------------------------------------------------------------------
(* Properties.                                                             *)

\* A continuation waits only for a peer request that can still be answered:
\* whatever ends the peer's turn (an answer, a failure, a cancellation, a lost
\* authority at dispatch, a crash) releases or blocks the reservation with it.
NoOrphanContinuation ==
    \A k \in DOMAIN req : req[k].st = "waiting_peer" => req[req[k].parent].st \in {"queued", "replying"}

\* While a provider turn of a worker is unaccounted for, the worker runs nothing
\* else: neither a torn intent, a rollover nor a fresh conversation opens the fence.
WorkerFenced ==
    \A r \in DOMAIN req : req[r].att = "open" /\ run[req[r].w] # NoRun => run[req[r].w].r = r

\* A worker has one live context per conversation, and a context that is being
\* created belongs to the execution that is running.
OneGeneration ==
    \A s, k \in DOMAIN ses :
        /\ s # k /\ ses[s].w = ses[k].w /\ ses[s].c = ses[k].c => {ses[s].st, ses[k].st} # {"active"}
        /\ ses[s].st \in {"creating", "prepared"} => run[ses[s].w].s = s

\* An answer is delivered once and for good: a committed reply is never taken
\* back, and a request that was handed to a provider is never handed out again.
AnsweredOnce ==
    [][\A r \in DOMAIN req : /\ req[r].resp => req'[r].resp /\ req'[r].st = "completed"
                             /\ req[r].st # "queued" /\ req'[r].st = "queued" => req[r].st = "waiting_peer"]_convVars
=============================================================================
