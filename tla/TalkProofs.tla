----------------------------- MODULE TalkProofs -----------------------------
(***************************************************************************)
(* Conversations, working groups, reviews of a mandate, remote clients and *)
(* turns of the provider: what MCTalk checks on small instances, for every *)
(* number of workers, requests, sessions, members, turns, works, devices,  *)
(* keys, notifications and messages.                                       *)
(*                                                                         *)
(* Each part has an inductive invariant of its own, as the parts share no  *)
(* state.  ConversationsInv: a continuation that waits is of a request     *)
(* that will still be answered (Reserved), a run belongs to the request    *)
(* and the session of its worker (Linked, Placed), and an answer stays     *)
(* (Answered).  GroupInv: a turn being replied to is run by its member     *)
(* (Spoken), a batch is forgotten only when no turn of it can speak        *)
(* (OneBatch), and the final synthesis is a batch of its own that has read *)
(* all that was said (LastWord).  MandatesInv is in MandatesProofs.        *)
(* ClientsInv: what was done under a key is remembered until the key is    *)
(* useless (Remembered), and what is written to a client follows what it   *)
(* has (InOrder).  TurnInv: the report that a turn ended is true wherever  *)
(* it is (EndTrue), and after every request of the turn (EndLast).         *)
(***************************************************************************)
EXTENDS MCTalk, MandatesProofs

-----------------------------------------------------------------------------
(* Direct conversations.                                                   *)

Answerable == {"queued", "replying"}

\* A worker runs a request and a session of its own.
Linked ==
    \A w \in Talkers : run[w] # NoRun =>
        /\ run[w].r \in DOMAIN req /\ req[run[w].r].w = w
        /\ run[w].s \in DOMAIN ses /\ ses[run[w].s].w = w

\* What waits for a peer is a reserved continuation of a request that is answerable.
Reserved ==
    \A k \in DOMAIN req : req[k].st = "waiting_peer" =>
        /\ req[k].kind = "continuation" /\ req[k].parent \in DOMAIN req
        /\ req[req[k].parent].st \in Answerable

\* A request is made in a conversation.
Placed == \A r \in DOMAIN req : req[r].c \in DOMAIN conv

\* A request with an answer is completed.
Answered == \A r \in DOMAIN req : req[r].resp => req[r].st = "completed"

RepliesInv == ConversationsTypeOK /\ Linked /\ Placed /\ Reserved /\ Answered
ConversationsInv == RepliesInv /\ WorkerFenced /\ OneGeneration

\* The requests rs follow those of a state: none is added, an answer stays, and a
\* reservation waits on only for a request that stays answerable.
Follow(rs) ==
    /\ rs \in [DOMAIN req -> ReplyRequest]
    /\ \A k \in DOMAIN req :
        /\ rs[k].w = req[k].w /\ rs[k].c = req[k].c /\ rs[k].kind = req[k].kind /\ rs[k].parent = req[k].parent
        /\ rs[k].resp => rs[k].st = "completed"
        /\ req[k].resp => rs[k].resp
        /\ rs[k].st = "queued" => req[k].st \in {"queued", "waiting_peer"}
        /\ rs[k].st = "waiting_peer" =>
              /\ req[k].st = "waiting_peer"
              /\ rs[req[k].parent].st \in Answerable

LEMMA BlockDeliveryEffect ==
  ASSUME NEW D, NEW rs \in [D -> ReplyRequest], NEW S
  PROVE  /\ BlockDelivery(rs, S) \in [D -> ReplyRequest]
         /\ \A k \in D :
              /\ BlockDelivery(rs, S)[k].w = rs[k].w /\ BlockDelivery(rs, S)[k].c = rs[k].c
              /\ BlockDelivery(rs, S)[k].kind = rs[k].kind
              /\ BlockDelivery(rs, S)[k].parent = rs[k].parent
              /\ BlockDelivery(rs, S)[k].resp = rs[k].resp
              /\ BlockDelivery(rs, S)[k].att = rs[k].att
              /\ IF rs[k].kind = "continuation" /\ rs[k].parent \in S /\ rs[k].st = "waiting_peer"
                 THEN BlockDelivery(rs, S)[k].st = "blocked"
                 ELSE BlockDelivery(rs, S)[k].st = rs[k].st
  BY DEF BlockDelivery, ReplyRequest, Dead, Pending

LEMMA CommitReplyEffect ==
  ASSUME NEW D, NEW rs \in [D -> ReplyRequest], NEW r
  PROVE  /\ CommitReply(rs, r) \in [D -> ReplyRequest]
         /\ \A k \in D :
              /\ CommitReply(rs, r)[k].w = rs[k].w /\ CommitReply(rs, r)[k].c = rs[k].c
              /\ CommitReply(rs, r)[k].kind = rs[k].kind
              /\ CommitReply(rs, r)[k].parent = rs[k].parent
              /\ CommitReply(rs, r)[k].att = rs[k].att
              /\ k = r => CommitReply(rs, r)[k].st = "completed" /\ CommitReply(rs, r)[k].resp
              /\ k # r => /\ CommitReply(rs, r)[k].resp = rs[k].resp
                          /\ IF rs[k].kind = "continuation" /\ rs[k].parent = r /\ rs[k].st = "waiting_peer"
                             THEN CommitReply(rs, r)[k].st = "queued"
                             ELSE CommitReply(rs, r)[k].st = rs[k].st
<1> DEFINE cs == CommitReply(rs, r)
           freed(k) == rs[k].kind = "continuation" /\ rs[k].parent = r /\ rs[k].st = "waiting_peer"
<1>1. \A k \in D : /\ k = r => cs[k] = [rs[k] EXCEPT !.st = "completed", !.resp = TRUE]
                   /\ k # r /\ freed(k) => cs[k] = [rs[k] EXCEPT !.st = "queued"]
                   /\ k # r /\ ~freed(k) => cs[k] = rs[k]
  <2> SUFFICES ASSUME NEW k \in D
               PROVE  /\ k = r => cs[k] = [rs[k] EXCEPT !.st = "completed", !.resp = TRUE]
                      /\ k # r /\ freed(k) => cs[k] = [rs[k] EXCEPT !.st = "queued"]
                      /\ k # r /\ ~freed(k) => cs[k] = rs[k]
    OBVIOUS
  <2>1. cs[k] = CASE k = r -> [rs[k] EXCEPT !.st = "completed", !.resp = TRUE]
                  [] k # r /\ freed(k) -> [rs[k] EXCEPT !.st = "queued"]
                  [] OTHER -> rs[k]
    BY DEF CommitReply
  <2> HIDE DEF cs
  <2> QED
    BY <2>1
<1>2. cs = [k \in D |-> cs[k]]
  BY DEF CommitReply
<1> HIDE DEF cs
<1> SUFFICES ASSUME NEW k \in D
             PROVE  /\ cs[k] \in ReplyRequest
                    /\ cs[k].w = rs[k].w /\ cs[k].c = rs[k].c /\ cs[k].kind = rs[k].kind /\ cs[k].parent = rs[k].parent
                    /\ cs[k].att = rs[k].att
                    /\ k = r => cs[k].st = "completed" /\ cs[k].resp
                    /\ k # r => /\ cs[k].resp = rs[k].resp
                                /\ cs[k].st = IF freed(k) THEN "queued" ELSE rs[k].st
  BY <1>2 DEF cs
<1>3. rs[k] \in ReplyRequest
  OBVIOUS
<1>4. CASE k = r
  BY ZenonT(40), <1>1, <1>3, <1>4 DEF ReplyRequest, Dead, Pending
<1>5. CASE k # r /\ freed(k)
  BY ZenonT(40), <1>1, <1>3, <1>5 DEF ReplyRequest, Dead, Pending
<1>6. CASE k # r /\ ~freed(k)
  BY <1>1, <1>3, <1>6
<1> QED
  BY <1>4, <1>5, <1>6

LEMMA FollowKeeps ==
  ASSUME RepliesInv, Follow(req')
  PROVE  Reserved' /\ Answered' /\ req' \in Seq(ReplyRequest) /\ DOMAIN req' = DOMAIN req
<1>1. req' \in Seq(ReplyRequest) /\ DOMAIN req' = DOMAIN req
  BY FunctionAsSequence DEF RepliesInv, ConversationsTypeOK, Follow
<1>2. Reserved'
  BY <1>1 DEF Follow, Reserved, RepliesInv
<1>3. Answered'
  BY <1>1 DEF Follow, Answered
<1> QED
  BY <1>1, <1>2, <1>3

\* The requests as a function of their numbers.
LEMMA RequestTypes ==
  ASSUME ConversationsTypeOK
  PROVE  /\ req \in [DOMAIN req -> ReplyRequest] /\ ses \in [DOMAIN ses -> ConversationSession]
         /\ conv \in [DOMAIN conv -> Conversation]
         /\ DOMAIN req = 1..Len(req) /\ Len(req) \in Nat /\ DOMAIN ses = 1..Len(ses) /\ Len(ses) \in Nat
         /\ DOMAIN conv = 1..Len(conv) /\ Len(conv) \in Nat
  BY SequenceAsFunction DEF ConversationsTypeOK

LEMMA FollowSame == RepliesInv => Follow(req)
  BY RequestTypes DEF RepliesInv, Follow, Reserved, Answered

\* What becomes of the requests when those in S end, or when r is answered.
Ended(rs, S) ==
    /\ rs \in [DOMAIN req -> ReplyRequest]
    /\ \A k \in DOMAIN req :
        /\ rs[k].w = req[k].w /\ rs[k].c = req[k].c /\ rs[k].kind = req[k].kind /\ rs[k].parent = req[k].parent
        /\ rs[k].resp = req[k].resp
        /\ req[k].resp => rs[k].st = "completed"
        /\ rs[k].st = "queued" => req[k].st = "queued"
        /\ rs[k].st = "waiting_peer" => req[k].st = "waiting_peer"
        /\ req[k].st \in Answerable => rs[k].st \in Answerable \/ k \in S

LEMMA FollowBlocked ==
  ASSUME RepliesInv, NEW rs, NEW S, Ended(rs, S)
  PROVE  /\ Follow(BlockDelivery(rs, S)) /\ \A k \in DOMAIN req : BlockDelivery(rs, S)[k].att = rs[k].att
         /\ \A k \in DOMAIN req : rs[k].st # "waiting_peer" => BlockDelivery(rs, S)[k].st = rs[k].st
<1> DEFINE ns == BlockDelivery(rs, S)
<1>1. rs \in [DOMAIN req -> ReplyRequest]
  BY DEF Ended
<1>2. /\ ns \in [DOMAIN req -> ReplyRequest]
      /\ \A k \in DOMAIN req :
         /\ ns[k].w = rs[k].w /\ ns[k].c = rs[k].c /\ ns[k].kind = rs[k].kind /\ ns[k].parent = rs[k].parent
         /\ ns[k].resp = rs[k].resp /\ ns[k].att = rs[k].att
         /\ IF rs[k].kind = "continuation" /\ rs[k].parent \in S /\ rs[k].st = "waiting_peer"
            THEN ns[k].st = "blocked" ELSE ns[k].st = rs[k].st
  BY <1>1, BlockDeliveryEffect
<1> SUFFICES /\ Follow(ns) /\ \A k \in DOMAIN req : ns[k].att = rs[k].att
             /\ \A k \in DOMAIN req : rs[k].st # "waiting_peer" => ns[k].st = rs[k].st
  OBVIOUS
<1> HIDE DEF ns
<1> SUFFICES ASSUME NEW k \in DOMAIN req
    PROVE  /\ ns[k].w = req[k].w /\ ns[k].c = req[k].c /\ ns[k].kind = req[k].kind /\ ns[k].parent = req[k].parent
           /\ ns[k].resp => ns[k].st = "completed"
           /\ req[k].resp => ns[k].resp
           /\ ns[k].st = "queued" => req[k].st \in {"queued", "waiting_peer"}
           /\ ns[k].st = "waiting_peer" =>
                 req[k].st = "waiting_peer" /\ ns[req[k].parent].st \in Answerable
  BY <1>2 DEF Follow
<1>3. ns[k].w = req[k].w /\ ns[k].c = req[k].c /\ ns[k].kind = req[k].kind /\ ns[k].parent = req[k].parent /\ ns[k].resp = req[k].resp
  BY <1>2 DEF Ended
<1>4. req[k].resp => ns[k].st = "completed"
  BY <1>2 DEF Ended
<1>5. ns[k].st = "queued" => req[k].st \in {"queued", "waiting_peer"}
  BY <1>2 DEF Ended
<1>6. ASSUME ns[k].st = "waiting_peer"
      PROVE  req[k].st = "waiting_peer" /\ ns[req[k].parent].st \in Answerable
  <2>1. rs[k].st = "waiting_peer" /\ req[k].st = "waiting_peer"
    BY <1>2, <1>6 DEF Ended
  <2>2. req[k].kind = "continuation" /\ req[k].parent \in DOMAIN req /\ req[req[k].parent].st \in Answerable
    BY <2>1 DEF RepliesInv, Reserved
  <2>3. req[k].parent \notin S
    BY <1>2, <1>6, <2>1, <2>2 DEF Ended
  <2>4. rs[req[k].parent].st \in Answerable
    BY <2>2, <2>3 DEF Ended
  <2> QED
    BY <1>2, <2>1, <2>2, <2>4 DEF Answerable
<1> QED
  BY <1>3, <1>4, <1>5, <1>6

LEMMA FollowCommitted ==
  ASSUME RepliesInv, NEW rs, NEW r, Ended(rs, {})
  PROVE  Follow(CommitReply(rs, r)) /\ \A k \in DOMAIN req : CommitReply(rs, r)[k].att = rs[k].att
<1> DEFINE ns == CommitReply(rs, r)
<1>1. rs \in [DOMAIN req -> ReplyRequest]
  BY DEF Ended
<1>2. /\ ns \in [DOMAIN req -> ReplyRequest]
      /\ \A k \in DOMAIN req :
         /\ ns[k].w = rs[k].w /\ ns[k].c = rs[k].c /\ ns[k].kind = rs[k].kind /\ ns[k].parent = rs[k].parent
         /\ ns[k].att = rs[k].att
         /\ k = r => ns[k].st = "completed" /\ ns[k].resp
         /\ k # r => /\ ns[k].resp = rs[k].resp
                     /\ IF rs[k].kind = "continuation" /\ rs[k].parent = r /\ rs[k].st = "waiting_peer"
                        THEN ns[k].st = "queued" ELSE ns[k].st = rs[k].st
  BY <1>1, CommitReplyEffect
<1> SUFFICES Follow(ns) /\ \A k \in DOMAIN req : ns[k].att = rs[k].att
  OBVIOUS
<1> HIDE DEF ns
<1> SUFFICES ASSUME NEW k \in DOMAIN req
    PROVE  /\ ns[k].w = req[k].w /\ ns[k].c = req[k].c /\ ns[k].kind = req[k].kind /\ ns[k].parent = req[k].parent
           /\ ns[k].resp => ns[k].st = "completed"
           /\ req[k].resp => ns[k].resp
           /\ ns[k].st = "queued" => req[k].st \in {"queued", "waiting_peer"}
           /\ ns[k].st = "waiting_peer" =>
                 req[k].st = "waiting_peer" /\ ns[req[k].parent].st \in Answerable
  BY <1>2 DEF Follow
<1>3. ns[k].w = req[k].w /\ ns[k].c = req[k].c /\ ns[k].kind = req[k].kind /\ ns[k].parent = req[k].parent
  BY <1>2 DEF Ended
<1>4. (req[k].resp => ns[k].resp) /\ (ns[k].resp => ns[k].st = "completed")
  BY <1>2 DEF Ended
<1>5. ns[k].st = "queued" => req[k].st \in {"queued", "waiting_peer"}
  BY <1>2 DEF Ended
<1>6. ASSUME ns[k].st = "waiting_peer"
      PROVE  req[k].st = "waiting_peer" /\ ns[req[k].parent].st \in Answerable
  <2>1. k # r /\ rs[k].st = "waiting_peer" /\ req[k].st = "waiting_peer"
    BY <1>2, <1>6 DEF Ended
  <2>2. req[k].kind = "continuation" /\ req[k].parent \in DOMAIN req /\ req[req[k].parent].st \in Answerable
    BY <2>1 DEF RepliesInv, Reserved
  <2>3. req[k].parent # r
    BY <1>2, <1>6, <2>1, <2>2 DEF Ended
  <2>4. rs[req[k].parent].st \in Answerable
    BY <2>2 DEF Ended
  <2> QED
    BY <1>2, <2>1, <2>2, <2>3, <2>4 DEF Answerable
<1> QED
  BY <1>3, <1>4, <1>5, <1>6

\* One request takes another status or attempt before that.
LEMMA EndOne ==
  ASSUME RepliesInv, NEW r \in DOMAIN req, NEW row \in ReplyRequest,
         row.w = req[r].w, row.c = req[r].c, row.kind = req[r].kind, row.parent = req[r].parent, row.resp = req[r].resp,
         row.st = req[r].st \/ (~req[r].resp /\ row.st \in Dead \cup {"replying"})
  PROVE  /\ Ended([req EXCEPT ![r] = row], {r})
         /\ row.st \in {req[r].st, "replying"} => Ended([req EXCEPT ![r] = row], {})
<1> DEFINE rs == [req EXCEPT ![r] = row]
<1>1. req \in [DOMAIN req -> ReplyRequest]
  BY RequestTypes DEF RepliesInv
<1>2. rs \in [DOMAIN req -> ReplyRequest]
  BY <1>1
<1>3. rs[r] = row /\ \A k \in DOMAIN req : k # r => rs[k] = req[k]
  BY <1>1
<1> SUFFICES Ended(rs, {r}) /\ (row.st \in {req[r].st, "replying"} => Ended(rs, {}))
  OBVIOUS
<1> HIDE DEF rs
<1> QED
  BY <1>2, <1>3 DEF Ended, RepliesInv, Answered, Answerable, Dead

LEMMA EndedSame == RepliesInv => Ended(req, {})
  BY RequestTypes DEF RepliesInv, Ended, Answered

LEMMA FollowEnded ==
  ASSUME RepliesInv, NEW rs, Ended(rs, {})
  PROVE  Follow(rs)
  BY DEF Ended, Follow, RepliesInv, Reserved, Answerable

\* Sessions keep their workers and conversations, and none opens another context.
Resumed(ss) ==
    /\ ss \in [DOMAIN ses -> ConversationSession]
    /\ \A k \in DOMAIN ses :
        /\ ss[k].w = ses[k].w /\ ss[k].c = ses[k].c
        /\ ss[k].st \in {"creating", "prepared"} => ses[k].st \in {"creating", "prepared"}
        /\ ss[k].st = "active" => ses[k].st = "active"

AnsweredStep ==
    \A r \in DOMAIN req : /\ req[r].resp => req'[r].resp /\ req'[r].st = "completed"
                          /\ req[r].st # "queued" /\ req'[r].st = "queued" => req[r].st = "waiting_peer"

RestKept == /\ changes' \in 0..ChangeBound /\ able' \subseteq Talkers /\ conv' \in Seq(Conversation)
            /\ DOMAIN conv \subseteq DOMAIN conv'

LEMMA FollowAnswers ==
  ASSUME Follow(req') PROVE AnsweredStep
  BY DEF Follow, AnsweredStep

LEMMA ResumedSame == ConversationsTypeOK => Resumed(ses)
  BY RequestTypes DEF Resumed

\* OneGeneration, session by session.
Contexts(ss, rn) ==
    \A s, k \in DOMAIN ss :
        /\ s # k /\ ss[s].w = ss[k].w /\ ss[s].c = ss[k].c => ss[s].st # "active" \/ ss[k].st # "active"
        /\ ss[s].st \in {"creating", "prepared"} => rn[ss[s].w].s = s

LEMMA ContextsMean == OneGeneration <=> Contexts(ses, run)
<1>1. \A x, y : {x, y} # {"active"} <=> x # "active" \/ y # "active"
  OBVIOUS
<1> QED
  BY <1>1 DEF OneGeneration, Contexts

LEMMA ContextsMeanThen == OneGeneration' <=> Contexts(ses', run')
<1>1. \A x, y : {x, y} # {"active"} <=> x # "active" \/ y # "active"
  OBVIOUS
<1> QED
  BY <1>1 DEF OneGeneration, Contexts

LEMMA ResumedKeeps ==
  ASSUME ConversationsInv, Resumed(ses'), run' = run
  PROVE  OneGeneration'
<1>1. DOMAIN ses' = DOMAIN ses
  BY DEF Resumed
<1>2. Contexts(ses, run)
  BY ContextsMean DEF ConversationsInv
<1>3. Contexts(ses', run')
  BY <1>1, <1>2 DEF Contexts, Resumed
<1> QED
  BY <1>3, ContextsMeanThen

\* A handler that starts and ends no execution.
LEMMA GoOn ==
  ASSUME ConversationsInv, run' = run, RestKept, Follow(req'), OneGeneration',
         ses' \in [DOMAIN ses -> ConversationSession],
         \A k \in DOMAIN ses : ses'[k].w = ses[k].w,
         \A k \in DOMAIN req : req'[k].att = "open" =>
            req[k].att = "open" \/ (\E w \in Talkers : run[w] # NoRun /\ k = run[w].r)
  PROVE  ConversationsInv' /\ AnsweredStep
<1>1. Reserved' /\ Answered' /\ req' \in Seq(ReplyRequest) /\ DOMAIN req' = DOMAIN req
  BY FollowKeeps DEF ConversationsInv
<1>2. ses' \in Seq(ConversationSession) /\ DOMAIN ses' = DOMAIN ses
  BY FunctionAsSequence DEF ConversationsInv, RepliesInv, ConversationsTypeOK
<1>3. ConversationsTypeOK'
  BY <1>1, <1>2 DEF RestKept, ConversationsTypeOK, ConversationsInv, RepliesInv
<1>4. \A k \in DOMAIN req : req'[k].w = req[k].w
  BY DEF Follow
<1>5. Linked'
  BY <1>1, <1>2, <1>4 DEF Linked, ConversationsInv, RepliesInv
<1>6. WorkerFenced'
  BY <1>1, <1>4 DEF WorkerFenced, Linked, ConversationsInv, RepliesInv
<1>7. Placed'
  BY <1>1 DEF Follow, RestKept, Placed, ConversationsInv, RepliesInv
<1> QED
  BY <1>1, <1>3, <1>5, <1>6, <1>7, FollowAnswers DEF ConversationsInv, RepliesInv

\* The session of an execution, and its request.
LEMMA OwnRows ==
  ASSUME ConversationsInv, NEW w \in Talkers, run[w] # NoRun
  PROVE  /\ run[w].r \in DOMAIN req /\ req[run[w].r] \in ReplyRequest /\ req[run[w].r].w = w
         /\ run[w].s \in DOMAIN ses /\ ses[run[w].s] \in ConversationSession /\ ses[run[w].s].w = w
  BY RequestTypes DEF ConversationsInv, RepliesInv, Linked

\* The owner changes what may go on; requests and sessions follow when they are used.
LEMMA OwnerStep ==
  ASSUME ConversationsInv, UNCHANGED <<req, ses, run>>, RestKept
  PROVE  ConversationsInv' /\ AnsweredStep
<1>1. Follow(req') /\ Resumed(ses')
  BY FollowSame, ResumedSame DEF ConversationsInv, RepliesInv
<1> QED
  BY <1>1, GoOn, ResumedKeeps DEF Resumed

LEMMA OpenStep ==
  ASSUME ConversationsInv, NEW w \in Talkers, Open(w) PROVE ConversationsInv' /\ AnsweredStep
<1> DEFINE row == [state |-> "active", scope |-> 1, who |-> {Human, w}, on |-> {Human, w}]
<1>1. row \in Conversation
  BY DEF Conversation
<1>2. conv' = Append(conv, row) /\ conv \in Seq(Conversation)
  BY DEF Open, ConversationsInv, RepliesInv, ConversationsTypeOK
<1> HIDE DEF row
<1>3. conv' \in Seq(Conversation) /\ DOMAIN conv \subseteq DOMAIN conv'
  BY <1>1, <1>2, AppendProperties, LenProperties
<1>4. RestKept
  BY <1>3 DEF Open, RestKept, ConversationsInv, RepliesInv, ConversationsTypeOK
<1> QED
  BY <1>4, OwnerStep DEF Open

LEMMA ChangeTyped ==
  ASSUME ConversationsTypeOK, Change PROVE changes' \in 0..ChangeBound
  BY ConversationsAssumption DEF ConversationsTypeOK, Change

LEMMA ControlStep ==
  ASSUME ConversationsInv, NEW c \in DOMAIN conv, NEW state \in {"active", "muted"}, Control(c, state)
  PROVE  ConversationsInv' /\ AnsweredStep
<1>1. conv \in [DOMAIN conv -> Conversation] /\ conv \in Seq(Conversation) /\ ConversationsTypeOK
  BY RequestTypes DEF ConversationsInv, RepliesInv, ConversationsTypeOK
<1>2. conv' = [conv EXCEPT ![c] = [conv[c] EXCEPT !.state = state]]
  BY <1>1 DEF Control
<1>3. [conv[c] EXCEPT !.state = state] \in Conversation
  BY <1>1 DEF Conversation
<1>4. conv' \in Seq(Conversation) /\ DOMAIN conv' = DOMAIN conv
  BY <1>1, <1>2, <1>3, FunctionAsSequence
<1>5. RestKept
  BY <1>1, <1>4, ChangeTyped DEF Control, RestKept, ConversationsTypeOK
<1> QED
  BY <1>5, OwnerStep DEF Control

LEMMA ParticipationStep ==
  ASSUME ConversationsInv, NEW c \in DOMAIN conv, NEW p, Participation(c, p)
  PROVE  ConversationsInv' /\ AnsweredStep
<1>1. conv \in [DOMAIN conv -> Conversation] /\ conv \in Seq(Conversation) /\ ConversationsTypeOK
  BY RequestTypes DEF ConversationsInv, RepliesInv, ConversationsTypeOK
<1> DEFINE on == IF p \in conv[c].on THEN conv[c].on \ {p} ELSE conv[c].on \cup {p}
           row == [conv[c] EXCEPT !.scope = conv[c].scope + 1, !.on = on]
<1>2. conv' = [conv EXCEPT ![c] = row] /\ p \in conv[c].who
  BY <1>1 DEF Participation
<1>3. conv[c] \in Conversation
  BY <1>1
<1>4. on \subseteq Talkers \cup {Human} /\ conv[c].scope + 1 \in Nat
  BY <1>2, <1>3 DEF Conversation
<1>5. row \in Conversation
  <2> HIDE DEF on
  <2> QED
    BY <1>3, <1>4 DEF Conversation
<1> HIDE DEF row
<1>6. conv' \in Seq(Conversation) /\ DOMAIN conv' = DOMAIN conv
  BY <1>1, <1>2, <1>5, FunctionAsSequence
<1>7. RestKept
  BY <1>1, <1>6, ChangeTyped DEF Participation, RestKept, ConversationsTypeOK
<1> QED
  BY <1>7, OwnerStep DEF Participation

LEMMA DisableStep ==
  ASSUME ConversationsInv, NEW w \in Talkers, Disable(w) PROVE ConversationsInv' /\ AnsweredStep
<1>1. ConversationsTypeOK
  BY DEF ConversationsInv, RepliesInv
<1>2. RestKept
  BY <1>1, ChangeTyped DEF Disable, RestKept, ConversationsTypeOK
<1> QED
  BY <1>2, OwnerStep DEF Disable

LEMMA RestSame ==
  ASSUME ConversationsInv, UNCHANGED <<changes, able, conv>> PROVE RestKept
  BY DEF ConversationsInv, RepliesInv, ConversationsTypeOK, RestKept

LEMMA CancelStep ==
  ASSUME ConversationsInv, NEW r \in DOMAIN req, Cancel(r) PROVE ConversationsInv' /\ AnsweredStep
<1> DEFINE row == [req[r] EXCEPT !.st = "cancelled"]
           rs == [req EXCEPT ![r] = row]
<1>1. req \in [DOMAIN req -> ReplyRequest] /\ req[r] \in ReplyRequest
  BY RequestTypes DEF ConversationsInv, RepliesInv
<1>2. req' = BlockDelivery(rs, {r}) /\ req[r].st # "completed" /\ UNCHANGED <<changes, able, conv, ses, run>>
  BY <1>1 DEF Cancel
<1>3. /\ row \in ReplyRequest /\ row.w = req[r].w /\ row.c = req[r].c /\ row.kind = req[r].kind /\ row.parent = req[r].parent
      /\ row.resp = req[r].resp /\ row.st = "cancelled" /\ row.att = req[r].att
  BY <1>1 DEF ReplyRequest, Dead
<1> HIDE DEF row
<1>4. ~req[r].resp /\ "cancelled" \in Dead
  BY <1>2 DEF ConversationsInv, RepliesInv, Answered, Dead
<1>5. Ended(rs, {r})
  BY <1>3, <1>4, EndOne DEF ConversationsInv
<1>6. \A k \in DOMAIN req : rs[k].att = req[k].att
  BY <1>1, <1>3
<1> HIDE DEF rs
<1>7. Follow(req') /\ \A k \in DOMAIN req : req'[k].att = req[k].att
  <2>1. Follow(BlockDelivery(rs, {r}))
    BY <1>5, FollowBlocked DEF ConversationsInv
  <2>2. \A k \in DOMAIN req : BlockDelivery(rs, {r})[k].att = rs[k].att
    BY <1>5, FollowBlocked DEF ConversationsInv
  <2> QED
    BY <1>2, <1>6, <2>1, <2>2
<1>8. Resumed(ses')
  BY <1>2, ResumedSame DEF ConversationsInv, RepliesInv
<1> QED
  BY <1>2, <1>7, <1>8, RestSame, ResumedKeeps, GoOn DEF Resumed

\* New requests are queued, or reserved for one that is.
LEMMA AddedKeeps ==
  ASSUME ConversationsInv, RestKept, UNCHANGED <<ses, run>>, req' \in Seq(ReplyRequest),
         DOMAIN req \subseteq DOMAIN req',
         \A k \in DOMAIN req : req'[k] = req[k],
         \A k \in DOMAIN req' \ DOMAIN req :
            /\ ~req'[k].resp /\ req'[k].att = "none" /\ req'[k].c \in DOMAIN conv'
            /\ req'[k].st = "waiting_peer" =>
                  /\ req'[k].kind = "continuation" /\ req'[k].parent \in DOMAIN req'
                  /\ req'[req'[k].parent].st \in Answerable
  PROVE  ConversationsInv' /\ AnsweredStep
<1>1. ConversationsTypeOK'
  BY DEF RestKept, ConversationsTypeOK, ConversationsInv, RepliesInv
<1>2. Linked'
  BY DEF Linked, ConversationsInv, RepliesInv
<1>3. Reserved' /\ Answered'
  BY DEF Reserved, Answered, ConversationsInv, RepliesInv
<1>4. WorkerFenced'
  BY DEF WorkerFenced, ConversationsInv, RepliesInv
<1>5. OneGeneration'
  <2>1. Contexts(ses, run) /\ ses' = ses /\ run' = run
    BY ContextsMean DEF ConversationsInv
  <2>2. Contexts(ses', run')
    BY <2>1
  <2> QED
    BY <2>2, ContextsMeanThen
<1>6. AnsweredStep
  BY DEF AnsweredStep, Answered, ConversationsInv, RepliesInv
<1>7. Placed'
  BY DEF Placed, RestKept, ConversationsInv, RepliesInv
<1> QED
  BY <1>1, <1>2, <1>3, <1>4, <1>5, <1>6, <1>7 DEF ConversationsInv, RepliesInv

LEMMA SendStep ==
  ASSUME ConversationsInv, NEW c \in DOMAIN conv, Send(c) PROVE ConversationsInv' /\ AnsweredStep
<1>1. PICK w \in conv[c].on \cap Talkers :
         req' = Append(req, NewRequest(c, w, Human, "reply", "queued", 0, conv[c].scope))
  BY DEF Send
<1>2. conv \in [DOMAIN conv -> Conversation] /\ c \in Nat /\ req \in Seq(ReplyRequest)
  BY RequestTypes DEF ConversationsInv, RepliesInv, ConversationsTypeOK
<1> DEFINE row == NewRequest(c, w, Human, "reply", "queued", 0, conv[c].scope)
<1>3. row \in ReplyRequest /\ ~row.resp /\ row.att = "none" /\ row.st = "queued" /\ row.c = c
  BY <1>2 DEF NewRequest, ReplyRequest, Conversation, Pending
<1> HIDE DEF row
<1>4. /\ req' \in Seq(ReplyRequest) /\ DOMAIN req \subseteq DOMAIN req'
      /\ \A k \in DOMAIN req : req'[k] = req[k]
      /\ \A k \in DOMAIN req' \ DOMAIN req : req'[k] = row
  BY <1>1, <1>2, <1>3, AppendProperties, LenProperties DEF row
<1>5. RestKept /\ UNCHANGED <<ses, run>> /\ conv' = conv
  BY RestSame DEF Send
<1> QED
  BY <1>3, <1>4, <1>5, AddedKeeps

LEMMA AskPeerStep ==
  ASSUME ConversationsInv, NEW w \in Talkers, NEW peer \in Talkers, AskPeer(w, peer)
  PROVE  ConversationsInv' /\ AnsweredStep
<1> DEFINE r == run[w].r
           c == Len(conv) + 1
           p == Len(req) + 1
           talk == [state |-> "active", scope |-> 1, who |-> {w, peer}, on |-> {w, peer}]
           ask == NewRequest(c, peer, w, "peer", "queued", r, 1)
           wait == NewRequest(c, w, peer, "continuation", "waiting_peer", p, 1)
<1>1. conv' = Append(conv, talk) /\ req' = req \o <<ask, wait>> /\ UNCHANGED <<changes, able, ses, run>>
  BY DEF AskPeer
<1>2. /\ req \in Seq(ReplyRequest) /\ conv \in Seq(Conversation) /\ Len(conv) \in Nat /\ Len(req) \in Nat
      /\ DOMAIN req = 1..Len(req)
  BY RequestTypes DEF ConversationsInv, RepliesInv, ConversationsTypeOK
<1>3. r \in Nat
  BY DEF ConversationsInv, RepliesInv, ConversationsTypeOK, RunningReply
<1>4. talk \in Conversation
  BY DEF Conversation
<1>5. ask \in ReplyRequest /\ ~ask.resp /\ ask.att = "none" /\ ask.st = "queued" /\ ask.c = c
  BY <1>2, <1>3 DEF NewRequest, ReplyRequest, Pending
<1>6. /\ wait \in ReplyRequest /\ ~wait.resp /\ wait.att = "none" /\ wait.c = c
      /\ wait.kind = "continuation" /\ wait.parent = p
  BY <1>2 DEF NewRequest, ReplyRequest, Pending
<1> HIDE DEF talk, ask, wait
<1>7. conv' \in Seq(Conversation) /\ DOMAIN conv \subseteq DOMAIN conv' /\ c \in DOMAIN conv'
  BY <1>1, <1>2, <1>4, AppendProperties, LenProperties
<1>8. <<ask, wait>> \in Seq(ReplyRequest) /\ Len(<<ask, wait>>) = 2
  BY <1>5, <1>6
<1>9. /\ req' \in Seq(ReplyRequest) /\ DOMAIN req' = 1..Len(req) + 2
      /\ \A k \in DOMAIN req : req'[k] = req[k]
      /\ req'[Len(req) + 1] = ask /\ req'[Len(req) + 2] = wait
  BY <1>1, <1>2, <1>8, ConcatProperties, LenProperties
<1>10. \A k \in DOMAIN req' \ DOMAIN req : k = Len(req) + 1 \/ k = Len(req) + 2
  BY <1>2, <1>9
<1>11. RestKept
  BY <1>1, <1>7 DEF ConversationsInv, RepliesInv, ConversationsTypeOK, RestKept
<1>12. p \in DOMAIN req' /\ DOMAIN req \subseteq DOMAIN req'
  BY <1>2, <1>9
<1> QED
  BY SMTT(30), <1>1, <1>7, <1>2, <1>5, <1>6, <1>9, <1>10, <1>11, <1>12, AddedKeeps DEF Answerable

\* One session takes another status or mark.
LEMMA ResumeOne ==
  ASSUME ConversationsInv, NEW s \in DOMAIN ses, NEW row \in ConversationSession,
         row.w = ses[s].w, row.c = ses[s].c,
         row.st = "active" => ses[s].st = "active",
         row.st \in {"creating", "prepared"} => ses[s].st \in {"creating", "prepared"}
  PROVE  Resumed([ses EXCEPT ![s] = row])
<1>1. ses \in [DOMAIN ses -> ConversationSession]
  BY RequestTypes DEF ConversationsInv, RepliesInv
<1> DEFINE ss == [ses EXCEPT ![s] = row]
<1>2. ss \in [DOMAIN ses -> ConversationSession]
  BY <1>1
<1>3. \A k \in DOMAIN ses : k # s => ss[k] = ses[k]
  BY <1>1
<1>4. ss[s] = row
  BY <1>1
<1> HIDE DEF ss
<1>5. Resumed(ss)
  BY <1>2, <1>3, <1>4 DEF Resumed
<1> QED
  BY <1>5 DEF ss

\* Requests and sessions that only go on.
LEMMA GoOnResumed ==
  ASSUME ConversationsInv, UNCHANGED <<changes, able, conv, run>>, Follow(req'), Resumed(ses'),
         \A k \in DOMAIN req : req'[k].att = "open" =>
            req[k].att = "open" \/ (\E w \in Talkers : run[w] # NoRun /\ k = run[w].r)
  PROVE  ConversationsInv' /\ AnsweredStep
  BY RestSame, ResumedKeeps, GoOn DEF Resumed

LEMMA SesRow ==
  ASSUME ConversationsInv, NEW s \in DOMAIN ses PROVE ses[s] \in ConversationSession
  BY RequestTypes DEF ConversationsInv, RepliesInv

LEMMA RollStep ==
  ASSUME ConversationsInv, NEW s \in DOMAIN ses, ses' = [ses EXCEPT ![s].roll = TRUE],
         UNCHANGED <<changes, able, conv, req, run>>
  PROVE  ConversationsInv' /\ AnsweredStep
<1> DEFINE row == [ses[s] EXCEPT !.roll = TRUE]
<1>1. ses[s] \in ConversationSession /\ ses \in [DOMAIN ses -> ConversationSession]
  BY SesRow, RequestTypes DEF ConversationsInv, RepliesInv
<1>2. row \in ConversationSession /\ row.w = ses[s].w /\ row.c = ses[s].c /\ row.st = ses[s].st
  BY <1>1 DEF ConversationSession
<1>3. ses' = [ses EXCEPT ![s] = row]
  BY <1>1
<1> HIDE DEF row
<1>4. Resumed(ses')
  BY ZenonT(40), <1>2, <1>3, ResumeOne
<1>5. Follow(req')
  BY FollowSame DEF ConversationsInv
<1> QED
  BY <1>4, <1>5, GoOnResumed

LEMMA PrepareBindingStep ==
  ASSUME ConversationsInv, NEW w \in Talkers, PrepareBinding(w) PROVE ConversationsInv' /\ AnsweredStep
<1> DEFINE s == run[w].s
           row == [ses[s] EXCEPT !.st = "prepared"]
<1>1. s \in DOMAIN ses /\ ses[s].st = "creating" /\ ses' = [ses EXCEPT ![s].st = "prepared"]
      /\ UNCHANGED <<changes, able, conv, req, run>>
  BY OwnRows DEF PrepareBinding, Verified
<1>2. ses[s] \in ConversationSession /\ ses \in [DOMAIN ses -> ConversationSession]
  BY <1>1, SesRow, RequestTypes DEF ConversationsInv, RepliesInv
<1> HIDE DEF s
<1>3. row \in ConversationSession /\ row.w = ses[s].w /\ row.c = ses[s].c /\ row.st = "prepared"
  BY <1>2 DEF ConversationSession
<1>4. ses' = [ses EXCEPT ![s] = row]
  BY <1>1, <1>2
<1> HIDE DEF row
<1>5. Resumed(ses')
  BY <1>1, <1>3, <1>4, ResumeOne
<1>6. Follow(req')
  BY <1>1, FollowSame DEF ConversationsInv
<1> QED
  BY <1>1, <1>5, <1>6, GoOnResumed

LEMMA ActivateBindingStep ==
  ASSUME ConversationsInv, NEW w \in Talkers, ActivateBinding(w) PROVE ConversationsInv' /\ AnsweredStep
<1> DEFINE s == run[w].s
<1>1. s \in DOMAIN ses /\ ses[s].w = w /\ ses[s].st = "prepared" /\ UNCHANGED <<changes, able, conv, req, run>>
  BY OwnRows DEF ActivateBinding, Verified
<1>2. ses \in [DOMAIN ses -> ConversationSession]
  BY RequestTypes DEF ConversationsInv, RepliesInv
<1> DEFINE other(k) == k # s /\ ses[k].w = w /\ ses[k].c = ses[s].c /\ ses[k].st = "active"
<1>3. ses' = [k \in DOMAIN ses |->
                 CASE k = s -> [ses[k] EXCEPT !.st = "active"]
                   [] other(k) -> [ses[k] EXCEPT !.st = "superseded"]
                   [] OTHER -> ses[k]]
  BY DEF ActivateBinding
<1> HIDE DEF s
<1>4. /\ ses' \in [DOMAIN ses -> ConversationSession]
      /\ \A k \in DOMAIN ses :
           /\ ses'[k].w = ses[k].w /\ ses'[k].c = ses[k].c
           /\ k = s => ses'[k].st = "active"
           /\ other(k) => ses'[k].st = "superseded"
           /\ k # s /\ ~other(k) => ses'[k].st = ses[k].st
  <2>1. ASSUME NEW k \in DOMAIN ses
        PROVE  /\ ses'[k] \in ConversationSession /\ ses'[k].w = ses[k].w /\ ses'[k].c = ses[k].c
               /\ k = s => ses'[k].st = "active"
               /\ other(k) => ses'[k].st = "superseded"
               /\ k # s /\ ~other(k) => ses'[k].st = ses[k].st
    <3>0. ses[k] \in ConversationSession
      BY <1>2
    <3>1. CASE k = s
      <4>1. ses'[k] = [ses[k] EXCEPT !.st = "active"]
        BY <1>3, <3>1
      <4> QED
        BY <3>0, <3>1, <4>1 DEF ConversationSession
    <3>2. CASE other(k)
      <4>1. ses'[k] = [ses[k] EXCEPT !.st = "superseded"]
        BY <1>3, <3>2
      <4> QED
        BY <3>0, <3>2, <4>1 DEF ConversationSession
    <3>3. CASE k # s /\ ~other(k)
      <4>1. ses'[k] = ses[k]
        BY <1>3, <3>3
      <4> QED
        BY <3>0, <3>3, <4>1
    <3> QED
      BY <3>1, <3>2, <3>3
  <2>2. ses' = [k \in DOMAIN ses |-> ses'[k]]
    BY <1>3
  <2> QED
    BY <2>1, <2>2
<1>5. Contexts(ses, run)
  BY ContextsMean DEF ConversationsInv
<1>6. Contexts(ses', run')
  <2>1. DOMAIN ses' = DOMAIN ses
    BY <1>4
  <2>2. \A k \in DOMAIN ses : ses'[k].st \in {"creating", "prepared"} => ses[k].st \in {"creating", "prepared"}
    BY <1>4
  <2>3. \A k \in DOMAIN ses : ses'[k].st = "active" /\ ses'[k].w = w /\ ses'[k].c = ses[s].c => k = s
    BY <1>4
  <2>4. \A k \in DOMAIN ses : ses'[k].st = "active" /\ k # s => ses[k].st = "active"
    BY <1>4
  <2> QED
    BY <1>1, <1>4, <1>5, <2>1, <2>2, <2>3, <2>4 DEF Contexts
<1>7. OneGeneration'
  BY <1>6, ContextsMeanThen
<1>8. Follow(req') /\ RestKept
  BY <1>1, FollowSame, RestSame DEF ConversationsInv
<1> QED
  BY <1>1, <1>4, <1>7, <1>8, GoOn

LEMMA TurnStartingStep ==
  ASSUME ConversationsInv, NEW w \in Talkers, TurnStarting(w) PROVE ConversationsInv' /\ AnsweredStep
<1> DEFINE r == run[w].r
           s == run[w].s
           row == [req[r] EXCEPT !.att = "open"]
           mark == [ses[s] EXCEPT !.unres = TRUE]
<1>1. run[w] # NoRun /\ UNCHANGED <<changes, able, conv, run>>
  BY DEF TurnStarting, Verified
<1>2. r \in DOMAIN req /\ req[r] \in ReplyRequest /\ s \in DOMAIN ses /\ ses[s] \in ConversationSession
  BY <1>1, OwnRows
<1>3. req \in [DOMAIN req -> ReplyRequest] /\ ses \in [DOMAIN ses -> ConversationSession]
  BY RequestTypes DEF ConversationsInv, RepliesInv
<1>4. req' = [req EXCEPT ![r] = row] /\ ses' = [ses EXCEPT ![s] = mark]
  BY <1>2, <1>3 DEF TurnStarting
<1> HIDE DEF r, s
<1>5. /\ row \in ReplyRequest /\ row.w = req[r].w /\ row.c = req[r].c /\ row.kind = req[r].kind /\ row.parent = req[r].parent
      /\ row.resp = req[r].resp /\ row.st = req[r].st
  BY <1>2 DEF ReplyRequest
<1>6. mark \in ConversationSession /\ mark.w = ses[s].w /\ mark.c = ses[s].c /\ mark.st = ses[s].st
  BY <1>2 DEF ConversationSession
<1> HIDE DEF row, mark
<1>7. Ended(req', {})
  BY <1>2, <1>4, <1>5, EndOne DEF ConversationsInv
<1>8. Follow(req')
  BY <1>7, FollowEnded DEF ConversationsInv
<1>9. Resumed(ses')
  BY <1>2, <1>4, <1>6, ResumeOne
<1>10. \A k \in DOMAIN req : req'[k].att = "open" => req[k].att = "open" \/ k = r
  BY <1>3, <1>4
<1> QED
  BY <1>1, <1>8, <1>9, <1>10, GoOnResumed DEF r

LEMMA SubmitReplyStep ==
  ASSUME ConversationsInv, NEW w \in Talkers, SubmitReply(w) PROVE ConversationsInv' /\ AnsweredStep
<1>1. req' = CommitReply(req, run[w].r) /\ UNCHANGED <<changes, able, conv, ses, run>>
  BY DEF SubmitReply
<1>2. Follow(req') /\ \A k \in DOMAIN req : req'[k].att = req[k].att
  BY <1>1, EndedSame, FollowCommitted DEF ConversationsInv
<1>3. Resumed(ses')
  BY <1>1, ResumedSame DEF ConversationsInv, RepliesInv
<1> QED
  BY <1>1, <1>2, <1>3, GoOnResumed

\* The requests that dispatch blocks, and the one it hands out.
LEMMA DispatchRequests ==
  ASSUME ConversationsInv, NEW skipped \in SUBSET Candidates, NEW ns,
         ns = BlockDelivery([r \in DOMAIN req |-> IF r \in skipped THEN [req[r] EXCEPT !.st = "blocked"] ELSE req[r]], skipped)
  PROVE  /\ Follow(ns) /\ \A k \in DOMAIN req : ns[k].att = req[k].att
         /\ \A k \in Candidates \ skipped : ns[k].st = "queued"
<1> DEFINE rs == [r \in DOMAIN req |-> IF r \in skipped THEN [req[r] EXCEPT !.st = "blocked"] ELSE req[r]]
<1>1. req \in [DOMAIN req -> ReplyRequest]
  BY RequestTypes DEF ConversationsInv, RepliesInv
<1>2. \A k \in skipped : k \in DOMAIN req /\ req[k].st = "queued" /\ ~req[k].resp
  BY DEF Candidates, ConversationsInv, RepliesInv, Answered
<1>3. ASSUME NEW k \in DOMAIN req
      PROVE  /\ rs[k] \in ReplyRequest /\ rs[k].w = req[k].w /\ rs[k].c = req[k].c /\ rs[k].kind = req[k].kind
             /\ rs[k].parent = req[k].parent /\ rs[k].resp = req[k].resp /\ rs[k].att = req[k].att
             /\ k \in skipped => rs[k].st = "blocked"
             /\ k \notin skipped => rs[k].st = req[k].st
  <2>0. req[k] \in ReplyRequest
    BY <1>1
  <2>1. CASE k \in skipped
    <3>1. rs[k] = [req[k] EXCEPT !.st = "blocked"]
      BY <2>1
    <3> HIDE DEF rs
    <3> QED
      BY <2>0, <2>1, <3>1 DEF ReplyRequest, Dead
  <2>2. CASE k \notin skipped
    BY <2>0, <2>2
  <2> QED
    BY <2>1, <2>2
<1>4. rs = [k \in DOMAIN req |-> rs[k]]
  OBVIOUS
<1>5. ns = BlockDelivery(rs, skipped)
  OBVIOUS
<1> HIDE DEF rs
<1>6. rs \in [DOMAIN req -> ReplyRequest]
  BY <1>3, <1>4
<1>7. Ended(rs, skipped)
  BY <1>2, <1>3, <1>6 DEF Ended, Answerable, ConversationsInv, RepliesInv, Answered
<1>8. /\ Follow(ns) /\ \A k \in DOMAIN req : ns[k].att = rs[k].att
      /\ \A k \in DOMAIN req : rs[k].st # "waiting_peer" => ns[k].st = rs[k].st
  <2>1. RepliesInv
    BY DEF ConversationsInv
  <2>2. Follow(BlockDelivery(rs, skipped))
    BY <1>7, <2>1, FollowBlocked
  <2>3. \A k \in DOMAIN req : BlockDelivery(rs, skipped)[k].att = rs[k].att
    BY <1>7, <2>1, FollowBlocked
  <2>4. \A k \in DOMAIN req : rs[k].st # "waiting_peer" => BlockDelivery(rs, skipped)[k].st = rs[k].st
    BY <1>7, <2>1, FollowBlocked
  <2> QED
    BY <1>5, <2>2, <2>3, <2>4
<1>9. \A k \in Candidates \ skipped : k \in DOMAIN req /\ req[k].st = "queued"
  BY DEF Candidates
<1> QED
  BY <1>3, <1>8, <1>9

\* A queued request is handed out.
LEMMA FollowReplying ==
  ASSUME RepliesInv, NEW ns, Follow(ns), NEW r \in DOMAIN req, ns[r].st = "queued"
  PROVE  /\ Follow([ns EXCEPT ![r].st = "replying"])
         /\ \A k \in DOMAIN req : [ns EXCEPT ![r].st = "replying"][k].att = ns[k].att
<1> DEFINE row == [ns[r] EXCEPT !.st = "replying"]
           rs == [ns EXCEPT ![r] = row]
<1>1. ns \in [DOMAIN req -> ReplyRequest]
  BY DEF Follow
<1>2. [ns EXCEPT ![r].st = "replying"] = rs
  BY <1>1
<1>3. /\ row \in ReplyRequest /\ row.w = ns[r].w /\ row.c = ns[r].c /\ row.kind = ns[r].kind /\ row.parent = ns[r].parent
      /\ row.resp = ns[r].resp /\ row.att = ns[r].att /\ row.st = "replying"
  BY <1>1 DEF ReplyRequest, Pending
<1>4. ~ns[r].resp
  BY DEF Follow
<1> HIDE DEF row
<1>5. rs[r] = row /\ \A k \in DOMAIN req : k # r => rs[k] = ns[k]
  BY <1>1
<1>6. rs \in [DOMAIN req -> ReplyRequest]
  BY <1>1, <1>3
<1> HIDE DEF rs
<1>7. Follow(rs)
  <2> SUFFICES ASSUME NEW k \in DOMAIN req
      PROVE  /\ rs[k].w = req[k].w /\ rs[k].c = req[k].c /\ rs[k].kind = req[k].kind /\ rs[k].parent = req[k].parent
             /\ rs[k].resp => rs[k].st = "completed"
             /\ req[k].resp => rs[k].resp
             /\ rs[k].st = "queued" => req[k].st \in {"queued", "waiting_peer"}
             /\ rs[k].st = "waiting_peer" =>
                   req[k].st = "waiting_peer" /\ rs[req[k].parent].st \in Answerable
    BY <1>6 DEF Follow
  <2>1. CASE k = r
    BY <1>3, <1>4, <1>5, <2>1 DEF Follow
  <2>2. CASE k # r
    <3>1. rs[k] = ns[k]
      BY <1>5, <2>2
    <3>2. ASSUME rs[k].st = "waiting_peer" PROVE req[k].st = "waiting_peer" /\ rs[req[k].parent].st \in Answerable
      <4>1. req[k].st = "waiting_peer" /\ ns[req[k].parent].st \in Answerable
        BY <3>1, <3>2 DEF Follow
      <4>2. req[k].parent \in DOMAIN req
        BY <4>1 DEF RepliesInv, Reserved
      <4> QED
        BY <1>3, <1>5, <4>1, <4>2 DEF Answerable
    <3> QED
      BY <3>1, <3>2 DEF Follow
  <2> QED
    BY <2>1, <2>2
<1> QED
  BY <1>2, <1>3, <1>5, <1>7

\* An execution starts for a worker whose past turns are all accounted for.
LEMMA StartKeeps ==
  ASSUME ConversationsInv, UNCHANGED <<changes, able, conv>>, Follow(req'),
         \A k \in DOMAIN req : req'[k].att = req[k].att,
         NEW r \in DOMAIN req, NEW s \in Nat, run[req[r].w] = NoRun, ~Unresolved(req[r].w),
         run' = [run EXCEPT ![req[r].w] = [r |-> r, s |-> s]],
         s \in DOMAIN ses', ses'[s].w = req[r].w, ses' \in Seq(ConversationSession),
         DOMAIN ses \subseteq DOMAIN ses',
         \A k \in DOMAIN ses : ses'[k] = ses[k],
         \A k \in DOMAIN ses' \ DOMAIN ses : k = s /\ ses'[k].st = "creating"
  PROVE  ConversationsInv' /\ AnsweredStep
<1> DEFINE w == req[r].w
<1>1. Reserved' /\ Answered' /\ req' \in Seq(ReplyRequest) /\ DOMAIN req' = DOMAIN req
  BY FollowKeeps DEF ConversationsInv
<1>2. /\ req \in [DOMAIN req -> ReplyRequest] /\ DOMAIN req \subseteq Nat
      /\ DOMAIN ses = 1..Len(ses) /\ Len(ses) \in Nat /\ run \in [Talkers -> RunningReply]
  BY RequestTypes DEF ConversationsInv, RepliesInv, ConversationsTypeOK
<1>3. w \in Talkers /\ [r |-> r, s |-> s] \in RunningReply
  BY <1>2 DEF ReplyRequest, RunningReply
<1>4. run' \in [Talkers -> RunningReply] /\ run'[w] = [r |-> r, s |-> s] /\ \A x \in Talkers : x # w => run'[x] = run[x]
  BY <1>2, <1>3
<1>5. \A k \in DOMAIN req : req'[k].w = req[k].w
  BY DEF Follow
<1>u. w = req[r].w
  OBVIOUS
<1> HIDE DEF w
<1>6. ConversationsTypeOK'
  BY <1>1, <1>4 DEF ConversationsTypeOK, ConversationsInv, RepliesInv
<1>7. Linked'
  <2> SUFFICES ASSUME NEW x \in Talkers, run'[x] # NoRun
               PROVE  /\ run'[x].r \in DOMAIN req' /\ req'[run'[x].r].w = x
                      /\ run'[x].s \in DOMAIN ses' /\ ses'[run'[x].s].w = x
    BY DEF Linked
  <2>1. CASE x = w
    BY <1>1, <1>4, <1>5, <1>u, <2>1
  <2>2. CASE x # w
    BY <1>1, <1>4, <1>5, <2>2 DEF Linked, ConversationsInv, RepliesInv
  <2> QED
    BY <2>1, <2>2
<1>8. WorkerFenced'
  <2> SUFFICES ASSUME NEW k \in DOMAIN req, req'[k].att = "open", run'[req'[k].w] # NoRun
               PROVE  run'[req'[k].w].r = k
    BY <1>1 DEF WorkerFenced
  <2>1. req[k].att = "open" /\ req'[k].w = req[k].w
    BY <1>5
  <2>2. req[k].w # w
    BY <1>u, <2>1 DEF Unresolved
  <2>3. req[k].w \in Talkers
    BY <1>2 DEF ReplyRequest
  <2> QED
    BY <1>4, <2>1, <2>2, <2>3 DEF WorkerFenced, ConversationsInv
<1>9. Contexts(ses', run')
  <2>0. Contexts(ses, run)
    BY ContextsMean DEF ConversationsInv
  <2>1. \A k \in DOMAIN ses : ses[k].w = w => ses[k].st \notin {"creating", "prepared"}
    <3> SUFFICES ASSUME NEW k \in DOMAIN ses, ses[k].w = w, ses[k].st \in {"creating", "prepared"} PROVE FALSE
      OBVIOUS
    <3>1. run[w].s = k /\ k # 0
      BY <1>2, <2>0 DEF Contexts
    <3> QED
      BY <1>u, <3>1 DEF NoRun
  <2>2. \A k \in DOMAIN ses : ses[k].w \in Talkers
    BY SesRow DEF ConversationSession
  <2>3. ASSUME NEW a \in DOMAIN ses', NEW b \in DOMAIN ses', a # b, ses'[a].w = ses'[b].w, ses'[a].c = ses'[b].c
        PROVE  ses'[a].st # "active" \/ ses'[b].st # "active"
    BY <2>0, <2>3 DEF Contexts
  <2>4. ASSUME NEW a \in DOMAIN ses', ses'[a].st \in {"creating", "prepared"}
        PROVE  run'[ses'[a].w].s = a
    <3>1. CASE a \in DOMAIN ses
      <4>1. ses[a].w # w
        BY <2>1, <2>4, <3>1
      <4> QED
        BY <1>4, <2>0, <2>2, <2>4, <3>1, <4>1 DEF Contexts
    <3>2. CASE a \notin DOMAIN ses
      BY <1>4, <1>u, <3>2
    <3> QED
      BY <3>1, <3>2
  <2> QED
    BY <2>3, <2>4 DEF Contexts
<1>10. OneGeneration'
  BY <1>9, ContextsMeanThen
<1>11. Placed'
  BY <1>1 DEF Follow, Placed, ConversationsInv, RepliesInv
<1> QED
  BY <1>1, <1>6, <1>7, <1>8, <1>10, <1>11, FollowAnswers DEF ConversationsInv, RepliesInv

LEMMA DispatchStep ==
  ASSUME ConversationsInv, Dispatch PROVE ConversationsInv' /\ AnsweredStep
<1>1. PICK skipped \in SUBSET Candidates, got \in Candidates \cup {0} :
        /\ skipped = {r \in Candidates : ~Good(r) /\ (got = 0 \/ r < got)}
        /\ IF got = 0 THEN \A r \in Candidates : ~Good(r)
           ELSE Good(got) /\ \A r \in Candidates : Good(r) => got <= r
        /\ LET blocked == BlockDelivery([r \in DOMAIN req |-> IF r \in skipped THEN [req[r] EXCEPT !.st = "blocked"]
                                                                              ELSE req[r]], skipped)
           IN IF got = 0 THEN req' = blocked /\ UNCHANGED <<ses, run>>
              ELSE /\ req' = [blocked EXCEPT ![got].st = "replying"]
                   /\ \/ \E s \in DOMAIN ses :
                            /\ Usable(s, got)
                            /\ run' = [run EXCEPT ![req[got].w] = [r |-> got, s |-> s]]
                            /\ UNCHANGED ses
                      \/ /\ ~\E s \in DOMAIN ses : Usable(s, got)
                         /\ Len(ses) < SessionBound
                         /\ ses' = Append(ses, [w |-> req[got].w, c |-> req[got].c, scope |-> conv[req[got].c].scope,
                                                seen |-> Seen(req[got].c), turns |-> 0, st |-> "creating",
                                                roll |-> FALSE, unres |-> FALSE])
                         /\ run' = [run EXCEPT ![req[got].w] = [r |-> got, s |-> Len(ses) + 1]]
        /\ UNCHANGED <<changes, able, conv>>
  BY DEF Dispatch
<1> DEFINE blocked == BlockDelivery([r \in DOMAIN req |-> IF r \in skipped THEN [req[r] EXCEPT !.st = "blocked"]
                                                                          ELSE req[r]], skipped)
<1>2. /\ Follow(blocked) /\ \A k \in DOMAIN req : blocked[k].att = req[k].att
      /\ \A k \in Candidates \ skipped : blocked[k].st = "queued"
  <2>1. Follow(blocked)
    BY DispatchRequests
  <2>2. \A k \in DOMAIN req : blocked[k].att = req[k].att
    BY DispatchRequests
  <2>3. \A k \in Candidates \ skipped : blocked[k].st = "queued"
    BY DispatchRequests
  <2> QED
    BY <2>1, <2>2, <2>3
<1>3. CASE got = 0
  <2>1. req' = blocked /\ UNCHANGED <<changes, able, conv, ses, run>>
    BY <1>1, <1>3
  <2> HIDE DEF blocked
  <2>2. Resumed(ses')
    BY <2>1, ResumedSame DEF ConversationsInv, RepliesInv
  <2> QED
    BY <1>2, <2>1, <2>2, GoOnResumed
<1>4. CASE got # 0
  <2>1. /\ req' = [blocked EXCEPT ![got].st = "replying"] /\ UNCHANGED <<changes, able, conv>>
        /\ got \in Candidates \ skipped /\ Good(got)
    BY <1>1, <1>4
  <2>2. \/ \E s \in DOMAIN ses : /\ Usable(s, got) /\ UNCHANGED ses
                                /\ run' = [run EXCEPT ![req[got].w] = [r |-> got, s |-> s]]
        \/ /\ ses' = Append(ses, [w |-> req[got].w, c |-> req[got].c, scope |-> conv[req[got].c].scope,
                                  seen |-> Seen(req[got].c), turns |-> 0, st |-> "creating",
                                  roll |-> FALSE, unres |-> FALSE])
           /\ run' = [run EXCEPT ![req[got].w] = [r |-> got, s |-> Len(ses) + 1]]
    BY <1>1, <1>4
  <2> HIDE DEF blocked
  <2>3. got \in DOMAIN req /\ run[req[got].w] = NoRun /\ ~Unresolved(req[got].w) /\ conv[req[got].c].state = "active"
    BY <2>1 DEF Candidates, Good
  <2>a. RepliesInv
    BY DEF ConversationsInv
  <2>b. blocked[got].st = "queued"
    BY <1>2, <2>1
  <2>4. Follow(req') /\ \A k \in DOMAIN req : req'[k].att = req[k].att
    <3>1. Follow([blocked EXCEPT ![got].st = "replying"])
      BY <1>2, <2>3, <2>a, <2>b, FollowReplying
    <3>2. \A k \in DOMAIN req : [blocked EXCEPT ![got].st = "replying"][k].att = blocked[k].att
      BY <1>2, <2>3, <2>a, <2>b, FollowReplying
    <3> QED
      BY <1>2, <2>1, <3>1, <3>2
  <2>5. /\ ses \in Seq(ConversationSession) /\ Len(ses) \in Nat /\ DOMAIN ses = 1..Len(ses)
    BY RequestTypes DEF ConversationsInv, RepliesInv, ConversationsTypeOK
  <2>6. ASSUME NEW s \in DOMAIN ses, Usable(s, got), UNCHANGED ses,
               run' = [run EXCEPT ![req[got].w] = [r |-> got, s |-> s]]
        PROVE  ConversationsInv' /\ AnsweredStep
    <3>1. s \in Nat /\ ses'[s].w = req[got].w /\ ses' \in Seq(ConversationSession)
      BY <2>5, <2>6 DEF Usable
    <3> QED
      BY <2>1, <2>3, <2>4, <2>6, <3>1, StartKeeps
  <2>7. ASSUME run' = [run EXCEPT ![req[got].w] = [r |-> got, s |-> Len(ses) + 1]],
               ses' = Append(ses, [w |-> req[got].w, c |-> req[got].c, scope |-> conv[req[got].c].scope,
                                  seen |-> Seen(req[got].c), turns |-> 0, st |-> "creating",
                                  roll |-> FALSE, unres |-> FALSE])
        PROVE  ConversationsInv' /\ AnsweredStep
    <3> DEFINE row == [w |-> req[got].w, c |-> req[got].c, scope |-> conv[req[got].c].scope,
                       seen |-> Seen(req[got].c), turns |-> 0, st |-> "creating", roll |-> FALSE, unres |-> FALSE]
    <3>1. req[got].w \in Talkers /\ req[got].c \in Nat
      BY <2>3, RequestTypes DEF ConversationsInv, RepliesInv, ReplyRequest
    <3>2. conv[req[got].c].scope \in Nat /\ Seen(req[got].c) \subseteq Talkers \cup {Human}
      <4>1. req[got].c \in DOMAIN conv /\ conv \in [DOMAIN conv -> Conversation]
        BY <2>3, RequestTypes DEF ConversationsInv, RepliesInv, Placed
      <4>2. conv[req[got].c] \in Conversation
        BY <4>1
      <4> QED
        BY <4>2 DEF Seen, Conversation
    <3>3. row \in ConversationSession /\ row.w = req[got].w /\ row.st = "creating"
      BY <3>1, <3>2 DEF ConversationSession
    <3> HIDE DEF row
    <3>4. /\ ses' \in Seq(ConversationSession) /\ DOMAIN ses' = 1..Len(ses) + 1
          /\ \A k \in DOMAIN ses : ses'[k] = ses[k]
          /\ ses'[Len(ses) + 1] = row
      BY <2>5, <2>7, <3>3, AppendProperties, LenProperties DEF row
    <3>5. \A k \in DOMAIN ses' \ DOMAIN ses : k = Len(ses) + 1
      BY <2>5, <3>4
    <3>6. Len(ses) + 1 \in Nat /\ Len(ses) + 1 \in DOMAIN ses' /\ DOMAIN ses \subseteq DOMAIN ses'
      BY <2>5, <3>4
    <3> QED
      BY <2>1, <2>3, <2>4, <2>7, <3>3, <3>4, <3>5, <3>6, StartKeeps
  <2> QED
    BY <2>2, <2>6, <2>7
<1> QED
  BY <1>3, <1>4

\* Executions end and their sessions with them, unless they go on in another turn.
LEMMA EndKeeps ==
  ASSUME ConversationsInv, UNCHANGED <<changes, able, conv>>, Follow(req'), Resumed(ses'),
         \A k \in DOMAIN req : req'[k].att = "open" => req[k].att = "open" \/ \E w \in Talkers : run'[w] = NoRun /\ req[k].w = w,
         run' \in [Talkers -> RunningReply],
         \A w \in Talkers : run'[w] # run[w] => run'[w] = NoRun,
         \A k \in DOMAIN ses : ses'[k].st \in {"creating", "prepared"} => run'[ses[k].w] = run[ses[k].w]
  PROVE  ConversationsInv' /\ AnsweredStep
<1>1. Reserved' /\ Answered' /\ req' \in Seq(ReplyRequest) /\ DOMAIN req' = DOMAIN req
  BY FollowKeeps DEF ConversationsInv
<1>2. ses' \in Seq(ConversationSession) /\ DOMAIN ses' = DOMAIN ses
  BY FunctionAsSequence DEF ConversationsInv, RepliesInv, ConversationsTypeOK, Resumed
<1>3. ConversationsTypeOK'
  BY <1>1, <1>2 DEF ConversationsTypeOK, ConversationsInv, RepliesInv
<1>4. \A k \in DOMAIN req : req'[k].w = req[k].w /\ req[k].w \in Talkers
  BY RequestTypes DEF Follow, ConversationsInv, RepliesInv, ReplyRequest
<1>5. Linked'
  BY <1>1, <1>2, <1>4 DEF Linked, ConversationsInv, RepliesInv, Resumed
<1>6. WorkerFenced'
  BY <1>1, <1>4 DEF WorkerFenced, ConversationsInv
<1>7. Placed'
  BY <1>1 DEF Follow, Placed, ConversationsInv, RepliesInv
<1>8. Contexts(ses', run')
  <2>1. Contexts(ses, run)
    BY ContextsMean DEF ConversationsInv
  <2> QED
    BY <1>2, <2>1 DEF Contexts, Resumed
<1> QED
  BY <1>1, <1>3, <1>5, <1>6, <1>7, <1>8, ContextsMeanThen, FollowAnswers DEF ConversationsInv, RepliesInv

LEMMA FinishStep ==
  ASSUME ConversationsInv, NEW w \in Talkers, NEW status \in {"completed", "failed", "interrupted"},
         NEW settled \in BOOLEAN, NEW empty \in BOOLEAN, Finish(w, status, settled, empty)
  PROVE  ConversationsInv' /\ AnsweredStep
<1> DEFINE r == run[w].r
           s == run[w].s
           ok == Verified(w)
           commit == ok /\ status = "completed" /\ ~req[r].resp /\ ~empty
           final == IF ~ok \/ (status = "completed" /\ ~req[r].resp /\ empty) THEN "failed" ELSE status
           row == [req[r] EXCEPT !.att = IF settled THEN "settled" ELSE @]
           closed == [req EXCEPT ![r] = row]
           undone == CASE final = "interrupted" -> "interrupted"
                       [] final # "interrupted" /\ settled -> "failed"
                       [] OTHER -> "blocked"
           gone == [row EXCEPT !.st = undone]
           mark == [ses[s] EXCEPT !.unres = @ /\ ~settled,
                                  !.turns = IF ses[s].st = "active" THEN @ + 1 ELSE @,
                                  !.st = IF @ \in {"creating", "prepared"} THEN "blocked" ELSE @]
<1>1. run[w] # NoRun /\ UNCHANGED <<changes, able, conv>> /\ run' = [run EXCEPT ![w] = NoRun]
  BY DEF Finish
<1>2. /\ r \in DOMAIN req /\ req[r] \in ReplyRequest /\ req[r].w = w
      /\ s \in DOMAIN ses /\ ses[s] \in ConversationSession /\ ses[s].w = w
  BY <1>1, OwnRows
<1>3. /\ req \in [DOMAIN req -> ReplyRequest] /\ ses \in [DOMAIN ses -> ConversationSession]
      /\ run \in [Talkers -> RunningReply] /\ RepliesInv
  BY RequestTypes DEF ConversationsInv, RepliesInv, ConversationsTypeOK
<1>4. ses' = [ses EXCEPT ![s] = mark]
  BY <1>2, <1>3 DEF Finish
<1>5. req' = CASE commit -> CommitReply(closed, r)
               [] ~commit /\ req[r].resp -> closed
               [] OTHER -> BlockDelivery([closed EXCEPT ![r].st = undone], {r})
  <2>1. [req EXCEPT ![r].att = IF settled THEN "settled" ELSE @] = closed
    BY <1>3
  <2> QED
    BY <2>1 DEF Finish
<1>6. /\ mark \in ConversationSession /\ mark.w = ses[s].w /\ mark.c = ses[s].c
      /\ IF ses[s].st \in {"creating", "prepared"} THEN mark.st = "blocked" ELSE mark.st = ses[s].st
  <2>1. ses[s].turns + 1 \in Nat /\ ses[s].turns \in Nat /\ ses[s].unres \in BOOLEAN /\ ses[s].st \in {"creating", "prepared", "active", "superseded", "blocked"}
    BY <1>2 DEF ConversationSession
  <2> QED
    BY <1>2, <2>1 DEF ConversationSession
<1>7. undone \in Dead
  BY DEF Dead
<1>8. /\ row \in ReplyRequest /\ row.w = req[r].w /\ row.c = req[r].c /\ row.kind = req[r].kind
      /\ row.parent = req[r].parent /\ row.resp = req[r].resp /\ row.st = req[r].st
      /\ row.att = "open" => req[r].att = "open"
  <2> HIDE DEF r
  <2> QED
    BY <1>2 DEF ReplyRequest
<1>9. /\ gone \in ReplyRequest /\ gone.w = req[r].w /\ gone.c = req[r].c /\ gone.kind = req[r].kind
      /\ gone.parent = req[r].parent /\ gone.resp = req[r].resp /\ gone.st \in Dead /\ gone.att = row.att
  <2> HIDE DEF undone, row, r
  <2> QED
    BY <1>7, <1>8 DEF ReplyRequest
<1>10. [closed EXCEPT ![r].st = undone] = [req EXCEPT ![r] = gone]
  <2> HIDE DEF undone, row, r
  <2> QED
    BY <1>2, <1>3
<1> HIDE DEF r, s, commit, undone, row, gone, mark
<1>11. /\ Follow(req')
       /\ \A k \in DOMAIN req : req'[k].att = "open" => req[k].att = "open"
  <2>1. Ended(closed, {})
    BY <1>2, <1>3, <1>8, EndOne
  <2>2. \A k \in DOMAIN req : closed[k].att = "open" => req[k].att = "open"
    BY <1>2, <1>3, <1>8
  <2> HIDE DEF closed
  <2>3. CASE commit
    <3>1. req' = CommitReply(closed, r)
      BY <1>5, <2>3
    <3>2. Follow(CommitReply(closed, r))
      BY <1>3, <2>1, FollowCommitted
    <3>3. \A k \in DOMAIN req : CommitReply(closed, r)[k].att = closed[k].att
      BY <1>3, <2>1, FollowCommitted
    <3> QED
      BY <2>2, <3>1, <3>2, <3>3
  <2>4. CASE ~commit /\ req[r].resp
    <3>1. req' = closed
      BY <1>5, <2>4
    <3> QED
      BY <1>3, <2>1, <2>2, <3>1, FollowEnded
  <2>5. CASE ~commit /\ ~req[r].resp
    <3> DEFINE rs == [req EXCEPT ![r] = gone]
    <3>1. req' = BlockDelivery(rs, {r})
      BY <1>5, <1>10, <2>5
    <3>2. Ended(rs, {r})
      BY <1>2, <1>3, <1>9, <2>5, EndOne
    <3>3. \A k \in DOMAIN req : rs[k].att = "open" => req[k].att = "open"
      BY <1>2, <1>3, <1>8, <1>9
    <3> HIDE DEF rs
    <3>4. Follow(BlockDelivery(rs, {r}))
      BY <1>3, <3>2, FollowBlocked
    <3>5. \A k \in DOMAIN req : BlockDelivery(rs, {r})[k].att = rs[k].att
      BY <1>3, <3>2, FollowBlocked
    <3> QED
      BY <3>1, <3>3, <3>4, <3>5
  <2> QED
    BY <2>3, <2>4, <2>5
<1>12. Resumed(ses')
  BY <1>2, <1>4, <1>6, ResumeOne
<1>13. /\ run' \in [Talkers -> RunningReply]
       /\ \A x \in Talkers : run'[x] # run[x] => run'[x] = NoRun
       /\ \A x \in Talkers : x # w => run'[x] = run[x]
  BY <1>1, <1>3 DEF RunningReply, NoRun
<1>14. \A k \in DOMAIN ses : ses'[k].st \in {"creating", "prepared"} => run'[ses[k].w] = run[ses[k].w]
  <2> SUFFICES ASSUME NEW k \in DOMAIN ses, ses'[k].st \in {"creating", "prepared"}, ses[k].w = w
               PROVE  FALSE
    BY <1>3, <1>13 DEF ConversationSession
  <2>1. k # s
    BY <1>2, <1>3, <1>4, <1>6
  <2>2. ses[k].st \in {"creating", "prepared"}
    BY <1>3, <1>4, <2>1
  <2> QED
    BY <2>1, <2>2, ContextsMean DEF Contexts, ConversationsInv, s
<1> QED
  BY <1>1, <1>11, <1>12, <1>13, <1>14, EndKeeps

LEMMA CrashStep ==
  ASSUME ConversationsInv, CrashAndRecover PROVE ConversationsInv' /\ AnsweredStep
<1> DEFINE going == {w \in Talkers : run[w] # NoRun}
<1>1. PICK torn \in SUBSET going :
        req' = Recovered([r \in DOMAIN req |-> IF \E w \in torn : run[w].r = r THEN [req[r] EXCEPT !.att = "open"]
                                                                              ELSE req[r]],
                         {run[w].r : w \in going})
  BY DEF CrashAndRecover
<1>2. /\ ses' = [s \in DOMAIN ses |->
                 IF (\E w \in going : run[w].s = s) /\ (ses[s].st \in {"creating", "prepared"} \/ ses[s].unres)
                 THEN [ses[s] EXCEPT !.st = "blocked"] ELSE ses[s]]
      /\ run' = [w \in Talkers |-> NoRun]
      /\ UNCHANGED <<changes, able, conv>>
  BY DEF CrashAndRecover
<1>3. /\ req \in [DOMAIN req -> ReplyRequest] /\ ses \in [DOMAIN ses -> ConversationSession]
      /\ run \in [Talkers -> RunningReply] /\ RepliesInv /\ DOMAIN ses = 1..Len(ses) /\ Len(ses) \in Nat
  BY RequestTypes DEF ConversationsInv, RepliesInv, ConversationsTypeOK
<1> DEFINE R == {run[w].r : w \in going}
           rs == [r \in DOMAIN req |-> IF \E w \in torn : run[w].r = r THEN [req[r] EXCEPT !.att = "open"] ELSE req[r]]
           lost == {r \in R : ~rs[r].resp}
           ts == [r \in DOMAIN rs |-> IF r \in lost THEN [rs[r] EXCEPT !.st = "blocked"] ELSE rs[r]]
<1>4. req' = BlockDelivery(ts, lost)
  BY <1>1 DEF Recovered
<1>5. R \subseteq DOMAIN req
  BY <1>3 DEF RepliesInv, Linked
<1>6. ASSUME NEW k \in DOMAIN req
      PROVE  /\ rs[k] \in ReplyRequest /\ rs[k].w = req[k].w /\ rs[k].c = req[k].c /\ rs[k].kind = req[k].kind
             /\ rs[k].parent = req[k].parent /\ rs[k].resp = req[k].resp /\ rs[k].st = req[k].st
  <2>1. req[k] \in ReplyRequest
    BY <1>3
  <2>2. rs[k] = [req[k] EXCEPT !.att = "open"] \/ rs[k] = req[k]
    OBVIOUS
  <2> HIDE DEF rs
  <2> QED
    BY <2>1, <2>2 DEF ReplyRequest
<1>7. DOMAIN rs = DOMAIN req
  OBVIOUS
<1> HIDE DEF rs
<1>8. ASSUME NEW k \in DOMAIN req
      PROVE  /\ ts[k] \in ReplyRequest /\ ts[k].w = req[k].w /\ ts[k].c = req[k].c /\ ts[k].kind = req[k].kind
             /\ ts[k].parent = req[k].parent /\ ts[k].resp = req[k].resp
             /\ k \in lost => ts[k].st = "blocked"
             /\ k \notin lost => ts[k].st = req[k].st
  <2>1. CASE k \in lost
    <3>1. ts[k] = [rs[k] EXCEPT !.st = "blocked"]
      BY <1>7, <2>1
    <3> HIDE DEF ts, lost
    <3> QED
      BY <1>6, <2>1, <3>1 DEF ReplyRequest, Dead
  <2>2. CASE k \notin lost
    <3>1. ts[k] = rs[k]
      BY <1>7, <2>2
    <3> HIDE DEF ts, lost
    <3> QED
      BY <1>6, <2>2, <3>1
  <2> QED
    BY <2>1, <2>2
<1>9. ts = [k \in DOMAIN req |-> ts[k]]
  BY <1>7
<1>10. \A k \in lost : k \in DOMAIN req /\ ~req[k].resp
  BY <1>5, <1>6
<1> HIDE DEF ts, lost
<1>11. ts \in [DOMAIN req -> ReplyRequest]
  BY <1>8, <1>9
<1>12. Ended(ts, lost)
  BY <1>3, <1>8, <1>10, <1>11 DEF Ended, Answerable, RepliesInv, Answered
<1>13. Follow(req')
  BY <1>3, <1>4, <1>12, FollowBlocked
<1>14. ASSUME NEW k \in DOMAIN ses
       PROVE  /\ ses'[k] \in ConversationSession /\ ses'[k].w = ses[k].w /\ ses'[k].c = ses[k].c
              /\ ses'[k].st # "blocked" => ses'[k].st = ses[k].st
              /\ ses'[k].st \notin {"creating", "prepared"}
  <2>1. ses[k] \in ConversationSession
    BY <1>3
  <2>2. CASE (\E w \in going : run[w].s = k) /\ (ses[k].st \in {"creating", "prepared"} \/ ses[k].unres)
    <3>1. ses'[k] = [ses[k] EXCEPT !.st = "blocked"]
      BY <1>2, <2>2
    <3> QED
      BY <2>1, <3>1 DEF ConversationSession
  <2>3. CASE ~((\E w \in going : run[w].s = k) /\ (ses[k].st \in {"creating", "prepared"} \/ ses[k].unres))
    <3>1. ses'[k] = ses[k]
      BY <1>2, <2>3
    <3>2. ASSUME ses[k].st \in {"creating", "prepared"} PROVE FALSE
      <4>1. run[ses[k].w].s = k /\ k # 0
        BY <1>3, <3>2, ContextsMean DEF Contexts, ConversationsInv
      <4>2. ses[k].w \in going
        BY <2>1, <4>1 DEF NoRun, ConversationSession
      <4> QED
        BY <2>3, <3>2, <4>1, <4>2
    <3> QED
      BY <2>1, <3>1, <3>2
  <2> QED
    BY <2>2, <2>3
<1>15. Resumed(ses')
  <2>1. ses' = [k \in DOMAIN ses |-> ses'[k]]
    BY <1>2
  <2>2. ses' \in [DOMAIN ses -> ConversationSession]
    BY <1>14, <2>1
  <2> QED
    BY <1>14, <2>2 DEF Resumed
<1>16. /\ run' \in [Talkers -> RunningReply]
       /\ \A x \in Talkers : run'[x] = NoRun
  BY <1>2 DEF RunningReply, NoRun
<1>17. \A k \in DOMAIN req : req[k].w \in Talkers
  BY <1>3 DEF ReplyRequest
<1> QED
  BY <1>2, <1>13, <1>14, <1>15, <1>16, <1>17, EndKeeps

LEMMA ConversationsStart == ConversationsInit => ConversationsInv
<1> SUFFICES ASSUME ConversationsInit PROVE ConversationsInv OBVIOUS
<1>1. conv = <<>> /\ req = <<>> /\ ses = <<>> /\ changes = 0 /\ able = Talkers /\ run = [w \in Talkers |-> NoRun]
  BY DEF ConversationsInit
<1>2. DOMAIN req = {} /\ DOMAIN ses = {}
  BY <1>1
<1>3. ConversationsTypeOK
  BY <1>1, ConversationsAssumption DEF ConversationsTypeOK, RunningReply, NoRun
<1>4. Linked
  BY <1>1 DEF Linked
<1> QED
  BY <1>2, <1>3, <1>4 DEF ConversationsInv, RepliesInv, Placed, Reserved, Answered, WorkerFenced, OneGeneration

LEMMA ConversationsStep == ConversationsInv /\ [ConversationsNext]_convVars => ConversationsInv' /\ AnsweredStep
<1> SUFFICES ASSUME ConversationsInv, [ConversationsNext]_convVars PROVE ConversationsInv' /\ AnsweredStep OBVIOUS
<1>0. ASSUME UNCHANGED convVars PROVE ConversationsInv' /\ AnsweredStep
  <2>1. Follow(req') /\ Resumed(ses')
    BY <1>0, FollowSame, ResumedSame DEF ConversationsInv, RepliesInv, convVars
  <2> QED
    BY <1>0, <2>1, GoOnResumed DEF convVars
<1>1. ASSUME NEW w \in Talkers, Open(w) PROVE ConversationsInv' /\ AnsweredStep
  BY <1>1, OpenStep
<1>2. ASSUME NEW w \in Talkers, Disable(w) PROVE ConversationsInv' /\ AnsweredStep
  BY <1>2, DisableStep
<1>3. ASSUME NEW c \in DOMAIN conv, Send(c) PROVE ConversationsInv' /\ AnsweredStep
  BY <1>3, SendStep
<1>4. ASSUME NEW c \in DOMAIN conv, NEW p \in conv[c].who, Participation(c, p) PROVE ConversationsInv' /\ AnsweredStep
  BY <1>4, ParticipationStep
<1>5. ASSUME NEW c \in DOMAIN conv, NEW state \in {"active", "muted"}, Control(c, state) PROVE ConversationsInv' /\ AnsweredStep
  BY <1>5, ControlStep
<1>6. ASSUME NEW r \in DOMAIN req, Cancel(r) PROVE ConversationsInv' /\ AnsweredStep
  BY <1>6, CancelStep
<1>7. ASSUME NEW s \in DOMAIN ses, RequestRollover(s) PROVE ConversationsInv' /\ AnsweredStep
  BY <1>7, RollStep DEF RequestRollover
<1>8. ASSUME Dispatch PROVE ConversationsInv' /\ AnsweredStep
  BY <1>8, DispatchStep
<1>9. ASSUME NEW w \in Talkers, PrepareBinding(w) PROVE ConversationsInv' /\ AnsweredStep
  BY <1>9, PrepareBindingStep
<1>10. ASSUME NEW w \in Talkers, ActivateBinding(w) PROVE ConversationsInv' /\ AnsweredStep
  BY <1>10, ActivateBindingStep
<1>11. ASSUME NEW w \in Talkers, TurnStarting(w) PROVE ConversationsInv' /\ AnsweredStep
  BY <1>11, TurnStartingStep
<1>12. ASSUME NEW w \in Talkers, UsageHigh(w) PROVE ConversationsInv' /\ AnsweredStep
  BY <1>12, RollStep, OwnRows DEF UsageHigh, Verified
<1>13. ASSUME NEW w \in Talkers, SubmitReply(w) PROVE ConversationsInv' /\ AnsweredStep
  BY <1>13, SubmitReplyStep
<1>14. ASSUME NEW w \in Talkers, NEW peer \in Talkers, AskPeer(w, peer) PROVE ConversationsInv' /\ AnsweredStep
  BY <1>14, AskPeerStep
<1>15. ASSUME NEW w \in Talkers, NEW status \in {"completed", "failed", "interrupted"}, NEW settled \in BOOLEAN,
              NEW empty \in BOOLEAN, Finish(w, status, settled, empty)
       PROVE  ConversationsInv' /\ AnsweredStep
  BY <1>15, FinishStep
<1>16. ASSUME CrashAndRecover PROVE ConversationsInv' /\ AnsweredStep
  BY <1>16, CrashStep
<1> QED
  BY <1>0, <1>1, <1>2, <1>3, <1>4, <1>5, <1>6, <1>7, <1>8, <1>9, <1>10, <1>11, <1>12, <1>13, <1>14, <1>15, <1>16
  DEF ConversationsNext

-----------------------------------------------------------------------------
(* Working groups.                                                         *)

\* What each member is running is a turn of its own, and a turn that is being
\* replied to is run by its member.
Spoken ==
    /\ \A w \in Circle : drun[w] # 0 => drun[w] \in DOMAIN dturn /\ dturn[drun[w]].w = w
    /\ \A t \in DOMAIN dturn : dturn[t].st = "replying" => drun[dturn[t].w] = t
    /\ \A t \in DOMAIN dturn : dturn[t].st \in {"queued", "replying"} => dturn[t].out = NoOutput

\* The turns kept are those of the current batch: none before the start and after
\* the end, and some while the group may go on.
OneBatch ==
    /\ \A t \in DOMAIN dturn : ~dturn[t].adv
    /\ group.state = "none" => group.rev = 0
    /\ group.state = "draft" => Facilitator \in group.on
    /\ group.state \in {"none", "draft", "completed"} => dturn = <<>>
    /\ group.state \in {"active", "paused"} \/ (group.state = "blocked" /\ ~group.barred) => dturn # <<>>

\* The final synthesis is a batch of its own; once given, it has read everything said.
LastWord ==
    /\ group.said <= group.rev /\ group.final <= group.rev
    /\ \A t \in DOMAIN dturn : dturn[t].kind = "finalize" =>
          DOMAIN dturn = {t} /\ (dturn[t].st = "completed" => group.final >= group.said)

GroupInv == GroupTypeOK /\ Spoken /\ OneBatch /\ LastWord /\ FinalSynthesis

\* The kinds of turn.
Kinds == {"organize", "opening", "facilitate", "response", "synthesis", "review", "finalize"}

LEMMA OrderedMembers ==
  ASSUME NEW W \in SUBSET Circle
  PROVE  /\ Cardinality(W) \in Nat /\ (W # {} => Cardinality(W) # 0)
         /\ Ordered(W) \in [1..Cardinality(W) -> W]
<1>1. IsFiniteSet(W)
  BY DiscussionsAssumption, FS_Subset
<1>2. Cardinality(W) \in Nat /\ (W # {} => Cardinality(W) # 0)
  BY <1>1, FS_CardinalityType, FS_EmptySet
<1>3. PICK f \in [1..Cardinality(W) -> W] : \A i, j \in DOMAIN f : f[i] = f[j] => i = j
  <2>1. ExistsBijection(1..Cardinality(W), W)
    BY <1>1, FS_NatBijection, FS_CardinalityType, <1>2
  <2> QED
    BY <2>1 DEF ExistsBijection, Bijection, Injection, IsInjective
<1>4. Ordered(W) \in [1..Cardinality(W) -> W]
  BY <1>3 DEF Ordered
<1> QED
  BY <1>2, <1>4

\* The first batch of turns after all others are over keeps the group's invariant.
LEMMA ScheduledKept ==
  ASSUME GroupTypeOK, Running = {}, acted' \in 0..InterventionBound,
         NEW g \in WorkingGroup, g.state = "active", g.said <= g.rev, g.final <= g.rev,
         NEW W, W # {}, NEW kind \in Kinds, kind = "finalize" => \E w : W = {w},
         Schedule(g, <<>>, W, kind)
  PROVE  GroupInv'
<1> DEFINE n == Cardinality(W)
           o == Ordered(W)
<1>1. W \in SUBSET Circle
  BY DEF Schedule, Fits, WorkingGroup
<1>2. n \in Nat /\ n # 0 /\ o \in [1..n -> W]
  BY <1>1, OrderedMembers
<1> HIDE DEF n, o
<1>3. dturn' = [k \in 1..n |-> NewTurn(o[k], kind, g.scope)]
  <2>1. dturn' = <<>> \o [k \in 1..n |-> NewTurn(o[k], kind, g.scope)]
    BY DEF Schedule, Queue, n, o
  <2>2. [k \in 1..n |-> NewTurn(o[k], kind, g.scope)] \in Seq({NewTurn(o[k], kind, g.scope) : k \in 1..n})
    BY <1>2, IsASeq
  <2> QED
    BY <2>1, <2>2, ConcatEmptySeq
<1>4. dturn' \in Seq(DiscussionTurn) /\ DOMAIN dturn' = 1..n /\ dturn' # <<>>
  <2>1. \A k \in 1..n : NewTurn(o[k], kind, g.scope) \in DiscussionTurn
    BY <1>1, <1>2, DiscussionsAssumption DEF NewTurn, DiscussionTurn, NoOutput, Output, Kinds, WorkingGroup
  <2>2. dturn' \in Seq(DiscussionTurn)
    BY <1>2, <1>3, <2>1, IsASeq
  <2> QED
    BY <1>2, <1>3, <2>2
<1>5. \A t \in DOMAIN dturn' : ~dturn'[t].adv /\ dturn'[t].st = "queued" /\ dturn'[t].kind = kind /\ dturn'[t].out = NoOutput
  BY <1>3, <1>4 DEF NewTurn
<1>6. kind = "finalize" => n = 1
  <2>1. ASSUME NEW w, W = {w} PROVE n = 1
    BY <2>1, FS_Singleton DEF n
  <2> QED
    BY <2>1
<1>7. group' = Charged(g, W, kind) /\ drun' = drun /\ dunres' = dunres
  BY DEF Schedule
<1>8. group' \in WorkingGroup
  <2> DEFINE u == g.used + n
             v == g.synths + (IF Synth(kind) THEN 1 ELSE 0)
  <2>1. u \in Nat /\ v \in Nat
    BY SMTT(30), <1>2 DEF WorkingGroup
  <2>2. group' = [g EXCEPT !.used = u, !.synths = v]
    BY <1>7 DEF Charged, n
  <2> HIDE DEF u, v
  <2> QED
    BY <2>1, <2>2 DEF WorkingGroup
<1>9. group'.state = "active" /\ group'.said = g.said /\ group'.final = g.final /\ group'.rev = g.rev
  BY <1>7 DEF Charged, WorkingGroup
<1>10. \A w \in Circle : drun'[w] = 0
  BY <1>7 DEF Running
<1>11. GroupTypeOK'
  BY <1>4, <1>7, <1>8 DEF GroupTypeOK
<1>12. Spoken'
  BY <1>5, <1>10 DEF Spoken
<1>13. OneBatch'
  BY <1>4, <1>5, <1>9 DEF OneBatch
<1>14. LastWord'
  <2>1. ASSUME NEW t \in DOMAIN dturn', dturn'[t].kind = "finalize" PROVE DOMAIN dturn' = {t}
    BY <1>4, <1>5, <1>6, <2>1
  <2> QED
    BY <1>5, <1>9, <2>1 DEF LastWord
<1> QED
  BY <1>9, <1>11, <1>12, <1>13, <1>14 DEF GroupInv, FinalSynthesis

\* Turns that change in place stay the same turns.
LEMMA TurnsInPlace ==
  ASSUME GroupTypeOK, NEW f \in [DOMAIN dturn -> DiscussionTurn]
  PROVE  f \in Seq(DiscussionTurn) /\ DOMAIN f = DOMAIN dturn /\ (f = <<>> <=> dturn = <<>>)
<1>1. dturn \in Seq(DiscussionTurn)
  BY DEF GroupTypeOK
<1>2. f \in Seq(DiscussionTurn) /\ DOMAIN f = DOMAIN dturn
  <2>1. Len(dturn) \in Nat /\ DOMAIN dturn = 1..Len(dturn)
    BY <1>1, SequenceAsFunction
  <2> QED
    BY <2>1, IsASeq
<1>3. f = <<>> <=> DOMAIN f = {}
  BY <1>2
<1>4. dturn = <<>> <=> DOMAIN dturn = {}
  BY <1>1
<1> QED
  BY <1>2, <1>3, <1>4

LEMMA TurnRow ==
  ASSUME GroupTypeOK, NEW t \in DOMAIN dturn
  PROVE  dturn[t] \in DiscussionTurn /\ dturn[t].w \in Circle /\ t \in Nat /\ t # 0
<1>1. dturn \in Seq(DiscussionTurn)
  BY DEF GroupTypeOK
<1>2. Len(dturn) \in Nat /\ DOMAIN dturn = 1..Len(dturn) /\ dturn[t] \in DiscussionTurn
  BY <1>1, SequenceAsFunction
<1> QED
  BY <1>2 DEF DiscussionTurn

LEMMA CancelQueuedTurns ==
  ASSUME GroupTypeOK
  PROVE  /\ CancelQueued(dturn) \in [DOMAIN dturn -> DiscussionTurn]
         /\ \A t \in DOMAIN dturn :
               /\ CancelQueued(dturn)[t].w = dturn[t].w /\ CancelQueued(dturn)[t].kind = dturn[t].kind
               /\ CancelQueued(dturn)[t].adv = dturn[t].adv /\ CancelQueued(dturn)[t].out = dturn[t].out
               /\ CancelQueued(dturn)[t].st = IF dturn[t].st = "queued" THEN "cancelled" ELSE dturn[t].st
<1>1. ASSUME NEW t \in DOMAIN dturn
      PROVE  /\ CancelQueued(dturn)[t] \in DiscussionTurn
             /\ CancelQueued(dturn)[t].w = dturn[t].w /\ CancelQueued(dturn)[t].kind = dturn[t].kind
             /\ CancelQueued(dturn)[t].adv = dturn[t].adv /\ CancelQueued(dturn)[t].out = dturn[t].out
             /\ CancelQueued(dturn)[t].st = IF dturn[t].st = "queued" THEN "cancelled" ELSE dturn[t].st
  BY <1>1, TurnRow DEF CancelQueued, DiscussionTurn
<1> QED
  BY <1>1 DEF CancelQueued

\* Once no turn is queued or being replied to, the batch is forgotten.
LEMMA BatchForgotten ==
  ASSUME GroupInv, Running = {}
  PROVE  /\ AdvanceAll(CancelQueued(dturn)) = <<>>
         /\ (\A t \in Batch : dturn[t].st = "completed") => AdvanceAll(dturn) = <<>>
<1> USE DEF GroupInv
<1>1. \A t \in DOMAIN dturn : dturn[t].st # "replying"
  BY TurnRow DEF Spoken, Running
<1>2. AdvanceAll(CancelQueued(dturn)) = <<>>
  <2>1. \A t \in DOMAIN CancelQueued(dturn) : CancelQueued(dturn)[t].st \notin {"queued", "replying"}
    BY <1>1, CancelQueuedTurns
  <2> QED
    BY <2>1 DEF AdvanceAll
<1>3. ASSUME \A t \in Batch : dturn[t].st = "completed" PROVE AdvanceAll(dturn) = <<>>
  <2>1. \A t \in DOMAIN dturn : dturn[t].st \notin {"queued", "replying"}
    BY <1>3 DEF Batch, OneBatch
  <2> QED
    BY <2>1 DEF AdvanceAll
<1> QED
  BY <1>2, <1>3

-----------------------------------------------------------------------------
(* The owner's controls.                                                   *)

LEMMA GroupStarts == DiscussionsInit => GroupInv
<1> SUFFICES ASSUME DiscussionsInit PROVE GroupInv
  OBVIOUS
<1>1. GroupTypeOK
  <2>1. group \in WorkingGroup
    BY DiscussionsAssumption DEF DiscussionsInit, WorkingGroup
  <2> QED
    BY <2>1, DiscussionsAssumption DEF DiscussionsInit, GroupTypeOK
<1>2. dturn = <<>> /\ DOMAIN dturn = {}
  BY DEF DiscussionsInit
<1> QED
  BY <1>1, <1>2 DEF DiscussionsInit, GroupInv, Spoken, OneBatch, LastWord, FinalSynthesis

\* A change of the row of the group alone.
LEMMA RowKept ==
  ASSUME GroupInv, group' \in WorkingGroup, acted' \in 0..InterventionBound, UNCHANGED <<dturn, drun, dunres>>,
         group'.said = group.said, group'.final = group.final, group'.rev >= group.rev,
         group'.state = "none" => group'.rev = 0, group'.state = "draft" => Facilitator \in group'.on,
         group'.state \in {"none", "draft", "completed"} => dturn = <<>>,
         group'.state = "completed" => group'.final >= group'.said,
         group'.state \in {"active", "paused"} \/ (group'.state = "blocked" /\ ~group'.barred) => dturn # <<>>
  PROVE  GroupInv'
<1> USE DEF GroupInv
<1>1. GroupTypeOK'
  BY DEF GroupTypeOK
<1>2. Spoken' /\ OneBatch'
  BY DEF Spoken, OneBatch
<1>3. LastWord'
  <2>1. group.rev \in Nat /\ group.said \in Nat /\ group.final \in Nat
    BY DEF GroupTypeOK, WorkingGroup
  <2>2. group'.rev \in Nat
    BY DEF WorkingGroup
  <2>3. group'.said <= group'.rev /\ group'.final <= group'.rev
    BY <2>1, <2>2 DEF LastWord
  <2>4. \A t \in DOMAIN dturn : dturn[t].kind = "finalize" =>
          DOMAIN dturn = {t} /\ (dturn[t].st = "completed" => group'.final >= group'.said)
    BY DEF LastWord
  <2> QED
    BY <2>3, <2>4 DEF LastWord
<1> QED
  BY <1>1, <1>2, <1>3 DEF FinalSynthesis

LEMMA CreateGroupKept ==
  ASSUME GroupInv, NEW atlas \in BOOLEAN, NEW incomplete \in BOOLEAN,
         NEW s \in Synthesizers \cup {Facilitator}, CreateGroup(atlas, incomplete, s)
  PROVE  GroupInv'
<1>1. s \in Circle /\ Facilitator \in Circle
  BY DiscussionsAssumption
<1>2. group \in WorkingGroup /\ group.state = "none" /\ group.rev = 0 /\ dturn = <<>> /\ acted \in 0..InterventionBound
  BY DEF GroupInv, GroupTypeOK, OneBatch, CreateGroup
<1> DEFINE on == IF atlas THEN {Facilitator} ELSE Circle
<1>3. on \in SUBSET Circle /\ Facilitator \in on
  BY <1>1
<1> HIDE DEF on
<1>4. group' = [group EXCEPT !.state = "draft", !.on = on, !.atlas = atlas,
                              !.incomplete = incomplete, !.synthesizer = s, !.scope = 1, !.rev = 1,
                              !.limit = GroupTurns, !.rounds = GroupRounds]
  BY DEF CreateGroup, on
<1>5. GroupTurns \in Nat /\ GroupRounds \in Nat
  BY DiscussionsAssumption
<1> DEFINE g1 == [group EXCEPT !.state = "draft", !.on = on, !.atlas = atlas]
           g2 == [g1 EXCEPT !.incomplete = incomplete, !.synthesizer = s, !.scope = 1]
<1>6. group' \in WorkingGroup
  <2>1. g1 \in WorkingGroup
    BY <1>2, <1>3 DEF WorkingGroup
  <2> HIDE DEF g1
  <2>2. g2 \in WorkingGroup
    BY <1>1, <2>1 DEF WorkingGroup
  <2> HIDE DEF g2
  <2>3. [g2 EXCEPT !.rev = 1, !.limit = GroupTurns, !.rounds = GroupRounds] \in WorkingGroup
    BY <1>5, <2>2 DEF WorkingGroup
  <2>4. group' = [g2 EXCEPT !.rev = 1, !.limit = GroupTurns, !.rounds = GroupRounds]
    BY <1>4 DEF g1, g2
  <2> QED
    BY <2>3, <2>4
<1>7. group'.said = group.said /\ group'.final = group.final /\ group'.state = "draft" /\ group'.on = on /\ group'.rev = 1
  BY <1>2, <1>4 DEF WorkingGroup
<1>8. group'.rev >= group.rev /\ acted' = acted /\ UNCHANGED <<dturn, drun, dunres>>
  BY <1>2, <1>7 DEF CreateGroup
<1> QED
  BY <1>2, <1>3, <1>6, <1>7, <1>8, RowKept

\* The row stays one when columns change; the owner's interventions are bounded.
LEMMA RowChange ==
  ASSUME NEW g \in WorkingGroup, NEW n \in Nat, NEW m \in Nat, NEW b \in BOOLEAN
  PROVE  /\ [g EXCEPT !.rev = n] \in WorkingGroup
         /\ [g EXCEPT !.rev = n, !.said = m] \in WorkingGroup
         /\ [g EXCEPT !.rev = n, !.final = m] \in WorkingGroup
         /\ [g EXCEPT !.limit = n, !.rounds = m] \in WorkingGroup
         /\ [g EXCEPT !.ext = n, !.round = m] \in WorkingGroup
         /\ [g EXCEPT !.scope = n, !.barred = b] \in WorkingGroup
         /\ [g EXCEPT !.round = n] \in WorkingGroup
         /\ [g EXCEPT !.failed = b] \in WorkingGroup
<1>1. [g EXCEPT !.rev = n] \in WorkingGroup
  BY DEF WorkingGroup
<1>2. [g EXCEPT !.rev = n, !.said = m] \in WorkingGroup
  BY DEF WorkingGroup
<1>3. [g EXCEPT !.rev = n, !.final = m] \in WorkingGroup
  BY DEF WorkingGroup
<1>4. [g EXCEPT !.limit = n, !.rounds = m] \in WorkingGroup
  BY DEF WorkingGroup
<1>5. [g EXCEPT !.ext = n, !.round = m] \in WorkingGroup
  BY DEF WorkingGroup
<1>6. [g EXCEPT !.scope = n, !.barred = b] \in WorkingGroup
  BY DEF WorkingGroup
<1>7. [g EXCEPT !.round = n] \in WorkingGroup
  BY DEF WorkingGroup
<1>8. [g EXCEPT !.failed = b] \in WorkingGroup
  BY DEF WorkingGroup
<1> QED
  BY <1>1, <1>2, <1>3, <1>4, <1>5, <1>6, <1>7, <1>8

LEMMA GroupRow ==
  ASSUME GroupInv
  PROVE  /\ group \in WorkingGroup /\ GroupTypeOK
         /\ {group.rev, group.said, group.final, group.scope, group.limit, group.rounds, group.ext, group.round} \subseteq Nat
<1>1. group \in WorkingGroup /\ GroupTypeOK
  BY DEF GroupInv, GroupTypeOK
<1>2. {group.rev, group.said, group.final, group.scope, group.limit, group.rounds, group.ext, group.round} \subseteq Nat
  BY <1>1 DEF WorkingGroup
<1> QED
  BY <1>1, <1>2

LEMMA Intervened == ASSUME GroupInv, Intervention PROVE acted' \in 0..InterventionBound
<1>1. InterventionBound \in Nat /\ acted \in 0..InterventionBound
  BY DiscussionsAssumption DEF GroupInv, GroupTypeOK
<1> QED
  BY <1>1 DEF Intervention

LEMMA PauseGroupKept == ASSUME GroupInv, PauseGroup PROVE GroupInv'
<1>1. group' \in WorkingGroup /\ group'.said = group.said /\ group'.final = group.final
      /\ group'.rev = group.rev /\ group'.state = "paused" /\ dturn # <<>>
  BY DEF PauseGroup, GroupInv, GroupTypeOK, OneBatch, WorkingGroup
<1>2. group.rev \in Nat /\ acted' \in 0..InterventionBound
  BY GroupRow, Intervened DEF PauseGroup
<1> QED
  BY <1>1, <1>2, RowKept DEF PauseGroup

LEMMA ResumeGroupKept == ASSUME GroupInv, ResumeGroup PROVE GroupInv'
<1>1. group' \in WorkingGroup /\ group'.said = group.said /\ group'.final = group.final
      /\ group'.rev = group.rev /\ group'.state = "active" /\ dturn # <<>>
  BY DEF ResumeGroup, Settled, GroupInv, GroupTypeOK, OneBatch, WorkingGroup
<1>2. group.rev \in Nat /\ acted' \in 0..InterventionBound
  BY DEF ResumeGroup, GroupInv, GroupTypeOK, WorkingGroup
<1> QED
  BY <1>1, <1>2, RowKept DEF ResumeGroup

LEMMA InterjectKept == ASSUME GroupInv, Interject PROVE GroupInv'
<1>r. group' = [group EXCEPT !.rev = group.rev + 1] /\ group \in WorkingGroup /\ group.rev \in Nat
  BY GroupRow DEF Interject
<1>1. group' \in WorkingGroup /\ group'.said = group.said /\ group'.final = group.final /\ group.rev \in Nat
      /\ group'.rev = group.rev + 1 /\ group'.state = group.state /\ group'.on = group.on /\ group'.barred = group.barred
  <2>1. group.rev + 1 \in Nat
    BY <1>r
  <2>2. group' \in WorkingGroup
    BY <1>r, <2>1, RowChange
  <2> QED
    BY <1>r, <2>2 DEF WorkingGroup
<1>2. acted' \in 0..InterventionBound /\ group.state # "none"
  BY Intervened DEF Interject
<1>3. group.state = "completed" => group.final >= group.said
  BY DEF GroupInv, FinalSynthesis
<1> QED
  BY <1>1, <1>2, <1>3, RowKept DEF Interject, GroupInv, OneBatch

LEMMA ShareEvidenceKept == ASSUME GroupInv, NEW w \in Circle, ShareEvidence(w) PROVE GroupInv'
<1>r. group' = [group EXCEPT !.rev = group.rev + 1] /\ group \in WorkingGroup /\ group.rev \in Nat
  BY GroupRow DEF ShareEvidence
<1>1. group' \in WorkingGroup /\ group'.said = group.said /\ group'.final = group.final /\ group.rev \in Nat
      /\ group'.rev = group.rev + 1 /\ group'.state = group.state /\ group'.on = group.on /\ group'.barred = group.barred
  <2>1. group.rev + 1 \in Nat
    BY <1>r
  <2>2. group' \in WorkingGroup
    BY <1>r, <2>1, RowChange
  <2> QED
    BY <1>r, <2>2 DEF WorkingGroup
<1>2. acted' \in 0..InterventionBound /\ group.state # "none"
  <2>1. dturn # <<>>
    BY DEF ShareEvidence, Speaking, GroupInv, Spoken
  <2> QED
    BY <2>1, Intervened DEF ShareEvidence, GroupInv, OneBatch
<1>3. group.state = "completed" => group.final >= group.said
  BY DEF GroupInv, FinalSynthesis
<1> QED
  BY <1>1, <1>2, <1>3, RowKept DEF ShareEvidence, GroupInv, OneBatch

LEMMA WithdrawKept == ASSUME GroupInv, Withdraw PROVE GroupInv'
<1>1. group' \in WorkingGroup /\ group'.said = group.said /\ group'.final = group.final /\ group.rev \in Nat
      /\ group'.rev = group.rev /\ group'.state = "blocked" /\ group'.barred
  <2> DEFINE g == [group EXCEPT !.scope = group.scope + 1, !.barred = TRUE]
  <2>1. group \in WorkingGroup /\ group.rev \in Nat /\ group.scope + 1 \in Nat
    BY GroupRow
  <2>2. g \in WorkingGroup
    BY <2>1, RowChange
  <2>3. group' = [g EXCEPT !.state = "blocked"] /\ g.said = group.said /\ g.final = group.final /\ g.rev = group.rev /\ g.barred
    BY <2>1 DEF Withdraw, WorkingGroup
  <2> HIDE DEF g
  <2> QED
    BY <2>1, <2>2, <2>3 DEF WorkingGroup
<1>2. acted' \in 0..InterventionBound
  BY Intervened DEF Withdraw, GroupInv, GroupTypeOK
<1> QED
  BY <1>1, <1>2, RowKept DEF Withdraw

LEMMA DeadlinePassesKept == ASSUME GroupInv, DeadlinePasses PROVE GroupInv'
<1>1. group' \in WorkingGroup /\ group'.said = group.said /\ group'.final = group.final /\ group.rev \in Nat
      /\ group'.rev = group.rev /\ group'.state = group.state /\ group'.on = group.on /\ group'.barred = group.barred
  BY DEF DeadlinePasses, GroupInv, GroupTypeOK, WorkingGroup
<1>2. acted' \in 0..InterventionBound
  BY DEF DeadlinePasses, GroupInv, GroupTypeOK
<1>3. group.state = "completed" => group.final >= group.said
  BY DEF GroupInv, FinalSynthesis
<1> QED
  BY <1>1, <1>2, <1>3, RowKept DEF DeadlinePasses, GroupInv, OneBatch

\* The queued turns are cancelled and the group stops.
LEMMA CancelledKept ==
  ASSUME GroupInv, dturn' = CancelQueued(dturn), UNCHANGED <<drun, dunres>>, acted' \in 0..InterventionBound,
         NEW st \in {"stopped", "archived", "blocked"}, group' = [group EXCEPT !.state = st],
         st = "blocked" => group.state \in {"active", "paused"}
  PROVE  GroupInv'
<1> USE DEF GroupInv
<1>1. group' \in WorkingGroup /\ group'.said = group.said /\ group'.final = group.final
      /\ group'.rev = group.rev /\ group'.state = st
  BY DEF GroupTypeOK, WorkingGroup
<1>2. dturn' \in Seq(DiscussionTurn) /\ DOMAIN dturn' = DOMAIN dturn /\ (dturn' = <<>> <=> dturn = <<>>)
  BY CancelQueuedTurns, TurnsInPlace
<1>3. \A t \in DOMAIN dturn :
        /\ dturn'[t].w = dturn[t].w /\ dturn'[t].kind = dturn[t].kind /\ dturn'[t].adv = dturn[t].adv
        /\ dturn'[t].out = dturn[t].out
        /\ dturn'[t].st = IF dturn[t].st = "queued" THEN "cancelled" ELSE dturn[t].st
  BY CancelQueuedTurns
<1>4. GroupTypeOK'
  BY <1>1, <1>2 DEF GroupTypeOK
<1>5. Spoken'
  BY <1>2, <1>3 DEF Spoken
<1>6. OneBatch'
  BY <1>1, <1>2, <1>3 DEF OneBatch
<1>7. LastWord'
  <2>1. group.said <= group.rev /\ group.final <= group.rev
    BY DEF LastWord
  <2>2. \A t \in DOMAIN dturn : dturn[t].kind = "finalize" =>
          DOMAIN dturn = {t} /\ (dturn'[t].st = "completed" => group.final >= group.said)
    BY <1>3 DEF LastWord
  <2>3. group'.said <= group'.rev /\ group'.final <= group'.rev
    BY <1>1, <2>1
  <2>4. \A t \in DOMAIN dturn' : dturn'[t].kind = "finalize" =>
          DOMAIN dturn' = {t} /\ (dturn'[t].st = "completed" => group'.final >= group'.said)
    <3>1. ASSUME NEW t \in DOMAIN dturn', dturn'[t].kind = "finalize"
          PROVE  DOMAIN dturn' = {t} /\ (dturn'[t].st = "completed" => group.final >= group.said)
      BY <1>2, <1>3, <2>2, <3>1
    <3> QED
      BY <1>1, <3>1
  <2> QED
    BY <2>3, <2>4 DEF LastWord
<1> QED
  BY <1>1, <1>4, <1>5, <1>6, <1>7 DEF FinalSynthesis

LEMMA StopGroupKept == ASSUME GroupInv, StopGroup PROVE GroupInv'
<1>1. acted' \in 0..InterventionBound
  BY DiscussionsAssumption DEF StopGroup, Intervention, GroupInv, GroupTypeOK
<1> QED
  BY <1>1, CancelledKept DEF StopGroup

LEMMA ArchiveGroupKept == ASSUME GroupInv, ArchiveGroup PROVE GroupInv'
<1>1. acted' \in 0..InterventionBound
  BY DEF ArchiveGroup, GroupInv, GroupTypeOK
<1> QED
  BY <1>1, CancelledKept DEF ArchiveGroup

LEMMA ExpireKept == ASSUME GroupInv, Expire PROVE GroupInv'
<1>1. acted' \in 0..InterventionBound
  BY DEF Expire, Block, GroupInv, GroupTypeOK
<1> QED
  BY <1>1, CancelledKept DEF Expire, Block

\* Without a turn of the group nobody runs one.
LEMMA NobodyRuns == ASSUME GroupInv, dturn = <<>> PROVE Running = {}
<1>1. DOMAIN dturn = {}
  OBVIOUS
<1> QED
  BY <1>1 DEF GroupInv, Spoken, Running

LEMMA CreateForMandateKept == ASSUME GroupInv, NEW s \in Synthesizers, CreateForMandate(s) PROVE GroupInv'
<1> DEFINE g == [group EXCEPT !.state = "active", !.on = Circle, !.incomplete = TRUE, !.synthesizer = s,
                              !.scope = 1, !.rev = 1, !.limit = GroupTurns, !.rounds = GroupRounds, !.late = FALSE]
           g1 == [group EXCEPT !.state = "active", !.on = Circle, !.synthesizer = s]
           g2 == [g1 EXCEPT !.incomplete = TRUE, !.late = FALSE]
           g3 == [g2 EXCEPT !.scope = 1, !.rev = 1]
<1>1. s \in Circle /\ Circle # {} /\ GroupTurns \in Nat /\ GroupRounds \in Nat /\ "opening" \in Kinds
  BY DiscussionsAssumption DEF Kinds
<1>2. dturn = <<>> /\ acted' \in 0..InterventionBound /\ group.rev = 0 /\ GroupTypeOK /\ group \in WorkingGroup
  BY DEF CreateForMandate, GroupInv, OneBatch, GroupTypeOK
<1>3. group.said <= 0 /\ group.final <= 0 /\ group.said \in Nat /\ group.final \in Nat
  BY <1>2, GroupRow DEF GroupInv, LastWord
<1>4. g1 \in WorkingGroup /\ g1.said = group.said /\ g1.final = group.final /\ g1.state = "active"
  BY <1>1, <1>2 DEF WorkingGroup
<1> HIDE DEF g1
<1>5. g2 \in WorkingGroup /\ g2.said = group.said /\ g2.final = group.final /\ g2.state = "active"
  BY <1>4 DEF WorkingGroup
<1> HIDE DEF g2
<1>6. g3 \in WorkingGroup /\ g3.said = group.said /\ g3.final = group.final /\ g3.state = "active" /\ g3.rev = 1
  BY <1>5 DEF WorkingGroup
<1> HIDE DEF g3
<1>7. g = [g3 EXCEPT !.limit = GroupTurns, !.rounds = GroupRounds]
  BY <1>2 DEF g1, g2, g3, WorkingGroup
<1>8. Schedule(g, <<>>, Circle, "opening")
  BY DEF CreateForMandate
<1> HIDE DEF g
<1>9. g \in WorkingGroup
  BY <1>1, <1>6, <1>7, RowChange
<1>10. g.state = "active" /\ g.said <= g.rev /\ g.final <= g.rev
  <2>1. g.state = "active" /\ g.said = group.said /\ g.final = group.final /\ g.rev = 1
    BY <1>6, <1>7 DEF WorkingGroup
  <2> QED
    BY <1>3, <2>1
<1> QED
  BY <1>1, <1>2, <1>8, <1>9, <1>10, NobodyRuns, ScheduledKept

LEMMA StartGroupKept == ASSUME GroupInv, StartGroup PROVE GroupInv'
<1> DEFINE g == [group EXCEPT !.state = "active", !.late = FALSE]
<1>1. dturn = <<>> /\ Facilitator \in group.on /\ acted' \in 0..InterventionBound
  BY DEF StartGroup, GroupInv, OneBatch, GroupTypeOK
<1>2. Running = {}
  BY <1>1, NobodyRuns
<1>3. g \in WorkingGroup /\ g.state = "active" /\ g.said = group.said /\ g.final = group.final /\ g.rev = group.rev
  BY DEF GroupInv, GroupTypeOK, WorkingGroup
<1>4. g.said <= g.rev /\ g.final <= g.rev
  BY <1>3 DEF GroupInv, LastWord
<1>5. GroupTypeOK
  BY DEF GroupInv
<1>6. \/ Schedule(g, <<>>, {Facilitator}, "organize")
      \/ Schedule(g, <<>>, group.on, "opening")
  BY <1>1 DEF StartGroup
<1>7. group.on # {} /\ "organize" \in Kinds /\ "opening" \in Kinds
  BY <1>1 DEF Kinds
<1> HIDE DEF g
<1> QED
  BY <1>1, <1>2, <1>3, <1>4, <1>5, <1>6, <1>7, ScheduledKept

LEMMA ExtendKept == ASSUME GroupInv, Extend PROVE GroupInv'
<1> DEFINE g == [group EXCEPT !.state = "active", !.limit = @ + ExtensionTurns, !.rounds = @ + 1, !.ext = @ + 1,
                              !.round = @ + 1, !.late = FALSE]
<1>1. Running = {} /\ Schedule(g, AdvanceAll(CancelQueued(dturn)), {Facilitator}, "facilitate")
  BY DEF Extend, Settled
<1>2. Schedule(g, <<>>, {Facilitator}, "facilitate")
  BY <1>1, BatchForgotten
<1>3. acted' \in 0..InterventionBound /\ GroupTypeOK /\ "facilitate" \in Kinds
  BY DiscussionsAssumption DEF Extend, Intervention, GroupInv, GroupTypeOK, Kinds
<1>4. g \in WorkingGroup
  <2> DEFINE g1 == [group EXCEPT !.limit = group.limit + ExtensionTurns, !.rounds = group.rounds + 1]
             g2 == [g1 EXCEPT !.ext = group.ext + 1, !.round = group.round + 1]
  <2>1. /\ ExtensionTurns \in Nat /\ group \in WorkingGroup
        /\ group.limit + ExtensionTurns \in Nat /\ group.rounds + 1 \in Nat
        /\ group.ext + 1 \in Nat /\ group.round + 1 \in Nat
    BY GroupRow, DiscussionsAssumption
  <2>2. g1 \in WorkingGroup
    BY <2>1, RowChange
  <2>3. g2 \in WorkingGroup
    BY <2>1, <2>2, RowChange
  <2>4. g = [g2 EXCEPT !.state = "active", !.late = FALSE]
    BY <2>1 DEF WorkingGroup
  <2> HIDE DEF g2, g
  <2> QED
    BY <2>3, <2>4 DEF WorkingGroup
<1>5. g.state = "active" /\ g.said = group.said /\ g.final = group.final /\ g.rev = group.rev
  BY <1>3 DEF GroupTypeOK, WorkingGroup
<1>6. g.said <= g.rev /\ g.final <= g.rev
  BY <1>5 DEF GroupInv, LastWord
<1> HIDE DEF g
<1> QED
  BY <1>1, <1>2, <1>3, <1>4, <1>5, <1>6, ScheduledKept

LEMMA FinishGroupKept == ASSUME GroupInv, NEW w \in Circle, FinishGroup(w) PROVE GroupInv'
<1> DEFINE g == [group EXCEPT !.state = "active", !.synthesizer = w]
<1>1. Running = {} /\ Schedule(g, AdvanceAll(CancelQueued(dturn)), {w}, "finalize")
  BY DEF FinishGroup, Settled
<1>2. Schedule(g, <<>>, {w}, "finalize")
  BY <1>1, BatchForgotten
<1>3. acted' \in 0..InterventionBound /\ GroupTypeOK /\ "finalize" \in Kinds
  BY DiscussionsAssumption DEF FinishGroup, Intervention, GroupInv, GroupTypeOK, Kinds
<1>4. g \in WorkingGroup /\ g.state = "active" /\ g.said = group.said /\ g.final = group.final /\ g.rev = group.rev
  BY <1>3 DEF GroupTypeOK, WorkingGroup
<1>5. g.said <= g.rev /\ g.final <= g.rev
  BY <1>4 DEF GroupInv, LastWord
<1> HIDE DEF g
<1> QED
  BY <1>1, <1>2, <1>3, <1>4, <1>5, ScheduledKept

-----------------------------------------------------------------------------
(* The turns of the members.                                               *)

\* A change of one turn, which stays of its worker, its kind and its batch.
LEMMA OneTurn ==
  ASSUME GroupTypeOK, NEW t \in DOMAIN dturn, NEW row \in DiscussionTurn
  PROVE  /\ [dturn EXCEPT ![t] = row] \in Seq(DiscussionTurn) /\ DOMAIN [dturn EXCEPT ![t] = row] = DOMAIN dturn
         /\ [dturn EXCEPT ![t] = row] # <<>> /\ dturn # <<>>
         /\ \A u \in DOMAIN dturn : [dturn EXCEPT ![t] = row][u] = IF u = t THEN row ELSE dturn[u]
<1> DEFINE f == [dturn EXCEPT ![t] = row]
<1>1. dturn \in Seq(DiscussionTurn) /\ \A u \in DOMAIN dturn : dturn[u] \in DiscussionTurn
  BY TurnRow DEF GroupTypeOK
<1>2. f \in [DOMAIN dturn -> DiscussionTurn] /\ \A u \in DOMAIN dturn : f[u] = IF u = t THEN row ELSE dturn[u]
  BY <1>1
<1>3. dturn # <<>>
  BY <1>1
<1> HIDE DEF f
<1>4. f \in Seq(DiscussionTurn) /\ DOMAIN f = DOMAIN dturn /\ f # <<>>
  BY <1>2, <1>3, TurnsInPlace
<1> QED
  BY <1>2, <1>3, <1>4 DEF f

\* The row that a claim, a read, a commit and an end write.
LEMMA TurnWritten ==
  ASSUME GroupInv, NEW t \in DOMAIN dturn, NEW row \in DiscussionTurn,
         row.w = dturn[t].w, row.kind = dturn[t].kind, ~row.adv,
         row.st \in {"queued", "replying"} => row.out = NoOutput,
         dturn' = [dturn EXCEPT ![t] = row],
         group' \in WorkingGroup, acted' \in 0..InterventionBound, dunres' \subseteq Circle, drun' \in [Circle -> Nat],
         group'.state = group.state, group'.on = group.on, group'.barred = group.barred,
         group'.said <= group'.rev, group'.final <= group'.rev,
         \A w \in Circle : drun'[w] # 0 => drun'[w] \in DOMAIN dturn /\ dturn[drun'[w]].w = w,
         \A u \in DOMAIN dturn : (IF u = t THEN row ELSE dturn[u]).st = "replying" => drun'[dturn[u].w] = u,
         \A u \in DOMAIN dturn : dturn[u].kind = "finalize" /\ (IF u = t THEN row ELSE dturn[u]).st = "completed"
                                => group'.final >= group'.said
  PROVE  GroupInv'
<1> USE DEF GroupInv
<1>1. /\ dturn' \in Seq(DiscussionTurn) /\ DOMAIN dturn' = DOMAIN dturn /\ dturn' # <<>> /\ dturn # <<>>
      /\ \A u \in DOMAIN dturn : dturn'[u] = IF u = t THEN row ELSE dturn[u]
  BY OneTurn
<1>2. GroupTypeOK'
  BY <1>1 DEF GroupTypeOK
<1>3. \A u \in DOMAIN dturn : dturn'[u].w = dturn[u].w /\ dturn'[u].kind = dturn[u].kind /\ ~dturn'[u].adv
  BY <1>1 DEF OneBatch
<1>4. Spoken'
  BY <1>1, <1>3 DEF Spoken
<1>5. OneBatch' /\ group'.state \notin {"none", "draft", "completed"}
  BY <1>1, <1>3 DEF OneBatch
<1>6. LastWord'
  <2>1. ASSUME NEW u \in DOMAIN dturn, dturn'[u].kind = "finalize"
        PROVE  DOMAIN dturn' = {u} /\ (dturn'[u].st = "completed" => group'.final >= group'.said)
    <3>1. dturn[u].kind = "finalize" /\ dturn'[u].st = (IF u = t THEN row ELSE dturn[u]).st
      BY <1>1, <1>3, <2>1
    <3>2. DOMAIN dturn = {u}
      BY <3>1 DEF LastWord
    <3> QED
      BY <1>1, <3>1, <3>2
  <2> QED
    BY <1>1, <2>1 DEF LastWord
<1> QED
  BY <1>2, <1>4, <1>5, <1>6 DEF FinalSynthesis

LEMMA ClaimTurnKept == ASSUME GroupInv, NEW t \in DOMAIN dturn, ClaimTurn(t) PROVE GroupInv'
<1> DEFINE w == dturn[t].w
<1>1. /\ dturn[t] \in DiscussionTurn /\ w \in Circle /\ t \in Nat /\ t # 0 /\ ~dturn[t].adv
      /\ drun[w] = 0 /\ drun \in [Circle -> Nat] /\ dunres' \subseteq Circle /\ acted' \in 0..InterventionBound
  BY TurnRow DEF ClaimTurn, GroupInv, GroupTypeOK, OneBatch
<1>2. CASE Authorize(t) /\ w \notin dunres
  <2> DEFINE row == [dturn[t] EXCEPT !.st = "replying", !.seen = group.rev]
  <2>1. dturn' = [dturn EXCEPT ![t] = row] /\ drun' = [drun EXCEPT ![w] = t] /\ group' = group
    BY <1>2 DEF ClaimTurn
  <2>2. row \in DiscussionTurn /\ row.w = w /\ row.kind = dturn[t].kind /\ ~row.adv /\ row.st = "replying"
    BY <1>1, GroupRow DEF DiscussionTurn
  <2>o. row.out = NoOutput
    <3>1. dturn[t].out = NoOutput
      BY DEF ClaimTurn, GroupInv, Spoken
    <3> QED
      BY <1>1, <3>1 DEF DiscussionTurn
  <2> HIDE DEF row
  <2>3. drun' \in [Circle -> Nat]
    BY <1>1, <2>1
  <2>4. \A v \in Circle : drun'[v] # 0 => drun'[v] \in DOMAIN dturn /\ dturn[drun'[v]].w = v
    BY <1>1, <2>1 DEF GroupInv, Spoken
  <2>5. \A u \in DOMAIN dturn : (IF u = t THEN row ELSE dturn[u]).st = "replying" => drun'[dturn[u].w] = u
    BY <1>1, <2>1, TurnRow, GroupRow DEF GroupInv, Spoken
  <2>6. \A u \in DOMAIN dturn : dturn[u].kind = "finalize" /\ (IF u = t THEN row ELSE dturn[u]).st = "completed"
                                => group'.final >= group'.said
    BY <2>1, <2>2 DEF GroupInv, LastWord
  <2>7. group.said <= group.rev /\ group.final <= group.rev
    BY DEF GroupInv, LastWord
  <2> QED
    BY <1>1, <2>1, <2>2, <2>o, <2>3, <2>4, <2>5, <2>6, <2>7, TurnWritten, GroupRow
<1>3. CASE ~(Authorize(t) /\ w \notin dunres)
  <2> DEFINE row == [dturn[t] EXCEPT !.st = "undone"]
  <2>1. dturn' = [dturn EXCEPT ![t] = row] /\ drun' = drun /\ group' = [group EXCEPT !.failed = TRUE]
    BY <1>3 DEF ClaimTurn
  <2>2. row \in DiscussionTurn /\ row.w = w /\ row.kind = dturn[t].kind /\ ~row.adv /\ row.st = "undone"
    BY <1>1 DEF DiscussionTurn
  <2> HIDE DEF row
  <2>3. group' \in WorkingGroup
    BY <2>1, RowChange, GroupRow
  <2>4. /\ group'.state = group.state /\ group'.on = group.on /\ group'.barred = group.barred
        /\ group'.said = group.said /\ group'.final = group.final /\ group'.rev = group.rev
    BY <2>1, GroupRow DEF WorkingGroup
  <2>5. \A v \in Circle : drun'[v] # 0 => drun'[v] \in DOMAIN dturn /\ dturn[drun'[v]].w = v
    BY <2>1 DEF GroupInv, Spoken
  <2>6. \A u \in DOMAIN dturn : (IF u = t THEN row ELSE dturn[u]).st = "replying" => drun'[dturn[u].w] = u
    BY <2>1, <2>2 DEF GroupInv, Spoken
  <2>7. \A u \in DOMAIN dturn : dturn[u].kind = "finalize" /\ (IF u = t THEN row ELSE dturn[u]).st = "completed"
                                => group'.final >= group'.said
    BY <2>2, <2>4 DEF GroupInv, LastWord
  <2>8. group'.said <= group'.rev /\ group'.final <= group'.rev
    BY <2>4 DEF GroupInv, LastWord
  <2> QED
    BY <1>1, <2>1, <2>2, <2>3, <2>4, <2>5, <2>6, <2>7, <2>8, TurnWritten
<1> QED
  BY <1>2, <1>3

\* What a speaking worker runs.
LEMMA SpokenTurn ==
  ASSUME GroupInv, NEW w \in Circle, drun[w] # 0
  PROVE  /\ drun[w] \in DOMAIN dturn /\ dturn[drun[w]] \in DiscussionTurn /\ dturn[drun[w]].w = w /\ ~dturn[drun[w]].adv
         /\ drun \in [Circle -> Nat] /\ dunres \subseteq Circle /\ acted \in 0..InterventionBound
  BY TurnRow DEF GroupInv, GroupTypeOK, Spoken, OneBatch

LEMMA ReadContextKept == ASSUME GroupInv, NEW w \in Circle, ReadContext(w) PROVE GroupInv'
<1> DEFINE t == drun[w]
           row == [dturn[t] EXCEPT !.seen = group.rev]
<1>1. /\ t \in DOMAIN dturn /\ dturn[t] \in DiscussionTurn /\ dturn[t].w = w /\ ~dturn[t].adv
      /\ drun \in [Circle -> Nat] /\ dunres \subseteq Circle /\ acted \in 0..InterventionBound
  BY SpokenTurn DEF ReadContext, Speaking
<1>2. dturn' = [dturn EXCEPT ![t] = row] /\ UNCHANGED <<group, drun, dunres, acted>>
  BY DEF ReadContext
<1>3. row \in DiscussionTurn /\ row.w = dturn[t].w /\ row.kind = dturn[t].kind /\ row.st = dturn[t].st /\ ~row.adv
      /\ row.out = dturn[t].out /\ dturn[t].out = NoOutput
  BY <1>1, GroupRow DEF DiscussionTurn, ReadContext, Speaking
<1> HIDE DEF row, t
<1>4. \A v \in Circle : drun'[v] # 0 => drun'[v] \in DOMAIN dturn /\ dturn[drun'[v]].w = v
  BY <1>2 DEF GroupInv, Spoken
<1>5. \A u \in DOMAIN dturn : (IF u = t THEN row ELSE dturn[u]).st = "replying" => drun'[dturn[u].w] = u
  BY <1>2, <1>3 DEF GroupInv, Spoken
<1>6. \A u \in DOMAIN dturn : dturn[u].kind = "finalize" /\ (IF u = t THEN row ELSE dturn[u]).st = "completed"
                              => group'.final >= group'.said
  BY <1>2, <1>3 DEF GroupInv, LastWord
<1>7. group'.said <= group'.rev /\ group'.final <= group'.rev
  BY <1>2 DEF GroupInv, LastWord
<1> QED
  BY <1>1, <1>2, <1>3, <1>4, <1>5, <1>6, <1>7, TurnWritten, GroupRow

\* A final synthesis is committed only by a worker that has read everything.
LEMMA CommitTurnKept ==
  ASSUME GroupInv, NEW w \in Circle, drun[w] # 0, NEW output \in Output, CommitTurn(w, output),
         dturn[drun[w]].kind = "finalize" => RequireCurrent(drun[w])
  PROVE  GroupInv'
<1> DEFINE t == drun[w]
           row == [dturn[t] EXCEPT !.out = output, !.st = "completed"]
<1>1. /\ t \in DOMAIN dturn /\ dturn[t] \in DiscussionTurn /\ dturn[t].w = w /\ ~dturn[t].adv
      /\ drun \in [Circle -> Nat] /\ dunres \subseteq Circle /\ acted \in 0..InterventionBound
  BY SpokenTurn
<1>2. dturn' = [dturn EXCEPT ![t] = row] /\ UNCHANGED <<drun, dunres, acted>>
  BY DEF CommitTurn
<1>3. row \in DiscussionTurn /\ row.w = dturn[t].w /\ row.kind = dturn[t].kind /\ row.st = "completed" /\ ~row.adv
  BY <1>1 DEF DiscussionTurn
<1>4. group \in WorkingGroup /\ group.rev \in Nat /\ group.said \in Nat /\ group.final \in Nat /\ group.rev + 1 \in Nat
  BY GroupRow
<1>5. group.said <= group.rev /\ group.final <= group.rev
  BY DEF GroupInv, LastWord
<1>6. /\ group' \in WorkingGroup /\ group'.state = group.state /\ group'.on = group.on /\ group'.barred = group.barred
      /\ group'.said <= group'.rev /\ group'.final <= group'.rev
      /\ dturn[t].kind = "finalize" => group'.final >= group'.said
  <2>1. CASE dturn[t].kind = "finalize"
    <3>1. group' = [group EXCEPT !.rev = group.rev + 1, !.final = group.rev]
      BY <2>1 DEF CommitTurn, RequireCurrent
    <3>2. group' \in WorkingGroup
      BY <1>4, <3>1, RowChange
    <3>3. /\ group'.state = group.state /\ group'.on = group.on /\ group'.barred = group.barred
          /\ group'.said = group.said /\ group'.final = group.rev /\ group'.rev = group.rev + 1
      BY <1>4, <3>1 DEF WorkingGroup
    <3> QED
      BY <1>4, <1>5, <3>2, <3>3
  <2>2. CASE dturn[t].kind # "finalize"
    <3>1. group' = [group EXCEPT !.rev = group.rev + 1, !.said = group.rev + 1]
      BY <2>2 DEF CommitTurn
    <3>2. group' \in WorkingGroup
      BY <1>4, <3>1, RowChange
    <3>3. /\ group'.state = group.state /\ group'.on = group.on /\ group'.barred = group.barred
          /\ group'.said = group.rev + 1 /\ group'.final = group.final /\ group'.rev = group.rev + 1
      BY <1>4, <3>1 DEF WorkingGroup
    <3> QED
      BY <1>4, <1>5, <2>2, <3>2, <3>3
  <2> QED
    BY <2>1, <2>2
<1> HIDE DEF row, t
<1>7. \A v \in Circle : drun'[v] # 0 => drun'[v] \in DOMAIN dturn /\ dturn[drun'[v]].w = v
  BY <1>2 DEF GroupInv, Spoken
<1>8. \A u \in DOMAIN dturn : (IF u = t THEN row ELSE dturn[u]).st = "replying" => drun'[dturn[u].w] = u
  BY <1>2, <1>3 DEF GroupInv, Spoken
<1>9. \A u \in DOMAIN dturn : dturn[u].kind = "finalize" /\ (IF u = t THEN row ELSE dturn[u]).st = "completed"
                              => group'.final >= group'.said
  BY <1>1, <1>6 DEF GroupInv, LastWord
<1> QED
  BY <1>1, <1>2, <1>3, <1>6, <1>7, <1>8, <1>9, TurnWritten

LEMMA SpeakKept ==
  ASSUME GroupInv, NEW w \in Circle, Contribute(w) \/ Organize(w) \/ Facilitate(w) \/ SubmitSynthesis(w)
  PROVE  GroupInv'
<1>1. drun[w] # 0
  BY DEF Contribute, Organize, Facilitate, SubmitSynthesis, Speaking
<1>2. NoOutput \in Output /\ [NoOutput EXCEPT !.act = "done"] \in Output
  BY DiscussionsAssumption DEF NoOutput, Output
<1>3. CASE Contribute(w)
  BY <1>1, <1>2, <1>3, CommitTurnKept DEF Contribute
<1>4. CASE Organize(w)
  <2>1. ASSUME NEW who \in SUBSET Circle, NEW lead \in Circle PROVE [act |-> "done", who |-> who, lead |-> lead] \in Output
    BY DEF Output
  <2> QED
    BY <1>1, <1>4, <2>1, CommitTurnKept DEF Organize
<1>5. CASE Facilitate(w)
  <2>1. ASSUME NEW who \in SUBSET group.on PROVE [NoOutput EXCEPT !.act = "discuss", !.who = who] \in Output
    <3>1. who \in SUBSET Circle
      BY <2>1, GroupRow DEF WorkingGroup
    <3> QED
      BY <3>1, DiscussionsAssumption DEF NoOutput, Output
  <2> QED
    BY <1>1, <1>2, <1>5, <2>1, CommitTurnKept DEF Facilitate
<1>6. CASE SubmitSynthesis(w)
  BY <1>1, <1>2, <1>6, CommitTurnKept DEF SubmitSynthesis
<1> QED
  BY <1>3, <1>4, <1>5, <1>6

LEMMA EndTurnKept == ASSUME GroupInv, NEW w \in Circle, NEW known \in BOOLEAN, EndTurn(w, known) PROVE GroupInv'
<1> DEFINE t == drun[w]
           row == IF dturn[t].out # NoOutput THEN dturn[t] ELSE [dturn[t] EXCEPT !.st = "undone"]
<1>1. /\ t # 0 /\ t \in DOMAIN dturn /\ dturn[t] \in DiscussionTurn /\ dturn[t].w = w /\ ~dturn[t].adv
      /\ drun \in [Circle -> Nat] /\ dunres \subseteq Circle /\ acted \in 0..InterventionBound
  BY SpokenTurn DEF EndTurn
<1>2. /\ dturn' = [dturn EXCEPT ![t] = row] /\ drun' = [drun EXCEPT ![w] = 0] /\ acted' = acted
      /\ dunres' \subseteq Circle
  <2>1. dturn' = [dturn EXCEPT ![t] = row]
    <3>1. CASE dturn[t].out # NoOutput
      <4>1. dturn' = dturn /\ row = dturn[t]
        BY <3>1 DEF EndTurn
      <4> QED
        BY <1>1, <4>1 DEF GroupInv, GroupTypeOK
    <3>2. CASE dturn[t].out = NoOutput
      BY <3>2 DEF EndTurn
    <3> QED
      BY <3>1, <3>2
  <2>2. drun' = [drun EXCEPT ![w] = 0] /\ acted' = acted /\ dunres' \in {dunres, dunres \cup {w}}
    BY DEF EndTurn
  <2> QED
    BY <1>1, <2>1, <2>2
<1>3. row \in DiscussionTurn /\ row.w = dturn[t].w /\ row.kind = dturn[t].kind /\ ~row.adv
      /\ row.st \notin {"queued", "replying"} /\ row.st \in {"undone", dturn[t].st}
  BY <1>1 DEF DiscussionTurn, GroupInv, Spoken
<1> HIDE DEF row
<1>4. /\ group' \in WorkingGroup /\ group'.state = group.state /\ group'.on = group.on /\ group'.barred = group.barred
      /\ group'.said = group.said /\ group'.final = group.final /\ group'.rev = group.rev
  <2> DEFINE b == group.failed \/ dturn[t].out = NoOutput
  <2>1. group' = [group EXCEPT !.failed = b] /\ b \in BOOLEAN /\ group \in WorkingGroup
    BY GroupRow DEF EndTurn, WorkingGroup
  <2> HIDE DEF b
  <2>2. group' \in WorkingGroup
    BY <2>1, RowChange
  <2> QED
    BY <2>1, <2>2 DEF WorkingGroup
<1>5. drun' \in [Circle -> Nat] /\ \A v \in Circle : drun'[v] # 0 => drun'[v] \in DOMAIN dturn /\ dturn[drun'[v]].w = v
  BY <1>1, <1>2 DEF GroupInv, Spoken
<1>6. \A u \in DOMAIN dturn : (IF u = t THEN row ELSE dturn[u]).st = "replying" => drun'[dturn[u].w] = u
  BY <1>1, <1>2, <1>3, TurnRow, GroupRow DEF GroupInv, Spoken
<1>7. \A u \in DOMAIN dturn : dturn[u].kind = "finalize" /\ (IF u = t THEN row ELSE dturn[u]).st = "completed"
                              => group'.final >= group'.said
  BY <1>1, <1>3, <1>4 DEF GroupInv, LastWord
<1>8. group'.said <= group'.rev /\ group'.final <= group'.rev
  BY <1>4 DEF GroupInv, LastWord
<1> HIDE DEF t
<1> QED
  BY ZenonT(40), <1>1, <1>2, <1>3, <1>4, <1>5, <1>6, <1>7, <1>8, TurnWritten

-----------------------------------------------------------------------------
(* progress().                                                             *)

\* The settled batch of an active group: the last of its turns is its end.
LEMMA LastTurn ==
  ASSUME GroupInv, group.state = "active"
  PROVE  Batch = DOMAIN dturn /\ Batch # {} /\ LastOf(Batch) \in DOMAIN dturn
<1>1. dturn \in Seq(DiscussionTurn) /\ dturn # <<>> /\ Batch = DOMAIN dturn
  BY DEF GroupInv, OneBatch, GroupTypeOK, Batch
<1>2. Len(dturn) \in Nat /\ DOMAIN dturn = 1..Len(dturn) /\ Len(dturn) # 0
  BY <1>1, SequenceAsFunction, EmptySeq
<1>3. Len(dturn) \in Batch /\ \A k \in Batch : k <= Len(dturn)
  BY <1>1, <1>2
<1>4. LastOf(Batch) \in Batch
  BY <1>3 DEF LastOf
<1> QED
  BY <1>1, <1>3, <1>4

\* A batch that is followed by another: the group stays active and says nothing new.
LEMMA SuccessorRow ==
  ASSUME GroupInv, group.state = "active", NEW s \in Successors
  PROVE  /\ s.g \in WorkingGroup /\ s.g.state = "active"
         /\ s.g.said = group.said /\ s.g.final = group.final /\ s.g.rev = group.rev
         /\ s.kind \in Kinds /\ (s.kind = "finalize" => s.W = {group.synthesizer})
<1> DEFINE last == dturn[LastOf(Batch)]
           organized == [group EXCEPT !.on = @ \cup last.out.who, !.synthesizer = last.out.lead, !.scope = @ + 1]
           round == [group EXCEPT !.round = @ + 1]
           Next1(g) == /\ g \in WorkingGroup /\ g.state = "active" /\ g.said = group.said /\ g.final = group.final
                       /\ g.rev = group.rev
<1>1. group \in WorkingGroup /\ last \in DiscussionTurn /\ group.round + 1 \in Nat /\ group.scope + 1 \in Nat
  BY LastTurn, TurnRow, GroupRow
<1>2. Next1(group)
  BY <1>1
<1>3. Next1(round)
  <2>1. round \in WorkingGroup
    BY <1>1, RowChange
  <2> QED
    BY <1>1, <2>1 DEF WorkingGroup
<1>4. Next1(organized)
  <2> DEFINE g1 == [group EXCEPT !.scope = group.scope + 1, !.barred = group.barred]
             on == group.on \cup last.out.who
  <2>1. g1 \in WorkingGroup
    <3>1. group.barred \in BOOLEAN
      BY <1>1 DEF WorkingGroup
    <3> QED
      BY <1>1, <3>1, RowChange
  <2>2. on \in SUBSET Circle /\ last.out.lead \in Circle
    BY <1>1 DEF WorkingGroup, DiscussionTurn, Output
  <2>3. organized = [g1 EXCEPT !.on = on, !.synthesizer = last.out.lead]
    BY <1>1 DEF WorkingGroup
  <2>4. g1.state = group.state /\ g1.said = group.said /\ g1.final = group.final /\ g1.rev = group.rev
    BY <1>1 DEF WorkingGroup
  <2> HIDE DEF g1, on, last, organized
  <2>5. organized \in WorkingGroup
    BY <2>1, <2>2, <2>3 DEF WorkingGroup
  <2> QED
    BY <2>1, <2>3, <2>4, <2>5 DEF WorkingGroup
<1> HIDE DEF organized, round, Next1
<1>5. \E W : \E g \in {group, round, organized}, k \in Kinds :
         s = [g |-> g, W |-> W, kind |-> k] /\ (k = "finalize" => W = {group.synthesizer})
  <2>1. \/ \E W : s = [g |-> organized, W |-> W, kind |-> "opening"]
        \/ \E W : s = [g |-> group, W |-> W, kind |-> "review"]
        \/ s = [g |-> group, W |-> {group.synthesizer}, kind |-> "finalize"]
        \/ \E W : s = [g |-> round, W |-> W, kind |-> "response"]
        \/ s = [g |-> group, W |-> {Facilitator}, kind |-> "facilitate"]
        \/ s = [g |-> group, W |-> {group.synthesizer}, kind |-> "synthesis"]
    BY DEF Successors, organized, round
  <2> QED
    BY <2>1 DEF Kinds
<1> QED
  BY <1>2, <1>3, <1>4, <1>5 DEF Next1

LEMMA ProgressKept == ASSUME GroupInv, Progress PROVE GroupInv'
<1>1. group.state = "active" /\ Running = {} /\ Batch # {}
  BY LastTurn DEF Progress
<1>2. group \in WorkingGroup /\ acted \in 0..InterventionBound /\ dturn # <<>> /\ dunres \subseteq Circle
      /\ drun \in [Circle -> Nat]
  BY <1>1 DEF GroupInv, OneBatch, GroupTypeOK
<1>3. CASE Block /\ UNCHANGED dturn
  <2>1. /\ group' \in WorkingGroup /\ group'.said = group.said /\ group'.final = group.final
        /\ group'.rev = group.rev /\ group'.state = "blocked"
    BY <1>2, <1>3 DEF Block, WorkingGroup
  <2>2. group.rev \in Nat
    BY GroupRow
  <2> QED
    BY <1>2, <1>3, <2>1, <2>2, RowKept DEF Block
<1>4. CASE /\ \A t \in Batch : dturn[t].st = "completed" /\ dturn[LastOf(Batch)].kind = "finalize"
           /\ group' = [group EXCEPT !.state = "completed"] /\ dturn' = AdvanceAll(dturn)
           /\ UNCHANGED <<drun, dunres, acted>>
  <2>1. dturn' = <<>>
    BY <1>1, <1>4, BatchForgotten
  <2>2. group.final >= group.said
    BY <1>1, <1>4, LastTurn DEF GroupInv, LastWord
  <2>3. /\ group' \in WorkingGroup /\ group'.said = group.said /\ group'.final = group.final
        /\ group'.rev = group.rev /\ group'.state = "completed"
    BY <1>2, <1>4 DEF WorkingGroup
  <2>4. \A w \in Circle : drun[w] = 0
    BY <1>1 DEF Running
  <2>5. dturn' \in Seq(DiscussionTurn) /\ DOMAIN dturn' = {}
    BY <2>1
  <2> QED
    BY <1>2, <1>4, <2>1, <2>2, <2>3, <2>4, <2>5 DEF GroupInv, GroupTypeOK, Spoken, OneBatch, LastWord, FinalSynthesis
<1>5. CASE /\ \A t \in Batch : dturn[t].st = "completed"
           /\ \E s \in Successors : s.W # {} /\ UNCHANGED acted /\ Schedule(s.g, AdvanceAll(dturn), s.W, s.kind)
  <2>1. PICK s \in Successors : s.W # {} /\ Schedule(s.g, AdvanceAll(dturn), s.W, s.kind)
    BY <1>5
  <2>2. /\ s.g \in WorkingGroup /\ s.g.state = "active"
        /\ s.g.said = group.said /\ s.g.final = group.final /\ s.g.rev = group.rev
        /\ s.kind \in Kinds /\ (s.kind = "finalize" => s.W = {group.synthesizer})
    BY <1>1, <2>1, SuccessorRow
  <2>3. Schedule(s.g, <<>>, s.W, s.kind)
    BY <1>1, <1>5, <2>1, BatchForgotten
  <2>4. s.g.said <= s.g.rev /\ s.g.final <= s.g.rev
    BY <2>2 DEF GroupInv, LastWord
  <2>5. GroupTypeOK /\ acted' \in 0..InterventionBound
    BY <1>2, <1>5 DEF GroupInv
  <2> QED
    BY <1>1, <2>1, <2>2, <2>3, <2>4, <2>5, ScheduledKept
<1> QED
  BY <1>3, <1>4, <1>5 DEF Progress, Conclude, Advance

-----------------------------------------------------------------------------
(* Other work of the members, and the mandate.                             *)

\* What the members' other turns leave unresolved changes nothing for the batch.
LEMMA OutcomesKept ==
  ASSUME GroupInv, UNCHANGED <<group, dturn, drun, acted>>, dunres' \subseteq Circle
  PROVE  GroupInv'
BY DEF GroupInv, GroupTypeOK, Spoken, OneBatch, LastWord, FinalSynthesis

LEMMA MandateStoppedKept == ASSUME GroupInv, MandateStopped PROVE GroupInv'
<1>1. acted' \in 0..InterventionBound /\ dturn' = CancelQueued(dturn) /\ UNCHANGED <<drun, dunres>>
  BY DEF MandateStopped, GroupInv, GroupTypeOK
<1>2. CASE group.state \in {"active", "paused", "blocked"}
  BY <1>1, <1>2, CancelledKept DEF MandateStopped
<1>3. CASE group.state \in {"stopped", "archived"}
  <2>1. group' = [group EXCEPT !.state = group.state]
    BY <1>3, GroupRow DEF MandateStopped, WorkingGroup
  <2> QED
    BY <1>1, <1>3, <2>1, CancelledKept
<1>4. CASE group.state \in {"none", "draft", "completed"}
  <2>1. group' = group /\ dturn = <<>>
    BY <1>4 DEF MandateStopped, GroupInv, OneBatch
  <2>2. dturn' = <<>>
    BY <1>1, <2>1 DEF CancelQueued
  <2>3. dunres' \subseteq Circle
    BY <1>1 DEF GroupInv, GroupTypeOK
  <2> QED
    BY <1>1, <2>1, <2>2, <2>3, OutcomesKept DEF MandateStopped
<1> QED
  BY <1>2, <1>3, <1>4, GroupRow DEF WorkingGroup

\* The invariant with the variables of the group's surroundings.
DiscussionsInv == GroupInv /\ DiscussionsTypeOK

OutsideTypeOK ==
    busy \subseteq Circle /\ mandate \in {"none", "active", "paused", "stopped"} /\ cycle \in {"open", "over"}

LEMMA DiscussionsStart == DiscussionsInit => DiscussionsInv
BY GroupStarts DEF DiscussionsInit, DiscussionsInv, DiscussionsTypeOK, GroupInv

LEMMA GroupSteps == DiscussionsInv /\ [DiscussionsNext]_discVars => DiscussionsInv'
<1> SUFFICES ASSUME DiscussionsInv, [DiscussionsNext]_discVars PROVE DiscussionsInv'
  OBVIOUS
<1>0. GroupInv /\ OutsideTypeOK
  BY DEF DiscussionsInv, DiscussionsTypeOK, OutsideTypeOK
<1>1. CASE UNCHANGED discVars
  BY <1>0, <1>1 DEF discVars, groupVars, outsideVars, OutsideTypeOK, DiscussionsInv, DiscussionsTypeOK, GroupInv, GroupTypeOK, Spoken, OneBatch,
     LastWord, FinalSynthesis
<1>2. CASE GroupStep /\ UNCHANGED outsideVars
  <2>1. GroupInv'
    BY <1>0, <1>2, CreateGroupKept, StartGroupKept, PauseGroupKept, ResumeGroupKept, StopGroupKept, ArchiveGroupKept,
       ExtendKept, FinishGroupKept, InterjectKept, WithdrawKept, DeadlinePassesKept, ClaimTurnKept, ReadContextKept,
       ShareEvidenceKept, SpeakKept, EndTurnKept, ExpireKept, ProgressKept DEF GroupStep
  <2> QED
    BY <1>0, <1>2, <2>1 DEF outsideVars, OutsideTypeOK, DiscussionsInv, DiscussionsTypeOK, GroupInv
<1>3. ASSUME NEW s \in Synthesizers, CreateForMandate(s), UNCHANGED <<busy, cycle>> PROVE DiscussionsInv'
  BY <1>0, <1>3, CreateForMandateKept DEF CreateForMandate, OutsideTypeOK, DiscussionsInv, DiscussionsTypeOK, GroupInv
<1>4. ASSUME NEW w \in Circle, NEW known \in BOOLEAN, OtherTurn(w) \/ OtherTurnEnds(w, known) PROVE DiscussionsInv'
  <2>1. /\ UNCHANGED <<group, dturn, drun, acted, mandate, cycle>> /\ dunres' \in {dunres, dunres \cup {w}}
        /\ busy' \in {busy \cup {w}, busy \ {w}}
    BY <1>4 DEF OtherTurn, OtherTurnEnds, groupVars
  <2>2. dunres' \subseteq Circle /\ busy' \subseteq Circle
    BY <1>0, <2>1 DEF GroupInv, GroupTypeOK, OutsideTypeOK
  <2>3. GroupInv'
    BY <1>0, <2>1, <2>2, OutcomesKept
  <2> QED
    BY <1>0, <2>1, <2>2, <2>3 DEF OutsideTypeOK, DiscussionsInv, DiscussionsTypeOK, GroupInv
<1>5. CASE MandateHeld \/ CycleEnds
  <2>1. UNCHANGED <<group, dturn, drun, dunres, acted, busy>> /\ mandate' \in {"active", "paused"} /\ cycle' \in {cycle, "over"}
    BY <1>0, <1>5 DEF MandateHeld, CycleEnds, groupVars
  <2>2. GroupInv'
    BY <1>0, <2>1, OutcomesKept DEF GroupInv, GroupTypeOK
  <2> QED
    BY <1>0, <2>1, <2>2 DEF OutsideTypeOK, DiscussionsInv, DiscussionsTypeOK, GroupInv
<1>6. CASE MandateStopped
  BY <1>0, <1>6, MandateStoppedKept DEF MandateStopped, OutsideTypeOK, DiscussionsInv, DiscussionsTypeOK, GroupInv
<1> QED
  BY <1>1, <1>2, <1>3, <1>4, <1>5, <1>6 DEF DiscussionsNext

LEMMA GroupPromise == GroupInv => GroupsConclude
<1> SUFFICES ASSUME GroupInv PROVE GroupsConclude
  OBVIOUS
<1> QED
  BY LastTurn DEF GroupInv, GroupsConclude, NeverIdle

-----------------------------------------------------------------------------
(* Remote clients.                                                         *)

\* The keys of the devices.
Calls == Devices \X Keys

\* A request being handled is of a device and a key the client has made.
HandledRow(r) ==
    /\ r = [d |-> r.d, k |-> r.k, b |-> r.b, token |-> r.token, step |-> r.step]
    /\ r.d \in Devices /\ r.k \in Keys /\ r.b \in 1..2
ClientRows ==
    /\ trust = [clock |-> trust.clock, rows |-> trust.rows] /\ trust.clock \in Nat
    /\ calls \in [made : [Calls -> Int], did : [Calls -> Nat], receipt : [Calls -> [b : Nat, until : Int]],
                  open : [Handlers -> {calls.open[h] : h \in Handlers}]]
    /\ \A h \in Handlers : calls.open[h] = NoCallHere
                           \/ (HandledRow(calls.open[h]) /\ calls.made[<<calls.open[h].d, calls.open[h].k>>] # -1)

\* What was done under a key is remembered until the key may not be used any more.
Remembered ==
    \A x \in Calls :
        /\ calls.did[x] <= 1
        /\ calls.did[x] = 1 => /\ calls.made[x] # -1
                               /\ calls.receipt[x] = NoReceipt => calls.made[x] + RetryTime <= trust.clock
                               /\ calls.receipt[x] # NoReceipt => calls.receipt[x].until = calls.made[x] + RetryTime

\* A stream and what its client has: what is on the way follows that without a gap.
StreamInOrder(s, got) ==
    /\ s \in [on : BOOLEAN, cursor : Nat, token : {s.token}, pipe : Seq(Nat), blocked : BOOLEAN]
    /\ \A i \in DOMAIN s.pipe : s.pipe[i] = got + i
    /\ s.on => s.cursor = got + Len(s.pipe)

InOrder ==
    /\ feed \in [seq : Nat, stream : [Devices -> {feed.stream[d] : d \in Devices}], got : [Devices -> Nat]]
    /\ \A d \in Devices : StreamInOrder(feed.stream[d], feed.got[d])

ClientsInv == ClientRows /\ Remembered /\ InOrder

\* What ClientsTold says of a step.
ClientsTellStep == OnceByKey' /\ NothingMissed /\ EffectTrusted

LEMMA NoStreamInOrder == ASSUME NEW g \in Nat PROVE StreamInOrder(NoStream, g)
<1>1. NoStream = [on |-> FALSE, cursor |-> 0, token |-> 0, pipe |-> <<>>, blocked |-> FALSE]
      /\ <<>> \in Seq(Nat) /\ DOMAIN <<>> = {}
  BY DEF NoStream
<1> QED
  BY <1>1 DEF StreamInOrder

LEMMA ClientsStart == ClientsInit => ClientsInv
<1> SUFFICES ASSUME ClientsInit PROVE ClientsInv
  OBVIOUS
<1>1. ClientRows
  BY DEF ClientsInit, ClientRows, Calls, NoReceipt
<1>2. Remembered
  BY DEF ClientsInit, Remembered, Calls
<1>3. InOrder
  <2>1. feed = [seq |-> 0, stream |-> [d \in Devices |-> NoStream], got |-> [d \in Devices |-> 0]]
    BY DEF ClientsInit
  <2>2. StreamInOrder(NoStream, 0)
    BY NoStreamInOrder
  <2> QED
    BY <2>1, <2>2 DEF InOrder
<1> QED
  BY <1>1, <1>2, <1>3 DEF ClientsInv

-----------------------------------------------------------------------------
(* The requests.                                                           *)

\* Receipts that are deleted are of keys that may not be used any more.
LEMMA LiveReceiptsRemembered ==
  ASSUME ClientsInv
  PROVE  /\ LiveReceipts \in [Calls -> [b : Nat, until : Int]]
         /\ \A x \in Calls : LiveReceipts[x] = calls.receipt[x]
                             \/ (LiveReceipts[x] = NoReceipt /\ calls.receipt[x].until <= trust.clock)
<1>1. calls.receipt \in [Calls -> [b : Nat, until : Int]]
  BY DEF ClientsInv, ClientRows
<1>2. LiveReceipts \in [Calls -> [b : Nat, until : Int]]
  BY <1>1 DEF LiveReceipts, NoReceipt, Calls
<1>3. \A x \in Calls : LiveReceipts[x] = calls.receipt[x]
                       \/ (LiveReceipts[x] = NoReceipt /\ calls.receipt[x].until <= trust.clock)
  BY DEF LiveReceipts, Calls
<1> QED
  BY <1>2, <1>3

\* A step in which nothing is done: requests come, go and wait, receipts are deleted, keys are made.
LEMMA NothingDone ==
  ASSUME ClientsInv, trust' = [clock |-> trust'.clock, rows |-> trust'.rows],
         trust'.clock \in Nat, trust'.clock >= trust.clock,
         calls' = [made |-> calls'.made, did |-> calls.did, receipt |-> calls'.receipt, open |-> calls'.open],
         calls'.made \in [Calls -> Int], calls'.receipt \in [Calls -> [b : Nat, until : Int]],
         calls'.open = [h \in Handlers |-> calls'.open[h]],
         \A x \in Calls : calls.made[x] # -1 => calls'.made[x] = calls.made[x],
         \A x \in Calls : calls'.receipt[x] = calls.receipt[x]
                             \/ (calls'.receipt[x] = NoReceipt /\ calls.receipt[x].until <= trust.clock),
         \A h \in Handlers : calls'.open[h] = NoCallHere
             \/ (HandledRow(calls'.open[h]) /\ calls'.made[<<calls'.open[h].d, calls'.open[h].k>>] # -1)
  PROVE  ClientRows' /\ Remembered' /\ OnceByKey' /\ EffectTrusted
<1> DEFINE m == calls'.made
           r == calls'.receipt
           o == calls'.open
<1>1. calls.did \in [Calls -> Nat] /\ calls.made \in [Calls -> Int] /\ RetryTime \in Nat /\ trust.clock \in Nat
  BY ClientsAssumption DEF ClientsInv, ClientRows
<1>2. calls'.made = m /\ calls'.did = calls.did /\ calls'.receipt = r /\ calls'.open = o
  OBVIOUS
<1>o. \A x \in Calls : calls.made[x] # -1 => m[x] = calls.made[x]
  OBVIOUS
<1>r. \A x \in Calls : r[x] = calls.receipt[x] \/ (r[x] = NoReceipt /\ calls.receipt[x].until <= trust.clock)
  OBVIOUS
<1>f. o = [h \in Handlers |-> o[h]]
  OBVIOUS
<1>q. \A h \in Handlers : o[h] = NoCallHere \/ (HandledRow(o[h]) /\ m[<<o[h].d, o[h].k>>] # -1)
  OBVIOUS
<1>c. calls' = [made |-> m, did |-> calls.did, receipt |-> r, open |-> o] /\ m \in [Calls -> Int]
      /\ r \in [Calls -> [b : Nat, until : Int]]
  OBVIOUS
<1> HIDE DEF m, r, o
<1>3. ClientRows'
  <2>1. o \in [Handlers -> {o[h] : h \in Handlers}]
    BY <1>f
  <2>2. calls' \in [made : [Calls -> Int], did : [Calls -> Nat], receipt : [Calls -> [b : Nat, until : Int]],
                    open : [Handlers -> {o[h] : h \in Handlers}]]
    BY <1>1, <1>c, <2>1
  <2> QED
    BY <1>2, <1>q, <2>2 DEF ClientRows, Calls
<1>4. Remembered'
  <2>1. ASSUME NEW x \in Calls
        PROVE  /\ calls.did[x] <= 1
               /\ calls.did[x] = 1 => /\ m[x] # -1
                                      /\ r[x] = NoReceipt => m[x] + RetryTime <= trust'.clock
                                      /\ r[x] # NoReceipt => r[x].until = m[x] + RetryTime
    <3>1. /\ calls.did[x] <= 1 /\ m[x] \in Int /\ calls.made[x] \in Int /\ calls.did[x] \in Nat
          /\ calls.did[x] = 1 => /\ calls.made[x] # -1
                                 /\ calls.receipt[x] = NoReceipt => calls.made[x] + RetryTime <= trust.clock
                                 /\ calls.receipt[x] # NoReceipt => calls.receipt[x].until = calls.made[x] + RetryTime
      BY <1>1, <1>c DEF ClientsInv, Remembered
    <3> QED
      BY <1>1, <1>o, <1>r, <3>1
  <2> QED
    BY <1>2, <2>1 DEF Remembered, Calls
<1>5. OnceByKey' /\ EffectTrusted
  BY <1>2, <1>4 DEF OnceByKey, EffectTrusted, Remembered, Calls
<1> QED
  BY <1>3, <1>4, <1>5

\* The request of a handler, and the shape of the calls.
LEMMA CallsShape ==
  ASSUME ClientsInv
  PROVE  /\ calls = [made |-> calls.made, did |-> calls.did, receipt |-> calls.receipt, open |-> calls.open]
         /\ calls.made \in [Calls -> Int] /\ calls.did \in [Calls -> Nat]
         /\ calls.receipt \in [Calls -> [b : Nat, until : Int]] /\ calls.open = [h \in Handlers |-> calls.open[h]]
         /\ trust = [clock |-> trust.clock, rows |-> trust.rows] /\ trust.clock \in Nat
  BY DEF ClientsInv, ClientRows

\* Steps that leave the requests and their keys alone; receipts may expire.
LEMMA KeysKept ==
  ASSUME ClientsInv, trust' = [clock |-> trust'.clock, rows |-> trust'.rows],
         trust'.clock \in Nat, trust'.clock >= trust.clock,
         calls' = calls \/ calls' = [calls EXCEPT !.receipt = LiveReceipts]
  PROVE  ClientRows' /\ Remembered' /\ OnceByKey' /\ EffectTrusted
<1> DEFINE r == calls'.receipt
<1>1. /\ calls' = [made |-> calls.made, did |-> calls.did, receipt |-> r, open |-> calls.open]
      /\ r \in [Calls -> [b : Nat, until : Int]]
      /\ \A x \in Calls : r[x] = calls.receipt[x] \/ (r[x] = NoReceipt /\ calls.receipt[x].until <= trust.clock)
  <2>1. CASE calls' = calls
    BY <2>1, CallsShape
  <2>2. CASE calls' = [calls EXCEPT !.receipt = LiveReceipts]
    <3>1. calls' = [made |-> calls.made, did |-> calls.did, receipt |-> LiveReceipts, open |-> calls.open]
      BY <2>2, CallsShape
    <3> QED
      BY <3>1, LiveReceiptsRemembered
  <2> QED
    BY <2>1, <2>2
<1> HIDE DEF r
<1>2. \A h \in Handlers : calls.open[h] = NoCallHere
         \/ (HandledRow(calls.open[h]) /\ calls.made[<<calls.open[h].d, calls.open[h].k>>] # -1)
  BY DEF ClientsInv, ClientRows
<1> QED
  BY <1>1, <1>2, CallsShape, NothingDone

\* Steps in which a handler's request changes: it ends, or it goes on waiting.
LEMMA HandlerMoves ==
  ASSUME ClientsInv, UNCHANGED trust, NEW h \in Handlers, NEW q,
         q = NoCallHere \/ (HandledRow(q) /\ calls.made[<<q.d, q.k>>] # -1),
         calls' = [calls EXCEPT !.open[h] = q]
  PROVE  ClientRows' /\ Remembered' /\ OnceByKey' /\ EffectTrusted
<1> DEFINE o == [calls.open EXCEPT ![h] = q]
<1>1. calls' = [made |-> calls.made, did |-> calls.did, receipt |-> calls.receipt, open |-> o]
  BY CallsShape
<1>2. o = [g \in Handlers |-> o[g]] /\ \A g \in Handlers : o[g] = IF g = h THEN q ELSE calls.open[g]
  BY CallsShape
<1> HIDE DEF o
<1>3. \A g \in Handlers : o[g] = NoCallHere \/ (HandledRow(o[g]) /\ calls.made[<<o[g].d, o[g].k>>] # -1)
  BY <1>2 DEF ClientsInv, ClientRows
<1> QED
  BY <1>1, <1>2, <1>3, CallsShape, NothingDone

LEMMA ArriveKept ==
  ASSUME ClientsInv, NEW h \in Handlers, NEW d \in Devices, NEW k \in Keys, NEW b \in 1..2, Arrive(h, d, k, b)
  PROVE  ClientRows' /\ Remembered' /\ OnceByKey' /\ EffectTrusted
<1> DEFINE x == <<d, k>>
           q == [d |-> d, k |-> k, b |-> b, token |-> trust.rows[d].token, step |-> "body"]
           m == IF calls.made[x] = -1 THEN [calls.made EXCEPT ![x] = trust.clock] ELSE calls.made
           o == [calls.open EXCEPT ![h] = q]
<1>1. calls' = [made |-> m, did |-> calls.did, receipt |-> calls.receipt, open |-> o] /\ UNCHANGED trust
  BY CallsShape DEF Arrive
<1>2. x \in Calls
  BY DEF Calls
<1>3. m \in [Calls -> Int] /\ m[x] # -1 /\ \A y \in Calls : calls.made[y] # -1 => m[y] = calls.made[y]
  BY SMTT(30), <1>2, CallsShape
<1>4. HandledRow(q) /\ <<q.d, q.k>> = x
  BY DEF HandledRow
<1> HIDE DEF q
<1>5. o = [g \in Handlers |-> o[g]] /\ \A g \in Handlers : o[g] = IF g = h THEN q ELSE calls.open[g]
  BY CallsShape
<1> HIDE DEF o, m, x
<1>6. \A g \in Handlers : o[g] = NoCallHere \/ (HandledRow(o[g]) /\ m[<<o[g].d, o[g].k>>] # -1)
  <2>1. ASSUME NEW g \in Handlers, g # h, o[g] # NoCallHere PROVE HandledRow(o[g]) /\ m[<<o[g].d, o[g].k>>] # -1
    <3>1. HandledRow(o[g]) /\ calls.made[<<o[g].d, o[g].k>>] # -1
      BY <1>5, <2>1 DEF ClientsInv, ClientRows
    <3>2. <<o[g].d, o[g].k>> \in Calls
      BY <3>1 DEF HandledRow, Calls
    <3> QED
      BY <1>3, <3>1, <3>2
  <2> QED
    BY <1>3, <1>4, <1>5, <2>1
<1>7. trust' = [clock |-> trust'.clock, rows |-> trust'.rows] /\ trust'.clock \in Nat /\ trust'.clock >= trust.clock
  BY <1>1, CallsShape
<1> QED
  BY <1>1, <1>3, <1>5, <1>6, <1>7, CallsShape, NothingDone

\* The transaction carries out a call that was not done, of a key still in use
\* and a device trusted now.
LEMMA CommitKept ==
  ASSUME ClientsInv, NEW h \in Handlers, NEW refused \in BOOLEAN, Commit(h, refused), calls.open[h] # NoCallHere
  PROVE  ClientRows' /\ Remembered' /\ OnceByKey' /\ EffectTrusted
<1> DEFINE q == calls.open[h]
           x == <<q.d, q.k>>
           o == [calls.open EXCEPT ![h] = NoCallHere]
           r == LiveReceipts
           done == Authenticates(q.d, q.token) /\ InWindow(x) /\ ~Replayed(x, q.step) /\ ~refused /\ feed.seq < EventBound
<1>1. /\ r \in [Calls -> [b : Nat, until : Int]]
      /\ \A y \in Calls : r[y] = calls.receipt[y] \/ (r[y] = NoReceipt /\ calls.receipt[y].until <= trust.clock)
  BY LiveReceiptsRemembered
<1>2. trust'.clock = trust.clock /\ trust' = [clock |-> trust'.clock, rows |-> trust'.rows]
      /\ trust'.clock \in Nat /\ trust'.clock >= trust.clock
  BY CallsShape DEF Commit
<1>t. trust'.clock = trust.clock
  BY <1>2
<1>3. HandledRow(q) /\ calls.made[x] # -1 /\ x \in Calls /\ q.b \in 1..2
  BY DEF ClientsInv, ClientRows, HandledRow, Calls
<1>4. o = [g \in Handlers |-> o[g]] /\ \A g \in Handlers : o[g] = IF g = h THEN NoCallHere ELSE calls.open[g]
  BY CallsShape
<1>5. \A g \in Handlers : o[g] = NoCallHere \/ (HandledRow(o[g]) /\ calls.made[<<o[g].d, o[g].k>>] # -1)
  BY <1>4 DEF ClientsInv, ClientRows
<1>6. CASE ~done
  <2>1. calls' = [made |-> calls.made, did |-> calls.did, receipt |-> r, open |-> o]
    BY <1>6, CallsShape DEF Commit
  <2> HIDE DEF r, o, done
  <2>2. calls.made \in [Calls -> Int] /\ \A y \in Calls : calls.made[y] # -1 => calls.made[y] = calls.made[y]
    BY CallsShape
  <2> QED
    BY <1>1, <1>2, <1>4, <1>5, <2>1, <2>2, NothingDone, Zenon
<1>7. CASE done
  <2> DEFINE m == calls.made
             receipt == [b |-> q.b, until |-> m[x] + RetryTime]
             n == [calls.did EXCEPT ![x] = calls.did[x] + 1]
             s == [r EXCEPT ![x] = receipt]
  <2>1. calls' = [made |-> m, did |-> n, receipt |-> s, open |-> o]
    <3> DEFINE free == [calls EXCEPT !.open[h] = NoCallHere, !.receipt = LiveReceipts]
    <3> HIDE DEF done, receipt, n, s, q
    <3>1. free = [made |-> m, did |-> calls.did, receipt |-> r, open |-> o]
      <4> DEFINE c == [calls EXCEPT !.open[h] = NoCallHere]
      <4>1. c = [made |-> m, did |-> calls.did, receipt |-> calls.receipt, open |-> o]
        BY CallsShape
      <4>2. free = [c EXCEPT !.receipt = LiveReceipts]
        BY CallsShape
      <4> HIDE DEF free, c, m, o
      <4> QED
        BY <4>1, <4>2
    <3>2. calls' = [free EXCEPT !.did[x] = @ + 1, !.receipt[x] = receipt]
      BY <1>7, Zenon DEF Commit, done, receipt, q
    <3> HIDE DEF free, m, r, o, x
    <3> QED
      BY <3>1, <3>2 DEF n, s
  <2>2. calls.did[x] = 0 /\ m[x] \in Int /\ RetryTime \in Nat
    <3>1. m[x] \in Int /\ RetryTime \in Nat /\ trust.clock \in Nat /\ calls.did[x] \in Nat
      BY <1>3, CallsShape, ClientsAssumption
    <3>2. m[x] > trust.clock - RetryTime /\ calls.receipt[x] = NoReceipt
      BY <1>7 DEF InWindow, Replayed
    <3>3. calls.did[x] <= 1 /\ (calls.did[x] = 1 /\ calls.receipt[x] = NoReceipt => m[x] + RetryTime <= trust.clock)
      BY <1>3 DEF ClientsInv, Remembered
    <3> HIDE DEF x, m
    <3> QED
      BY <3>1, <3>2, <3>3
  <2>3. receipt \in [b : Nat, until : Int] /\ receipt # NoReceipt /\ receipt.until = m[x] + RetryTime
    BY <1>3, <2>2 DEF NoReceipt
  <2>4. trust.rows[q.d].st = "active" /\ trust.rows[q.d].token > trust.clock
    BY <1>7 DEF Authenticates
  <2> HIDE DEF r, o, done, receipt
  <2>5. /\ n \in [Calls -> Nat] /\ s \in [Calls -> [b : Nat, until : Int]]
        /\ \A y \in Calls : n[y] = (IF y = x THEN 1 ELSE calls.did[y]) /\ s[y] = (IF y = x THEN receipt ELSE r[y])
    BY <1>1, <1>3, <2>2, <2>3, CallsShape
  <2> HIDE DEF n, s, m
  <2>6. calls'.made = m /\ calls'.did = n /\ calls'.receipt = s /\ calls'.open = o
    BY <2>1
  <2>7. ClientRows'
    <3>1. o \in [Handlers -> {o[g] : g \in Handlers}]
      BY <1>4
    <3>2. calls' \in [made : [Calls -> Int], did : [Calls -> Nat], receipt : [Calls -> [b : Nat, until : Int]],
                      open : [Handlers -> {o[g] : g \in Handlers}]]
      BY <2>1, <2>5, <3>1, CallsShape DEF m
    <3> QED
      BY <1>2, <1>5, <2>6, <3>2, CallsShape DEF ClientRows, m
  <2>8. Remembered'
    <3>1. ASSUME NEW y \in Calls
          PROVE  /\ n[y] <= 1
                 /\ n[y] = 1 => /\ m[y] # -1
                                /\ s[y] = NoReceipt => m[y] + RetryTime <= trust.clock
                                /\ s[y] # NoReceipt => s[y].until = m[y] + RetryTime
      <4>1. CASE y = x
        BY <1>3, <2>3, <2>5, <4>1 DEF m
      <4>2. CASE y # x
        <5>1. n[y] = calls.did[y] /\ s[y] = r[y]
          BY <2>5, <4>2
        <5>2. /\ calls.did[y] <= 1
              /\ calls.did[y] = 1 => /\ m[y] # -1
                                     /\ calls.receipt[y] = NoReceipt => m[y] + RetryTime <= trust.clock
                                     /\ calls.receipt[y] # NoReceipt => calls.receipt[y].until = m[y] + RetryTime
          BY DEF ClientsInv, Remembered, m
        <5>3. /\ m[y] \in Int /\ calls.did[y] \in Nat /\ RetryTime \in Nat /\ trust.clock \in Nat
              /\ r[y] = calls.receipt[y] \/ (r[y] = NoReceipt /\ calls.receipt[y].until <= trust.clock)
          BY <1>1, CallsShape, ClientsAssumption DEF m
        <5> QED
          BY <5>1, <5>2, <5>3
      <4> QED
        BY <4>1, <4>2
    <3>2. \A y \in Calls :
             /\ calls'.did[y] <= 1
             /\ calls'.did[y] = 1 => /\ calls'.made[y] # -1
                                     /\ calls'.receipt[y] = NoReceipt => calls'.made[y] + RetryTime <= trust'.clock
                                     /\ calls'.receipt[y] # NoReceipt => calls'.receipt[y].until = calls'.made[y] + RetryTime
      BY <1>t, <2>6, <3>1
    <3> QED
      BY <3>2 DEF Remembered, Calls
  <2>9. OnceByKey'
    BY <2>6, <2>8 DEF Remembered, OnceByKey, Calls
  <2>10. EffectTrusted
    <3>1. ASSUME NEW d \in Devices, NEW k \in Keys, calls'.did[<<d, k>>] # calls.did[<<d, k>>] PROVE d = q.d
      <4>1. <<d, k>> \in Calls
        BY DEF Calls
      <4> QED
        BY <2>5, <2>6, <3>1, <4>1
    <3> QED
      BY <2>4, <3>1 DEF EffectTrusted
  <2> QED
    BY <2>7, <2>8, <2>9, <2>10
<1> QED
  BY <1>6, <1>7

LEMMA CallsKept ==
  ASSUME ClientsInv, ClientsNext
  PROVE  ClientRows' /\ Remembered' /\ OnceByKey' /\ EffectTrusted
<1> DEFINE Kept == ClientRows' /\ Remembered' /\ OnceByKey' /\ EffectTrusted
           KeysStay == /\ trust' = [clock |-> trust'.clock, rows |-> trust'.rows]
                       /\ trust'.clock \in Nat /\ trust'.clock >= trust.clock
                       /\ calls' = calls \/ calls' = [calls EXCEPT !.receipt = LiveReceipts]
<1>k. KeysStay => Kept
  BY KeysKept
<1>t. ASSUME NEW rows, trust' = [trust EXCEPT !.rows = rows] PROVE trust' = [clock |-> trust'.clock, rows |-> trust'.rows]
                                                                /\ trust'.clock = trust.clock
  BY <1>t, CallsShape
<1>n. trust.clock \in Nat /\ trust = [clock |-> trust.clock, rows |-> trust.rows]
  BY CallsShape
<1>1. ASSUME NEW d \in Devices, NEW r, Cleanup(d, r) PROVE KeysStay
  <2>1. trust' = [trust EXCEPT !.rows = [CleanRows EXCEPT ![d] = r]]
    BY <1>1 DEF Cleanup
  <2> QED
    BY <1>1, <1>t, <1>n, <2>1 DEF Cleanup
<1>2. ASSUME NEW d \in Devices, CreatePairing(d) \/ ClaimPairing(d) \/ IssueChallenge(d) PROVE Kept
  BY <1>1, <1>2, <1>k DEF CreatePairing, ClaimPairing, IssueChallenge
<1>3. ASSUME NEW d \in Devices, NEW yes \in BOOLEAN, DecideDevice(d, yes) \/ IssueToken(d, yes) PROVE Kept
  BY <1>1, <1>3, <1>k DEF DecideDevice, IssueToken
<1>4. ASSUME NEW d \in Devices, RevokeDevice(d) PROVE Kept
  <2>1. trust' = [trust EXCEPT !.rows = [trust.rows EXCEPT ![d] = [@ EXCEPT !.st = "revoked", !.token = 0, !.challenge = 0]]]
    BY <1>4, <1>n DEF RevokeDevice
  <2>2. KeysStay
    BY <1>4, <1>t, <1>n, <2>1 DEF RevokeDevice
  <2> QED
    BY <1>k, <2>2
<1>5. ASSUME UNCHANGED <<trust, calls>> PROVE Kept
  BY <1>5, <1>k, <1>n
<1>6. ASSUME NEW d \in Devices, Pump(d) \/ Drains(d) \/ Receives(d) \/ Disconnects(d) \/ OpenStream(d, TRUE) \/ OpenStream(d, FALSE)
      PROVE  Kept
  BY <1>5, <1>6 DEF Pump, Drains, Receives, Disconnects, OpenStream
<1>7. ASSUME Happens PROVE Kept
  BY <1>5, <1>7 DEF Happens
<1>8. ASSUME TimedCleanup PROVE Kept
  BY <1>8, <1>k, <1>t, <1>n DEF TimedCleanup
<1>9. ASSUME ClientClockTicks PROVE Kept
  <2>1. trust' = [trust EXCEPT !.clock = trust.clock + 1] /\ calls' = calls
    BY <1>9 DEF ClientClockTicks
  <2>2. trust' = [clock |-> trust.clock + 1, rows |-> trust.rows]
    BY <1>n, <2>1
  <2>3. KeysStay
    BY <1>n, <2>1, <2>2
  <2> QED
    BY <1>k, <2>3
<1>10. ASSUME ClientsRestart PROVE Kept
  <2> DEFINE o == [h \in Handlers |-> NoCallHere]
  <2>1. trust' = [trust EXCEPT !.rows = CleanRows]
        /\ calls' = [calls EXCEPT !.open = o, !.receipt = LiveReceipts]
    BY <1>10 DEF ClientsRestart
  <2>2. calls' = [made |-> calls.made, did |-> calls.did, receipt |-> LiveReceipts, open |-> o]
    BY <2>1, CallsShape
  <2>3. o = [h \in Handlers |-> o[h]] /\ \A h \in Handlers : o[h] = NoCallHere
    OBVIOUS
  <2>4. trust' = [clock |-> trust'.clock, rows |-> trust'.rows] /\ trust'.clock \in Nat /\ trust'.clock >= trust.clock
    BY <1>t, <1>n, <2>1
  <2> HIDE DEF o
  <2>5. calls'.made = calls.made /\ calls'.receipt = LiveReceipts /\ calls'.open = o
    BY <2>2
  <2>6. calls.made \in [Calls -> Int]
    BY CallsShape
  <2> QED
    BY <2>2, <2>3, <2>4, <2>5, <2>6, LiveReceiptsRemembered, NothingDone
<1>11. ASSUME NEW h \in Handlers, Fails(h) PROVE Kept
  BY <1>11, HandlerMoves DEF Fails
<1>12. ASSUME NEW h \in Handlers, BodyArrives(h) \/ CatalogArrives(h) PROVE Kept
  <2>1. calls.open[h] # NoCallHere
    BY <1>12 DEF BodyArrives, CatalogArrives, NoCallHere
  <2>2. ASSUME NEW refused \in BOOLEAN, Commit(h, refused) PROVE Kept
    BY <2>1, <2>2, CommitKept
  <2>3. ASSUME calls' = [calls EXCEPT !.open[h].step = "catalog"], UNCHANGED trust PROVE Kept
    <3> DEFINE q == [calls.open[h] EXCEPT !.step = "catalog"]
    <3>1. HandledRow(calls.open[h]) /\ calls.made[<<calls.open[h].d, calls.open[h].k>>] # -1
      BY <2>1 DEF ClientsInv, ClientRows
    <3>2. q.d = calls.open[h].d /\ q.k = calls.open[h].k /\ HandledRow(q)
      BY <3>1 DEF HandledRow
    <3>3. calls' = [calls EXCEPT !.open[h] = q]
      BY <2>3
    <3> HIDE DEF q
    <3> QED
      BY <2>3, <3>1, <3>2, <3>3, HandlerMoves
  <2> QED
    BY <1>11, <1>12, <2>2, <2>3 DEF BodyArrives, CatalogArrives
<1>13. ASSUME NEW d \in Devices, NEW h \in Handlers, NEW k \in Keys, NEW b \in 1..2, Arrive(h, d, k, b) PROVE Kept
  BY <1>13, ArriveKept
<1> QED
  BY <1>2, <1>3, <1>4, <1>6, <1>7, <1>8, <1>9, <1>10, <1>12, <1>13 DEF ClientsNext

-----------------------------------------------------------------------------
(* The notifications.                                                      *)

LEMMA FeedShape ==
  ASSUME ClientsInv
  PROVE  /\ feed = [seq |-> feed.seq, stream |-> feed.stream, got |-> feed.got] /\ feed.seq \in Nat
         /\ feed.got \in [Devices -> Nat] /\ feed.stream \in [Devices -> {feed.stream[d] : d \in Devices}]
         /\ \A d \in Devices : StreamInOrder(feed.stream[d], feed.got[d])
<1> USE DEF ClientsInv, InOrder
<1>1. feed = [seq |-> feed.seq, stream |-> feed.stream, got |-> feed.got]
  OBVIOUS
<1> QED
  BY <1>1

\* A step of one device: its stream becomes s, and its client has g.
LEMMA OneStream ==
  ASSUME ClientsInv, NEW d \in Devices, NEW s, NEW g \in Nat, StreamInOrder(s, g),
         feed.stream[d].on /\ g # feed.got[d] => g = feed.got[d] + 1,
         feed' = [seq |-> feed.seq, stream |-> [feed.stream EXCEPT ![d] = s], got |-> [feed.got EXCEPT ![d] = g]]
  PROVE  InOrder' /\ NothingMissed
<1> DEFINE st == [feed.stream EXCEPT ![d] = s]
           gt == [feed.got EXCEPT ![d] = g]
<1>1. feed'.seq = feed.seq /\ feed'.stream = st /\ feed'.got = gt
  OBVIOUS
<1>2. /\ gt \in [Devices -> Nat] /\ st \in [Devices -> {st[e] : e \in Devices}]
      /\ \A e \in Devices : st[e] = (IF e = d THEN s ELSE feed.stream[e]) /\ gt[e] = (IF e = d THEN g ELSE feed.got[e])
  BY FeedShape
<1>3. feed' = [seq |-> feed.seq, stream |-> st, got |-> gt]
  OBVIOUS
<1> HIDE DEF st, gt
<1>4. \A e \in Devices : StreamInOrder(st[e], gt[e])
  BY <1>2, FeedShape
<1>5. InOrder'
  <2>1. feed.seq \in Nat
    BY FeedShape
  <2> QED
    BY <1>1, <1>2, <1>3, <1>4, <2>1 DEF InOrder
<1>6. NothingMissed
  BY <1>1, <1>2 DEF NothingMissed
<1> QED
  BY <1>5, <1>6

LEMMA FeedUnchanged == ASSUME ClientsInv, UNCHANGED feed PROVE InOrder' /\ NothingMissed
<1>1. InOrder'
  BY DEF ClientsInv, InOrder
<1>2. NothingMissed
  BY DEF NothingMissed
<1> QED
  BY <1>1, <1>2

\* The shape of a step that writes one stream or moves its client on.
LEMMA FeedWritten ==
  ASSUME ClientsInv, NEW d \in Devices, NEW s, NEW g
  PROVE  /\ [feed EXCEPT !.stream[d] = s]
                 = [seq |-> feed.seq, stream |-> [feed.stream EXCEPT ![d] = s], got |-> [feed.got EXCEPT ![d] = feed.got[d]]]
         /\ [feed EXCEPT !.got[d] = g, !.stream[d] = s]
                 = [seq |-> feed.seq, stream |-> [feed.stream EXCEPT ![d] = s], got |-> [feed.got EXCEPT ![d] = g]]
<1>1. /\ feed = [seq |-> feed.seq, stream |-> feed.stream, got |-> feed.got]
      /\ feed.got = [feed.got EXCEPT ![d] = feed.got[d]]
  BY FeedShape
<1>2. [feed EXCEPT !.stream[d] = s]
        = [seq |-> feed.seq, stream |-> [feed.stream EXCEPT ![d] = s], got |-> [feed.got EXCEPT ![d] = feed.got[d]]]
  BY <1>1
<1>3. [feed EXCEPT !.got[d] = g] = [seq |-> feed.seq, stream |-> feed.stream, got |-> [feed.got EXCEPT ![d] = g]]
  BY <1>1
<1>4. [feed EXCEPT !.got[d] = g, !.stream[d] = s]
        = [seq |-> feed.seq, stream |-> [feed.stream EXCEPT ![d] = s], got |-> [feed.got EXCEPT ![d] = g]]
  <2> DEFINE f == [feed EXCEPT !.got[d] = g]
             gt == [feed.got EXCEPT ![d] = g]
             st == [feed.stream EXCEPT ![d] = s]
  <2>1. f = [seq |-> feed.seq, stream |-> feed.stream, got |-> gt]
    BY <1>3
  <2>2. [feed EXCEPT !.got[d] = g, !.stream[d] = s] = [f EXCEPT !.stream[d] = s]
    BY <1>1
  <2>3. f.stream = feed.stream
    BY <2>1
  <2>4. [f EXCEPT !.stream[d] = s] = [f EXCEPT !.stream = st]
    BY <2>3
  <2> HIDE DEF f, gt, st
  <2>5. [f EXCEPT !.stream = st] = [seq |-> feed.seq, stream |-> st, got |-> gt]
    BY <2>1
  <2> QED
    BY <2>2, <2>4, <2>5 DEF gt, st
<1> QED
  BY <1>2, <1>4

LEMMA StreamOpened ==
  ASSUME NEW c \in Nat, NEW t
  PROVE  StreamInOrder([NoStream EXCEPT !.on = TRUE, !.cursor = c, !.token = t], c)
<1> DEFINE s == NoStream
           r == [s EXCEPT !.on = TRUE, !.cursor = c, !.token = t]
<1>1. s \in [on : BOOLEAN, cursor : Nat, token : {0}, pipe : Seq(Nat), blocked : BOOLEAN] /\ s.pipe = <<>>
  BY NoStreamInOrder DEF StreamInOrder, NoStream
<1> HIDE DEF s
<1>2. /\ r \in [on : BOOLEAN, cursor : Nat, token : {t}, pipe : Seq(Nat), blocked : BOOLEAN]
      /\ r.token = t /\ r.pipe = <<>> /\ r.cursor = c
  BY <1>1
<1>3. DOMAIN <<>> = {} /\ Len(<<>>) = 0
  OBVIOUS
<1> HIDE DEF r
<1>4. StreamInOrder(r, c)
  BY <1>2, <1>3 DEF StreamInOrder
<1> QED
  BY <1>4 DEF r, s

LEMMA OpenStreamKept ==
  ASSUME ClientsInv, NEW d \in Devices, NEW resumes \in BOOLEAN, OpenStream(d, resumes)
  PROVE  InOrder' /\ NothingMissed
<1> DEFINE cursor == IF resumes THEN feed.got[d] ELSE feed.seq
           s == [NoStream EXCEPT !.on = TRUE, !.cursor = cursor, !.token = trust.rows[d].token]
<1>1. cursor \in Nat /\ ~feed.stream[d].on
  BY FeedShape DEF OpenStream
<1>2. feed' = [seq |-> feed.seq, stream |-> [feed.stream EXCEPT ![d] = s], got |-> [feed.got EXCEPT ![d] = cursor]]
  <2>1. feed' = [feed EXCEPT !.got[d] = cursor, !.stream[d] = s]
    BY DEF OpenStream
  <2> HIDE DEF s, cursor
  <2> QED
    BY ZenonT(40), <2>1, FeedWritten
<1>3. StreamInOrder(s, cursor)
  <2> HIDE DEF cursor
  <2> QED
    BY <1>1, StreamOpened
<1> HIDE DEF cursor, s
<1> QED
  BY <1>1, <1>2, <1>3, OneStream

\* What is written after a gapless pipe leaves it gapless, and so does reading its head.
LEMMA PipeExtended ==
  ASSUME NEW p \in Seq(Nat), NEW g \in Nat, \A i \in DOMAIN p : p[i] = g + i, NEW n \in Nat,
         NEW new, new = [k \in 1..n |-> g + Len(p) + k]
  PROVE  /\ p \o new \in Seq(Nat) /\ Len(p \o new) = Len(p) + n
         /\ \A i \in DOMAIN (p \o new) : (p \o new)[i] = g + i
<1>1. Len(p) \in Nat /\ \A i \in 1..Len(p) : p[i] = g + i
  BY LenProperties
<1>2. new \in Seq(Nat) /\ Len(new) = n /\ \A k \in 1..n : new[k] = g + Len(p) + k
  <2>1. new \in [1..n -> Nat]
    BY <1>1
  <2>2. new \in Seq(Nat)
    BY <2>1, IsASeq
  <2> QED
    BY <2>1, <2>2, LenProperties
<1>3. /\ p \o new \in Seq(Nat) /\ Len(p \o new) = Len(p) + n
      /\ \A i \in 1..(Len(p) + n) : (p \o new)[i] = IF i <= Len(p) THEN p[i] ELSE new[i - Len(p)]
  BY <1>2, ConcatProperties
<1>4. DOMAIN (p \o new) = 1..(Len(p) + n)
  BY <1>3, LenProperties
<1>5. ASSUME NEW i \in 1..(Len(p) + n) PROVE (p \o new)[i] = g + i
  <2>1. CASE i <= Len(p)
    <3>1. i \in 1..Len(p) /\ (p \o new)[i] = p[i]
      BY <1>1, <1>3, <2>1
    <3> QED
      BY <1>1, <3>1
  <2>2. CASE ~(i <= Len(p))
    <3>1. i - Len(p) \in 1..n /\ (p \o new)[i] = new[i - Len(p)]
      BY <1>1, <1>3, <2>2
    <3>2. new[i - Len(p)] = g + Len(p) + (i - Len(p))
      BY <1>2, <3>1
    <3> QED
      BY <1>1, <3>1, <3>2
  <2> QED
    BY <2>1, <2>2
<1> QED
  BY <1>3, <1>4, <1>5

LEMMA PipeRead ==
  ASSUME NEW p \in Seq(Nat), NEW g \in Nat, p # <<>>, \A i \in DOMAIN p : p[i] = g + i
  PROVE  /\ Head(p) = g + 1 /\ Tail(p) \in Seq(Nat) /\ Len(p) = Len(Tail(p)) + 1
         /\ Len(Tail(p)) \in Nat /\ \A i \in DOMAIN Tail(p) : Tail(p)[i] = (g + 1) + i
<1>1. Len(p) \in Nat /\ Len(p) # 0 /\ DOMAIN p = 1..Len(p)
  BY LenProperties, EmptySeq
<1>2. Head(p) = p[1] /\ Tail(p) \in Seq(Nat) /\ Len(Tail(p)) = Len(p) - 1
  BY HeadTailProperties
<1>3. \A i \in 1..(Len(p) - 1) : Tail(p)[i] = p[i + 1]
  BY HeadTailProperties
<1>4. DOMAIN Tail(p) = 1..(Len(p) - 1)
  BY <1>2, LenProperties
<1>5. ASSUME NEW i \in 1..(Len(p) - 1) PROVE Tail(p)[i] = (g + 1) + i
  <2>1. i + 1 \in DOMAIN p /\ i \in Nat
    BY <1>1
  <2>2. p[i + 1] = g + (i + 1)
    BY <2>1
  <2> QED
    BY <1>3, <2>1, <2>2
<1>6. 1 \in DOMAIN p
  BY <1>1
<1> QED
  BY <1>1, <1>2, <1>4, <1>5, <1>6

LEMMA StreamExtended ==
  ASSUME NEW s, NEW g \in Nat, StreamInOrder(s, g), s.on, NEW n \in Nat, NEW b \in BOOLEAN
  PROVE  StreamInOrder([s EXCEPT !.cursor = s.cursor + n, !.blocked = b,
                                 !.pipe = s.pipe \o [k \in 1..n |-> s.cursor + k]], g)
<1> DEFINE p == s.pipe \o [k \in 1..n |-> s.cursor + k]
           r == [s EXCEPT !.cursor = s.cursor + n, !.blocked = b, !.pipe = p]
<1>1. s.pipe \in Seq(Nat) /\ s.cursor = g + Len(s.pipe) /\ \A i \in DOMAIN s.pipe : s.pipe[i] = g + i
      /\ Len(s.pipe) \in Nat
  BY LenProperties DEF StreamInOrder
<1>2. p \in Seq(Nat) /\ Len(p) = Len(s.pipe) + n /\ \A i \in DOMAIN p : p[i] = g + i
  BY SMTT(30), <1>1, PipeExtended
<1>3. s.cursor + n \in Nat /\ s.cursor + n = g + (Len(s.pipe) + n)
  BY <1>1
<1> HIDE DEF p
<1>4. /\ r \in [on : BOOLEAN, cursor : Nat, token : {s.token}, pipe : Seq(Nat), blocked : BOOLEAN]
      /\ r.token = s.token /\ r.pipe = p /\ r.cursor = s.cursor + n
  BY <1>2, <1>3 DEF StreamInOrder
<1> HIDE DEF r
<1>5. StreamInOrder(r, g)
  BY <1>2, <1>3, <1>4 DEF StreamInOrder
<1> QED
  BY <1>5 DEF r, p

LEMMA StreamRead ==
  ASSUME NEW s, NEW g \in Nat, StreamInOrder(s, g), s.pipe # <<>>
  PROVE  Head(s.pipe) = g + 1 /\ StreamInOrder([s EXCEPT !.pipe = Tail(s.pipe)], g + 1)
<1> DEFINE r == [s EXCEPT !.pipe = Tail(s.pipe)]
           p == Tail(s.pipe)
<1>1. s.pipe \in Seq(Nat) /\ \A i \in DOMAIN s.pipe : s.pipe[i] = g + i
  BY DEF StreamInOrder
<1>2. /\ Head(s.pipe) = g + 1 /\ p \in Seq(Nat) /\ Len(s.pipe) = Len(p) + 1 /\ Len(p) \in Nat
      /\ \A i \in DOMAIN p : p[i] = (g + 1) + i
  BY <1>1, PipeRead
<1> HIDE DEF p
<1>3. /\ r \in [on : BOOLEAN, cursor : Nat, token : {s.token}, pipe : Seq(Nat), blocked : BOOLEAN]
      /\ r.token = s.token /\ r.pipe = p /\ r.cursor = s.cursor /\ r.on = s.on
  BY <1>2 DEF StreamInOrder, p
<1>4. s.on => s.cursor = (g + 1) + Len(p)
  BY <1>2 DEF StreamInOrder
<1> HIDE DEF r
<1>5. StreamInOrder(r, g + 1)
  BY <1>2, <1>3, <1>4 DEF StreamInOrder
<1> QED
  BY <1>2, <1>5 DEF r

\* pump(): what it writes follows what was written before.
LEMMA PumpKept == ASSUME ClientsInv, NEW d \in Devices, Pump(d) PROVE InOrder' /\ NothingMissed
<1> DEFINE s == feed.stream[d]
           g == feed.got[d]
           written(last) == [s EXCEPT !.cursor = last, !.blocked = last < feed.seq,
                                      !.pipe = @ \o [n \in 1..(last - s.cursor) |-> s.cursor + n]]
<1>1. StreamInOrder(s, g) /\ g \in Nat /\ feed.seq \in Nat /\ s.cursor \in Nat /\ s.on
  BY FeedShape DEF Pump, StreamInOrder
<1>2. Retained(s.cursor) => (IF s.cursor > Oldest THEN s.cursor ELSE Oldest) = s.cursor
  <2>1. Oldest \in Int
    BY <1>1, ClientsAssumption DEF Oldest
  <2> HIDE DEF s
  <2> QED
    BY <1>1, <2>1 DEF Retained
<1>3. \/ feed' = [feed EXCEPT !.stream[d].on = FALSE]
      \/ \E last \in (s.cursor + 1)..feed.seq : feed' = [feed EXCEPT !.stream[d] = written(last)]
  <2>1. ASSUME Retained(s.cursor), NEW next, next = (IF s.cursor > Oldest THEN s.cursor ELSE Oldest),
               NEW last \in (next + 1)..feed.seq,
               feed' = [feed EXCEPT !.stream[d] = [s EXCEPT !.cursor = last, !.blocked = last < feed.seq,
                                                            !.pipe = @ \o [n \in 1..(last - next) |-> next + n]]]
        PROVE  \E l \in (s.cursor + 1)..feed.seq : feed' = [feed EXCEPT !.stream[d] = written(l)]
    <3>1. next = s.cursor
      BY <1>2, <2>1
    <3> QED
      BY <2>1, <3>1
  <2> QED
    BY <2>1, Zenon DEF Pump
<1>4. CASE feed' = [feed EXCEPT !.stream[d].on = FALSE]
  <2> DEFINE r == [s EXCEPT !.on = FALSE]
  <2>1. StreamInOrder(r, g)
    <3> HIDE DEF s, g
    <3> QED
      BY <1>1 DEF StreamInOrder
  <2>2. feed' = [feed EXCEPT !.stream[d] = r]
    BY <1>4
  <2> HIDE DEF r
  <2> QED
    BY <1>1, <2>1, <2>2, FeedWritten, OneStream
<1>5. ASSUME NEW last \in (s.cursor + 1)..feed.seq, feed' = [feed EXCEPT !.stream[d] = written(last)]
      PROVE  InOrder' /\ NothingMissed
  <2> DEFINE n == last - s.cursor
  <2>1. n \in Nat /\ last = s.cursor + n /\ (last < feed.seq) \in BOOLEAN
    <3> HIDE DEF s
    <3> QED
      BY <1>1
  <2>2. StreamInOrder([s EXCEPT !.cursor = s.cursor + n, !.blocked = (last < feed.seq),
                                !.pipe = s.pipe \o [k \in 1..n |-> s.cursor + k]], g)
    <3> HIDE DEF n, s, g
    <3> QED
      BY <1>1, <2>1, StreamExtended
  <2>3. StreamInOrder(written(last), g)
    BY <2>1, <2>2
  <2> HIDE DEF written
  <2> QED
    BY <1>1, <1>5, <2>3, FeedWritten, OneStream
<1> QED
  BY <1>3, <1>4, <1>5

LEMMA ReceivesKept == ASSUME ClientsInv, NEW d \in Devices, Receives(d) PROVE InOrder' /\ NothingMissed
<1> DEFINE s == feed.stream[d]
           g == feed.got[d]
           r == [s EXCEPT !.pipe = Tail(s.pipe)]
<1>1. StreamInOrder(s, g) /\ g \in Nat /\ s.pipe # <<>>
  BY FeedShape DEF Receives
<1>2. Head(s.pipe) = g + 1 /\ StreamInOrder(r, g + 1)
  BY <1>1, StreamRead
<1> DEFINE h == g + 1
<1>3. feed' = [feed EXCEPT !.got[d] = h, !.stream[d] = r]
  BY <1>2 DEF Receives
<1>4. h \in Nat /\ h = feed.got[d] + 1
  BY <1>1
<1>5. StreamInOrder(r, h) /\ (feed.stream[d].on /\ h # feed.got[d] => h = feed.got[d] + 1)
  BY <1>2, <1>4
<1> HIDE DEF r, h, s, g
<1>6. feed' = [seq |-> feed.seq, stream |-> [feed.stream EXCEPT ![d] = r], got |-> [feed.got EXCEPT ![d] = h]]
  BY ZenonT(40), <1>3, FeedWritten
<1> QED
  BY <1>4, <1>5, <1>6, OneStream

LEMMA FeedKept == ASSUME ClientsInv, ClientsNext PROVE InOrder' /\ NothingMissed
<1> DEFINE Kept == InOrder' /\ NothingMissed
<1>1. UNCHANGED feed => Kept
  BY FeedUnchanged
<1>2. ASSUME NEW d \in Devices, Drains(d) PROVE Kept
  <2> DEFINE r == [feed.stream[d] EXCEPT !.blocked = FALSE]
  <2>1. StreamInOrder(r, feed.got[d])
    BY FeedShape DEF StreamInOrder
  <2>2. feed' = [seq |-> feed.seq, stream |-> [feed.stream EXCEPT ![d] = r], got |-> [feed.got EXCEPT ![d] = feed.got[d]]]
    BY <1>2, FeedShape DEF Drains
  <2> HIDE DEF r
  <2> QED
    BY <2>1, <2>2, FeedShape, OneStream
<1>3. ASSUME NEW d \in Devices, Disconnects(d) PROVE Kept
  <2>1. feed' = [seq |-> feed.seq, stream |-> [feed.stream EXCEPT ![d] = NoStream], got |-> [feed.got EXCEPT ![d] = feed.got[d]]]
    BY <1>3, FeedShape DEF Disconnects
  <2> QED
    BY <2>1, FeedShape, NoStreamInOrder, OneStream
<1>4. ASSUME feed' = [feed EXCEPT !.seq = feed.seq + 1] PROVE Kept
  <2>1. feed' = [seq |-> feed.seq + 1, stream |-> feed.stream, got |-> feed.got]
    BY <1>4, FeedShape
  <2>2. feed'.seq = feed.seq + 1 /\ feed'.stream = feed.stream /\ feed'.got = feed.got /\ feed.seq + 1 \in Nat
    BY <2>1, FeedShape
  <2>3. InOrder'
    BY <2>1, <2>2, FeedShape DEF InOrder
  <2> QED
    BY <2>2, <2>3 DEF NothingMissed
<1>5. ASSUME ClientsRestart PROVE Kept
  <2> DEFINE st == [d \in Devices |-> NoStream]
  <2>1. feed' = [seq |-> feed.seq, stream |-> st, got |-> feed.got]
    BY <1>5, FeedShape DEF ClientsRestart
  <2>2. \A d \in Devices : st[d] = NoStream
    OBVIOUS
  <2>3. st \in [Devices -> {st[d] : d \in Devices}]
    OBVIOUS
  <2> HIDE DEF st
  <2>4. feed'.seq = feed.seq /\ feed'.stream = st /\ feed'.got = feed.got
    BY <2>1
  <2>5. \A d \in Devices : StreamInOrder(st[d], feed.got[d])
    BY <2>2, FeedShape, NoStreamInOrder
  <2>6. InOrder'
    BY <2>1, <2>3, <2>4, <2>5, FeedShape DEF InOrder
  <2> QED
    BY <2>4, <2>6 DEF NothingMissed
<1>6. ASSUME NEW h \in Handlers, NEW refused \in BOOLEAN, Commit(h, refused) PROVE Kept
  BY <1>1, <1>4, <1>6 DEF Commit
<1>7. ASSUME NEW h \in Handlers, BodyArrives(h) \/ CatalogArrives(h) PROVE Kept
  BY <1>1, <1>6, <1>7 DEF BodyArrives, CatalogArrives, Fails
<1>8. ASSUME NEW d \in Devices, CreatePairing(d) \/ ClaimPairing(d) \/ RevokeDevice(d) \/ IssueChallenge(d) PROVE Kept
  BY <1>1, <1>8 DEF CreatePairing, ClaimPairing, RevokeDevice, IssueChallenge, Cleanup
<1>9. ASSUME NEW d \in Devices, NEW yes \in BOOLEAN, DecideDevice(d, yes) \/ IssueToken(d, yes) PROVE Kept
  BY <1>1, <1>9 DEF DecideDevice, IssueToken, Cleanup
<1>10. ASSUME NEW d \in Devices, NEW h \in Handlers, NEW k \in Keys, NEW b \in 1..2, Arrive(h, d, k, b) PROVE Kept
  BY <1>1, <1>10 DEF Arrive
<1>11. Happens => Kept
  BY <1>4 DEF Happens
<1>12. TimedCleanup \/ ClientClockTicks => Kept
  BY <1>1 DEF TimedCleanup, ClientClockTicks
<1> QED
  BY <1>2, <1>3, <1>5, <1>7, <1>8, <1>9, <1>10, <1>11, <1>12, PumpKept, ReceivesKept, OpenStreamKept DEF ClientsNext

LEMMA ClientsSteps == ClientsInv /\ [ClientsNext]_clientVars => ClientsInv' /\ [ClientsTellStep]_clientVars
<1> SUFFICES ASSUME ClientsInv, [ClientsNext]_clientVars PROVE ClientsInv' /\ [ClientsTellStep]_clientVars
  OBVIOUS
<1>1. CASE ClientsNext
  BY <1>1, CallsKept, FeedKept DEF ClientsInv, ClientsTellStep
<1>2. CASE UNCHANGED clientVars
  <2>1. ClientsInv'
    BY <1>2 DEF clientVars, ClientsInv, ClientRows, Remembered, InOrder, HandledRow, Calls
  <2> QED
    BY <1>2, <2>1
<1> QED
  BY <1>1, <1>2

-----------------------------------------------------------------------------
(* The types of the clients' part, with what ClientsInv says of the rows.  *)

ClientsTyped == ClientsInv /\ ClientsTypeOK

LEMMA HorizonsHold ==
  /\ 0 \in Horizons /\ Horizons \subseteq Nat
  /\ \A t \in 0..ClientClock : /\ t + PairingTime \in Horizons /\ t + ChallengeTime \in Horizons
                               /\ t + TokenTime \in Horizons
  /\ \A t \in -1..ClientClock : t + RetryTime \in Horizons
  BY ClientsAssumption DEF Horizons

LEMMA NoStreamTyped == NoStream \in StreamRow
<1>1. NoStream = [on |-> FALSE, cursor |-> 0, token |-> 0, pipe |-> <<>>, blocked |-> FALSE]
      /\ <<>> \in Seq(1..EventBound) /\ 0 \in 0..EventBound /\ 0 \in Horizons
  BY HorizonsHold, EmptySeq, ClientsAssumption DEF NoStream
<1> QED
  BY <1>1 DEF StreamRow

LEMMA CleanRowTyped == ASSUME NEW r \in TrustRow PROVE CleanRow(r) \in TrustRow
<1> DEFINE over == r.pairing \in {"open", "claimed"} /\ r.until <= trust.clock
           p == IF over THEN "expired" ELSE r.pairing
           s == IF over /\ r.st = "pending" THEN "denied" ELSE r.st
           c == IF r.challenge <= trust.clock THEN 0 ELSE r.challenge
           t == IF r.token <= trust.clock THEN 0 ELSE r.token
<1>1. /\ p \in {"none", "open", "claimed", "confirmed", "denied", "expired"}
      /\ s \in {"none", "pending", "active", "denied", "revoked"} /\ c \in Horizons /\ t \in Horizons
  BY HorizonsHold DEF TrustRow
<1>2. CleanRow(r) = [r EXCEPT !.pairing = p, !.st = s, !.challenge = c, !.token = t]
  BY DEF CleanRow
<1> HIDE DEF p, s, c, t
<1> QED
  BY <1>1, <1>2 DEF TrustRow

\* The rows, the calls and the feed apart.
TrustTyped(t) == t.clock \in 0..ClientClock /\ t.rows \in [Devices -> TrustRow]
CallsTyped(c) ==
    /\ c.made \in [Calls -> -1..ClientClock] /\ c.did \in [Calls -> 0..2]
    /\ c.receipt \in [Calls -> [b : 0..2, until : Horizons]] /\ c.open \in [Handlers -> Handled]
FeedTyped(f) == f.seq \in 0..EventBound /\ f.stream \in [Devices -> StreamRow] /\ f.got \in [Devices -> 0..EventBound]

LEMMA ThreeTyped == ClientsTypeOK <=> TrustTyped(trust) /\ CallsTyped(calls) /\ FeedTyped(feed)
  BY DEF ClientsTypeOK, TrustTyped, CallsTyped, FeedTyped, Calls
LEMMA ThreeTypedNext == ClientsTypeOK' <=> TrustTyped(trust') /\ CallsTyped(calls') /\ FeedTyped(feed')
  BY DEF ClientsTypeOK, TrustTyped, CallsTyped, FeedTyped, Calls

\* The three are records.
LEMMA ThreeRecords ==
  ASSUME ClientsInv
  PROVE  /\ trust = [clock |-> trust.clock, rows |-> trust.rows]
         /\ calls = [made |-> calls.made, did |-> calls.did, receipt |-> calls.receipt, open |-> calls.open]
         /\ feed = [seq |-> feed.seq, stream |-> feed.stream, got |-> feed.got]
  BY DEF ClientsInv, ClientRows, InOrder

LEMMA CleanTyped ==
  ASSUME ClientsTyped
  PROVE  /\ CleanRows \in [Devices -> TrustRow]
         /\ LiveReceipts \in [Calls -> [b : 0..2, until : Horizons]]
         /\ \A rows \in [Devices -> TrustRow] : TrustTyped([trust EXCEPT !.rows = rows])
         /\ CallsTyped([calls EXCEPT !.receipt = LiveReceipts])
         /\ \A open \in [Handlers -> Handled] : CallsTyped([calls EXCEPT !.open = open, !.receipt = LiveReceipts])
<1>1. TrustTyped(trust) /\ CallsTyped(calls) /\ ClientsInv
  BY ThreeTyped DEF ClientsTyped
<1>2. CleanRows \in [Devices -> TrustRow]
  BY <1>1, CleanRowTyped DEF CleanRows, TrustTyped
<1>3. LiveReceipts \in [Calls -> [b : 0..2, until : Horizons]]
  <2>1. NoReceipt \in [b : 0..2, until : Horizons]
    BY HorizonsHold DEF NoReceipt
  <2> QED
    BY <1>1, <2>1 DEF LiveReceipts, CallsTyped, Calls
<1>4. \A rows \in [Devices -> TrustRow] : TrustTyped([trust EXCEPT !.rows = rows])
  BY <1>1, ThreeRecords DEF TrustTyped
<1> DEFINE L == LiveReceipts
<1> HIDE DEF L
<1>5. L \in [Calls -> [b : 0..2, until : Horizons]]
  BY <1>3 DEF L
<1>6. CallsTyped([calls EXCEPT !.receipt = L])
  BY <1>1, <1>5, ThreeRecords DEF CallsTyped
<1>7. \A open \in [Handlers -> Handled] : CallsTyped([calls EXCEPT !.open = open, !.receipt = L])
  BY <1>1, <1>5, ThreeRecords DEF CallsTyped
<1> QED
  BY <1>2, <1>3, <1>4, <1>6, <1>7 DEF L

\* cleanup() and a new row of a device.
LEMMA CleanupTyped ==
  ASSUME ClientsTyped, NEW d \in Devices, NEW r \in TrustRow, Cleanup(d, r)
  PROVE  ClientsTypeOK'
<1>1. [CleanRows EXCEPT ![d] = r] \in [Devices -> TrustRow]
  BY CleanTyped
<1>2. trust' = [trust EXCEPT !.rows = [CleanRows EXCEPT ![d] = r]] /\ calls' = [calls EXCEPT !.receipt = LiveReceipts] /\ feed' = feed
  BY DEF Cleanup
<1>3. FeedTyped(feed)
  BY ThreeTyped DEF ClientsTyped
<1> QED
  BY <1>1, <1>2, <1>3, CleanTyped, ThreeTypedNext

LEMMA TrustActionsTyped ==
  ASSUME ClientsTyped, NEW d \in Devices, NEW yes \in BOOLEAN,
         \/ CreatePairing(d) \/ ClaimPairing(d) \/ DecideDevice(d, yes) \/ IssueChallenge(d) \/ IssueToken(d, yes)
  PROVE  ClientsTypeOK'
<1> DEFINE r == CleanRow(trust.rows[d])
           t == trust.clock
<1>0. trust.rows[d] \in TrustRow /\ t \in 0..ClientClock
  BY DEF ClientsTyped, ClientsTypeOK
<1>1. r \in TrustRow
  BY <1>0, CleanRowTyped
<1>2. t + PairingTime \in Horizons /\ t + ChallengeTime \in Horizons /\ t + TokenTime \in Horizons /\ 0 \in Horizons
  BY <1>0, HorizonsHold
<1>3. CASE CreatePairing(d)
  <2> DEFINE q == trust.rows[d]
             h == t + PairingTime
  <2>1. Cleanup(d, [q EXCEPT !.pairing = "open", !.until = h])
    BY <1>3 DEF CreatePairing
  <2>2. h \in Horizons /\ q \in TrustRow
    BY <1>0, <1>2
  <2> HIDE DEF h, q
  <2>3. [q EXCEPT !.pairing = "open", !.until = h] \in TrustRow
    BY <2>2 DEF TrustRow
  <2> QED
    BY <2>1, <2>3, CleanupTyped
<1>4. CASE ClaimPairing(d)
  <2>1. Cleanup(d, [r EXCEPT !.pairing = "claimed", !.st = "pending"])
    BY <1>4 DEF ClaimPairing
  <2> HIDE DEF r
  <2>2. [r EXCEPT !.pairing = "claimed", !.st = "pending"] \in TrustRow
    BY <1>1 DEF TrustRow
  <2> QED
    BY <2>1, <2>2, CleanupTyped
<1>5. CASE DecideDevice(d, yes)
  <2> DEFINE s == IF yes THEN "active" ELSE "denied"
             p == IF yes THEN "confirmed" ELSE "denied"
  <2>1. Cleanup(d, [r EXCEPT !.st = s, !.pairing = p])
    BY <1>5 DEF DecideDevice
  <2>2. s \in {"active", "denied"} /\ p \in {"confirmed", "denied"}
    OBVIOUS
  <2> HIDE DEF r, s, p
  <2>3. [r EXCEPT !.st = s, !.pairing = p] \in TrustRow
    BY <1>1, <2>2 DEF TrustRow
  <2> QED
    BY <2>1, <2>3, CleanupTyped
<1>6. CASE IssueChallenge(d)
  <2> DEFINE h == t + ChallengeTime
  <2>1. Cleanup(d, [r EXCEPT !.challenge = h])
    BY <1>6 DEF IssueChallenge
  <2>2. h \in Horizons
    BY <1>2
  <2> HIDE DEF r, h
  <2>3. [r EXCEPT !.challenge = h] \in TrustRow
    BY <1>1, <2>2 DEF TrustRow
  <2> QED
    BY <2>1, <2>3, CleanupTyped
<1>7. CASE IssueToken(d, yes)
  <2> DEFINE h == IF yes /\ r.token = 0 THEN t + TokenTime ELSE r.token
  <2>1. Cleanup(d, [r EXCEPT !.challenge = 0, !.token = h])
    BY <1>7 DEF IssueToken
  <2>2. h \in Horizons
    BY <1>1, <1>2 DEF TrustRow
  <2> HIDE DEF r, h
  <2>3. [r EXCEPT !.challenge = 0, !.token = h] \in TrustRow
    BY <1>1, <1>2, <2>2 DEF TrustRow
  <2> QED
    BY <2>1, <2>3, CleanupTyped
<1> QED
  BY <1>3, <1>4, <1>5, <1>6, <1>7

LEMMA RevokeTyped == ASSUME ClientsTyped, NEW d \in Devices, RevokeDevice(d) PROVE ClientsTypeOK'
<1> DEFINE q == [trust.rows[d] EXCEPT !.st = "revoked", !.token = 0, !.challenge = 0]
           rows == [trust.rows EXCEPT ![d] = q]
<1>1. TrustTyped(trust) /\ CallsTyped(calls) /\ FeedTyped(feed) /\ ClientsInv
  BY ThreeTyped DEF ClientsTyped
<1>2. q \in TrustRow
  BY <1>1, HorizonsHold DEF TrustTyped, TrustRow
<1>3. trust' = [trust EXCEPT !.rows = rows] /\ calls' = calls /\ feed' = feed
  BY <1>1, ThreeRecords DEF RevokeDevice
<1> HIDE DEF q
<1>4. rows \in [Devices -> TrustRow]
  BY <1>1, <1>2 DEF TrustTyped
<1> HIDE DEF rows
<1> QED
  BY <1>1, <1>3, <1>4, CleanTyped, ThreeTypedNext

LEMMA CleanupsTyped == ASSUME ClientsTyped, TimedCleanup \/ ClientsRestart \/ ClientClockTicks PROVE ClientsTypeOK'
<1>1. TrustTyped(trust) /\ CallsTyped(calls) /\ FeedTyped(feed) /\ ClientsInv
  BY ThreeTyped DEF ClientsTyped
<1>2. CASE TimedCleanup
  BY <1>1, <1>2, CleanTyped, ThreeTypedNext DEF TimedCleanup
<1>3. CASE ClientsRestart
  <2> DEFINE open == [h \in Handlers |-> NoCallHere]
             stream == [d \in Devices |-> NoStream]
  <2>1. open \in [Handlers -> Handled]
    BY DEF Handled
  <2>2. stream \in [Devices -> StreamRow]
    BY NoStreamTyped
  <2>3. /\ trust' = [trust EXCEPT !.rows = CleanRows] /\ calls' = [calls EXCEPT !.open = open, !.receipt = LiveReceipts]
        /\ feed' = [feed EXCEPT !.stream = stream]
    BY <1>3 DEF ClientsRestart
  <2> HIDE DEF open, stream
  <2>4. FeedTyped(feed')
    BY <1>1, <2>2, <2>3, ThreeRecords DEF FeedTyped
  <2> QED
    BY <2>1, <2>3, <2>4, CleanTyped, ThreeTypedNext
<1>4. CASE ClientClockTicks
  <2> DEFINE n == trust.clock + 1
  <2>1. n \in 0..ClientClock /\ trust' = [trust EXCEPT !.clock = n] /\ calls' = calls /\ feed' = feed
    BY <1>1, <1>4, ClientsAssumption DEF ClientClockTicks, TrustTyped
  <2> HIDE DEF n
  <2>2. TrustTyped(trust')
    BY <1>1, <2>1, ThreeRecords DEF TrustTyped
  <2> QED
    BY <1>1, <2>1, <2>2, ThreeTypedNext
<1> QED
  BY <1>2, <1>3, <1>4

-----------------------------------------------------------------------------
(* Types of the requests.                                                  *)

LEMMA ArriveTyped ==
  ASSUME ClientsTyped, NEW h \in Handlers, NEW d \in Devices, NEW k \in Keys, NEW b \in 1..2, Arrive(h, d, k, b)
  PROVE  ClientsTypeOK'
<1> DEFINE x == <<d, k>>
           made == IF calls.made[x] = -1 THEN [calls.made EXCEPT ![x] = trust.clock] ELSE calls.made
           r == [d |-> d, k |-> k, b |-> b, token |-> trust.rows[d].token, step |-> "body"]
           open == [calls.open EXCEPT ![h] = r]
<1>1. TrustTyped(trust) /\ CallsTyped(calls) /\ FeedTyped(feed) /\ ClientsInv
  BY ThreeTyped DEF ClientsTyped
<1>2. made \in [Calls -> -1..ClientClock]
  BY <1>1, ClientsAssumption DEF CallsTyped, TrustTyped, Calls
<1>3. r \in Handled
  <2>1. trust.rows[d].token \in Horizons \ {0}
    BY <1>1, ClientsAssumption DEF Arrive, Authenticates, TrustTyped, TrustRow, Horizons
  <2> QED
    BY <2>1 DEF Handled
<1>4. open \in [Handlers -> Handled]
  BY <1>1, <1>3 DEF CallsTyped
<1>5. calls' = [calls EXCEPT !.made = made, !.open = open] /\ trust' = trust /\ feed' = feed
  <2>1. calls = [made |-> calls.made, did |-> calls.did, receipt |-> calls.receipt, open |-> calls.open]
    BY <1>1, ThreeRecords
  <2> HIDE DEF r, open
  <2>2. (IF calls.made[x] = -1 THEN [calls EXCEPT !.made[x] = trust.clock] ELSE calls) = [calls EXCEPT !.made = made]
    BY <2>1
  <2>3. calls' = [(IF calls.made[x] = -1 THEN [calls EXCEPT !.made[x] = trust.clock] ELSE calls) EXCEPT !.open[h] = r]
    BY DEF Arrive, r
  <2> HIDE DEF made
  <2>4. calls' = [[calls EXCEPT !.made = made] EXCEPT !.open[h] = r]
    BY <2>2, <2>3
  <2>5. [calls EXCEPT !.made = made].open = calls.open
    BY <2>1
  <2> QED
    BY <2>1, <2>4, <2>5 DEF Arrive, open
<1> HIDE DEF made, open
<1>6. CallsTyped(calls')
  BY <1>1, <1>2, <1>4, <1>5, ThreeRecords DEF CallsTyped
<1> QED
  BY <1>1, <1>5, <1>6, ThreeTypedNext

LEMMA FailsTyped == ASSUME ClientsTyped, NEW h \in Handlers, Fails(h) PROVE ClientsTypeOK'
<1> DEFINE open == [calls.open EXCEPT ![h] = NoCallHere]
<1>1. TrustTyped(trust) /\ CallsTyped(calls) /\ FeedTyped(feed) /\ ClientsInv
  BY ThreeTyped DEF ClientsTyped
<1>2. open \in [Handlers -> Handled]
  BY <1>1 DEF CallsTyped, Handled
<1>3. calls' = [calls EXCEPT !.open = open] /\ trust' = trust /\ feed' = feed
  BY <1>1, ThreeRecords DEF Fails
<1> HIDE DEF open
<1>4. CallsTyped(calls')
  BY <1>1, <1>2, <1>3, ThreeRecords DEF CallsTyped
<1> QED
  BY <1>1, <1>3, <1>4, ThreeTypedNext

\* The transaction of a request whose row is there.
LEMMA CommitTyped ==
  ASSUME ClientsTyped, NEW h \in Handlers, calls.open[h] # NoCallHere, NEW refused \in BOOLEAN, Commit(h, refused)
  PROVE  ClientsTypeOK'
<1> DEFINE r == calls.open[h]
           x == <<r.d, r.k>>
           open == [calls.open EXCEPT ![h] = NoCallHere]
           free == [calls EXCEPT !.open = open, !.receipt = LiveReceipts]
<1>1. TrustTyped(trust) /\ CallsTyped(calls) /\ FeedTyped(feed) /\ ClientsInv
  BY ThreeTyped DEF ClientsTyped
<1>2. r \in [d : Devices, k : Keys, b : 1..2, token : Horizons \ {0}, step : {"body", "catalog"}] /\ x \in Calls
  BY <1>1 DEF CallsTyped, Handled, Calls
<1>3. open \in [Handlers -> Handled]
  BY <1>1 DEF CallsTyped, Handled
<1>4. [calls EXCEPT !.open[h] = NoCallHere, !.receipt = LiveReceipts] = free
  BY <1>1, ThreeRecords
<1>5. trust' = [trust EXCEPT !.rows = CleanRows] /\ TrustTyped(trust')
  BY CleanTyped DEF Commit
<1> HIDE DEF open
<1>6. CallsTyped(free)
  BY <1>3, CleanTyped
<1>7. CASE calls' = free /\ feed' = feed
  BY <1>1, <1>5, <1>6, <1>7, ThreeTypedNext
<1>8. CASE /\ calls' = [free EXCEPT !.did[x] = @ + 1, !.receipt[x] = [b |-> r.b, until |-> calls.made[x] + RetryTime]]
           /\ feed' = [feed EXCEPT !.seq = @ + 1] /\ feed.seq < EventBound
  <2> DEFINE did == [calls.did EXCEPT ![x] = calls.did[x] + 1]
             q == [b |-> r.b, until |-> calls.made[x] + RetryTime]
             L == LiveReceipts
             receipt == [L EXCEPT ![x] = q]
             n == feed.seq + 1
  <2>1. did \in [Calls -> 0..2]
    <3>1. calls.did[x] <= 1 /\ calls.did[x] \in Nat
      BY <1>1, <1>2 DEF ClientsInv, Remembered, CallsTyped
    <3> QED
      BY <1>1, <1>2, <3>1 DEF CallsTyped
  <2>2. q \in [b : 0..2, until : Horizons]
    BY <1>1, <1>2, HorizonsHold DEF CallsTyped
  <2>3. receipt \in [Calls -> [b : 0..2, until : Horizons]]
    <3> HIDE DEF q
    <3> QED
      BY <2>2, CleanTyped
  <2>4. n \in 0..EventBound
    BY <1>1, <1>8, ClientsAssumption DEF FeedTyped
  <2>5. feed' = [feed EXCEPT !.seq = n]
    BY <1>8
  <2> HIDE DEF n
  <2>6. FeedTyped(feed')
    BY <1>1, <2>4, <2>5, ThreeRecords DEF FeedTyped
  <2>7. free = [made |-> calls.made, did |-> calls.did, receipt |-> L, open |-> open]
    <3>1. calls = [made |-> calls.made, did |-> calls.did, receipt |-> calls.receipt, open |-> calls.open]
      BY <1>1, ThreeRecords
    <3> HIDE DEF L
    <3>2. free = [calls EXCEPT !.open = open, !.receipt = L]
      BY DEF L
    <3> HIDE DEF free
    <3> QED
      BY ONLY <3>1, <3>2
  <2> HIDE DEF free, L, q
  <2>8. calls' = [made |-> calls.made, did |-> did, receipt |-> receipt, open |-> open]
    BY <1>8, <2>7 DEF q
  <2> HIDE DEF did, receipt
  <2>9. CallsTyped(calls')
    BY <1>1, <1>3, <2>1, <2>3, <2>8 DEF CallsTyped
  <2> QED
    BY <1>5, <2>6, <2>9, ThreeTypedNext
<1> QED
  BY <1>4, <1>7, <1>8 DEF Commit

LEMMA BodyTyped == ASSUME ClientsTyped, NEW h \in Handlers, BodyArrives(h) \/ CatalogArrives(h) PROVE ClientsTypeOK'
<1>1. calls.open[h] # NoCallHere
  BY DEF BodyArrives, CatalogArrives, NoCallHere
<1>2. CASE Fails(h)
  BY <1>2, FailsTyped
<1>3. ASSUME NEW refused \in BOOLEAN, Commit(h, refused)  PROVE ClientsTypeOK'
  BY <1>1, <1>3, CommitTyped
<1>4. CASE calls' = [calls EXCEPT !.open[h].step = "catalog"] /\ trust' = trust /\ feed' = feed
  <2> DEFINE q == [calls.open[h] EXCEPT !.step = "catalog"]
             open == [calls.open EXCEPT ![h] = q]
  <2>1. TrustTyped(trust) /\ CallsTyped(calls) /\ FeedTyped(feed) /\ ClientsInv
    BY ThreeTyped DEF ClientsTyped
  <2>2. q \in Handled
    BY <1>1, <2>1 DEF CallsTyped, Handled
  <2>3. calls' = [calls EXCEPT !.open = open]
    BY <1>4, <2>1, ThreeRecords
  <2> HIDE DEF q
  <2>4. open \in [Handlers -> Handled]
    BY <2>1, <2>2 DEF CallsTyped
  <2> HIDE DEF open
  <2>5. CallsTyped(calls')
    BY <2>1, <2>3, <2>4, ThreeRecords DEF CallsTyped
  <2> QED
    BY <1>4, <2>1, <2>5, ThreeTypedNext
<1> QED
  BY <1>2, <1>3, <1>4 DEF BodyArrives, CatalogArrives

-----------------------------------------------------------------------------
(* Types of the notifications.                                             *)

\* The streams and what the clients have, one of them changed.
LEMMA FeedStep ==
  ASSUME ClientsTyped, NEW d \in Devices, NEW s \in StreamRow, NEW n \in 0..EventBound,
         \/ feed' = [feed EXCEPT !.stream[d] = s]
         \/ feed' = [feed EXCEPT !.got[d] = n, !.stream[d] = s],
         trust' = trust, calls' = calls
  PROVE  ClientsTypeOK'
<1> DEFINE stream == [feed.stream EXCEPT ![d] = s]
           got == [feed.got EXCEPT ![d] = n]
<1>1. TrustTyped(trust) /\ CallsTyped(calls) /\ FeedTyped(feed) /\ ClientsInv
  BY ThreeTyped DEF ClientsTyped
<1>2. stream \in [Devices -> StreamRow] /\ got \in [Devices -> 0..EventBound]
  BY <1>1 DEF FeedTyped
<1>3. feed = [seq |-> feed.seq, stream |-> feed.stream, got |-> feed.got]
  BY <1>1, ThreeRecords
<1>4. \/ feed' = [seq |-> feed.seq, stream |-> stream, got |-> feed.got]
      \/ feed' = [seq |-> feed.seq, stream |-> stream, got |-> got]
  BY <1>3
<1> HIDE DEF stream, got
<1>5. FeedTyped(feed')
  BY <1>1, <1>2, <1>4 DEF FeedTyped
<1> QED
  BY <1>1, <1>5, ThreeTypedNext

LEMMA HappensTyped == ASSUME ClientsTyped, Happens PROVE ClientsTypeOK'
<1> DEFINE n == feed.seq + 1
<1>1. TrustTyped(trust) /\ CallsTyped(calls) /\ FeedTyped(feed) /\ ClientsInv
  BY ThreeTyped DEF ClientsTyped
<1>2. n \in 0..EventBound /\ feed' = [feed EXCEPT !.seq = n] /\ trust' = trust /\ calls' = calls
  BY <1>1, ClientsAssumption DEF Happens, FeedTyped
<1> HIDE DEF n
<1>3. FeedTyped(feed')
  BY <1>1, <1>2, ThreeRecords DEF FeedTyped
<1> QED
  BY <1>1, <1>2, <1>3, ThreeTypedNext

LEMMA OpenTyped == ASSUME ClientsTyped, NEW d \in Devices, NEW resumes \in BOOLEAN, OpenStream(d, resumes) PROVE ClientsTypeOK'
<1> DEFINE cursor == IF resumes THEN feed.got[d] ELSE feed.seq
           t == trust.rows[d].token
           s == [NoStream EXCEPT !.on = TRUE, !.cursor = cursor, !.token = t]
<1>1. TrustTyped(trust) /\ FeedTyped(feed)
  BY ThreeTyped DEF ClientsTyped
<1>2. cursor \in 0..EventBound /\ t \in Horizons
  BY <1>1 DEF FeedTyped, TrustTyped, TrustRow
<1>3. feed' = [feed EXCEPT !.got[d] = cursor, !.stream[d] = s] /\ trust' = trust /\ calls' = calls
  BY DEF OpenStream
<1> HIDE DEF cursor, t
<1>4. NoStream \in StreamRow
  BY NoStreamTyped
<1>5. s \in StreamRow
  BY <1>2, <1>4 DEF StreamRow
<1> HIDE DEF s
<1> QED
  BY <1>2, <1>3, <1>5, FeedStep

LEMMA StreamsTyped ==
  ASSUME ClientsTyped, NEW d \in Devices, Pump(d) \/ Drains(d) \/ Receives(d) \/ Disconnects(d)
  PROVE  ClientsTypeOK'
<1> DEFINE s == feed.stream[d]
<1>1. TrustTyped(trust) /\ FeedTyped(feed) /\ ClientsInv
  BY ThreeTyped DEF ClientsTyped
<1>2. /\ s \in StreamRow /\ s.pipe \in Seq(1..EventBound) /\ feed.seq \in 0..EventBound /\ feed.got[d] \in 0..EventBound
      /\ 0 \in 0..EventBound
  BY <1>1, ClientsAssumption DEF FeedTyped, StreamRow
<1>3. feed = [seq |-> feed.seq, stream |-> feed.stream, got |-> feed.got]
  BY <1>1, ThreeRecords
<1>4. ASSUME NEW q \in StreamRow, NEW n \in 0..EventBound, trust' = trust, calls' = calls,
             \/ feed' = [feed EXCEPT !.stream[d] = q]
             \/ feed' = [feed EXCEPT !.got[d] = n, !.stream[d] = q]
      PROVE  ClientsTypeOK'
  BY <1>4, FeedStep
<1>5. CASE Disconnects(d)
  BY <1>2, <1>4, <1>5, NoStreamTyped DEF Disconnects
<1>6. CASE Drains(d)
  <2> DEFINE q == [s EXCEPT !.blocked = FALSE]
  <2>1. q \in StreamRow
    BY <1>2 DEF StreamRow
  <2>2. feed' = [feed EXCEPT !.stream[d] = q] /\ trust' = trust /\ calls' = calls
    BY <1>3, <1>6 DEF Drains
  <2> HIDE DEF q
  <2> QED
    BY <1>2, <1>4, <2>1, <2>2
<1>7. CASE Receives(d)
  <2> DEFINE p == Tail(s.pipe)
             q == [s EXCEPT !.pipe = p]
             n == Head(s.pipe)
  <2>1. p \in Seq(1..EventBound) /\ n \in 0..EventBound
    <3>1. s.pipe # <<>>
      BY <1>7 DEF Receives
    <3>2. n \in 1..EventBound /\ p \in Seq(1..EventBound)
      BY <1>2, <3>1, HeadTailProperties
    <3> HIDE DEF n, p
    <3> QED
      BY <3>2
  <2>2. feed' = [feed EXCEPT !.got[d] = n, !.stream[d] = q] /\ trust' = trust /\ calls' = calls
    BY <1>3, <1>7 DEF Receives
  <2> HIDE DEF p, n
  <2>3. q \in StreamRow
    BY <1>2, <2>1 DEF StreamRow
  <2> HIDE DEF q
  <2> QED
    BY <1>4, <2>1, <2>2, <2>3
<1>8. CASE Pump(d)
  <2>1. CASE feed' = [feed EXCEPT !.stream[d].on = FALSE] /\ trust' = trust /\ calls' = calls
    <3> DEFINE q == [s EXCEPT !.on = FALSE]
    <3>1. q \in StreamRow
      BY <1>2 DEF StreamRow
    <3>2. feed' = [feed EXCEPT !.stream[d] = q]
      BY <1>3, <2>1
    <3> HIDE DEF q
    <3> QED
      BY <1>2, <1>4, <2>1, <3>1, <3>2
  <2> DEFINE next == IF s.cursor > Oldest THEN s.cursor ELSE Oldest
             more(last) == [n \in 1..(last - next) |-> next + n]
             writes(last) == [s EXCEPT !.cursor = last, !.blocked = last < feed.seq, !.pipe = s.pipe \o more(last)]
  <2>2. next \in Nat
    BY <1>2, ClientsAssumption DEF Oldest, StreamRow
  <2>3. ASSUME NEW last \in (next + 1)..feed.seq, feed' = [feed EXCEPT !.stream[d] = writes(last)], trust' = trust, calls' = calls
        PROVE  ClientsTypeOK'
    <3>1. last \in 0..EventBound /\ last - next \in Nat
      <4> HIDE DEF next
      <4> QED
        BY <1>2, <2>2, ClientsAssumption
    <3>2. more(last) \in Seq(1..EventBound)
      <4> HIDE DEF next
      <4>1. more(last) \in [1..(last - next) -> 1..EventBound]
        BY <1>2, <2>2, <3>1, ClientsAssumption
      <4> DEFINE len == last - next
                 f == more(last)
      <4>2. len \in Nat /\ f \in [1..len -> 1..EventBound]
        BY <3>1, <4>1
      <4> HIDE DEF len, f
      <4>3. f = [i \in 1..len |-> f[i]] /\ \A i \in 1..len : f[i] \in 1..EventBound
        BY <4>2
      <4>4. f \in Seq(1..EventBound)
        BY <4>2, <4>3, IsASeq
      <4> QED
        BY <4>4 DEF f
    <3> DEFINE p == s.pipe \o more(last)
               b == last < feed.seq
    <3>3. p \in Seq(1..EventBound) /\ b \in BOOLEAN
      <4> HIDE DEF more
      <4> QED
        BY <1>2, <3>2, ConcatProperties
    <3>4. feed' = [feed EXCEPT !.stream[d] = [s EXCEPT !.cursor = last, !.blocked = b, !.pipe = p]]
      BY <2>3
    <3> HIDE DEF p, b
    <3>5. [s EXCEPT !.cursor = last, !.blocked = b, !.pipe = p] \in StreamRow
      BY <1>2, <3>1, <3>3 DEF StreamRow
    <3> QED
      BY <1>2, <1>4, <2>3, <3>4, <3>5
  <2>4. \/ feed' = [feed EXCEPT !.stream[d].on = FALSE]
        \/ \E last \in (next + 1)..feed.seq : feed' = [feed EXCEPT !.stream[d] = writes(last)]
    BY <1>8 DEF Pump
  <2>5. trust' = trust /\ calls' = calls
    BY <1>8 DEF Pump
  <2> HIDE DEF writes, next
  <2> QED
    BY <2>1, <2>3, <2>4, <2>5
<1> QED
  BY <1>5, <1>6, <1>7, <1>8

LEMMA ClientsTypes == ClientsTyped /\ [ClientsNext]_clientVars => ClientsTypeOK'
<1> SUFFICES ASSUME ClientsTyped, [ClientsNext]_clientVars PROVE ClientsTypeOK'
  OBVIOUS
<1>1. CASE UNCHANGED clientVars
  BY <1>1 DEF clientVars, ClientsTyped, ClientsTypeOK
<1>2. ASSUME NEW d \in Devices,
             CreatePairing(d) \/ ClaimPairing(d) \/ RevokeDevice(d) \/ IssueChallenge(d) \/ Pump(d) \/ Drains(d)
             \/ Receives(d) \/ Disconnects(d)
      PROVE  ClientsTypeOK'
  <2>1. TRUE \in BOOLEAN
    OBVIOUS
  <2> QED
    BY <1>2, <2>1, TrustActionsTyped, RevokeTyped, StreamsTyped
<1>3. ASSUME NEW d \in Devices, NEW yes \in BOOLEAN, DecideDevice(d, yes) \/ IssueToken(d, yes) \/ OpenStream(d, yes)
      PROVE  ClientsTypeOK'
  BY <1>3, TrustActionsTyped, OpenTyped
<1>4. ASSUME NEW d \in Devices, NEW h \in Handlers, NEW k \in Keys, NEW b \in 1..2, Arrive(h, d, k, b)
      PROVE  ClientsTypeOK'
  BY <1>4, ArriveTyped
<1>5. ASSUME NEW h \in Handlers, BodyArrives(h) \/ CatalogArrives(h)
      PROVE  ClientsTypeOK'
  BY <1>5, BodyTyped
<1>6. CASE Happens \/ TimedCleanup \/ ClientClockTicks \/ ClientsRestart
  BY <1>6, HappensTyped, CleanupsTyped
<1> QED
  BY <1>1, <1>2, <1>3, <1>4, <1>5, <1>6 DEF ClientsNext

LEMMA ClientsTypesStart == ClientsInit => ClientsTypeOK
<1> SUFFICES ASSUME ClientsInit PROVE ClientsTypeOK
  OBVIOUS
<1>1. 0 \in Horizons /\ 0 \in 0..EventBound /\ 0 \in 0..ClientClock /\ -1 \in -1..ClientClock
  BY HorizonsHold, ClientsAssumption
<1>2. trust = [clock |-> 0, rows |-> [d \in Devices |-> [st |-> "none", pairing |-> "none", until |-> 0,
                                                         challenge |-> 0, token |-> 0]]]
  BY DEF ClientsInit
<1>3. TrustTyped(trust)
  BY <1>1, <1>2 DEF TrustTyped, TrustRow
<1>4. calls = [made |-> [x \in Calls |-> -1], did |-> [x \in Calls |-> 0],
               receipt |-> [x \in Calls |-> NoReceipt], open |-> [h \in Handlers |-> NoCallHere]]
  BY DEF ClientsInit, Calls
<1>5. CallsTyped(calls)
  BY <1>1, <1>4 DEF CallsTyped, NoReceipt, Handled
<1>6. feed = [seq |-> 0, stream |-> [d \in Devices |-> NoStream], got |-> [d \in Devices |-> 0]]
  BY DEF ClientsInit
<1>7. NoStream \in StreamRow
  BY NoStreamTyped
<1>8. FeedTyped(feed)
  BY <1>1, <1>6, <1>7 DEF FeedTyped
<1> QED
  BY <1>3, <1>5, <1>8, ThreeTyped

-----------------------------------------------------------------------------
(* A turn of the provider.                                                 *)

EndOfTurn == <<"done", "this">>
Over == pv.turn \in {"completed", "failed", "interrupted"}

\* The requests among the messages not read yet.
Unread(w) == Cardinality({k \in DOMAIN w : w[k] \in Asking})

\* The locals of the adapter: the tool calls open are among those counted, none came
\* late, a completed turn has none open, and only a turn that is known settles.
TurnSound(c) ==
    /\ c \in TurnLocals
    /\ c.open <= c.calls
    /\ ~c.late
    /\ c.out = "completed" => c.open = 0
    /\ c.settled => c.turnId

\* The report that the turn ended, read or not, is that of a turn that is over.
EndTrue ==
    /\ cx.settled => Over
    /\ \A k \in DOMAIN cx.evs : cx.evs[k] = EndOfTurn => Over
    /\ \A k \in DOMAIN wire : wire[k] = EndOfTurn => Over

\* It comes after every request of the turn.
EndLast ==
    /\ cx.settled => \A k \in DOMAIN wire : wire[k] \notin Asking
    /\ \A i \in DOMAIN cx.evs, k \in DOMAIN wire : cx.evs[i] = EndOfTurn => wire[k] \notin Asking
    /\ \A i, k \in DOMAIN wire : wire[i] = EndOfTurn /\ i < k => wire[k] \notin Asking

\* A call that is counted, buffered or not read yet was sent by the provider.
CallsSent == cx.calls + Len(cx.reqs) + Unread(wire) <= pv.sent

\* A turn runs only once its start was transmitted.
Announced == cx.step # "sent" => pv.turn = "none"

TurnInv ==
    /\ CodexTurnTypeOK
    /\ Announced
    /\ TurnSound(cx)
    /\ EndTrue
    /\ EndLast
    /\ CallsSent

\* A step of the locals that takes no part in calls, buffers or settlement.
Aside(c, d) ==
    /\ d.open = c.open /\ d.calls = c.calls /\ d.reqs = c.reqs /\ d.evs = c.evs /\ d.step = c.step
    /\ (d.turnId <=> c.turnId) /\ (d.settled <=> c.settled) /\ (d.late <=> c.late)

LEMMA FinalizeSound ==
  ASSUME NEW c, TurnSound(c), NEW status \in Ends, status = "completed" => c.open = 0
  PROVE  TurnSound(Finalize(c, status)) /\ Aside(c, Finalize(c, status))
<1>1. CASE c.out # "none"
  BY <1>1 DEF Finalize, Aside
<1>2. CASE c.out = "none"
  <2> DEFINE o == IF c.bounded /\ c.stopping /\ status = "completed" THEN "interrupted" ELSE status
  <2>1. o \in Ends /\ (o = "completed" => c.open = 0)
    BY DEF Ends
  <2>2. Finalize(c, status) = [c EXCEPT !.out = o, !.completing = "none"]
    BY <1>2 DEF Finalize
  <2> HIDE DEF o
  <2> QED
    BY ZenonT(40), <2>1, <2>2 DEF TurnSound, Aside, TurnLocals
<1> QED
  BY <1>1, <1>2

LEMMA InterruptSound ==
  ASSUME NEW c, TurnSound(c)
  PROVE  TurnSound(Interrupt(c)) /\ Aside(c, Interrupt(c))
<1> DEFINE d == [c EXCEPT !.stopping = TRUE, !.timer = TRUE]
<1>1. TurnSound(d) /\ Aside(c, d)
  BY DEF TurnSound, Aside, TurnLocals
<1>2. Aside(c, c)
  BY DEF Aside
<1>3. Interrupt(c) = IF c.out # "none" THEN c ELSE d
  BY DEF Interrupt, d
<1> QED
  BY <1>1, <1>2, <1>3

LEMMA RejectSound ==
  ASSUME NEW c, TurnSound(c)
  PROVE  TurnSound(Reject(c)) /\ Aside(c, Reject(c))
<1> DEFINE d == [c EXCEPT !.toolFailure = TRUE]
<1>1. TurnSound(d) /\ Aside(c, d)
  BY DEF TurnSound, Aside, TurnLocals
<1> HIDE DEF d
<1>2. TurnSound(Interrupt(d)) /\ Aside(d, Interrupt(d))
  BY <1>1, InterruptSound
<1>3. Aside(c, Interrupt(d))
  BY <1>1, <1>2 DEF Aside
<1>4. Aside(c, c)
  BY DEF Aside
<1>5. Reject(c) = IF c.bounded THEN Interrupt(d) ELSE c
  BY DEF Reject, d
<1> QED
  BY <1>2, <1>3, <1>4, <1>5

\* finish() of a settled turn.
LEMMA FinishSound ==
  ASSUME NEW c, TurnSound(c), c.turnId, NEW status \in Ends
  PROVE  LET d == FinishSettled(c, status) IN
         /\ TurnSound(d) /\ d.settled /\ d.turnId
         /\ d.open = c.open /\ d.calls = c.calls /\ d.reqs = c.reqs /\ d.evs = c.evs /\ d.step = c.step
<1> DEFINE s == [c EXCEPT !.settled = TRUE]
<1>1. /\ TurnSound(s) /\ s.settled /\ s.turnId /\ s.out = c.out
      /\ s.open = c.open /\ s.calls = c.calls /\ s.reqs = c.reqs /\ s.evs = c.evs /\ s.step = c.step
  BY DEF TurnSound, TurnLocals
<1>2. FinishSettled(c, status) = IF c.out # "none" THEN s
                                 ELSE IF c.open > 0 THEN [s EXCEPT !.completing = status] ELSE Finalize(s, status)
  BY DEF FinishSettled, s
<1> HIDE DEF s
<1>3. c.open \in Nat
  BY DEF TurnSound, TurnLocals
<1>4. CASE c.out # "none"
  BY <1>1, <1>2, <1>4
<1>5. CASE c.out = "none" /\ c.open > 0
  <2> DEFINE d == [s EXCEPT !.completing = status]
  <2>1. /\ TurnSound(d) /\ d.settled /\ d.turnId
        /\ d.open = s.open /\ d.calls = s.calls /\ d.reqs = s.reqs /\ d.evs = s.evs /\ d.step = s.step
    BY <1>1 DEF TurnSound, TurnLocals
  <2> HIDE DEF d
  <2>2. FinishSettled(c, status) = d
    BY <1>2, <1>5 DEF d
  <2> QED
    BY <1>1, <2>1, <2>2
<1>6. CASE c.out = "none" /\ ~(c.open > 0)
  <2>1. TurnSound(Finalize(s, status)) /\ Aside(s, Finalize(s, status))
    BY <1>1, <1>3, <1>6, FinalizeSound
  <2> QED
    BY <1>1, <1>2, <1>6, <2>1 DEF Aside
<1> QED
  BY <1>4, <1>5, <1>6

EventStep(c, d, m) ==
    /\ TurnSound(d)
    /\ (d.turnId <=> c.turnId) /\ d.calls = c.calls /\ d.reqs = c.reqs /\ d.step = c.step
    /\ d.settled => c.settled \/ m = EndOfTurn
    /\ d.evs = c.evs \/ (d.evs = Append(c.evs, m) /\ ~c.turnId)

\* The notification turn/completed: only the report of this turn settles it.
LEMMA EventSound ==
  ASSUME NEW c, TurnSound(c), NEW m \in Ending, NEW status \in Ends
  PROVE  EventStep(c, HandleEvent(c, m, status), m)
<1>0. EventStep(c, c, m)
  BY DEF EventStep
<1>1. CASE c.out # "none"
  <2>1. HandleEvent(c, m, status) = c
    BY <1>1 DEF HandleEvent
  <2> QED
    BY <2>1, <1>0
<1>2. CASE c.out = "none" /\ c.starting /\ ~c.turnId
  <2>1. HandleEvent(c, m, status) = [c EXCEPT !.evs = Append(c.evs, m)]
    BY <1>2 DEF HandleEvent
  <2>2. Append(c.evs, m) \in Seq(Ending)
    BY AppendProperties DEF TurnSound, TurnLocals
  <2> QED
    BY <1>2, <2>1, <2>2 DEF EventStep, TurnSound, TurnLocals
<1>3. CASE c.out = "none" /\ ~(c.starting /\ ~c.turnId)
  <2> DEFINE r == CASE c.denied -> "awaiting_approval"
                    [] ~c.denied /\ c.toolFailure -> "failed"
                    [] ~c.denied /\ ~c.toolFailure /\ c.bounded /\ c.stopping -> "interrupted"
                    [] OTHER -> status
  <2>1. r \in Ends
    BY DEF Ends
  <2>2. HandleEvent(c, m, status) = IF ~OfThisTurn(c, m) THEN c ELSE FinishSettled(c, r)
    BY <1>3 DEF HandleEvent
  <2> HIDE DEF r
  <2>3. OfThisTurn(c, m) => c.turnId /\ m = EndOfTurn
    BY DEF OfThisTurn, Ending, EndOfTurn
  <2>4. CASE ~OfThisTurn(c, m)
    BY <1>0, <2>2, <2>4
  <2>5. CASE OfThisTurn(c, m)
    <3> DEFINE d == FinishSettled(c, r)
    <3>1. TurnSound(d) /\ d.settled /\ d.turnId /\ d.calls = c.calls /\ d.reqs = c.reqs /\ d.evs = c.evs /\ d.step = c.step
      BY <2>1, <2>3, <2>5, FinishSound
    <3>2. HandleEvent(c, m, status) = d
      BY <2>2, <2>5
    <3> HIDE DEF d
    <3> QED
      BY <2>3, <2>5, <3>1, <3>2 DEF EventStep
  <2> QED
    BY <2>4, <2>5
<1> QED
  BY <1>1, <1>2, <1>3

RequestStep(c, d, m) ==
    /\ TurnSound(d) /\ ~d.settled
    /\ (d.turnId <=> c.turnId) /\ d.evs = c.evs /\ d.step = c.step
    /\ \/ d.reqs = c.reqs /\ d.calls <= c.calls + 1
       \/ d.reqs = Append(c.reqs, m) /\ d.calls = c.calls /\ ~c.turnId

\* A request of the provider before the turn settled: it is counted, buffered or refused.
LEMMA RequestSound ==
  ASSUME NEW c, TurnSound(c), ~c.settled, NEW m \in Asking
  PROVE  RequestStep(c, HandleRequest(c, m), m)
<1> DEFINE called == [c EXCEPT !.calls = c.calls + 1]
           denied == [c EXCEPT !.denied = TRUE]
           late == [c EXCEPT !.late = c.late \/ (m[2] = "this" /\ c.settled)]
<1>1. TurnSound(called) /\ called.calls = c.calls + 1 /\ called.evs = c.evs /\ called.step = c.step /\ called.reqs = c.reqs
      /\ (called.turnId <=> c.turnId) /\ ~called.settled /\ called.open = c.open
  <2>1. c.calls + 1 \in Nat /\ c.open <= c.calls + 1 /\ c.open \in Nat
    BY DEF TurnSound, TurnLocals
  <2> DEFINE n == c.calls + 1
  <2> HIDE DEF n
  <2>2. n \in Nat /\ c.open <= n /\ called = [c EXCEPT !.calls = n] /\ n = c.calls + 1
    BY <2>1 DEF n
  <2>3. called \in TurnLocals
    BY <2>2 DEF TurnSound, TurnLocals
  <2>4. /\ called.calls = n /\ called.evs = c.evs /\ called.step = c.step /\ called.reqs = c.reqs /\ called.turnId = c.turnId
        /\ called.settled = c.settled /\ called.open = c.open /\ called.late = c.late /\ called.out = c.out
    BY <2>2 DEF TurnSound, TurnLocals
  <2> QED
    BY <2>2, <2>3, <2>4 DEF TurnSound
<1>2. TurnSound(denied) /\ Aside(c, denied)
  BY DEF TurnSound, TurnLocals, Aside
<1>3. TurnSound(late) /\ Aside(c, late)
  <2>1. ~(c.late \/ (m[2] = "this" /\ c.settled))
    BY DEF TurnSound
  <2> DEFINE b == c.late \/ (m[2] = "this" /\ c.settled)
  <2>2. b = FALSE
    BY <2>1
  <2> HIDE DEF b
  <2>3. late = [c EXCEPT !.late = FALSE]
    BY <2>2 DEF b
  <2> QED
    BY <2>3 DEF TurnSound, TurnLocals, Aside
<1>4. HandleRequest(c, m) =
         IF c.starting /\ ~c.turnId /\ c.out = "none" THEN [c EXCEPT !.reqs = Append(c.reqs, m)]
         ELSE IF ~Live(c) \/ c.completing # "none" \/ m[2] # "this" \/ ~c.turnId THEN Reject(late)
         ELSE IF m[1] = "approval" THEN Interrupt(denied)
         ELSE IF called.calls > CallBudget THEN Finalize(called, "failed")
         ELSE [called EXCEPT !.open = called.open + 1]
  BY DEF HandleRequest, called, denied, late
<1> HIDE DEF called, denied, late
<1>5. CASE c.starting /\ ~c.turnId /\ c.out = "none"
  <2>1. Append(c.reqs, m) \in Seq(Asking)
    BY AppendProperties DEF TurnSound, TurnLocals
  <2> QED
    BY ZenonT(40), <1>4, <1>5, <2>1 DEF RequestStep, TurnSound, TurnLocals
<1>6. c.calls \in Nat
  BY DEF TurnSound, TurnLocals
<1>7. TurnSound(Reject(late)) /\ Aside(c, Reject(late))
  BY <1>3, RejectSound DEF Aside
<1>8. TurnSound(Interrupt(denied)) /\ Aside(c, Interrupt(denied))
  BY <1>2, InterruptSound DEF Aside
<1>9. TurnSound(Finalize(called, "failed")) /\ Aside(called, Finalize(called, "failed"))
  BY <1>1, FinalizeSound DEF Ends
<1>10. ASSUME Live(c)
       PROVE  LET d == [called EXCEPT !.open = called.open + 1] IN
              TurnSound(d) /\ ~d.settled /\ d.calls = called.calls /\ d.step = c.step /\ d.evs = c.evs /\ d.reqs = c.reqs /\ (d.turnId <=> c.turnId)
  <2>1. c.out = "none" /\ c.open <= c.calls /\ c.open \in Nat /\ called.out = c.out
    BY <1>10 DEF Live, TurnSound, TurnLocals, called
  <2> DEFINE n == called.open + 1
             d == [called EXCEPT !.open = n]
  <2>2. n \in Nat /\ n <= called.calls
    BY <1>1, <1>6, <2>1
  <2> HIDE DEF n
  <2>3. /\ d \in TurnLocals /\ d.open = n /\ d.calls = called.calls /\ d.evs = called.evs /\ d.step = called.step /\ d.reqs = called.reqs
        /\ d.turnId = called.turnId /\ d.settled = called.settled /\ d.late = called.late /\ d.out = called.out
    BY <1>1, <2>2 DEF TurnSound, TurnLocals
  <2> HIDE DEF d
  <2>4. TurnSound(d) /\ ~d.settled /\ d.calls = called.calls /\ d.step = c.step /\ d.evs = c.evs /\ d.reqs = c.reqs /\ (d.turnId <=> c.turnId)
    BY <1>1, <2>1, <2>2, <2>3 DEF TurnSound
  <2> QED
    BY <2>4 DEF d, n
<1>11. CASE ~(c.starting /\ ~c.turnId /\ c.out = "none")
  <2>1. CASE ~Live(c) \/ c.completing # "none" \/ m[2] # "this" \/ ~c.turnId
    BY <1>4, <1>6, <1>7, <1>11, <2>1 DEF RequestStep, Aside
  <2>2. CASE ~(~Live(c) \/ c.completing # "none" \/ m[2] # "this" \/ ~c.turnId) /\ m[1] = "approval"
    BY <1>4, <1>6, <1>8, <1>11, <2>2 DEF RequestStep, Aside
  <2>3. CASE ~(~Live(c) \/ c.completing # "none" \/ m[2] # "this" \/ ~c.turnId) /\ m[1] # "approval" /\ called.calls > CallBudget
    BY <1>1, <1>4, <1>6, <1>9, <1>11, <2>3 DEF RequestStep, Aside
  <2>4. CASE ~(~Live(c) \/ c.completing # "none" \/ m[2] # "this" \/ ~c.turnId) /\ m[1] # "approval" /\ ~(called.calls > CallBudget)
    BY <1>1, <1>4, <1>6, <1>10, <1>11, <2>4 DEF RequestStep
  <2> QED
    BY <2>1, <2>2, <2>3, <2>4
<1> QED
  BY <1>5, <1>11

\* The states the buffered requests lead through exist, one after the other.
RequestsFrom(g, c, ms, n) == g = [k \in 0..n |-> IF k = 0 THEN c ELSE HandleRequest(g[k - 1], ms[k])]
LEMMA RequestsRun ==
  ASSUME NEW c, NEW ms, NEW n \in Nat
  PROVE  \E g : RequestsFrom(g, c, ms, n)
<1> DEFINE Bad == {k \in Nat : k <= n /\ ~ \E g : RequestsFrom(g, c, ms, k)}
<1>1. SUFFICES ASSUME Bad # {} PROVE FALSE
  OBVIOUS
<1>2. PICK k \in Bad : \A j \in Bad : k <= j
  BY <1>1, Smallest
<1>3. CASE k = 0
  <2> DEFINE g == [j \in 0..0 |-> c]
  <2>1. g = [j \in 0..0 |-> IF j = 0 THEN c ELSE HandleRequest(g[j - 1], ms[j])]
    OBVIOUS
  <2>2. RequestsFrom(g, c, ms, 0)
    BY <2>1 DEF RequestsFrom
  <2> QED
    BY <1>2, <1>3, <2>2
<1>4. CASE k # 0
  <2>1. k - 1 \in Nat /\ k - 1 <= n /\ k - 1 \notin Bad /\ k \in Nat
    BY <1>2, <1>4
  <2>2. PICK h : RequestsFrom(h, c, ms, k - 1)
    BY <2>1
  <2> DEFINE g == [j \in 0..k |-> IF j = k THEN HandleRequest(h[k - 1], ms[k]) ELSE h[j]]
  <2>3. \A j \in 0..(k - 1) : g[j] = h[j]
    BY <2>1
  <2>4. \A j \in 0..(k - 1) : h[j] = IF j = 0 THEN c ELSE HandleRequest(h[j - 1], ms[j])
    BY <2>2 DEF RequestsFrom
  <2>5. \A j \in 0..k : g[j] = IF j = 0 THEN c ELSE HandleRequest(g[j - 1], ms[j])
    <3>1. TAKE j \in 0..k
    <3>2. CASE j = k
      <4>1. g[k] = HandleRequest(h[k - 1], ms[k]) /\ g[k - 1] = h[k - 1]
        BY <2>1, <2>3
      <4> QED
        BY <1>4, <3>2, <4>1
    <3>3. CASE j # k
      <4>1. j \in 0..(k - 1) /\ (j # 0 => j - 1 \in 0..(k - 1))
        BY <2>1, <3>1, <3>3
      <4>2. g[j] = h[j] /\ (j # 0 => g[j - 1] = h[j - 1])
        BY <2>3, <4>1
      <4> HIDE DEF g
      <4> QED
        BY <2>4, <4>1, <4>2
    <3> QED
      BY <3>2, <3>3
  <2>6. g = [j \in 0..k |-> g[j]]
    OBVIOUS
  <2> HIDE DEF g
  <2>7. RequestsFrom(g, c, ms, k)
    BY <2>5, <2>6 DEF RequestsFrom
  <2> QED
    BY <1>2, <2>7
<1> QED
  BY <1>3, <1>4

LEMMA RequestsSound ==
  ASSUME NEW c, TurnSound(c), ~c.settled, c.turnId, NEW ms \in Seq(Asking)
  PROVE  LET d == HandleRequests(c, ms) IN
         /\ TurnSound(d) /\ ~d.settled /\ d.turnId /\ d.step = c.step
         /\ d.reqs = c.reqs /\ d.evs = c.evs /\ d.calls <= c.calls + Len(ms)
<1>1. Len(ms) \in Nat /\ \A k \in 1..Len(ms) : ms[k] \in Asking
  BY SequenceAsFunction
<1> DEFINE f == CHOOSE g : g = [k \in 0..Len(ms) |-> IF k = 0 THEN c ELSE HandleRequest(g[k - 1], ms[k])]
<1>2. HandleRequests(c, ms) = f[Len(ms)]
  BY DEF HandleRequests
<1>3. f = [k \in 0..Len(ms) |-> IF k = 0 THEN c ELSE HandleRequest(f[k - 1], ms[k])]
  BY <1>1, RequestsRun DEF RequestsFrom
<1> HIDE DEF f
<1> DEFINE Fine(k) == /\ TurnSound(f[k]) /\ ~f[k].settled /\ f[k].turnId /\ f[k].step = c.step
                      /\ f[k].reqs = c.reqs /\ f[k].evs = c.evs /\ f[k].calls <= c.calls + k
           Bad == {k \in Nat : k <= Len(ms) /\ ~Fine(k)}
<1>4. Fine(0)
  <2>1. f[0] = c /\ c.calls \in Nat
    BY <1>1, <1>3 DEF TurnSound, TurnLocals
  <2> QED
    BY <2>1
<1>5. ASSUME NEW k \in Nat, k < Len(ms), Fine(k)  PROVE Fine(k + 1)
  <2>1. f[k + 1] = HandleRequest(f[k], ms[k + 1]) /\ ms[k + 1] \in Asking
    BY <1>1, <1>3, <1>5
  <2>2. RequestStep(f[k], f[k + 1], ms[k + 1])
    BY <1>5, <2>1, RequestSound
  <2>3. c.calls \in Nat /\ f[k].calls \in Nat /\ f[k + 1].calls \in Nat
    BY <1>5, <2>2 DEF RequestStep, TurnSound, TurnLocals
  <2> QED
    BY <1>5, <2>2, <2>3 DEF RequestStep
<1> HIDE DEF Fine
<1>6. Bad = {}
  <2>1. SUFFICES ASSUME Bad # {} PROVE FALSE
    OBVIOUS
  <2>2. PICK k \in Bad : \A j \in Bad : k <= j
    BY <2>1, Smallest
  <2>3. k # 0 /\ k \in Nat /\ k <= Len(ms)
    BY <1>4, <2>2
  <2>4. k - 1 \in Nat /\ k - 1 < Len(ms) /\ k - 1 \notin Bad /\ (k - 1) + 1 = k
    BY <1>1, <2>2, <2>3
  <2>5. Fine(k - 1)
    BY <1>1, <2>4
  <2>6. Fine((k - 1) + 1)
    BY <1>5, <2>4, <2>5
  <2> QED
    BY <2>2, <2>4, <2>6
<1>7. Fine(Len(ms))
  BY <1>1, <1>6
<1> QED
  BY <1>2, <1>7 DEF Fine

\* The states the buffered notifications lead through exist, one after the other.
EventsFrom(g, c, ms, status, n) == g = [k \in 0..n |-> IF k = 0 THEN c ELSE HandleEvent(g[k - 1], ms[k], status)]
LEMMA EventsRun ==
  ASSUME NEW c, NEW ms, NEW status, NEW n \in Nat
  PROVE  \E g : EventsFrom(g, c, ms, status, n)
<1> DEFINE Bad == {k \in Nat : k <= n /\ ~ \E g : EventsFrom(g, c, ms, status, k)}
<1>1. SUFFICES ASSUME Bad # {} PROVE FALSE
  OBVIOUS
<1>2. PICK k \in Bad : \A j \in Bad : k <= j
  BY <1>1, Smallest
<1>3. CASE k = 0
  <2> DEFINE g == [j \in 0..0 |-> c]
  <2>1. g = [j \in 0..0 |-> IF j = 0 THEN c ELSE HandleEvent(g[j - 1], ms[j], status)]
    OBVIOUS
  <2>2. EventsFrom(g, c, ms, status, 0)
    BY <2>1 DEF EventsFrom
  <2> QED
    BY <1>2, <1>3, <2>2
<1>4. CASE k # 0
  <2>1. k - 1 \in Nat /\ k - 1 <= n /\ k - 1 \notin Bad /\ k \in Nat
    BY <1>2, <1>4
  <2>2. PICK h : EventsFrom(h, c, ms, status, k - 1)
    BY <2>1
  <2> DEFINE g == [j \in 0..k |-> IF j = k THEN HandleEvent(h[k - 1], ms[k], status) ELSE h[j]]
  <2>3. \A j \in 0..(k - 1) : g[j] = h[j]
    BY <2>1
  <2>4. \A j \in 0..(k - 1) : h[j] = IF j = 0 THEN c ELSE HandleEvent(h[j - 1], ms[j], status)
    BY <2>2 DEF EventsFrom
  <2>5. \A j \in 0..k : g[j] = IF j = 0 THEN c ELSE HandleEvent(g[j - 1], ms[j], status)
    <3>1. TAKE j \in 0..k
    <3>2. CASE j = k
      <4>1. g[k] = HandleEvent(h[k - 1], ms[k], status) /\ g[k - 1] = h[k - 1]
        BY <2>1, <2>3
      <4> QED
        BY <1>4, <3>2, <4>1
    <3>3. CASE j # k
      <4>1. j \in 0..(k - 1) /\ (j # 0 => j - 1 \in 0..(k - 1))
        BY <2>1, <3>1, <3>3
      <4>2. g[j] = h[j] /\ (j # 0 => g[j - 1] = h[j - 1])
        BY <2>3, <4>1
      <4> HIDE DEF g
      <4> QED
        BY <2>4, <4>1, <4>2
    <3> QED
      BY <3>2, <3>3
  <2>6. g = [j \in 0..k |-> g[j]]
    OBVIOUS
  <2> HIDE DEF g
  <2>7. EventsFrom(g, c, ms, status, k)
    BY <2>5, <2>6 DEF EventsFrom
  <2> QED
    BY <1>2, <2>7
<1> QED
  BY <1>3, <1>4

LEMMA EventsSound ==
  ASSUME NEW c, TurnSound(c), c.turnId, NEW ms \in Seq(Ending), NEW status \in Ends
  PROVE  LET d == HandleEvents(c, ms, status) IN
         /\ TurnSound(d) /\ d.turnId /\ d.step = c.step
         /\ d.reqs = c.reqs /\ d.calls = c.calls
         /\ d.settled => c.settled \/ \E k \in DOMAIN ms : ms[k] = EndOfTurn
<1>1. Len(ms) \in Nat /\ DOMAIN ms = 1..Len(ms) /\ \A k \in 1..Len(ms) : ms[k] \in Ending
  BY SequenceAsFunction
<1> DEFINE f == CHOOSE g : g = [k \in 0..Len(ms) |-> IF k = 0 THEN c ELSE HandleEvent(g[k - 1], ms[k], status)]
<1>2. HandleEvents(c, ms, status) = f[Len(ms)]
  BY DEF HandleEvents
<1>3. f = [k \in 0..Len(ms) |-> IF k = 0 THEN c ELSE HandleEvent(f[k - 1], ms[k], status)]
  BY <1>1, EventsRun DEF EventsFrom
<1> HIDE DEF f
<1> DEFINE Fine(k) == /\ TurnSound(f[k]) /\ f[k].turnId /\ f[k].step = c.step
                      /\ f[k].reqs = c.reqs /\ f[k].calls = c.calls
                      /\ f[k].settled => c.settled \/ \E j \in DOMAIN ms : ms[j] = EndOfTurn
           Bad == {k \in Nat : k <= Len(ms) /\ ~Fine(k)}
<1>4. Fine(0)
  <2>1. f[0] = c
    BY <1>1, <1>3
  <2> QED
    BY <2>1
<1>5. ASSUME NEW k \in Nat, k < Len(ms), Fine(k)  PROVE Fine(k + 1)
  <2>1. f[k + 1] = HandleEvent(f[k], ms[k + 1], status) /\ ms[k + 1] \in Ending /\ k + 1 \in DOMAIN ms
    BY <1>1, <1>3, <1>5
  <2>2. EventStep(f[k], f[k + 1], ms[k + 1])
    BY <1>5, <2>1, EventSound
  <2> QED
    BY <1>5, <2>1, <2>2 DEF EventStep
<1> HIDE DEF Fine
<1>6. Bad = {}
  <2>1. SUFFICES ASSUME Bad # {} PROVE FALSE
    OBVIOUS
  <2>2. PICK k \in Bad : \A j \in Bad : k <= j
    BY <2>1, Smallest
  <2>3. k # 0 /\ k \in Nat /\ k <= Len(ms)
    BY <1>4, <2>2
  <2>4. k - 1 \in Nat /\ k - 1 < Len(ms) /\ k - 1 \notin Bad /\ (k - 1) + 1 = k
    BY <1>1, <2>2, <2>3
  <2>5. Fine(k - 1)
    BY <1>1, <2>4
  <2>6. Fine((k - 1) + 1)
    BY <1>5, <2>4, <2>5
  <2> QED
    BY <2>2, <2>4, <2>6
<1>7. Fine(Len(ms))
  BY <1>1, <1>6
<1> QED
  BY <1>2, <1>7 DEF Fine

UnreadAt(w) == {k \in DOMAIN w : w[k] \in Asking}
LEMMA UnreadTyped ==
  ASSUME NEW w \in Seq(Message)
  PROVE  Unread(w) \in Nat /\ IsFiniteSet(UnreadAt(w))
<1>1. DOMAIN w = 1..Len(w) /\ Len(w) \in Nat
  BY SequenceAsFunction
<1>2. IsFiniteSet(1..Len(w))
  BY <1>1, FS_Interval
<1>3. UnreadAt(w) \in SUBSET (1..Len(w))
  BY <1>1 DEF UnreadAt
<1>4. IsFiniteSet(UnreadAt(w))
  BY <1>2, <1>3, FS_Subset
<1> QED
  BY <1>4, FS_CardinalityType DEF Unread, UnreadAt

LEMMA UnreadAppend ==
  ASSUME NEW w \in Seq(Message), NEW m \in Message
  PROVE  /\ Append(w, m) \in Seq(Message)
         /\ Unread(Append(w, m)) <= Unread(w) + 1
         /\ m \notin Asking => Unread(Append(w, m)) <= Unread(w)
         /\ Unread(Append(w, m)) \in Nat /\ Unread(w) \in Nat
<1> DEFINE v == Append(w, m)
<1>1. /\ v \in Seq(Message) /\ Len(v) = Len(w) + 1 /\ v[Len(w) + 1] = m
      /\ \A k \in 1..Len(w) : v[k] = w[k]
  BY AppendProperties
<1>2. DOMAIN w = 1..Len(w) /\ Len(w) \in Nat /\ DOMAIN v = 1..Len(v)
  BY <1>1, SequenceAsFunction
<1> HIDE DEF v
<1>3. UnreadAt(v) = UnreadAt(w) \cup {k \in {Len(w) + 1} : m \in Asking}
  BY <1>1, <1>2 DEF UnreadAt
<1>4. IsFiniteSet(UnreadAt(w)) /\ Unread(w) \in Nat /\ Unread(v) \in Nat
  BY <1>1, UnreadTyped
<1>5. CASE m \in Asking
  <2>1. UnreadAt(v) = UnreadAt(w) \cup {Len(w) + 1}
    BY <1>3, <1>5
  <2>2. Cardinality(UnreadAt(w) \cup {Len(w) + 1})
          = IF Len(w) + 1 \in UnreadAt(w) THEN Cardinality(UnreadAt(w)) ELSE Cardinality(UnreadAt(w)) + 1
    BY <1>4, FS_AddElement
  <2>3. Unread(v) = Cardinality(UnreadAt(v)) /\ Unread(w) = Cardinality(UnreadAt(w))
    BY DEF Unread, UnreadAt
  <2> QED
    BY <1>1, <1>4, <1>5, <2>1, <2>2, <2>3 DEF v
<1>6. CASE m \notin Asking
  <2>1. UnreadAt(v) = UnreadAt(w)
    BY <1>3, <1>6
  <2>2. Unread(v) = Unread(w)
    BY <2>1 DEF Unread, UnreadAt
  <2> QED
    BY <1>1, <1>4, <2>2 DEF v
<1> QED
  BY <1>5, <1>6

\* The messages after the first: the n-th is the (n+1)-st.
LEMMA UnreadTail ==
  ASSUME NEW w \in Seq(Message), w # <<>>
  PROVE  /\ Tail(w) \in Seq(Message) /\ 1 \in DOMAIN w /\ Head(w) = w[1] /\ Head(w) \in Message
         /\ \A k \in DOMAIN Tail(w) : k + 1 \in DOMAIN w /\ Tail(w)[k] = w[k + 1] /\ k \in Nat /\ 1 < k + 1
         /\ Unread(Tail(w)) <= Unread(w)
         /\ Head(w) \in Asking => Unread(Tail(w)) + 1 <= Unread(w)
         /\ Unread(Tail(w)) \in Nat /\ Unread(w) \in Nat
<1> DEFINE v == Tail(w)
<1>1. /\ v \in Seq(Message) /\ Len(v) = Len(w) - 1 /\ Head(w) = w[1] /\ Head(w) \in Message
      /\ \A k \in 1..Len(v) : v[k] = w[k + 1]
  BY HeadTailProperties
<1>2. DOMAIN w = 1..Len(w) /\ Len(w) \in Nat /\ DOMAIN v = 1..Len(v) /\ Len(v) \in Nat
  BY <1>1, SequenceAsFunction
<1>3. \A k \in DOMAIN v : k + 1 \in DOMAIN w /\ v[k] = w[k + 1] /\ k \in Nat /\ 1 < k + 1
  BY <1>1, <1>2
<1>4. 1 \in DOMAIN w
  BY <1>1, <1>2
<1> HIDE DEF v
<1>5. IsFiniteSet(UnreadAt(w)) /\ Unread(w) \in Nat /\ Unread(v) \in Nat
  BY <1>1, UnreadTyped
<1>6. Cardinality(UnreadAt(v)) <= Cardinality(UnreadAt(w) \ {1})
  <2> DEFINE shift == [k \in UnreadAt(v) |-> k + 1]
  <2>1. shift \in Injection(UnreadAt(v), UnreadAt(w) \ {1})
    BY <1>3 DEF UnreadAt, Injection, IsInjective
  <2>2. IsFiniteSet(UnreadAt(w) \ {1})
    BY <1>5, FS_RemoveElement
  <2> QED
    BY <2>1, <2>2, FS_Injection
<1>7. Cardinality(UnreadAt(w) \ {1}) = IF 1 \in UnreadAt(w) THEN Cardinality(UnreadAt(w)) - 1 ELSE Cardinality(UnreadAt(w))
  BY <1>5, FS_RemoveElement
<1>8. Unread(v) = Cardinality(UnreadAt(v)) /\ Unread(w) = Cardinality(UnreadAt(w))
  BY DEF Unread, UnreadAt
<1>9. Head(w) \in Asking => 1 \in UnreadAt(w)
  BY <1>1, <1>4 DEF UnreadAt
<1>10. Unread(v) <= Unread(w) /\ (Head(w) \in Asking => Unread(v) + 1 <= Unread(w))
  BY <1>5, <1>6, <1>7, <1>8, <1>9
<1> QED
  BY <1>1, <1>3, <1>4, <1>5, <1>10 DEF v

LEMMA TurnStart == CodexTurnInit => TurnInv
<1> SUFFICES ASSUME CodexTurnInit PROVE TurnInv
  OBVIOUS
<1> USE CodexTurnAssumption
<1>1. /\ cx \in TurnLocals /\ cx.open = 0 /\ cx.calls = 0 /\ cx.reqs = <<>> /\ cx.evs = <<>> /\ cx.out = "none"
      /\ ~cx.settled /\ ~cx.late
  <2>1. PICK b \in BOOLEAN : cx = [bounded |-> b, step |-> "setup", aborted |-> FALSE, stopping |-> FALSE, timer |-> FALSE, out |-> "none",
                settled |-> FALSE, completing |-> "none", denied |-> FALSE, toolFailure |-> FALSE, read |-> FALSE,
                turnId |-> FALSE, starting |-> FALSE, reqs |-> <<>>, evs |-> <<>>, open |-> 0, calls |-> 0, fixes |-> 0,
                verified |-> ~b, late |-> FALSE]
    BY DEF CodexTurnInit
  <2>2. <<>> \in Seq(Asking) /\ <<>> \in Seq(Ending)
    BY EmptySeq
  <2> QED
    BY <2>1, <2>2 DEF TurnLocals
<1>2. wire = <<>> /\ wire \in Seq(Message) /\ DOMAIN wire = {}
  BY EmptySeq DEF CodexTurnInit
<1>3. pv = [turn |-> "none", sent |-> 0, stale |-> FALSE, answered |-> FALSE]
  BY DEF CodexTurnInit
<1>4. CodexTurnTypeOK
  BY <1>1, <1>2, <1>3 DEF CodexTurnTypeOK
<1>5. Unread(wire) = 0
  <2>1. UnreadAt(wire) = {}
    BY <1>2 DEF UnreadAt
  <2> QED
    BY <2>1, FS_EmptySet DEF Unread, UnreadAt
<1>6. CallsSent
  BY <1>1, <1>3, <1>5, EmptySeq DEF CallsSent
<1> QED
  BY <1>1, <1>2, <1>3, <1>4, <1>6 DEF TurnInv, TurnSound, EndTrue, EndLast, Announced

\* Nothing is said, and neither calls, buffers nor settlement change.
LEMMA AsideKept ==
  ASSUME TurnInv, TurnSound(cx'), Aside(cx, cx'), pv' = pv, wire' = wire
  PROVE  TurnInv'
<1>1. CodexTurnTypeOK'
  BY DEF TurnInv, CodexTurnTypeOK, TurnSound, Aside
<1>2. TurnSound(cx)' /\ Announced' /\ CallsSent' /\ Over' = Over
  BY DEF TurnInv, TurnSound, Announced, CallsSent, Aside, Over
<1>3. EndTrue' /\ EndLast'
  BY <1>2 DEF TurnInv, EndTrue, EndLast, Aside, Over
<1> QED
  BY <1>1, <1>2, <1>3 DEF TurnInv

\* Assignments that are only a matter of types.
LEMMA SmallStep ==
  ASSUME NEW c, TurnSound(c), NEW b \in BOOLEAN, NEW s \in {"setup", "bound", "intent", "sent"},
         NEW o \in {"interrupted", "thrown"}
  PROVE  /\ TurnSound([c EXCEPT !.step = s])
         /\ TurnSound([c EXCEPT !.out = o]) /\ Aside(c, [c EXCEPT !.out = o])
         /\ TurnSound([c EXCEPT !.verified = b]) /\ Aside(c, [c EXCEPT !.verified = b])
         /\ TurnSound([c EXCEPT !.aborted = b]) /\ Aside(c, [c EXCEPT !.aborted = b])
         /\ TurnSound([c EXCEPT !.read = b]) /\ Aside(c, [c EXCEPT !.read = b])
<1>1. TurnSound([c EXCEPT !.step = s])
  BY DEF TurnSound, TurnLocals
<1>2. TurnSound([c EXCEPT !.out = o]) /\ Aside(c, [c EXCEPT !.out = o])
  BY DEF TurnSound, TurnLocals, Aside, Ends
<1>3. TurnSound([c EXCEPT !.verified = b]) /\ Aside(c, [c EXCEPT !.verified = b])
  BY DEF TurnSound, TurnLocals, Aside
<1>4. TurnSound([c EXCEPT !.aborted = b]) /\ Aside(c, [c EXCEPT !.aborted = b])
  BY DEF TurnSound, TurnLocals, Aside
<1>5. TurnSound([c EXCEPT !.read = b]) /\ Aside(c, [c EXCEPT !.read = b])
  BY DEF TurnSound, TurnLocals, Aside
<1> QED
  BY <1>1, <1>2, <1>3, <1>4, <1>5

LEMMA AsideTwice ==
  ASSUME NEW c, NEW d, NEW e, Aside(c, d), Aside(d, e)
  PROVE  Aside(c, e)
  BY DEF Aside

\* The actions that only move the locals aside.
LEMMA AsideActions ==
  ASSUME TurnInv,
         SetUpFails \/ AccountChanges \/ AccountVerified \/ Abort \/ InterruptTimer \/ Deadline \/ Quarantined \/ ProcessCloses
  PROVE  TurnInv'
<1> DEFINE Calm(d) == TurnSound(d) /\ Aside(cx, d)
<1>0. TurnSound(cx) /\ Calm(cx)
  BY DEF TurnInv, Aside
<1>1. ASSUME NEW d, Calm(d), Local(d)  PROVE TurnInv'
  BY <1>1, AsideKept DEF Local
<1>2. ASSUME NEW d, Calm(d)
      PROVE  Calm(Interrupt(d)) /\ \A s \in {"failed", "interrupted", "awaiting_approval"} : Calm(Finalize(d, s))
  <2>1. Calm(Interrupt(d))
    BY <1>2, InterruptSound, AsideTwice
  <2>2. ASSUME NEW s \in {"failed", "interrupted", "awaiting_approval"}  PROVE Calm(Finalize(d, s))
    <3>1. s \in Ends /\ s # "completed"
      BY DEF Ends
    <3>2. TurnSound(Finalize(d, s)) /\ Aside(d, Finalize(d, s))
      BY <1>2, <3>1, FinalizeSound
    <3> QED
      BY <1>2, <3>2, AsideTwice
  <2> QED
    BY <2>1, <2>2
<1>4. ASSUME NEW b \in BOOLEAN, NEW o \in {"interrupted", "thrown"}
      PROVE  Calm([cx EXCEPT !.out = o]) /\ Calm([cx EXCEPT !.verified = b]) /\ Calm([cx EXCEPT !.aborted = b])
  BY <1>0, SmallStep
<1> HIDE DEF Calm
<1>5. CASE SetUpFails
  <2> DEFINE o == IF cx.aborted THEN "interrupted" ELSE "thrown"
  <2>1. o \in {"interrupted", "thrown"} /\ Local([cx EXCEPT !.out = o])
    BY <1>5 DEF SetUpFails
  <2> HIDE DEF o
  <2> QED
    BY <1>1, <1>4, <2>1
<1>6. CASE AccountChanges
  <2> DEFINE d == [cx EXCEPT !.verified = FALSE]
  <2>1. Calm(d)
    BY <1>4
  <2>2. Local(IF cx.starting \/ cx.turnId THEN Interrupt(d) ELSE d)
    BY <1>6 DEF AccountChanges
  <2> HIDE DEF d
  <2> QED
    BY <1>1, <1>2, <2>1, <2>2
<1>7. CASE AccountVerified
  BY <1>1, <1>4, <1>7 DEF AccountVerified
<1>8. CASE Abort
  <2>1. Calm([cx EXCEPT !.aborted = TRUE]) /\ Local(Interrupt([cx EXCEPT !.aborted = TRUE]))
    BY <1>4, <1>8 DEF Abort
  <2> QED
    BY <1>1, <1>2, <2>1
<1>9. CASE InterruptTimer
  BY <1>0, <1>1, <1>2, <1>9 DEF InterruptTimer
<1>10. CASE Deadline
  BY <1>0, <1>1, <1>2, <1>10 DEF Deadline
<1>11. CASE Quarantined
  BY <1>0, <1>1, <1>2, <1>11 DEF Quarantined
<1>12. CASE ProcessCloses
  BY <1>0, <1>1, <1>2, <1>12 DEF ProcessCloses
<1> QED
  BY <1>5, <1>6, <1>7, <1>8, <1>9, <1>10, <1>11, <1>12

LEMMA SetUpKept == ASSUME TurnInv, SetUp PROVE TurnInv'
<1>1. cx.step = "setup" /\ cx' = [cx EXCEPT !.step = "bound"] /\ pv' = pv /\ wire' = wire
  BY DEF SetUp, Local
<1>2. TurnSound(cx')
  <2>1. TurnSound(cx)
    BY DEF TurnInv
  <2> QED
    BY <1>1, <2>1, SmallStep
<1>3. /\ cx'.calls = cx.calls /\ cx'.reqs = cx.reqs /\ cx'.evs = cx.evs /\ (cx'.settled <=> cx.settled)
      /\ pv.turn = "none"
  BY <1>1 DEF TurnInv, TurnSound, TurnLocals, Announced
<1>4. CodexTurnTypeOK' /\ CallsSent' /\ Announced'
  BY <1>1, <1>2, <1>3 DEF TurnInv, CodexTurnTypeOK, TurnSound, CallsSent, Announced
<1>5. EndTrue' /\ EndLast'
  BY <1>1, <1>3 DEF TurnInv, EndTrue, EndLast, Over
<1> QED
  BY <1>2, <1>4, <1>5 DEF TurnInv

\* The turn starts: nothing of it was said before.
LEMMA TransmitsKept == ASSUME TurnInv, cx.step # "sent", Transmits PROVE TurnInv'
<1>1. /\ cx' = [cx EXCEPT !.step = "sent", !.starting = TRUE]
      /\ pv' = [pv EXCEPT !.turn = "running"] /\ wire' = wire /\ pv.turn = "none"
  BY DEF Transmits, Transmitted, TurnInv, Announced
<1>2. TurnSound(cx')
  BY <1>1 DEF TurnInv, TurnSound, TurnLocals
<1>3. /\ cx'.calls = cx.calls /\ cx'.reqs = cx.reqs /\ cx'.evs = cx.evs /\ (cx'.settled <=> cx.settled) /\ cx'.step = "sent"
  BY <1>1 DEF TurnInv, TurnSound, TurnLocals
<1>4. pv'.sent = pv.sent /\ CodexTurnTypeOK'
  BY <1>1, <1>2, <1>3 DEF TurnInv, CodexTurnTypeOK, TurnSound
<1>5. CallsSent' /\ Announced'
  BY <1>1, <1>3, <1>4 DEF TurnInv, CallsSent, Announced
<1>6. EndTrue' /\ EndLast'
  BY <1>1, <1>3 DEF TurnInv, EndTrue, EndLast, Over
<1> QED
  BY <1>2, <1>4, <1>5, <1>6 DEF TurnInv

LEMMA AnnounceKept == ASSUME TurnInv, AnnounceTurn \/ AdmitAndTransmit PROVE TurnInv'
<1>1. cx.step # "sent"
  BY DEF AnnounceTurn, AdmitAndTransmit
<1>2. TurnSound(cx)
  BY DEF TurnInv
<1>3. CASE Transmits
  BY <1>1, <1>3, TransmitsKept
<1>4. CASE Local([cx EXCEPT !.out = "interrupted"])
  BY <1>2, <1>4, SmallStep, AsideKept DEF Local
<1>5. CASE Local([cx EXCEPT !.step = "intent"])
  <2>1. cx' = [cx EXCEPT !.step = "intent"] /\ pv' = pv /\ wire' = wire
    BY <1>5 DEF Local
  <2>2. TurnSound(cx')
    BY <1>2, <2>1, SmallStep
  <2>3. /\ cx'.calls = cx.calls /\ cx'.reqs = cx.reqs /\ cx'.evs = cx.evs /\ (cx'.settled <=> cx.settled)
        /\ pv.turn = "none"
    BY <1>1, <2>1 DEF TurnInv, TurnSound, TurnLocals, Announced
  <2>4. CodexTurnTypeOK' /\ CallsSent' /\ Announced'
    BY <2>1, <2>2, <2>3 DEF TurnInv, CodexTurnTypeOK, TurnSound, CallsSent, Announced
  <2>5. EndTrue' /\ EndLast'
    BY <2>1, <2>3 DEF TurnInv, EndTrue, EndLast, Over
  <2> QED
    BY <2>2, <2>4, <2>5 DEF TurnInv
<1> QED
  BY <1>3, <1>4, <1>5 DEF AnnounceTurn, AdmitAndTransmit

\* The first message of the wire is read and leaves the rest of it.
LEMMA ReceiveKept == ASSUME TurnInv, Receive PROVE TurnInv'
<1> DEFINE m == Head(wire)
<1>0. TurnSound(cx) /\ wire # <<>> /\ wire \in Seq(Message) /\ wire' = Tail(wire) /\ pv' = pv
  BY DEF Receive, TurnInv, CodexTurnTypeOK
<1>1. /\ wire' \in Seq(Message) /\ 1 \in DOMAIN wire /\ m = wire[1] /\ m \in Message
      /\ \A k \in DOMAIN wire' : k + 1 \in DOMAIN wire /\ wire'[k] = wire[k + 1] /\ k \in Nat /\ 1 < k + 1
      /\ Unread(wire') <= Unread(wire)
      /\ m \in Asking => Unread(wire') + 1 <= Unread(wire)
      /\ Unread(wire') \in Nat /\ Unread(wire) \in Nat
  BY <1>0, UnreadTail
<1>2. Reported \in Ends
  BY DEF Reported, Ends
<1> HIDE DEF m
<1>3. ASSUME TurnSound(cx'), cx'.step = cx.step, cx'.settled => cx.settled \/ m = EndOfTurn,
             cx'.evs = cx.evs \/ (m \in Ending /\ cx'.evs = Append(cx.evs, m)),
             cx'.calls + Len(cx'.reqs) + Unread(wire') <= pv.sent
      PROVE  TurnInv'
  <2>1. cx.evs \in Seq(Ending) /\ cx'.reqs \in Seq(Asking) /\ cx'.calls \in Nat /\ Len(cx'.reqs) \in Nat
    BY <1>0, <1>3, SequenceAsFunction DEF TurnSound, TurnLocals
  <2>2. /\ \A k \in DOMAIN cx'.evs : cx'.evs[k] = m \/ (k \in DOMAIN cx.evs /\ cx'.evs[k] = cx.evs[k])
    <3>1. CASE cx'.evs = cx.evs
      BY <3>1
    <3>2. CASE m \in Ending /\ cx'.evs = Append(cx.evs, m)
      <4>1. /\ cx'.evs \in Seq(Ending) /\ Len(cx'.evs) = Len(cx.evs) + 1 /\ cx'.evs[Len(cx.evs) + 1] = m
            /\ \A k \in 1..Len(cx.evs) : cx'.evs[k] = cx.evs[k]
        BY <2>1, <3>2, AppendProperties
      <4>2. DOMAIN cx'.evs = 1..Len(cx'.evs) /\ DOMAIN cx.evs = 1..Len(cx.evs) /\ Len(cx.evs) \in Nat
        BY <2>1, <4>1, SequenceAsFunction
      <4> QED
        BY <4>1, <4>2
    <3> QED
      BY <1>3, <3>1, <3>2
  <2>3. Over' = Over /\ (m = EndOfTurn => Over)
    BY <1>0, <1>1 DEF Over, TurnInv, EndTrue
  <2>4. m = EndOfTurn => \A k \in DOMAIN wire' : wire'[k] \notin Asking
    BY <1>1 DEF TurnInv, EndLast
  <2>5. EndTrue'
    BY <1>1, <1>3, <2>2, <2>3 DEF TurnInv, EndTrue
  <2>6. EndLast'
    <3>1. cx'.settled => \A k \in DOMAIN wire' : wire'[k] \notin Asking
      BY <1>1, <1>3, <2>4 DEF TurnInv, EndLast
    <3>2. \A i \in DOMAIN cx'.evs, k \in DOMAIN wire' : cx'.evs[i] = EndOfTurn => wire'[k] \notin Asking
      BY ZenonT(40), <1>1, <2>2, <2>4 DEF TurnInv, EndLast
    <3>3. \A i, k \in DOMAIN wire' : wire'[i] = EndOfTurn /\ i < k => wire'[k] \notin Asking
      <4>1. \A i, k \in DOMAIN wire' : i < k => i + 1 < k + 1
        BY <1>1
      <4> QED
        BY <1>1, <4>1 DEF TurnInv, EndLast
    <3> QED
      BY <3>1, <3>2, <3>3 DEF EndLast
  <2>7. Announced' /\ CallsSent'
    BY <1>0, <1>3 DEF TurnInv, Announced, CallsSent
  <2>8. CodexTurnTypeOK'
    <3>1. cx'.calls <= RequestBound
      <4>1. \A a, b, c, d, e \in Nat : a + b + c <= d /\ d <= e => a <= e
        OBVIOUS
      <4>2. pv.sent \in Nat /\ pv.sent <= RequestBound
        BY CodexTurnAssumption DEF TurnInv, CodexTurnTypeOK
      <4> QED
        BY <1>1, <1>3, <2>1, <4>1, <4>2, CodexTurnAssumption
    <3>2. CodexTurnTypeOK
      BY DEF TurnInv
    <3> QED
      BY <1>0, <1>1, <1>3, <3>1, <3>2 DEF CodexTurnTypeOK, TurnSound
  <2> QED
    BY <1>3, <2>5, <2>6, <2>7, <2>8 DEF TurnInv
<1>4. cx.calls \in Nat /\ Len(cx.reqs) \in Nat /\ cx.reqs \in Seq(Asking) /\ pv.sent \in Nat
      /\ cx.calls + Len(cx.reqs) + Unread(wire) <= pv.sent
  BY <1>0, SequenceAsFunction DEF TurnSound, TurnLocals, TurnInv, CodexTurnTypeOK, CallsSent
<1>5. CASE m[1] = "response"
  <2>1. cx' = [cx EXCEPT !.read = TRUE]
    BY <1>5 DEF Receive, m
  <2>2. TurnSound(cx') /\ Aside(cx, cx')
    BY <1>0, <2>1, SmallStep
  <2>3. cx'.calls + Len(cx'.reqs) + Unread(wire') <= pv.sent
    BY <1>1, <1>4, <2>2 DEF Aside
  <2> QED
    BY <1>3, <2>2, <2>3 DEF Aside
<1>6. CASE m[1] = "done"
  <2>1. cx' = HandleEvent(cx, m, Reported)
    BY <1>6 DEF Receive, m
  <2>2. m \in Ending
    BY <1>1, <1>6 DEF Message, Asking, Ending
  <2>3. EventStep(cx, cx', m)
    BY <1>0, <1>2, <2>1, <2>2, EventSound
  <2>4. cx'.calls + Len(cx'.reqs) + Unread(wire') <= pv.sent
    BY <1>1, <1>4, <2>3 DEF EventStep
  <2> QED
    BY <1>3, <2>2, <2>3, <2>4 DEF EventStep
<1>7. CASE m[1] # "response" /\ m[1] # "done"
  <2>1. cx' = HandleRequest(cx, m)
    BY <1>7 DEF Receive, m
  <2>2. m \in Asking
    BY <1>1, <1>7 DEF Message, Asking, Ending
  <2>3. ~cx.settled
    BY <1>1, <2>2 DEF TurnInv, EndLast
  <2>4. RequestStep(cx, cx', m)
    BY <1>0, <2>1, <2>2, <2>3, RequestSound
  <2>5. cx'.calls + Len(cx'.reqs) <= cx.calls + Len(cx.reqs) + 1 /\ cx'.calls \in Nat /\ Len(cx'.reqs) \in Nat
    <3>1. Len(Append(cx.reqs, m)) = Len(cx.reqs) + 1
      BY <1>4, <2>2, AppendProperties
    <3>2. cx'.calls \in Nat
      BY <2>4 DEF RequestStep, TurnSound, TurnLocals
    <3> QED
      BY <1>4, <2>4, <3>1, <3>2 DEF RequestStep
  <2>6. cx'.calls + Len(cx'.reqs) + Unread(wire') <= pv.sent
    <3>1. \A a, b, c, d, e, f, g \in Nat : a + b <= c + d + 1 /\ e + 1 <= f /\ c + d + f <= g => a + b + e <= g
      OBVIOUS
    <3>2. Unread(wire') + 1 <= Unread(wire)
      BY <1>1, <2>2
    <3> QED
      BY ONLY <1>1, <1>4, <2>5, <3>1, <3>2
  <2> QED
    BY <1>3, <2>4, <2>6 DEF RequestStep
<1> QED
  BY <1>5, <1>6, <1>7

\* The turn's id is known: the requests buffered are handled, then the notifications.
LEMMA TurnKnownKept == ASSUME TurnInv, TurnKnown PROVE TurnInv'
<1> DEFINE c == [cx EXCEPT !.turnId = TRUE, !.starting = FALSE]
           r == HandleRequests(c, cx.reqs)
           e == HandleEvents(r, cx.evs, Reported)
           d == [e EXCEPT !.reqs = <<>>, !.evs = <<>>]
<1>0. TurnSound(cx) /\ ~cx.turnId /\ ~cx.settled /\ cx.reqs \in Seq(Asking) /\ cx.evs \in Seq(Ending)
      /\ cx.calls \in Nat /\ Len(cx.reqs) \in Nat /\ wire' = wire /\ pv' = pv
  BY SequenceAsFunction DEF TurnKnown, TurnInv, TurnSound, TurnLocals, Local
<1>1. TurnSound(c) /\ ~c.settled /\ c.turnId /\ c.reqs = cx.reqs /\ c.evs = cx.evs /\ c.calls = cx.calls /\ c.step = cx.step
  BY <1>0 DEF TurnSound, TurnLocals
<1>2. cx' = IF d.stopping \/ d.aborted THEN Interrupt(d) ELSE d
  BY <1>1 DEF TurnKnown, Local, Replay
<1> HIDE DEF c
<1>3. TurnSound(r) /\ ~r.settled /\ r.turnId /\ r.step = cx.step /\ r.evs = cx.evs /\ r.calls <= cx.calls + Len(cx.reqs)
  BY <1>0, <1>1, RequestsSound
<1>4. Reported \in Ends
  BY DEF Reported, Ends
<1> HIDE DEF r
<1>5. TurnSound(e) /\ e.step = cx.step /\ e.calls = r.calls /\ (e.settled => \E k \in DOMAIN cx.evs : cx.evs[k] = EndOfTurn)
  BY <1>0, <1>3, <1>4, EventsSound
<1> HIDE DEF e
<1>6. /\ TurnSound(d) /\ d.step = cx.step /\ d.calls = r.calls /\ (d.settled <=> e.settled)
      /\ d.reqs = <<>> /\ d.evs = <<>>
  <2>1. <<>> \in Seq(Asking) /\ <<>> \in Seq(Ending)
    BY EmptySeq
  <2> QED
    BY <1>5, <2>1 DEF TurnSound, TurnLocals
<1> HIDE DEF d
<1>7. TurnSound(cx') /\ Aside(d, cx')
  <2>1. Aside(d, d)
    BY DEF Aside
  <2> QED
    BY <1>2, <1>6, <2>1, InterruptSound
<1>8. /\ cx'.step = cx.step /\ cx'.calls <= cx.calls + Len(cx.reqs) /\ cx'.reqs = <<>> /\ cx'.evs = <<>>
      /\ cx'.settled => \E k \in DOMAIN cx.evs : cx.evs[k] = EndOfTurn
  BY <1>3, <1>5, <1>6, <1>7 DEF Aside
<1>9. cx'.calls + Len(cx'.reqs) + Unread(wire') <= pv.sent /\ cx'.calls <= RequestBound
  <2>1. \A a, b, l, u, s, n \in Nat : a <= b + l /\ b + l + u <= s /\ s <= n => a + 0 + u <= s /\ a <= n
    OBVIOUS
  <2>2. cx'.calls \in Nat /\ Len(cx'.reqs) = 0 /\ Unread(wire) \in Nat /\ pv.sent \in Nat /\ pv.sent <= RequestBound
    BY <1>7, <1>8, EmptySeq, UnreadTyped, CodexTurnAssumption DEF TurnSound, TurnLocals, TurnInv, CodexTurnTypeOK
  <2>3. cx.calls + Len(cx.reqs) + Unread(wire) <= pv.sent
    BY DEF TurnInv, CallsSent
  <2> QED
    BY <1>0, <1>8, <2>1, <2>2, <2>3, CodexTurnAssumption
<1>10. DOMAIN cx'.evs = {} /\ Over' = Over
  BY <1>0, <1>8 DEF Over
<1>11. EndTrue'
  BY <1>0, <1>8, <1>10 DEF TurnInv, EndTrue
<1>12. EndLast'
  BY <1>0, <1>8, <1>10 DEF TurnInv, EndLast
<1>13. CodexTurnTypeOK' /\ Announced' /\ CallsSent'
  <2>1. CodexTurnTypeOK /\ Announced
    BY DEF TurnInv
  <2> QED
    BY <1>0, <1>7, <1>8, <1>9, <2>1 DEF CodexTurnTypeOK, TurnSound, Announced, CallsSent
<1> QED
  BY <1>7, <1>11, <1>12, <1>13 DEF TurnInv

\* A tool callback ends, and the turn with it when it waited for the last one.
LEMMA ToolEndsKept ==
  ASSUME TurnInv, NEW how \in {"answered", "rejected", "correctable", "revoked"}, ToolEnds(how)
  PROVE  TurnInv'
<1> DEFINE Rest(x) == /\ TurnSound(x) /\ x.calls = cx.calls /\ x.reqs = cx.reqs /\ x.evs = cx.evs /\ x.step = cx.step
                      /\ (x.settled <=> cx.settled)
           n == cx.open - 1
           o == [cx EXCEPT !.open = n]
           c == Callback(o, how)
<1>0. TurnSound(cx) /\ cx.open > 0 /\ cx' = (IF c.completing # "none" /\ c.open = 0 THEN Finalize(c, c.completing) ELSE c)
      /\ pv' = pv /\ wire' = wire
  BY DEF ToolEnds, Local, TurnInv
<1>1. Rest(o)
  <2>1. n \in Nat /\ n <= cx.calls /\ cx.out # "completed"
    BY <1>0 DEF TurnSound, TurnLocals
  <2> HIDE DEF n
  <2> QED
    BY <1>0, <2>1 DEF TurnSound, TurnLocals
<1> HIDE DEF o
<1>2. ASSUME NEW x, Rest(x), NEW y, TurnSound(y), Aside(x, y)  PROVE Rest(y)
  BY <1>2 DEF Aside
<1>3. Rest(c)
  <2>1. CASE how = "revoked"
    <3>1. TurnSound(Finalize(o, "failed")) /\ Aside(o, Finalize(o, "failed"))
      BY <1>1, FinalizeSound DEF Ends
    <3>2. c = Finalize(o, "failed")
      BY <2>1 DEF Callback
    <3> QED
      BY <1>1, <1>2, <3>1, <3>2
  <2>2. CASE how = "correctable" /\ Correctable(o)
    <3>1. o.fixes + 1 \in 0..Corrections
      BY <1>1, <2>2, CodexTurnAssumption DEF Correctable, TurnSound, TurnLocals
    <3>2. c = [o EXCEPT !.fixes = o.fixes + 1]
      BY <2>2 DEF Callback
    <3> DEFINE f == o.fixes + 1
    <3> HIDE DEF f
    <3>3. f \in 0..Corrections /\ c = [o EXCEPT !.fixes = f]
      BY <3>1, <3>2 DEF f
    <3>4. TurnSound(c) /\ Aside(o, c)
      BY <1>1, <3>3 DEF TurnSound, TurnLocals, Aside
    <3> QED
      BY <1>1, <1>2, <3>4
  <2>3. CASE how = "answered" /\ Live(o)
    <3>1. c = o
      BY <2>3 DEF Callback
    <3> QED
      BY <1>1, <3>1
  <2>4. CASE ~(how = "revoked") /\ ~(how = "correctable" /\ Correctable(o)) /\ ~(how = "answered" /\ Live(o))
    <3>1. c = Reject(o)
      BY <2>4 DEF Callback
    <3>2. TurnSound(Reject(o)) /\ Aside(o, Reject(o))
      BY <1>1, RejectSound
    <3> QED
      BY <1>1, <1>2, <3>1, <3>2
  <2> QED
    BY <2>1, <2>2, <2>3, <2>4
<1> HIDE DEF c
<1>4. Rest(cx')
  <2>1. CASE c.completing # "none" /\ c.open = 0
    <3>1. c.completing \in Ends
      BY <1>3, <2>1 DEF TurnSound, TurnLocals
    <3>2. TurnSound(Finalize(c, c.completing)) /\ Aside(c, Finalize(c, c.completing))
      BY <1>3, <2>1, <3>1, FinalizeSound
    <3> QED
      BY <1>0, <1>2, <1>3, <2>1, <3>2
  <2>2. CASE ~(c.completing # "none" /\ c.open = 0)
    BY <1>0, <1>3, <2>2
  <2> QED
    BY <2>1, <2>2
<1>5. CodexTurnTypeOK' /\ Announced' /\ CallsSent' /\ Over' = Over
  BY <1>0, <1>4 DEF TurnInv, CodexTurnTypeOK, TurnSound, Announced, CallsSent, Over
<1>6. EndTrue' /\ EndLast'
  BY <1>0, <1>4, <1>5 DEF TurnInv, EndTrue, EndLast
<1> QED
  BY <1>4, <1>5, <1>6 DEF TurnInv

\* What the provider says goes to the end of the wire.
LEMMA SaysKept ==
  ASSUME TurnInv, NEW p, NEW m \in Message, Says(p, m),
         p \in [turn : {"none", "running", "completed", "failed", "interrupted"}, sent : 0..RequestBound, stale : BOOLEAN,
                answered : BOOLEAN],
         pv.turn = "none" => p.turn = "none",
         Over => p.turn \in {"completed", "failed", "interrupted"},
         m = EndOfTurn => p.turn \in {"completed", "failed", "interrupted"},
         m \in Asking => ~Over /\ pv.sent + 1 <= p.sent,
         pv.sent <= p.sent
  PROVE  TurnInv'
<1>0. TurnSound(cx) /\ wire \in Seq(Message) /\ wire' = Append(wire, m) /\ pv' = p /\ cx' = cx /\ pv.sent \in Nat /\ p.sent \in Nat
  BY CodexTurnAssumption DEF Says, TurnInv, CodexTurnTypeOK
<1>1. /\ wire' \in Seq(Message)
      /\ Unread(wire') <= Unread(wire) + 1 /\ (m \notin Asking => Unread(wire') <= Unread(wire))
      /\ Unread(wire') \in Nat /\ Unread(wire) \in Nat
  BY <1>0, UnreadAppend
<1>2. \A k \in DOMAIN wire' : /\ (k \in DOMAIN wire /\ wire'[k] = wire[k]) \/ (k = Len(wire) + 1 /\ wire'[k] = m)
                              /\ k <= Len(wire) + 1
  <2>1. Len(wire') = Len(wire) + 1 /\ wire'[Len(wire) + 1] = m /\ \A k \in 1..Len(wire) : wire'[k] = wire[k]
    BY <1>0, AppendProperties
  <2>2. DOMAIN wire = 1..Len(wire) /\ DOMAIN wire' = 1..Len(wire') /\ Len(wire) \in Nat
    BY <1>0, <1>1, SequenceAsFunction
  <2> QED
    BY <2>1, <2>2
<1>3. Over' <=> p.turn \in {"completed", "failed", "interrupted"}
  BY <1>0 DEF Over
<1>4. EndTrue'
  BY <1>0, <1>2, <1>3 DEF TurnInv, EndTrue
<1>5. EndLast'
  <2>1. m \in Asking => /\ ~cx.settled /\ \A k \in DOMAIN cx.evs : cx.evs[k] # EndOfTurn
                        /\ \A k \in DOMAIN wire : wire[k] # EndOfTurn
    BY DEF TurnInv, EndTrue
  <2>2. \A i, k \in DOMAIN wire' : wire'[i] = EndOfTurn /\ i < k => wire'[k] \notin Asking
    <3>1. TAKE i, k \in DOMAIN wire'
    <3>2. HAVE wire'[i] = EndOfTurn /\ i < k
    <3>3. Len(wire) \in Nat /\ i \in Nat /\ k \in Nat
      BY <1>0, <1>1, SequenceAsFunction
    <3>4. i \in DOMAIN wire /\ wire'[i] = wire[i]
      BY <1>2, <3>1, <3>2, <3>3
    <3> QED
      BY <1>2, <2>1, <3>1, <3>2, <3>4 DEF TurnInv, EndLast
  <2>3. cx.settled => \A k \in DOMAIN wire' : wire'[k] \notin Asking
    BY <1>2, <2>1 DEF TurnInv, EndLast
  <2>4. \A i \in DOMAIN cx.evs, k \in DOMAIN wire' : cx.evs[i] = EndOfTurn => wire'[k] \notin Asking
    BY <1>2, <2>1 DEF TurnInv, EndLast
  <2> QED
    BY <1>0, <2>2, <2>3, <2>4 DEF EndLast
<1>6. cx.calls + Len(cx.reqs) + Unread(wire') <= p.sent
  <2>1. cx.calls \in Nat /\ Len(cx.reqs) \in Nat
    BY <1>0, SequenceAsFunction DEF TurnSound, TurnLocals
  <2>2. cx.calls + Len(cx.reqs) + Unread(wire) <= pv.sent
    BY DEF TurnInv, CallsSent
  <2>3. \A a, b, u, v, s, t \in Nat : /\ a + b + u <= s /\ v <= u + 1 /\ s + 1 <= t => a + b + v <= t
                                      /\ a + b + u <= s /\ v <= u /\ s <= t => a + b + v <= t
    OBVIOUS
  <2>4. (Unread(wire') <= Unread(wire) + 1 /\ pv.sent + 1 <= p.sent) \/ (Unread(wire') <= Unread(wire) /\ pv.sent <= p.sent)
    BY <1>1
  <2> QED
    BY ONLY <1>0, <1>1, <2>1, <2>2, <2>3, <2>4
<1>7. CodexTurnTypeOK' /\ Announced' /\ CallsSent'
  BY <1>0, <1>1, <1>6 DEF TurnInv, CodexTurnTypeOK, Announced, CallsSent
<1> QED
  BY <1>0, <1>4, <1>5, <1>7 DEF TurnInv

LEMMA ProviderKept ==
  ASSUME TurnInv,
         \/ ProviderAnswers \/ ProviderReportsOld
         \/ \E kind \in {"tool", "approval"} : ProviderRequests(kind)
         \/ \E status \in {"completed", "failed", "interrupted"} : ProviderEnds(status)
  PROVE  TurnInv'
<1> DEFINE P == [turn : {"none", "running", "completed", "failed", "interrupted"}, sent : 0..RequestBound, stale : BOOLEAN,
                 answered : BOOLEAN]
<1>0. pv \in P /\ pv.sent \in Nat /\ RequestBound \in Nat
  BY CodexTurnAssumption DEF TurnInv, CodexTurnTypeOK
<1>1. CASE ProviderAnswers
  <2> DEFINE p == [pv EXCEPT !.answered = TRUE]
  <2>1. Says(p, <<"response", "this">>) /\ p \in P /\ p.turn = pv.turn /\ p.sent = pv.sent
    BY <1>0, <1>1 DEF ProviderAnswers
  <2>2. <<"response", "this">> \in Message /\ <<"response", "this">> \notin Asking /\ <<"response", "this">> # EndOfTurn
    BY DEF Message, Asking, EndOfTurn
  <2> HIDE DEF p
  <2> QED
    BY <1>0, <2>1, <2>2, SaysKept DEF Over
<1>2. CASE ProviderReportsOld
  <2> DEFINE p == [pv EXCEPT !.stale = TRUE]
  <2>1. Says(p, <<"done", "old">>) /\ p \in P /\ p.turn = pv.turn /\ p.sent = pv.sent
    BY <1>0, <1>2 DEF ProviderReportsOld
  <2>2. <<"done", "old">> \in Message /\ <<"done", "old">> \notin Asking /\ <<"done", "old">> # EndOfTurn
    BY DEF Message, Asking, Ending, EndOfTurn
  <2> HIDE DEF p
  <2> QED
    BY <1>0, <2>1, <2>2, SaysKept DEF Over
<1>3. ASSUME NEW kind \in {"tool", "approval"}, ProviderRequests(kind)  PROVE TurnInv'
  <2> DEFINE n == pv.sent + 1
             p == [pv EXCEPT !.sent = n]
  <2>1. n \in 0..RequestBound /\ pv.turn = "running" /\ Says(p, <<kind, "this">>) /\ pv.sent + 1 <= n /\ pv.sent <= n
    BY <1>0, <1>3 DEF ProviderRequests
  <2> HIDE DEF n
  <2>2. p \in P /\ p.turn = pv.turn /\ p.sent = n
    BY <1>0, <2>1
  <2>3. <<kind, "this">> \in Message /\ <<kind, "this">> \in Asking /\ <<kind, "this">> # EndOfTurn
    BY DEF Message, Asking, EndOfTurn
  <2> HIDE DEF p
  <2> QED
    BY <1>0, <2>1, <2>2, <2>3, SaysKept DEF Over
<1>4. ASSUME NEW status \in {"completed", "failed", "interrupted"}, ProviderEnds(status)  PROVE TurnInv'
  <2> DEFINE p == [pv EXCEPT !.turn = status]
  <2>1. pv.turn = "running" /\ Says(p, EndOfTurn) /\ p \in P /\ p.turn = status /\ p.sent = pv.sent
    BY <1>0, <1>4 DEF ProviderEnds, EndOfTurn
  <2>2. EndOfTurn \in Message /\ EndOfTurn \notin Asking
    BY DEF Message, Asking, Ending, EndOfTurn
  <2> HIDE DEF p
  <2> QED
    BY <1>0, <2>1, <2>2, SaysKept DEF Over
<1> QED
  BY <1>1, <1>2, <1>3, <1>4

LEMMA TurnSteps == TurnInv /\ [CodexTurnNext]_turnVars => TurnInv'
<1> SUFFICES ASSUME TurnInv, [CodexTurnNext]_turnVars PROVE TurnInv'
  OBVIOUS
<1>1. CASE UNCHANGED turnVars
  <2>1. cx' = cx /\ pv' = pv /\ wire' = wire
    BY <1>1 DEF turnVars
  <2>2. TurnSound(cx') /\ Aside(cx, cx')
    BY <2>1 DEF TurnInv, Aside
  <2> QED
    BY <2>1, <2>2, AsideKept
<1>2. CASE SetUpFails \/ AccountChanges \/ AccountVerified \/ Abort \/ InterruptTimer \/ Deadline \/ Quarantined \/ ProcessCloses
  BY <1>2, AsideActions
<1>3. CASE SetUp
  BY <1>3, SetUpKept
<1>4. CASE AnnounceTurn \/ AdmitAndTransmit
  BY <1>4, AnnounceKept
<1>5. CASE Receive
  BY <1>5, ReceiveKept
<1>6. CASE TurnKnown
  BY <1>6, TurnKnownKept
<1>7. CASE \E how \in {"answered", "rejected", "correctable", "revoked"} : ToolEnds(how)
  BY <1>7, ToolEndsKept
<1>8. CASE \/ ProviderAnswers \/ ProviderReportsOld
           \/ \E kind \in {"tool", "approval"} : ProviderRequests(kind)
           \/ \E status \in {"completed", "failed", "interrupted"} : ProviderEnds(status)
  BY <1>8, ProviderKept
<1> QED
  BY <1>1, <1>2, <1>3, <1>4, <1>5, <1>6, <1>7, <1>8 DEF CodexTurnNext

LEMMA TurnPromise == TurnInv => ToolsBeforeCompletion /\ SettledTruly
  BY DEF TurnInv, TurnSound, ToolsBeforeCompletion, SettledTruly, EndTrue, Over, Ends

-----------------------------------------------------------------------------
(* The parts together: each moves on its own.                              *)

LEMMA TalkMoves ==
  [TalkNext]_TalkVars =>
    /\ [ConversationsNext]_convVars /\ [DiscussionsNext]_discVars /\ [MandatesNext]_mndVars /\ [ClientsNext]_clientVars
    /\ part' = part /\ [part = "turn" /\ CodexTurnNext]_turnVars
<1> SUFFICES ASSUME [TalkNext]_TalkVars
             PROVE  /\ [ConversationsNext]_convVars /\ [DiscussionsNext]_discVars /\ [MandatesNext]_mndVars /\ [ClientsNext]_clientVars
                    /\ part' = part /\ [part = "turn" /\ CodexTurnNext]_turnVars
  OBVIOUS
<1>1. CASE UNCHANGED TalkVars
  BY <1>1 DEF TalkVars
<1>2. CASE TalkNext
  BY <1>2 DEF TalkNext
<1> QED
  BY <1>1, <1>2

LEMMA ConversationsAlways == TalkSpec => []ConversationsInv
<1>1. TalkInit => ConversationsInv
  BY ConversationsStart DEF TalkInit
<1>2. ConversationsInv /\ [TalkNext]_TalkVars => ConversationsInv'
  BY TalkMoves, ConversationsStep
<1> QED
  BY <1>1, <1>2, PTL DEF TalkSpec

\* A continuation that waits for a peer's answer always waits for a request that
\* can still be answered: none is left behind (conversations.ts: commitReply,
\* blockDelivery, recover).
THEOREM NoneOrphaned == TalkSpec => []NoOrphanContinuation
<1>1. ConversationsInv => NoOrphanContinuation
  BY DEF ConversationsInv, RepliesInv, Reserved, Answerable, NoOrphanContinuation
<1> QED
  BY <1>1, ConversationsAlways, PTL

\* A worker whose provider turn is unaccounted for runs nothing else, and has one
\* live context per conversation (conversations.ts: claim, prepareBinding, activateBinding).
THEOREM ContextsPrivate == TalkSpec => []PrivateContext
<1>1. ConversationsInv => PrivateContext
  BY DEF ConversationsInv, PrivateContext
<1> QED
  BY <1>1, ConversationsAlways, PTL

\* A committed reply is never taken back, and what was handed to a provider is
\* never handed out again (conversations.ts: submitReply, finish, recover).
THEOREM RepliesForGood == TalkSpec => AnsweredOnce
<1>1. ConversationsInv /\ [TalkNext]_TalkVars => [AnsweredStep]_convVars
  BY TalkMoves, ConversationsStep
<1> QED
  BY <1>1, ConversationsAlways, PTL DEF TalkSpec, AnsweredOnce, AnsweredStep

\* An active working group always has a next turn, and what it completed with had
\* read everything said (discussions.ts: progress, commitTurn, finish).
THEOREM GroupsKept == TalkSpec => []GroupsConclude
<1>1. TalkInit => DiscussionsInv
  BY DiscussionsStart DEF TalkInit
<1>2. DiscussionsInv /\ [TalkNext]_TalkVars => DiscussionsInv'
  BY TalkMoves, GroupSteps
<1>3. DiscussionsInv => GroupsConclude
  BY GroupPromise DEF DiscussionsInv
<1> QED
  BY <1>1, <1>2, <1>3, PTL DEF TalkSpec

\* What a client sends under one key is done once, while its device is trusted, and
\* what it is sent has no gap it is not told of (client-api.ts: handle, pump).
THEOREM ClientsKept == TalkSpec => ClientsTold
<1>1. TalkInit => ClientsInv
  BY ClientsStart DEF TalkInit
<1>2. ClientsInv /\ [TalkNext]_TalkVars => ClientsInv' /\ [ClientsTellStep]_clientVars
  BY TalkMoves, ClientsSteps
<1> QED
  BY <1>1, <1>2, PTL DEF TalkSpec, ClientsTold, ClientsTellStep

\* Every due instant of a schedule has its one occurrence, through coalescing, edits,
\* pauses and passes HQ died in, and a cycle is closed only over a decision and work
\* that a review was shown (mandates.ts: tick, progress, close).
THEOREM ReviewsDone == TalkSpec => []ReviewsKept
<1>1. TalkInit => MandatesInv
  BY MandateStart DEF TalkInit
<1>2. MandatesInv /\ [TalkNext]_TalkVars => MandatesInv'
  BY TalkMoves, MandatesSteps
<1>3. MandatesInv => ReviewsKept
  BY MandatesReviewed DEF ReviewsKept
<1> QED
  BY <1>1, <1>2, <1>3, PTL DEF TalkSpec

\* A turn that HQ takes for completed has run every tool call made in it, also those
\* that came before its id was known, and HQ calls a turn settled only when the
\* provider's own is over (codex.ts: handleRequest, notification, finish).
THEOREM TurnsTold == TalkSpec => []TurnTold
<1> DEFINE I == part = "turn" => TurnInv
<1>1. TalkInit => I
  BY TurnStart DEF TalkInit
<1>2. I /\ [TalkNext]_TalkVars => I'
  <2> SUFFICES ASSUME I, [TalkNext]_TalkVars, part' = "turn" PROVE TurnInv'
    OBVIOUS
  <2>1. part = "turn" /\ [CodexTurnNext]_turnVars
    BY DEF TalkNext, TalkVars, turnVars
  <2> QED
    BY <2>1, TurnSteps
<1>3. I => TurnTold
  BY TurnPromise DEF TurnTold
<1> QED
  BY <1>1, <1>2, <1>3, PTL DEF TalkSpec

\* The state of every part has its type: its invariant, and for the clients the
\* bounds of clocks and notifications too.
THEOREM TalkTyped == TalkSpec => []TalkTypeOK
<1> DEFINE I == /\ ConversationsInv /\ DiscussionsInv /\ MandatesInv /\ ClientsTyped
                /\ part = "turn" => TurnInv
<1>1. TalkInit => I
  BY ConversationsStart, DiscussionsStart, MandateStart, ClientsStart, ClientsTypesStart, TurnStart DEF TalkInit, ClientsTyped
<1>2. I /\ [TalkNext]_TalkVars => I'
  <2> SUFFICES ASSUME I, [TalkNext]_TalkVars PROVE I'
    OBVIOUS
  <2>1. [ConversationsNext]_convVars /\ [DiscussionsNext]_discVars /\ [MandatesNext]_mndVars /\ [ClientsNext]_clientVars
    BY TalkMoves
  <2>2. ConversationsInv' /\ DiscussionsInv' /\ MandatesInv'
    BY <2>1, ConversationsStep, GroupSteps, MandatesSteps
  <2>3. ClientsInv' /\ ClientsTypeOK'
    BY <2>1, ClientsSteps, ClientsTypes DEF ClientsTyped
  <2>4. ASSUME part' = "turn"  PROVE TurnInv'
    <3>1. part = "turn" /\ [CodexTurnNext]_turnVars
      BY <2>4 DEF TalkNext, TalkVars, turnVars
    <3> QED
      BY <3>1, TurnSteps
  <2> QED
    BY <2>2, <2>3, <2>4 DEF ClientsTyped
<1>3. I => TalkTypeOK
  BY DEF TalkTypeOK, ConversationsInv, RepliesInv, DiscussionsInv, MandatesInv, ClientsTyped, TurnInv
<1> QED
  BY <1>1, <1>2, <1>3, PTL DEF TalkSpec
=============================================================================
