------------------------------- MODULE Remote -------------------------------
(***************************************************************************)
(* A registered repository and its remote branch: fetches that only move   *)
(* forward, and publications of an integrated commit, each approved by the *)
(* owner for one old and one new commit.                                   *)
(* Source: src/control/remote-git.ts, persistence/projects-migration.ts.   *)
(*                                                                         *)
(* A commit is the history behind it, so an ancestor is a prefix.  Calls   *)
(* of the transport block HQ, so a handler is one step; a push that timed  *)
(* out may still land later.  Abstracted: envelopes and hashes, metadata   *)
(* and object bounds of a fetch (it succeeds or fails), and register().    *)
(***************************************************************************)
EXTENDS Integers, SequencesExt

CONSTANTS CommitBound, PublicationBound   \* bounds on commits and publications

ASSUME RemoteAssumption == CommitBound \in Nat /\ PublicationBound \in Nat

VARIABLES
    repo,   \* the repositories row, the head of the canonical clone, the tasks of the repository
    pubs,   \* project_operations, with their approvals and what was sent
    upstream    \* the remote branch

remoteVars == <<repo, pubs, upstream>>
Commit == Seq({"ours", "theirs"})
Unfetched == <<"none">>

\* The control columns of a repository, and of a publication with its approval.
Repository == [cur : Commit, head : Commit, seen : Commit \cup {Unfetched}, policy : {"none", "fetch_only", "approved_push"},
               state : {"unfetched", "configured", "in_sync", "local_ahead", "blocked"}, busy : BOOLEAN, failed : BOOLEAN]
PushOperation == [old : Commit, new : Commit, st : {"pending", "running", "completed", "blocked", "denied", "expired"},
                  ap : {"pending", "approved", "consumed", "denied", "expired"}, due : BOOLEAN, sent : BOOLEAN, flying : BOOLEAN]

RemoteTypeOK ==
    /\ repo \in Repository /\ pubs \in Seq(PushOperation) /\ Len(pubs) <= PublicationBound
    /\ upstream \in Commit /\ Len(upstream) <= CommitBound /\ Len(repo.head) <= CommitBound

RemoteInit ==
    /\ repo = [cur |-> <<>>, head |-> <<>>, seen |-> Unfetched, policy |-> "none", state |-> "unfetched", busy |-> FALSE, failed |-> FALSE]
    /\ pubs = <<>> /\ upstream = <<>>

-----------------------------------------------------------------------------
(* The repository and its work.                                            *)

Open == \E o \in DOMAIN pubs : pubs[o].st \in {"pending", "running"}
Verified == repo.head = repo.cur

Attach(policy) ==
    /\ ~repo.busy /\ ~Open /\ repo.policy # policy
    /\ repo' = [repo EXCEPT !.policy = policy, !.state = IF repo.seen = Unfetched THEN "unfetched" ELSE "configured"]
    /\ UNCHANGED <<pubs, upstream>>

\* New work waits for the publication; the retry of a failed task does not.
WorkOpens == ~repo.busy /\ (~Open \/ repo.failed) /\ repo' = [repo EXCEPT !.busy = TRUE] /\ UNCHANGED <<pubs, upstream>>

WorkEnds(integrated, failed) ==
    /\ repo.busy
    /\ integrated => Verified /\ Len(repo.cur) < CommitBound
    /\ LET cur == IF integrated THEN Append(repo.cur, "ours") ELSE repo.cur
       IN repo' = [repo EXCEPT !.cur = cur, !.head = IF integrated THEN cur ELSE @, !.busy = FALSE, !.failed = failed]
    /\ UNCHANGED <<pubs, upstream>>

Fetch ==
    LET moved(cur, state) == [repo EXCEPT !.cur = cur, !.head = cur, !.seen = upstream, !.state = state] IN
    /\ Verified /\ repo.policy # "none" /\ ~repo.busy /\ ~Open
    /\ \/ repo' = [repo EXCEPT !.state = "blocked"]
       \/ /\ repo.seen = Unfetched \/ IsPrefix(repo.seen, upstream)
          /\ \/ upstream = repo.cur /\ repo' = moved(repo.cur, "in_sync")
             \/ IsStrictPrefix(upstream, repo.cur) /\ repo' = moved(repo.cur, "local_ahead")
             \/ IsStrictPrefix(repo.cur, upstream) /\ repo' = moved(upstream, "in_sync")
             \/ IsStrictPrefix(repo.cur, upstream) /\ repo' = [repo EXCEPT !.head = upstream]   \* HQ dies after the merge
    /\ UNCHANGED <<pubs, upstream>>

-----------------------------------------------------------------------------
(* Publications.                                                           *)

RequestPush ==
    /\ Verified /\ ~repo.busy /\ ~Open /\ repo.policy = "approved_push" /\ Len(pubs) < PublicationBound
    /\ repo.cur # <<>> /\ Last(repo.cur) = "ours"     \* the commit of a completed integration
    /\ repo.seen = upstream /\ repo.state # "blocked" /\ IsStrictPrefix(upstream, repo.cur)
    /\ pubs' = Append(pubs, [old |-> upstream, new |-> repo.cur, st |-> "pending", ap |-> "pending", due |-> FALSE,
                             sent |-> FALSE, flying |-> FALSE])
    /\ UNCHANGED <<repo, upstream>>

ApprovalExpires(o) ==
    pubs[o].ap \in {"pending", "approved"} /\ ~pubs[o].due /\ pubs' = [pubs EXCEPT ![o].due = TRUE] /\ UNCHANGED <<repo, upstream>>

\* A mutant of Expires: an approval that was used expires as well.
ExpiresConsumed(o) == pubs[o].due \/ pubs[o].ap = "consumed"
Expires(o) == pubs[o].due /\ pubs[o].ap \in {"pending", "approved"}

\* The trigger project_operation_terminal aborts the expiry of such an operation.
Aborts(o) == Expires(o) /\ pubs[o].st \in {"completed", "blocked", "denied", "expired"}
ExpiryFails == \E o \in DOMAIN pubs : Aborts(o)

\* The rows with another in the place of o.
Rewritten(ps, o, row) == [k \in DOMAIN ps |-> IF k = o THEN row ELSE ps[k]]

\* expire(), one transaction for each approval, up to the first that fails.
Expired ==
    LET now == {o \in DOMAIN pubs : Expires(o) /\ ~\E k \in 1..o : Aborts(k)}
    IN [o \in DOMAIN pubs |-> IF o \in now THEN [pubs[o] EXCEPT !.ap = "expired", !.st = "expired"] ELSE pubs[o]]
ExpireApprovals == pubs' = Expired /\ pubs' # pubs /\ UNCHANGED <<repo, upstream>>

DecidePush(o, approved) ==
    /\ ~ExpiryFails /\ Expired[o].ap = "pending"
    /\ LET row == Expired[o]
       IN pubs' = Rewritten(Expired, o, IF approved THEN [row EXCEPT !.ap = "approved"] ELSE [row EXCEPT !.ap = "denied", !.st = "denied"])
    /\ UNCHANGED <<repo, upstream>>

Valid(o) == Verified /\ ~repo.busy /\ repo.policy = "approved_push" /\ repo.cur = pubs[o].new

\* The states of the rows after a publication was confirmed, or its preconditions changed.
Finished(ps, o) == pubs' = Rewritten(ps, o, [ps[o] EXCEPT !.st = "completed"]) /\ repo' = [repo EXCEPT !.seen = ps[o].new, !.state = "in_sync"]
Blocked(ps, o) == pubs' = Rewritten(ps, o, [ps[o] EXCEPT !.st = "blocked"]) /\ repo' = [repo EXCEPT !.state = "blocked"]
Left(ps) == pubs' = ps /\ UNCHANGED repo

\* publish() and the inspection that follows; the push is refused unless the remote is at the old commit.
Publish(ps, o) ==
    LET sent == Rewritten(ps, o, [ps[o] EXCEPT !.sent = TRUE]) IN
    \/ upstream' = ps[o].new /\ (Finished(sent, o) \/ Left(sent))
    \/ UNCHANGED upstream /\ (Left(sent) \/ Left(Rewritten(sent, o, [sent[o] EXCEPT !.flying = TRUE])))
    \/ Len(upstream) < CommitBound /\ upstream' = Append(upstream, "theirs") /\ (Blocked(sent, o) \/ Left(sent))

\* execute(), which the owner asks for, and which recovery asks for to inspect only.
Execute(o, inspectOnly) ==
    /\ ~ExpiryFails
    /\ \/ Expired[o].st = "pending" /\ Expired[o].ap = "approved" /\ ~inspectOnly
       \/ Expired[o].st = "running" /\ Expired[o].ap = "consumed"
    /\ LET ps == Rewritten(Expired, o, [Expired[o] EXCEPT !.st = "running", !.ap = "consumed"]) IN
       IF ~Valid(o) THEN Blocked(Expired, o) /\ UNCHANGED upstream
       ELSE \/ Left(ps) /\ UNCHANGED upstream                                     \* the remote is not reachable
            \/ upstream = ps[o].new /\ Finished(ps, o) /\ UNCHANGED upstream
            \/ upstream \notin {ps[o].old, ps[o].new} /\ Blocked(ps, o) /\ UNCHANGED upstream
            \/ upstream = ps[o].old /\ ~inspectOnly /\ Publish(ps, o)

-----------------------------------------------------------------------------
(* The remote: others push, and a push of HQ lands late or is refused.     *)

OthersPush == Len(upstream) < CommitBound /\ upstream' = Append(upstream, "theirs") /\ UNCHANGED <<repo, pubs>>
LandsLate(o) ==
    /\ pubs[o].flying
    /\ pubs' = [pubs EXCEPT ![o].flying = FALSE] /\ upstream' = IF upstream = pubs[o].old THEN pubs[o].new ELSE upstream
    /\ UNCHANGED repo

RemoteNext ==
    \/ \E policy \in {"none", "fetch_only", "approved_push"} : Attach(policy)
    \/ WorkOpens \/ Fetch \/ RequestPush \/ ExpireApprovals \/ OthersPush
    \/ \E integrated, failed \in BOOLEAN : WorkEnds(integrated, failed)
    \/ \E o \in DOMAIN pubs :
          \/ ApprovalExpires(o) \/ LandsLate(o)
          \/ \E approved \in BOOLEAN : DecidePush(o, approved)
          \/ \E inspectOnly \in BOOLEAN : Execute(o, inspectOnly)

RemoteSpec == RemoteInit /\ [][RemoteNext]_remoteVars

-----------------------------------------------------------------------------
(* Properties.                                                             *)

\* What HQ records of a publication is what happened: a completed one is in
\* the remote's history, and one that was denied or expired was never sent,
\* whatever answers were lost, landed late, or were inspected again at startup.
PublicationTrue ==
    \A o \in DOMAIN pubs :
        /\ pubs[o].st = "completed" => IsPrefix(pubs[o].new, upstream)
        /\ pubs[o].st \in {"denied", "expired"} => ~pubs[o].sent

\* A blocked publication asks to "inspect before a new approval"
\* (remote-git.ts:143): its approval must not stop every later decision.
\* It does: expire() tries to expire an operation that is terminal, so that
\* approvals(), decide(), execute() and the snapshot of HQ fail from then on.
NewApprovalPossible == ~ExpiryFails
=============================================================================
