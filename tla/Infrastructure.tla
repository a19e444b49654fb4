--------------------------- MODULE Infrastructure ---------------------------
(***************************************************************************)
(* Protected host operations: what Nix requests, what the owner approves,  *)
(* and what the root provisioner does with an operation id, once, however  *)
(* often it is asked.                                                      *)
(* Source: src/control/infrastructure.ts, deploy/provisioner/provisioner.py*)
(* and the release of an allocation in src/control/projects.ts.            *)
(*                                                                         *)
(* A call to the provisioner blocks HQ, so it is one step; its answer may  *)
(* be lost, before or after the work, half done or done, which is also     *)
(* what a crash of HQ in the middle looks like.  Every worker has at most  *)
(* one allocation.  Abstracted: the contents of an envelope and its hash   *)
(* (an operation cannot change), capability profiles, paths, UIDs, module  *)
(* manifests, and the clone's files.                                       *)
(***************************************************************************)
EXTENDS Integers, Sequences, FiniteSets

CONSTANTS
    Staff, Nix,   \* the workers to be served, and the DevOps worker
    OpBound, ChoreBound   \* bounds on protected operations and on Nix's tasks

\* Nix serves the others.
ASSUME InfrastructureAssumption == Nix \notin Staff /\ OpBound \in Nat /\ ChoreBound \in Nat

VARIABLES
    hr,       \* HQ's rows of a worker, see InfrastructureTypeOK
    ops,      \* protected_operations with their approvals
    chores,   \* Nix's infrastructure tasks
    shift,    \* the chore whose execution runs, 0 if none
    host      \* the provisioner: accounts, clones and receipts

infraVars == <<hr, ops, chores, shift, host>>
Known == Staff \cup {Nix}
Create == "create_worker_identity"
Disable == "disable_worker_identity"
Prepare == "prepare_worker_project_clone"
Revoke == "revoke_worker_project_access"
ProtectedType == {Create, Disable, Prepare, Revoke}

\* Operation ids: of an approved operation, a release, a retirement.
Ids == {<<>>} \cup {<<"op", k>> : k \in 1..OpBound} \cup {"release", "retire"} \X Known

\* The control columns of what HQ records of a worker, an approval and a task,
\* and the journal of the provisioner.
IdentState == {"unprovisioned", "ready", "disabled"}
AllocState == {"none", "pending_infrastructure", "active", "integrated", "released"}
ProjState == {"none", "pending", "ready", "revoked"}
StaffRow == [on : BOOLEAN, temp : BOOLEAN, ident : IdentState, alloc : AllocState, proj : ProjState,
             work : {"none", "queued", "working", "blocked", "completed", "cancelled"},
             release : {"none", "pending", "completed"}, retire : {"none", "pending", "completed"}]
ProtectedOperation == [type : ProtectedType, w : Known, chore : Nat, turn : Nat, due : BOOLEAN,
                       st : {"pending", "running", "completed", "denied", "expired"},
                       pre : [on : BOOLEAN, ident : IdentState, alloc : AllocState, proj : ProjState]]
NixTask == [w : Staff, type : ProtectedType, turns : Nat,
            last : {"none", "completed", "awaiting_approval", "interrupted", "failed"},
            st : {"queued", "working", "awaiting_approval", "blocked", "completed", "failed", "cancelled"}]
HostState == [acct : [Known -> {"none", "creating", "ready", "disabled"}], by : [Known -> Ids],
              clone : [Known -> {"none", "preparing", "ready", "revoking", "revoked"}],
              cby : [Known -> Ids], done : SUBSET Ids]

InfrastructureTypeOK ==
    /\ hr \in [Known -> StaffRow] /\ ops \in Seq(ProtectedOperation) /\ chores \in Seq(NixTask) /\ host \in HostState
    /\ Len(ops) <= OpBound /\ Len(chores) <= ChoreBound /\ shift \in 0..Len(chores)

\* Either nothing is provisioned yet, or every identity is (by operations long past).
InfrastructureInit ==
    /\ \E known, temp \in BOOLEAN :
          /\ hr = [w \in Known |-> [on |-> TRUE, temp |-> temp /\ w # Nix, ident |-> IF known THEN "ready" ELSE "unprovisioned",
                                    alloc |-> "none", proj |-> "none", work |-> "none", release |-> "none", retire |-> "none"]]
          /\ host = [acct |-> [w \in Known |-> IF known THEN "ready" ELSE "none"], by |-> [w \in Known |-> <<>>],
                     clone |-> [w \in Known |-> "none"], cby |-> [w \in Known |-> <<>>], done |-> {}]
    /\ ops = <<>> /\ chores = <<>> /\ shift = 0

-----------------------------------------------------------------------------
(* The provisioner.  handle(): a completed receipt is answered again, an   *)
(* unfinished operation is performed again by the same operation id.       *)

\* Each operation: whether it is accepted, what it leaves when it is cut off, and what it ends with.
CreateIdentity(id, w) ==
    [may |-> host.acct[w] = "none" \/ (host.by[w] = id /\ host.acct[w] # "disabled"),
     cut |-> [host EXCEPT !.acct[w] = IF @ = "none" THEN "creating" ELSE @, !.by[w] = id],
     end |-> [host EXCEPT !.acct[w] = "ready", !.by[w] = id]]
DisableIdentity(w) ==
    [may |-> host.acct[w] # "none",
     cut |-> [host EXCEPT !.acct[w] = "disabled"],
     end |-> [host EXCEPT !.acct[w] = "disabled", !.clone[w] = IF @ = "none" THEN @ ELSE "revoked"]]
PrepareClone(id, w) ==
    [may |-> host.acct[w] = "ready"
             /\ (host.clone[w] = "none" \/ (host.cby[w] = id /\ host.clone[w] \in {"preparing", "ready"})),
     cut |-> [host EXCEPT !.clone[w] = IF @ = "none" THEN "preparing" ELSE @, !.cby[w] = id],
     end |-> [host EXCEPT !.clone[w] = "ready", !.cby[w] = id]]
RevokeAccess(id, w) ==
    [may |-> host.acct[w] = "ready" /\ (host.clone[w] = "ready" \/ host.cby[w] = id),
     cut |-> [host EXCEPT !.clone[w] = "revoking", !.cby[w] = id],
     end |-> [host EXCEPT !.clone[w] = "revoked", !.cby[w] = id]]
Perform(id, type, w) ==
    CASE type = Create -> CreateIdentity(id, w)
      [] type = Disable -> DisableIdentity(w)
      [] type = Prepare -> PrepareClone(id, w)
      [] type = Revoke -> RevokeAccess(id, w)

\* What a request may leave behind, and whether HQ hears of it.
Handle(id, type, w) ==
    LET op == Perform(id, type, w)
    IN {<<host, FALSE>>} \cup
       IF id \in host.done THEN {<<host, TRUE>>}
       ELSE IF ~op.may THEN {}
       ELSE {<<op.cut, FALSE>>} \cup ({[op.end EXCEPT !.done = @ \cup {id}]} \X BOOLEAN)

-----------------------------------------------------------------------------
(* HQ's rules.                                                             *)

Ended == {"completed", "failed", "cancelled"}
NixReady == hr[Nix].on /\ hr[Nix].ident = "ready"

Retirable(w) ==
    /\ w # Nix /\ hr[w].work \in {"none", "completed", "cancelled"}
    /\ hr[w].alloc \in {"none", "integrated", "released"}

Preconditions(type, w) ==
    /\ hr[w].on
    /\ IF type = Create THEN hr[w].ident = "unprovisioned" ELSE hr[w].ident = "ready"
    /\ type \in {Disable, Revoke} => Retirable(w)
    /\ type = Prepare => hr[w].alloc = "pending_infrastructure" /\ hr[w].proj = "pending"
    /\ type = Revoke => hr[w].proj = "ready"

Snapshot(w) == [on |-> hr[w].on, ident |-> hr[w].ident, alloc |-> hr[w].alloc, proj |-> hr[w].proj]

Same(o, type, w) == ops[o].w = w /\ ops[o].type = type /\ ops[o].st \in {"pending", "running"}
NewOp(type, w, chore, turn) ==
    Append(ops, [type |-> type, w |-> w, chore |-> chore, turn |-> turn, due |-> FALSE, st |-> "pending", pre |-> Snapshot(w)])

\* What enqueue() adds to the chores: nothing if one of that type and worker is open.
Enqueued(type, w) ==
    LET open == \E c \in DOMAIN chores : chores[c].w = w /\ chores[c].type = type /\ chores[c].st \notin Ended
        moot == type = Create /\ hr[w].ident # "unprovisioned"
    IN IF open \/ moot THEN <<>> ELSE <<[w |-> w, type |-> type, turns |-> 0, last |-> "none", st |-> "queued"]>>

\* A mutant of Resolve: the chore is left waiting when its operation fails.
ResolveSuccess(cs, c, success) == IF success /\ c # 0 /\ cs[c].st = "awaiting_approval" THEN [cs EXCEPT ![c].st = "queued"] ELSE cs

\* resolveTask(): only a chore that waits for its approval is touched.
Resolve(cs, c, success) ==
    IF c # 0 /\ cs[c].st = "awaiting_approval" THEN [cs EXCEPT ![c].st = IF success THEN "queued" ELSE "blocked"] ELSE cs


-----------------------------------------------------------------------------
(* Nix at work.                                                            *)

OwnsOp(c, S) == \E o \in DOMAIN ops : ops[o].chore = c /\ ops[o].st \in S

\* initializeNixRequest(): the only request no chore stands behind.
InitializeNix ==
    /\ hr[Nix].ident = "unprovisioned" /\ Len(ops) < OpBound
    /\ ~\E o \in DOMAIN ops : Same(o, Create, Nix)
    /\ ops' = NewOp(Create, Nix, 0, 0)
    /\ UNCHANGED <<hr, chores, shift, host>>

OwnerEnqueues(type, w) ==
    /\ type # Prepare /\ hr[w].on /\ NixReady
    /\ type = Disable => Retirable(w)
    /\ chores' = chores \o Enqueued(type, w) /\ Len(chores') <= ChoreBound
    /\ UNCHANGED <<hr, ops, shift, host>>

ShiftStarts(c) ==
    /\ shift = 0 /\ chores[c].st = "queued" /\ NixReady
    /\ chores[c].type = Prepare => hr[chores[c].w].ident = "ready"
    /\ shift' = c
    /\ chores' = [chores EXCEPT ![c].st = "working", ![c].turns = @ + 1]
    /\ UNCHANGED <<hr, ops, host>>

Request ==
    LET c == shift  w == chores[c].w  type == chores[c].type IN
    /\ shift # 0 /\ NixReady /\ Len(ops) < OpBound
    /\ ~\E o \in DOMAIN ops : Same(o, type, w)
    /\ Preconditions(type, w)
    /\ ops' = NewOp(type, w, c, chores[c].turns)
    /\ UNCHANGED <<hr, chores, shift, host>>

\* finishTask() of a completed turn; the status of the chore.
FinishTask(c) ==
    IF OwnsOp(c, {"pending", "running"}) THEN "awaiting_approval"
    ELSE IF OwnsOp(c, {"completed"}) THEN "completed" ELSE "failed"

ShiftEnds(outcome) ==
    LET st == CASE outcome = "completed" -> FinishTask(shift)
                [] outcome = "awaiting_approval" -> "awaiting_approval"
                [] outcome = "interrupted" -> "blocked"
                [] outcome = "failed" -> "failed"
        last == IF outcome = "completed" /\ st = "failed" THEN "failed" ELSE outcome
    IN /\ shift # 0 /\ shift' = 0
       /\ chores' = [chores EXCEPT ![shift].st = st, ![shift].last = last]
       /\ UNCHANGED <<hr, ops, host>>

CancelChore(c) ==
    /\ chores[c].st \in {"queued", "awaiting_approval", "blocked"}
    /\ chores' = [chores EXCEPT ![c].st = "cancelled"]
    /\ UNCHANGED <<hr, ops, shift, host>>

-----------------------------------------------------------------------------
(* The owner and the provisioner.                                          *)

ApprovalDue(o) ==
    /\ ops[o].st = "pending" /\ ~ops[o].due
    /\ ops' = [ops EXCEPT ![o].due = TRUE] /\ UNCHANGED <<hr, chores, shift, host>>

\* A mutant of Expirable: a consumed approval expires too.
ExpirableConsumed(o) == (ops[o].st = "pending" /\ ops[o].due) \/ ops[o].st = "running"
Expirable(o) == ops[o].st = "pending" /\ ops[o].due

Drop(o, st) ==
    /\ ops' = [ops EXCEPT ![o].st = st] /\ chores' = Resolve(chores, ops[o].chore, FALSE)
    /\ UNCHANGED <<hr, shift, host>>
ExpireApproval(o) == Expirable(o) /\ Drop(o, "expired")
Deny(o) == ops[o].st = "pending" /\ ~ops[o].due /\ Drop(o, "denied")

Bind(rows, type, w) ==
    CASE type = Create -> [rows EXCEPT ![w].ident = "ready"]
      [] type = Disable -> [rows EXCEPT ![w].ident = "disabled", ![w].proj = IF @ = "none" THEN @ ELSE "revoked"]
      [] type = Prepare -> [rows EXCEPT ![w].proj = "ready", ![w].alloc = IF @ = "pending_infrastructure" THEN "active" ELSE @]
      [] type = Revoke -> [rows EXCEPT ![w].proj = "revoked"]

\* apply(): the host is asked, and on its answer the binding is written and the chore resumed.
Apply(o, rows, asked) ==
    LET op == asked[o]  w == op.w IN
    \E out \in Handle(<<"op", o>>, op.type, w) :
        /\ host' = out[1]
        /\ IF out[2]
           THEN /\ hr' = Bind(rows, op.type, w)
                /\ ops' = [asked EXCEPT ![o].st = "completed"]
                /\ chores' = Resolve(chores, op.chore, TRUE)
           ELSE hr' = rows /\ ops' = asked /\ UNCHANGED chores
        /\ UNCHANGED shift

Validate(o) ==
    LET op == ops[o]  c == op.chore IN
    /\ op.pre = Snapshot(op.w) /\ Preconditions(op.type, op.w)
    /\ c # 0 => /\ NixReady /\ chores[c].st = "awaiting_approval"
                /\ chores[c].last = "completed" /\ chores[c].turns = op.turn

Approve(o) ==
    /\ ops[o].st = "pending" /\ ~ops[o].due /\ Validate(o)
    /\ Apply(o, IF ops[o].type = Disable THEN [hr EXCEPT ![ops[o].w].on = FALSE] ELSE hr, [ops EXCEPT ![o].st = "running"])

\* reconcile(), on the owner's request or at startup.
Reconcile(o) == ops[o].st = "running" /\ Apply(o, hr, ops)

-----------------------------------------------------------------------------
(* The worker's own task, seen from here, and authority that is given up   *)
(* without an approval.                                                    *)

Row(w, r) == hr' = [hr EXCEPT ![w] = r]
Retired(w, r) ==
    IF r.temp THEN [r EXCEPT !.on = FALSE, !.retire = IF r.ident = "ready" /\ @ = "none" THEN "pending" ELSE @] ELSE r

Allocate(w) ==
    /\ hr[w].on /\ hr[w].work = "none" /\ NixReady
    /\ Row(w, [hr[w] EXCEPT !.alloc = "pending_infrastructure", !.proj = "pending", !.work = "queued"])
    /\ chores' = chores \o Enqueued(Create, w) \o Enqueued(Prepare, w) /\ Len(chores') <= ChoreBound
    /\ UNCHANGED <<ops, shift, host>>

StaffWorks(w) ==
    LET r == hr[w] IN
    /\ \/ r.work = "queued" /\ r.on /\ r.ident = "ready" /\ r.proj = "ready" /\ Row(w, [r EXCEPT !.work = "working"])
       \/ r.work = "working" /\ Row(w, Retired(w, [r EXCEPT !.work = "completed"]))
       \/ r.work \in {"queued", "blocked"} /\ Row(w, Retired(w, [r EXCEPT !.work = "cancelled"]))
       \/ r.work = "blocked" /\ r.on /\ Row(w, [r EXCEPT !.work = "queued"])
       \/ r.work = "completed" /\ r.alloc = "active" /\ Row(w, [r EXCEPT !.alloc = "integrated"])
    /\ UNCHANGED <<ops, chores, shift, host>>

\* release() of Projects: a ready clone is revoked by an intent of its own.  (Other
\* running work of the worker, or an integration under way, may refuse it.)
Release(w) ==
    LET r == hr[w]  done == [r EXCEPT !.alloc = "released", !.release = "completed", !.proj = "revoked"] IN
    /\ r.alloc # "none" /\ r.work \in {"completed", "cancelled"} /\ r.release # "completed"
    /\ r.alloc = "integrated" \/ r.work = "cancelled"
    /\ IF r.proj = "ready"
       THEN \E out \in Handle(<<"release", w>>, Revoke, w) :
               host' = out[1] /\ Row(w, IF out[2] THEN done ELSE [r EXCEPT !.release = "pending"])
       ELSE Row(w, done) /\ UNCHANGED host
    /\ UNCHANGED <<ops, chores, shift>>

ProcessRevocation(w) ==
    LET r == hr[w] IN
    /\ r.retire = "pending" /\ ~r.on /\ r.work # "working" /\ r.alloc \in {"none", "integrated"}
    /\ \E out \in Handle(<<"retire", w>>, Disable, w) :
          host' = out[1] /\ hr' = IF out[2] THEN [Bind(hr, Disable, w) EXCEPT ![w].retire = "completed"] ELSE hr
    /\ UNCHANGED <<ops, chores, shift>>

\* recover(): executions that ran are interrupted and their tasks blocked.
InfraRestart ==
    /\ shift' = 0
    /\ chores' = IF shift = 0 THEN chores ELSE [chores EXCEPT ![shift].st = "blocked", ![shift].last = "interrupted"]
    /\ hr' = [w \in Known |-> IF hr[w].work = "working" THEN [hr[w] EXCEPT !.work = "blocked"] ELSE hr[w]]
    /\ UNCHANGED <<ops, host>>

InfrastructureNext ==
    \/ InitializeNix \/ Request \/ InfraRestart
    \/ \E type \in ProtectedType, w \in Staff : OwnerEnqueues(type, w)
    \/ \E c \in DOMAIN chores : ShiftStarts(c) \/ CancelChore(c)
    \/ \E outcome \in {"completed", "awaiting_approval", "interrupted", "failed"} : ShiftEnds(outcome)
    \/ \E o \in DOMAIN ops : ApprovalDue(o) \/ ExpireApproval(o) \/ Deny(o) \/ Approve(o) \/ Reconcile(o)
    \/ \E w \in Staff : Allocate(w) \/ StaffWorks(w) \/ Release(w) \/ ProcessRevocation(w)

InfrastructureSpec == InfrastructureInit /\ [][InfrastructureNext]_infraVars

-----------------------------------------------------------------------------
(* Properties.                                                             *)

\* Whatever the provisioner has done that HQ does not know of yet is the work
\* of an intent HQ still holds and will reconcile: a lost answer, a crash, an
\* expiry or a retirement in between never makes HQ forget it.
HostIntent ==
    \A w \in Known :
        LET running(type) == \E o \in DOMAIN ops : ops[o].w = w /\ ops[o].type = type /\ ops[o].st = "running"
        IN /\ host.acct[w] \in {"creating", "ready"} /\ hr[w].ident = "unprovisioned" => running(Create)
           /\ host.acct[w] = "disabled" /\ hr[w].ident # "disabled" => running(Disable) \/ hr[w].retire = "pending"
           /\ host.clone[w] \in {"preparing", "ready"} /\ hr[w].proj = "pending" => running(Prepare)

\* A chore that waits after a completed turn has an operation that will still
\* be answered: denial and expiry that come before Nix has finished its turn
\* do not leave it waiting forever.
AnswerPending ==
    \A c \in DOMAIN chores :
        chores[c].st = "awaiting_approval" /\ chores[c].last = "completed" => OwnsOp(c, {"pending", "running"})

\* No worker is at work whose account the host has closed or is closing,
\* although its retirement was requested before the work was given out.
AtWorkWithAccount ==
    \A w \in Staff : hr[w].work \in {"queued", "working"} => host.acct[w] # "disabled"
=============================================================================
