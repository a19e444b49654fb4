---------------------------- MODULE Provisioner ----------------------------
(***************************************************************************)
(* The root provisioner of the host: accounts of workers, clones of their  *)
(* projects, and the edits and commits made in them, each under an         *)
(* operation id that may be asked for again after a crash.                 *)
(* Source: deploy/provisioner/provisioner.py.                              *)
(*                                                                         *)
(* The daemon serves one request at a time; an action lasts until its next *)
(* durable write or host command, and it may die between any two, or a     *)
(* step may fail.  One worker and one allocation.  Abstracted: the fields  *)
(* of a request and their checks, UIDs, ACLs and the child process with    *)
(* its bounds (a child that fails), paths and contents, and the health     *)
(* check, which changes nothing.                                           *)
(***************************************************************************)
EXTENDS Integers, Sequences

CONSTANTS CreateOps, DisableOps, PrepareOps, RevokeOps, WriteOps, CommitOps   \* the operation ids of each kind

Operations == UNION {CreateOps, DisableOps, PrepareOps, RevokeOps, WriteOps, CommitOps}
NoOne == "none"
\* An operation id is of one kind.
ASSUME ProvisionerAssumption ==
    /\ NoOne \notin Operations
    /\ LET kinds == <<CreateOps, DisableOps, PrepareOps, RevokeOps, WriteOps, CommitOps>>
       IN \A i, j \in DOMAIN kinds : i # j => kinds[i] \cap kinds[j] = {}

VARIABLES
    serving,   \* the request being served and its step
    receipts,  \* per operation, the root receipt, the worker's marker and the head it expects
    account,   \* the identity record and what the host has of it
    project    \* the project record, the clone and its history

provisionerVars == <<serving, receipts, account, project>>
IdleDaemon == [op |-> NoOne, step |-> "none"]

Receipt == [st : {"none", "started", "completed"}, mark : BOOLEAN, head : Nat \cup {-1}]
Identity == [st : {"none", "creating", "ready", "disabled"}, by : CreateOps \cup {NoOne}, made : 0..3, locked : BOOLEAN]
ProjectRecord ==
    [st : {"none", "preparing", "ready", "revoking", "revoked"}, by : PrepareOps \cup {NoOne}, revoker : RevokeOps \cup {NoOne},
     cloned : BOOLEAN, dirty : BOOLEAN, commits : Seq(CommitOps), closed : BOOLEAN]

ProvisionerTypeOK ==
    /\ serving = IdleDaemon \/ serving \in [op : Operations, step : {"perform", "host", "child", "mark", "project", "receipt"}]
    /\ receipts \in [Operations -> Receipt] /\ account \in Identity /\ project \in ProjectRecord

ProvisionerInit ==
    /\ serving = IdleDaemon
    /\ receipts = [o \in Operations |-> [st |-> "none", mark |-> FALSE, head |-> -1]]
    /\ account = [st |-> "none", by |-> NoOne, made |-> 0, locked |-> FALSE]
    /\ project = [st |-> "none", by |-> NoOne, revoker |-> NoOne, cloned |-> FALSE, dirty |-> FALSE,
                  commits |-> <<>>, closed |-> FALSE]

-----------------------------------------------------------------------------
(* Requests.                                                               *)

Head0 == Len(project.commits)

\* HQ reads the head of the clone and asks for a commit on it.
SendCommit(o) ==
    /\ o \in CommitOps /\ receipts[o].head = -1 /\ project.cloned
    /\ receipts' = [receipts EXCEPT ![o].head = Head0] /\ UNCHANGED <<serving, account, project>>

\* A request, for the first time or again; one that is completed gets its receipt.
Accept(o) ==
    /\ serving = IdleDaemon /\ receipts[o].st # "completed" /\ (o \in CommitOps => receipts[o].head # -1)
    /\ receipts' = [receipts EXCEPT ![o].st = "started"] /\ serving' = [op |-> o, step |-> "perform"]
    /\ UNCHANGED <<account, project>>

ServingAt(o, step) == serving = [op |-> o, step |-> step]
Goes(step) == serving' = [serving EXCEPT !.step = step]
KnownIdentity(ready) == account.made >= 2 /\ (ready => account.st = "ready")
Rejects == serving' = IdleDaemon /\ UNCHANGED <<receipts, account, project>>

\* A step is refused by a check, its host command fails, or the daemon dies;
\* for a child, also what it finds in the clone may not be as it has to be.
Stops == serving.step \notin {"none", "child"} /\ Rejects
ChildFails == serving.step = "child" /\ Rejects

Complete(o) ==
    /\ ServingAt(o, "receipt") /\ serving' = IdleDaemon
    /\ receipts' = [receipts EXCEPT ![o].st = "completed"] /\ UNCHANGED <<account, project>>

-----------------------------------------------------------------------------
(* Accounts.                                                               *)

MayCreate(o) == account.st # "disabled" /\ account.by \in {NoOne, o}

\* The exact UID is reserved before anything is made.
ReserveAccount(o) ==
    /\ o \in CreateOps /\ ServingAt(o, "perform") /\ MayCreate(o) /\ Goes("host")
    /\ account' = IF account.st = "none" THEN [account EXCEPT !.st = "creating", !.by = o] ELSE account
    /\ UNCHANGED <<receipts, project>>

\* The group, the user and the home, each only if it is missing.
MakeAccount(o) ==
    /\ o \in CreateOps /\ ServingAt(o, "host")
    /\ IF account.made < 3 THEN account' = [account EXCEPT !.made = @ + 1] /\ UNCHANGED serving
       ELSE account' = [account EXCEPT !.st = "ready"] /\ Goes("receipt")
    /\ UNCHANGED <<receipts, project>>

\* A mutant of Barred: the record is changed when the account is closed.
BarredLast == account
Barred == [account EXCEPT !.st = "disabled"]

\* All new actions are blocked first.
Bar(o) ==
    /\ o \in DisableOps /\ ServingAt(o, "perform") /\ KnownIdentity(FALSE) /\ Goes("host")
    /\ account' = Barred /\ UNCHANGED <<receipts, project>>

CloseAccount(o) ==
    /\ o \in DisableOps /\ ServingAt(o, "host") /\ Goes("project")
    /\ account' = [account EXCEPT !.locked = TRUE] /\ project' = [project EXCEPT !.closed = @ \/ project.cloned]
    /\ UNCHANGED receipts

RevokeAll(o) ==
    /\ o \in DisableOps /\ ServingAt(o, "project") /\ Goes("receipt")
    /\ account' = [account EXCEPT !.st = "disabled"]
    /\ project' = [project EXCEPT !.st = IF @ = "none" THEN @ ELSE "revoked"] /\ UNCHANGED receipts

-----------------------------------------------------------------------------
(* Projects.                                                               *)

AllocateProject(o) ==
    /\ o \in PrepareOps /\ ServingAt(o, "perform") /\ KnownIdentity(TRUE) /\ Goes("child")
    /\ project.by \in {NoOne, o} /\ project.st \in {"none", "preparing", "ready"}
    /\ project' = IF project.st = "none" THEN [project EXCEPT !.st = "preparing", !.by = o] ELSE project
    /\ UNCHANGED <<receipts, account>>

\* The clone is made, or found as it was made: at its base and clean.
CloneProject(o) ==
    /\ o \in PrepareOps /\ ServingAt(o, "child") /\ Goes("project")
    /\ project.commits = <<>> /\ ~project.dirty
    /\ project' = [project EXCEPT !.cloned = TRUE] /\ UNCHANGED <<receipts, account>>
PreparedClone(o) ==
    /\ o \in PrepareOps /\ ServingAt(o, "project") /\ Goes("receipt")
    /\ project' = [project EXCEPT !.st = "ready"] /\ UNCHANGED <<receipts, account>>

Revoking(o) ==
    /\ o \in RevokeOps /\ ServingAt(o, "perform") /\ KnownIdentity(TRUE) /\ Goes("host")
    /\ project.st = "ready" \/ project.revoker = o
    /\ project' = [project EXCEPT !.st = "revoking", !.revoker = o] /\ UNCHANGED <<receipts, account>>
TakeClone(o) ==
    /\ o \in RevokeOps /\ ServingAt(o, "host") /\ Goes("project")
    /\ project' = [project EXCEPT !.closed = TRUE] /\ UNCHANGED <<receipts, account>>
Revoked(o) ==
    /\ o \in RevokeOps /\ ServingAt(o, "project") /\ Goes("receipt")
    /\ project' = [project EXCEPT !.st = "revoked"] /\ UNCHANGED <<receipts, account>>

-----------------------------------------------------------------------------
(* Work in the clone, by a child with the credentials of the worker, which *)
(* leaves a marker of its own before the root writes the receipt.          *)

LaunchWorker(o) ==
    /\ o \in WriteOps \cup CommitOps /\ ServingAt(o, "perform") /\ KnownIdentity(TRUE) /\ project.st = "ready"
    /\ Goes(IF receipts[o].mark THEN "receipt" ELSE "child") /\ UNCHANGED <<receipts, account, project>>

WriteSource(o) ==
    /\ o \in WriteOps /\ ServingAt(o, "child") /\ Goes("mark")
    /\ project' = [project EXCEPT !.dirty = TRUE] /\ UNCHANGED <<receipts, account>>

Fresh(o) == receipts[o].head = Head0

\* On the expected head, or what this operation had committed before its answer was lost.
CommitProject(o) ==
    /\ o \in CommitOps /\ ServingAt(o, "child") /\ Goes("mark")
    /\ IF Fresh(o)
       THEN project.dirty /\ project' = [project EXCEPT !.dirty = FALSE, !.commits = Append(@, o)]
       ELSE /\ Head0 = receipts[o].head + 1 /\ project.commits[Head0] = o /\ ~project.dirty
            /\ UNCHANGED project
    /\ UNCHANGED <<receipts, account>>

MarkDone(o) ==
    /\ ServingAt(o, "mark") /\ Goes("receipt")
    /\ receipts' = [receipts EXCEPT ![o].mark = TRUE] /\ UNCHANGED <<account, project>>

-----------------------------------------------------------------------------
ProvisionerNext ==
    \/ Stops \/ ChildFails
    \/ \E o \in Operations :
          \/ SendCommit(o) \/ Accept(o) \/ Complete(o)
          \/ ReserveAccount(o) \/ MakeAccount(o) \/ Bar(o) \/ CloseAccount(o) \/ RevokeAll(o)
          \/ AllocateProject(o) \/ CloneProject(o) \/ PreparedClone(o) \/ Revoking(o) \/ TakeClone(o) \/ Revoked(o)
          \/ LaunchWorker(o) \/ WriteSource(o) \/ CommitProject(o) \/ MarkDone(o)

ProvisionerSpec == ProvisionerInit /\ [][ProvisionerNext]_provisionerVars

-----------------------------------------------------------------------------
(* Properties.                                                             *)

\* An operation commits at most once, however often it dies and is asked for
\* again, and a receipt is of something that was done.
DoneAsReceipted ==
    /\ \A i, j \in DOMAIN project.commits : project.commits[i] = project.commits[j] => i = j
    /\ \A o \in Operations : receipts[o].st = "completed" =>
          /\ o \in CreateOps => account.by = o /\ account.made = 3
          /\ o \in DisableOps => account.st = "disabled" /\ account.locked /\ project.st \in {"none", "revoked"}
          /\ o \in PrepareOps => project.by = o /\ project.cloned
          /\ o \in RevokeOps => project.closed /\ project.st = "revoked"
          /\ o \in CommitOps => \E i \in DOMAIN project.commits : project.commits[i] = o

\* Once an account or a clone is being closed, nothing is done in it any more,
\* and it is never opened again, whatever was half done when it began.
ClosedForGood ==
    LET Closing == account.st = "disabled" \/ account.locked \/ project.closed \/ project.st = "revoking"
    IN Closing => /\ project'.commits = project.commits /\ project'.dirty = project.dirty
                  /\ (account.locked => account'.st # "ready" /\ account'.made = account.made)
                  /\ project.st = "revoking" => project'.st \in {"revoking", "revoked"}
=============================================================================
