----------------------------- MODULE TaskLedger -----------------------------
(***************************************************************************)
(* What the company promises about assigned work, without executions,      *)
(* dispatcher, provider or process: who may hold a task, when a task may   *)
(* be closed, and when a result that was returned may still be reopened.   *)
(* Company implements it (Company!LedgerSpec).                             *)
(***************************************************************************)
EXTENDS Integers

CONSTANTS Tasks, NoTask, Workers, NoWorker

VARIABLES
    state,    \* "absent", "open", "held", "returned", "done" or "cancelled"
    parent,   \* the task under which the task was opened
    assignee

ledger == <<state, parent, assignee>>

Ended(s) == s \in {"returned", "done", "cancelled"}
ChildrenEnded(t) == \A c \in Tasks : parent[c] = t => Ended(state[c])

Init ==
    /\ state = [t \in Tasks |-> "absent"]
    /\ parent = [t \in Tasks |-> NoTask]
    /\ assignee = [t \in Tasks |-> NoWorker]

\* Work is opened by the owner, or under a task that somebody holds.
Open(t, p, w) ==
    /\ state[t] = "absent"
    /\ p # NoTask => state[p] = "held"
    /\ state' = [state EXCEPT ![t] = "open"]
    /\ parent' = [parent EXCEPT ![t] = p]
    /\ assignee' = [assignee EXCEPT ![t] = w]

Move(t, from, to) ==
    /\ state[t] \in from
    /\ state' = [state EXCEPT ![t] = to]
    /\ UNCHANGED <<parent, assignee>>

\* A worker holds one task at a time.
Take(t) ==
    /\ \A u \in Tasks : state[u] = "held" => assignee[u] # assignee[t]
    /\ Move(t, {"open"}, "held")

\* A task that is held can be put back, returned as failed, or closed; it is
\* closed, or withdrawn, only over children that have ended.
PutBack(t) == Move(t, {"held"}, "open")
Return(t) == Move(t, {"held"}, "returned")
CloseTask(t) == ChildrenEnded(t) /\ Move(t, {"held"}, "done")
Withdraw(t) == ChildrenEnded(t) /\ Move(t, {"open", "returned"}, "cancelled")

\* A returned task is reopened only while its parent is itself still open.
Reopen(t) ==
    /\ parent[t] # NoTask => state[parent[t]] \in {"open", "held"}
    /\ Move(t, {"returned"}, "open")

\* Everything that is held is put back at once.
Interrupted ==
    /\ state' = [t \in Tasks |-> IF state[t] = "held" THEN "open" ELSE state[t]]
    /\ UNCHANGED <<parent, assignee>>

Next ==
    \/ \E t \in Tasks, p \in Tasks \cup {NoTask}, w \in Workers : Open(t, p, w)
    \/ \E t \in Tasks : \/ Take(t) \/ PutBack(t) \/ Return(t) \/ CloseTask(t)
                        \/ Withdraw(t) \/ Reopen(t)
    \/ Interrupted

Spec == Init /\ [][Next]_ledger
=============================================================================
