--------------------------- MODULE TrustedBranch ---------------------------
(***************************************************************************)
(* What the engineering workflow promises about a managed repository: its  *)
(* default branch only ever grows, one approved change at a time, and each *)
(* change is merged at most once and settles for good.  The promise is in  *)
(* docs/decisions/decision_014_generalized_projects.md; the workflow of    *)
(* src/control/engineering.ts is shown to keep it.                         *)
(***************************************************************************)
EXTENDS Sequences

CONSTANT Changes

VARIABLES
    branch,     \* the changes merged into the default branch, in order
    fate        \* "proposed", "approved", "merged" or "abandoned"

vars == <<branch, fate>>

Init ==
    /\ branch = <<>>
    /\ fate = [c \in Changes |-> "proposed"]

Approve(c) ==
    /\ fate[c] = "proposed"
    /\ fate' = [fate EXCEPT ![c] = "approved"]
    /\ UNCHANGED branch

Merge(c) ==
    /\ fate[c] = "approved"
    /\ fate' = [fate EXCEPT ![c] = "merged"]
    /\ branch' = Append(branch, c)

\* An attempt that is stale, fails or is interrupted is kept as evidence only.
Abandon(c) ==
    /\ fate[c] = "approved"
    /\ fate' = [fate EXCEPT ![c] = "abandoned"]
    /\ UNCHANGED branch

Next == \E c \in Changes : Approve(c) \/ Merge(c) \/ Abandon(c)

Spec == Init /\ [][Next]_vars
=============================================================================
