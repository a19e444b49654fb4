--------------------------- MODULE MCEngineering ---------------------------
(* Small instances of Engineering: two engineers, one or two deliveries.     *)
EXTENDS Engineering, TLC

CONSTANTS e1, e2, cto, reviewer

\* Tasks that ended badly or wait for the owner, other than for their children or
\* their integration.
Spoiled ==
    {t \in Tasks : \/ tstatus[t] \in {"failed", "cancelled"}
                   \/ tstatus[t] = "blocked" /\ t[1] # "delivery"
                   \/ t[1] = "delivery" /\ tstatus[t] = "blocked" /\ reason[t[2]] = "other"}

\* How many tasks may be spoiled, and how many engineers a delivery may have, in
\* the behaviours explored.
CONSTANTS MaxFaults, MaxBatch
FewFaults ==
    /\ Cardinality(Spoiled) <= MaxFaults
    /\ \A d \in Deliveries : Cardinality(AllocsOf(d)) <= MaxBatch

\* Engineers are alike.
EngineerSymmetry == Permutations(Engineers)
=============================================================================
