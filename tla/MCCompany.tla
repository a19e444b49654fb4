----------------------------- MODULE MCCompany -----------------------------
(* Small instance of Company: one CEO, a researcher, a product manager and a *)
(* CTO; the CTO outranks the others so that claim order is exercised.        *)
EXTENDS Company

CONSTANTS ceo, res, pm, cto, none

MCRole == [w \in Workers |-> CASE w = ceo -> "ceo" [] w = res -> "researcher"
                               [] w = pm -> "product_manager" [] OTHER -> "cto"]
MCLife == [w \in Workers |-> IF w = pm THEN "temporary" ELSE "persistent"]
MCPrio == [w \in Workers |-> IF w = ceo THEN 1 ELSE 2]

\* How many disturbances there may be in the behaviours explored: executions
\* that end otherwise than completed, executions being interrupted, a pause.
CONSTANT MaxFaults
Faults == Cardinality({e \in Execs : estatus[e] \in Outcomes \ {"completed"}})
Interferences == Cardinality({e \in Execs : aborted[e]}) + IF paused THEN 1 ELSE 0
Undisturbed == Faults + Interferences <= MaxFaults

\* Two small companies in one run: a CEO with a researcher, two research tasks
\* and one fault or interference; or a CEO with a product manager and a CTO, a
\* product carried through its three stages, one execution at a time and
\* without a fault.
Kindred(kinds) == \A t \in Tasks : Exists(t) => tkind[t] \in kinds
Hired(ws) == \A w \in Workers \ ws : lifecycle[w] = "none"
Researches == Kindred({"research"}) /\ Hired({ceo, res}) /\ Undisturbed /\ ~Exists(3) /\ etask[5] = NoTask
Produces == Kindred(Kinds \ {"research"}) /\ Hired({ceo, pm, cto}) /\ Faults = 0 /\ Cardinality(Runners) <= 1
OneCompany == Researches \/ Produces
=============================================================================
