------------------------------ MODULE MCMarket ------------------------------
(***************************************************************************)
(* The investment product: what it may spend, the collection of prices by  *)
(* the owner's command and by the gateway, the paper loop and its ledger,  *)
(* the publication of a run, and the turns paid from credits.  The seven   *)
(* components share no state in their models, so each is explored on its   *)
(* own (part) while the others are absent.                                 *)
(***************************************************************************)
EXTENDS Publication, Finite, PaperLoop, Simulator, Custody, Gateway, Pilot, TLC

\* A loop holds at least once.
ASSUME MarketAssumption == HoldBound >= 1 /\ Days >= 2

VARIABLE part   \* the component that moves in this behaviour

MarketVars ==
    <<part, publicationVars, finiteVars, paperVars, simulatorVars, custodyVars, gatewayVars, pilotVars>>

Absent == 0
MarketInit ==
    /\ part \in {"channel", "spending", "paper", "ledger", "history", "gateway", "pilot"}
    /\ IF part = "channel" THEN PublicationInit ELSE db = Absent /\ hq = Absent /\ away = Absent /\ receiver = Absent
    /\ IF part = "spending" THEN FiniteInit ELSE journal = Absent /\ books = Absent /\ beyond = Absent
    /\ IF part = "paper" THEN PaperInit ELSE loop = Absent /\ occ = Absent /\ talk = Absent /\ paper = Absent
    /\ IF part = "ledger" THEN SimulatorInit ELSE sim = Absent /\ orders = Absent /\ actions = Absent /\ holdings = Absent /\ ledger = Absent /\ values = Absent /\ funds = Absent
    /\ IF part = "history" THEN CustodyInit ELSE anchor = Absent /\ child = Absent /\ sup = Absent /\ dog = Absent /\ mail = Absent /\ calls = Absent
    /\ IF part = "gateway" THEN GatewayInit ELSE desk = Absent /\ inquiry = Absent /\ sent = Absent
    /\ IF part = "pilot" THEN PilotInit ELSE schema = Absent /\ lineage = Absent /\ successor = Absent /\ command = Absent /\ provider = Absent /\ sends = Absent

MarketNext ==
    \/ part = "channel" /\ PublicationNext /\ UNCHANGED <<part, finiteVars, paperVars, simulatorVars, custodyVars, gatewayVars, pilotVars>>
    \/ part = "spending" /\ FiniteNext /\ UNCHANGED <<part, publicationVars, paperVars, simulatorVars, custodyVars, gatewayVars, pilotVars>>
    \/ part = "paper" /\ PaperNext /\ UNCHANGED <<part, publicationVars, finiteVars, simulatorVars, custodyVars, gatewayVars, pilotVars>>
    \/ part = "ledger" /\ SimulatorNext /\ UNCHANGED <<part, publicationVars, finiteVars, paperVars, custodyVars, gatewayVars, pilotVars>>
    \/ part = "history" /\ CustodyNext /\ UNCHANGED <<part, publicationVars, finiteVars, paperVars, simulatorVars, gatewayVars, pilotVars>>
    \/ part = "gateway" /\ GatewayNext /\ UNCHANGED <<part, publicationVars, finiteVars, paperVars, simulatorVars, custodyVars, pilotVars>>
    \/ part = "pilot" /\ PilotNext /\ UNCHANGED <<part, publicationVars, finiteVars, paperVars, simulatorVars, custodyVars, gatewayVars>>

MarketSpec == MarketInit /\ [][MarketNext]_MarketVars

\* Runs of the owner's commands are alike.
MarketSymmetry == Permutations(CustodyRuns) \cup Permutations(Commands)

\* The paper ledger is followed along three lines: two orders that trade, with at
\* most one corporate action; the benchmark, with two; and one order in a run
\* that is paused or ended.  The second of anything follows the first.
Announced == {a \in Actions : actions[a].kind # "none"}
OrdersIn(states) == {o \in PaperOrders : orders[o].st \in states}
Placed == PaperOrders \ OrdersIn({"none"})
Trading ==
    /\ sim.life = "active" /\ sim.corrected = {} /\ funds[1] = Capital /\ ~values[2]["portfolio"].known
    /\ Cardinality(OrdersIn({"decided", "approved"})) <= 1 /\ Cardinality(OrdersIn({"rejected", "expired", "cancelled"})) <= 1
    /\ Cardinality({o \in PaperOrders : orders[o].side = "SELL"}) <= 1
    /\ Cardinality(Announced) <= 1 /\ \A a \in Announced : actions[a].of = "portfolio" /\ actions[a].at = 3
    /\ sim.opening[1] = 0 => sim.opening[2] = 0 /\ Announced = {}
Benching == sim.life = "active" /\ Placed = {} /\ ~values[2]["portfolio"].known /\ \A a \in Announced : actions[a].of = "benchmark"
Stopping ==
    /\ Announced = {} /\ sim.opening[2] = 0 /\ ~values[1]["portfolio"].known
    /\ Cardinality(Placed) <= 1 /\ \A o \in Placed : orders[o].side = "BUY"
LedgerFollowed == (Trading \/ Benching \/ Stopping) /\ (2 \in Placed => 1 \in Placed) /\ (2 \in Announced => 1 \in Announced)

\* What is not followed: a loop that is over, or is held without the authority
\* to resume; and once anything of a run that has not consumed the approval ends.
Followed ==
    /\ part = "paper" => loop.st \notin {"stopped", "finished"} /\ (loop.clear \/ loop.st \in {"draft", "active"})
    /\ part = "ledger" => LedgerFollowed
    /\ part = "history" => \A r \in CustodyRuns \ {anchor.spent} :
          ~ChildAt(r, "gone") /\ sup[r].st \in {"off", "up"} /\ dog[r].st \in {"off", "watch"}

-----------------------------------------------------------------------------
(* Properties: those of the components, joined where they say one thing.   *)

\* The types of the seven components, each where it moves.
MarketTypeOK ==
    /\ part = "channel" => PublicationTypeOK
    /\ part = "spending" => FiniteTypeOK
    /\ part = "paper" => PaperTypeOK
    /\ part = "ledger" => SimulatorTypeOK
    /\ part = "history" => CustodyTypeOK
    /\ part = "gateway" => GatewayTypeOK
    /\ part = "pilot" => PilotTypeOK

\* The portfolio channel continues the receiver's history or stops.
ChannelTrue == part = "channel" => PublishedTruly

\* Bounded spending: one effect of the authority at a time, each counted
\* before it is sent, through crashes between the stores that record it; and of
\* the turns paid from credits one of each stage, never two at a time.
SpendingCounted ==
    /\ part = "spending" => SentOnAllowance
    /\ part = "pilot" => OneCreditTurn

\* One approval of the owner is one collection, accounted for before anything is
\* sent, guarded while it is, and gone when it is reported gone; and the gateway
\* spends its allowance once, and what it does not know the outcome of it neither
\* calls settled nor repeats.
CollectedOnce ==
    /\ [](part = "history" => CallsAccounted /\ CallsGuarded /\ NothingLeft)
    /\ [](part = "gateway" => SentSparingly /\ SettledKnown)
    /\ [][part = "gateway" => NotRefunded]_MarketVars

\* A held paper loop holds everything that acts for it, and what was missed,
\* cancelled or finished in it is never done over.
PaperHolds == [](part = "paper" => PaperHeld) /\ [][part = "paper" => DoneOnce]_MarketVars

\* The books of a paper run are never short of what its orders and entitlements
\* promise, and its valuations, with what they show as reserved, and its dividends
\* follow the time of what happened, not of its evidence.
LedgerTrue == [][part = "ledger" => BooksBalance' /\ ValuedTruly' /\ ReservedTruly /\ EntitledTruly]_simulatorVars
=============================================================================
