------------------------------ MODULE Simulator ------------------------------
(***************************************************************************)
(* The paper ledger: commands on a simulated run, and the books, orders,   *)
(* entitlements and valuations that follow from them when evidence comes   *)
(* late, is corrected, or contradicts what was already posted.             *)
(* Source: src/domain/investment/{reducer,accounting,valuation,policy}.ts  *)
(* and src/control/investment.ts.                                          *)
(*                                                                         *)
(* A command is one transaction over the verified journal.  One tradable   *)
(* instrument and the benchmark's; an order is for one share.  Session d   *)
(* has its cutoff, open and close at 3d - 2, 3d - 1 and 3d, and an opening *)
(* may be waited for until the next cutoff.  Abstracted: marks and limits  *)
(* (risk may refuse), equity and ratios, commission and slippage, rounding *)
(* (amounts are integers), commands rejected before they change anything,  *)
(* ticker changes, hashes and outbox, and the amendments of an observed    *)
(* run.                                                                    *)
(***************************************************************************)
EXTENDS Integers, Sequences, FiniteSets, SequencesExt, FiniteSetsExt

CONSTANTS PaperOrders,   \* one decision each
          Actions,       \* corporate actions
          ActionTimes,   \* when they may become effective
          TradingDays,   \* sessions of the calendar
          Capital,       \* initialCapital, of each book
          Prices,        \* opening prices
          Guard          \* priceGuard of every order

ASSUME SimulatorAssumption ==
    /\ TradingDays \in Nat \ {0} /\ Capital \in Nat /\ Guard \in Nat \ {0}
    /\ Prices \subseteq Nat \ {0} /\ ActionTimes \subseteq 1..(3 * TradingDays)

VARIABLES
    sim,      \* clock, lifecycle, economicAsOf, openings, blocks; history: what was pending at each close
    orders,   \* decision, review and order
    actions,     \* corporate actions and their entitlements
    holdings,    \* the two books
    ledger,   \* accountingHistory and inventoryHistory
    values,   \* the latest valuation of each session
    funds     \* benchmarkFunding: what is to be spent at each session's opening, and (0) what came after the last

simulatorVars == <<sim, orders, actions, holdings, ledger, values, funds>>

BookIds == {"portfolio", "benchmark"}
TradingDay == 1..TradingDays
CutoffAt(d) == 3 * d - 2
OpenAt(d) == 3 * d - 1
CloseAt(d) == 3 * d
ExpiryAt(d) == 3 * d + 1
RunEnds == ExpiryAt(TradingDays)

Reasons == {"none", "unsupported_action", "simultaneous_action", "out_of_order_split"}
Book == [cash : Int, shares : Int, due : Int, heldCash : Int, heldShares : Int]
OrderState == [st : {"none", "decided", "approved", "pending", "filled", "rejected", "expired", "cancelled"}, side : {"BUY", "SELL"},
               day : 0..TradingDays, cash : Nat, shares : Nat]
ActionState == [kind : {"none", "dividend", "split", "unsupported"}, of : BookIds, at : 0..RunEnds, amount : Nat, paid : BOOLEAN]
Event == [at : 0..RunEnds, of : BookIds, cash : Int, shares : Int, due : Int, settles : SUBSET PaperOrders]
NoValue == [known |-> FALSE, cash |-> 0, shares |-> 0, due |-> 0, pending |-> {}]

SimulatorInit ==
    /\ sim = [clock |-> 0, life |-> "active", econ |-> 0, opening |-> [d \in TradingDay |-> 0], corrected |-> {},
              blocked |-> [b \in BookIds |-> "none"], fraction |-> {}, closed |-> [d \in TradingDay |-> {}]]
    /\ orders = [o \in PaperOrders |-> [st |-> "none", side |-> "BUY", day |-> 0, cash |-> 0, shares |-> 0]]
    /\ actions = [a \in Actions |-> [kind |-> "none", of |-> "portfolio", at |-> 0, amount |-> 0, paid |-> FALSE]]
    /\ holdings = [b \in BookIds |-> [cash |-> Capital, shares |-> 0, due |-> 0, heldCash |-> 0, heldShares |-> 0]]
    /\ ledger = [events |-> <<>>, inventory |-> <<>>]
    /\ values = [d \in TradingDay |-> [b \in BookIds |-> NoValue]]
    /\ funds = [d \in 0..TradingDays |-> IF d = 1 THEN Capital ELSE 0]

SimulatorTypeOK ==
    /\ sim.clock \in 0..RunEnds /\ sim.life \in {"active", "paused", "ended"} /\ sim.econ \in 0..RunEnds
    /\ sim.opening \in [TradingDay -> Prices \cup {0}] /\ sim.corrected \subseteq TradingDay
    /\ sim.blocked \in [BookIds -> Reasons] /\ sim.fraction \subseteq BookIds /\ sim.closed \in [TradingDay -> SUBSET PaperOrders]
    /\ orders \in [PaperOrders -> OrderState] /\ actions \in [Actions -> ActionState] /\ holdings \in [BookIds -> Book]
    /\ ledger.events \in Seq(Event) /\ ledger.inventory \in Seq([at : 0..RunEnds, of : BookIds, shares : Nat, kind : {"fill", "split"}])
    /\ values \in [TradingDay -> [BookIds -> [known : BOOLEAN, cash : Int, shares : Int, due : Int, pending : SUBSET PaperOrders]]]
    /\ funds \in [0..TradingDays -> Nat]

-----------------------------------------------------------------------------
(* A command works on a copy s of the state, which it may still discard.   *)

Paper == [sim |-> sim, orders |-> orders, actions |-> actions, holdings |-> holdings, ledger |-> ledger, values |-> values, funds |-> funds]
Submitted(s) == {<<o, s.orders[o]>> : o \in {p \in PaperOrders : s.orders[p].st \notin {"none", "decided", "approved"}}}

\* The end of reduce(): a command that posted nothing, and changed orders or
\* blocks, dates the state to its own time.
UndatedByBlocks(s) == s.ledger.events = ledger.events /\ s.sim.blocked # sim.blocked   \* A mutant: orders do not count.
Undated(s) == s.ledger.events = ledger.events /\ (Submitted(s) # Submitted(Paper) \/ s.sim.blocked # sim.blocked)
Journalled(s) ==
    /\ sim' = [s.sim EXCEPT !.econ = IF Undated(s) /\ sim.clock > @ THEN sim.clock ELSE @]
    /\ orders' = s.orders /\ actions' = s.actions /\ holdings' = s.holdings /\ ledger' = s.ledger /\ values' = s.values /\ funds' = s.funds

RunningRun == sim.life = "active" /\ sim.clock < RunEnds

Pending(s) == {o \in PaperOrders : s.orders[o].st = "pending"}
FinancialAfter(s, b, t) == \E i \in DOMAIN s.ledger.inventory : s.ledger.inventory[i].of = b /\ s.ledger.inventory[i].at > t

\* posting(): what happened, at its effective time, in a book.
Posting(s, b, at, cash, shares, due, settles) ==
    IF cash = 0 /\ shares = 0 /\ due = 0 THEN s
    ELSE [s EXCEPT !.holdings[b].cash = @ + cash, !.holdings[b].shares = @ + shares, !.holdings[b].due = @ + due,
                   !.ledger.events = Append(@, [at |-> at, of |-> b, cash |-> cash, shares |-> shares, due |-> due, settles |-> settles]),
                   !.sim.econ = IF at > @ THEN at ELSE @]
Stocktake(s, b, at, kind) == [s EXCEPT !.ledger.inventory = Append(@, [at |-> at, of |-> b, shares |-> s.holdings[b].shares, kind |-> kind])]

\* reserve() and release(), as an order becomes pending and ceases to be.
ReserveOrder(s, o, cash, shares) ==
    [s EXCEPT !.holdings["portfolio"].heldCash = @ + cash, !.holdings["portfolio"].heldShares = @ + shares,
              !.orders[o].cash = cash, !.orders[o].shares = shares]
Unreserve(s, o) ==
    [s EXCEPT !.holdings["portfolio"].heldCash = @ - s.orders[o].cash, !.holdings["portfolio"].heldShares = @ - s.orders[o].shares,
              !.orders[o].cash = 0, !.orders[o].shares = 0]
Transition(s, o, st) == [IF s.orders[o].st = "pending" THEN Unreserve(s, o) ELSE s EXCEPT !.orders[o].st = st]

CancelAffected(s) == FoldSet(LAMBDA o, t : Transition(t, o, "cancelled"), s, Pending(s))

-----------------------------------------------------------------------------
(* Valuations.                                                             *)

BooksNow(s, b) ==
    [known |-> TRUE, cash |-> s.holdings[b].cash, shares |-> s.holdings[b].shares, due |-> s.holdings[b].due, pending |-> Pending(s)]

\* historicalState(): every accepted posting effective by the time of the
\* valuation, and the orders it saved unless they were settled by then.
Effective(s, b, t) == SelectSeq(s.ledger.events, LAMBDA e : e.of = b /\ e.at <= t)
Replayed(s, b, t, old) ==
    LET events == Effective(s, b, t) IN
    [known |-> TRUE,
     cash |-> FoldLeft(LAMBDA n, e : n + e.cash, Capital, events),
     shares |-> FoldLeft(LAMBDA n, e : n + e.shares, 0, events),
     due |-> FoldLeft(LAMBDA n, e : n + e.due, 0, events),
     pending |-> old.pending \ UNION {events[i].settles : i \in DOMAIN events}]

\* What becomes effective by the time of a valuation revises it.
Revised(s, at) ==
    [s EXCEPT !.values = [d \in TradingDay |-> [b \in BookIds |->
        IF @[d][b].known /\ CloseAt(d) >= at THEN Replayed(s, b, CloseAt(d), @[d][b]) ELSE @[d][b]]]]

\* 'value': nothing later has been posted or decided, and days go in order.
Value(d) ==
    /\ CloseAt(d) <= sim.clock /\ CloseAt(d) >= sim.econ
    /\ \A n \in TradingDay : values[n]["portfolio"].known => n < d
    /\ Journalled([Paper EXCEPT !.values[d] = [b \in BookIds |-> BooksNow(Paper, b)]])

-----------------------------------------------------------------------------
(* Decisions and orders.                                                   *)

\* nextSession(): the first session whose cutoff is still to come.
NextDays == {d \in TradingDay : CutoffAt(d) > sim.clock}

Decide(o, side) ==
    /\ orders[o].st = "none" /\ RunningRun /\ NextDays # {}
    /\ Journalled([Paper EXCEPT !.orders[o].st = "decided", !.orders[o].side = side, !.orders[o].day = Min(NextDays)])

\* The independent reviewer approves, or the decision stays unapproved.
ReviewDecision(o) ==
    /\ orders[o].st = "decided" /\ RunningRun
    /\ Journalled([Paper EXCEPT !.orders[o].st = "approved"])

\* risk(): the run, the instrument, the marks and limits, and what is free; an
\* order that is pending counts what it reserved as its own.
Free(s, o) == [cash |-> s.holdings["portfolio"].cash - s.holdings["portfolio"].heldCash + s.orders[o].cash,
               shares |-> s.holdings["portfolio"].shares - s.holdings["portfolio"].heldShares + s.orders[o].shares]
Risk(s, o, cost) ==
    /\ RunningRun /\ s.sim.blocked["portfolio"] = "none" /\ "portfolio" \notin s.sim.fraction
    /\ IF s.orders[o].side = "BUY" THEN Free(s, o).cash >= cost ELSE Free(s, o).shares >= 1

\* 'submit': in time, reviewed and affordable, or rejected for good.
Submit(o, accepts) ==
    LET buys == orders[o].side = "BUY"
        good == /\ accepts /\ orders[o].st = "approved" /\ sim.clock < CutoffAt(orders[o].day) /\ Risk(Paper, o, Guard)
        pends == [ReserveOrder(Paper, o, IF buys THEN Guard ELSE 0, IF buys THEN 0 ELSE 1) EXCEPT !.orders[o].st = "pending"]
    IN /\ orders[o].st \in {"decided", "approved"}
       /\ Journalled(IF good THEN pends ELSE [Paper EXCEPT !.orders[o].st = "rejected"])

\* opening(): the original, in its window, and not known to be wrong.
Opened(d) == sim.opening[d] # 0 /\ d \notin sim.corrected /\ sim.clock >= OpenAt(d) /\ sim.clock < ExpiryAt(d)

\* A fill is at the opening, within the guard, after nothing that is effective
\* later, and as good a risk as when it was submitted.
MayFill(o) ==
    LET d == orders[o].day  price == sim.opening[d] IN
    /\ IF orders[o].side = "BUY" THEN price <= Guard ELSE price >= Guard
    /\ ~FinancialAfter(Paper, "portfolio", OpenAt(d))
    /\ \A i \in DOMAIN ledger.events : ledger.events[i].of = "portfolio" => ledger.events[i].at <= OpenAt(d)
    /\ Risk(Paper, o, price)

Traded(s, b, d, cash, shares, settles) ==
    Revised(Stocktake(Posting(s, b, OpenAt(d), cash, shares, 0, settles), b, OpenAt(d), "fill"), OpenAt(d))

FillOrder(o, accepts) ==
    LET d == orders[o].day  price == sim.opening[d]  sign == IF orders[o].side = "BUY" THEN 1 ELSE -1 IN
    /\ orders[o].st = "pending" /\ sim.clock < ExpiryAt(d) /\ Opened(d)
    /\ IF accepts /\ MayFill(o)
       THEN Journalled(Traded([Unreserve(Paper, o) EXCEPT !.orders[o].st = "filled"], "portfolio", d, -sign * price, sign, {o}))
       ELSE Journalled(Transition(Paper, o, "rejected"))

\* 'expire', or a fill that comes too late.
ExpireOrder(o) ==
    /\ orders[o].st = "pending" /\ sim.clock >= ExpiryAt(orders[o].day)
    /\ Journalled(Transition(Paper, o, "expired"))

CancelPaper(o) ==
    /\ orders[o].st = "pending" /\ Journalled(Transition(Paper, o, "cancelled"))

\* 'control': whatever is not active keeps no order pending.
ControlLife(life) ==
    /\ sim.life # "ended" /\ life # sim.life /\ (life = "active" => sim.clock < RunEnds)
    /\ Journalled([IF life = "active" THEN Paper ELSE CancelAffected(Paper) EXCEPT !.sim.life = life])

-----------------------------------------------------------------------------
(* Evidence: openings, their corrections, corporate actions.               *)

Observe(d, price) ==
    /\ sim.opening[d] = 0 /\ sim.clock >= OpenAt(d)
    /\ Journalled([Paper EXCEPT !.sim.opening[d] = price])
CorrectOpening(d) ==
    /\ sim.opening[d] # 0 /\ d \notin sim.corrected
    /\ Journalled([Paper EXCEPT !.sim.corrected = @ \cup {d}])

\* The share count just before the ex-date, whatever was traded since.
EntitledTo(s, b, at) ==
    LET before == SelectSeq(s.ledger.inventory, LAMBDA i : i.of = b /\ i.at < at)
    IN IF before = <<>> THEN 0 ELSE before[Len(before)].shares

BlockInstrument(s, b, at, reason) == Revised([s EXCEPT !.sim.blocked[b] = reason], at)

\* Splits halve or double what is held, unless something was posted at or after
\* their time; a half share left over is an entitlement nobody can value.
Split(s, b, at, doubles) ==
    LET held == s.holdings[b].shares
        change == IF doubles THEN held ELSE -(held - held \div 2)
        odd == ~doubles /\ held % 2 = 1
    IN IF FinancialAfter(s, b, at - 1) \/ b \in s.sim.fraction THEN BlockInstrument(s, b, at, "out_of_order_split")
       ELSE Revised(Stocktake([Posting(s, b, at, 0, change, 0, {}) EXCEPT !.sim.fraction = IF odd THEN @ \cup {b} ELSE @], b, at, "split"), at)

Dividend(s, a, b, at) ==
    LET amount == EntitledTo(s, b, at)
    IN Revised(Posting([s EXCEPT !.actions[a].amount = amount], b, at, 0, 0, amount, {}), at)

\* 'action': it cancels what is pending on its instrument before anything else.
Action(a, b, kind, at) ==
    LET seen == [Paper EXCEPT !.actions[a].kind = kind, !.actions[a].of = b, !.actions[a].at = at]
        s == IF b = "portfolio" THEN CancelAffected(seen) ELSE seen
        simultaneous == \E x \in Actions \ {a} : /\ actions[x].of = b /\ actions[x].at = at
                                                /\ {actions[x].kind, kind} = {"split", "dividend"}
    IN /\ actions[a].kind = "none" /\ at <= sim.clock
       /\ CASE kind = "unsupported" -> Journalled(BlockInstrument(s, b, at, "unsupported_action"))
            [] simultaneous -> Journalled(BlockInstrument(s, b, at, "simultaneous_action"))
            [] kind = "split" /\ ~simultaneous -> \E doubles \in BOOLEAN : Journalled(Split(s, b, at, doubles))
            [] OTHER -> b \notin sim.fraction /\ Journalled(Dividend(s, a, b, at))

\* 'dividend_payment', a time after the ex-date; the benchmark's is funding for
\* the next opening after it, or for none.
PaymentAt(a) == actions[a].at + 1
PayDividend(a) ==
    LET b == actions[a].of
        amount == actions[a].amount
        days == {d \in TradingDay : OpenAt(d) > PaymentAt(a)}
        paid == Posting([Paper EXCEPT !.actions[a].paid = TRUE], b, PaymentAt(a), amount, 0, -amount, {})
    IN /\ actions[a].kind = "dividend" /\ ~actions[a].paid /\ sim.blocked[b] = "none" /\ sim.clock >= PaymentAt(a)
       /\ Journalled(Revised(IF b = "benchmark" THEN [paid EXCEPT !.funds[IF days = {} THEN 0 ELSE Min(days)] = @ + amount] ELSE paid, PaymentAt(a)))

\* benchmarkNextOpen: the first session with funding that is not spent.
BenchmarkNext == {d \in TradingDay : funds[d] > 0}

\* 'benchmark_open': all the cash that is not funding of other sessions or of none.
BenchmarkOpen(d) ==
    LET later == FoldSet(LAMBDA n, x : x + funds[n], 0, (0..TradingDays) \ {d})
        cash == holdings["benchmark"].cash - later
        units == cash \div sim.opening[d]
    IN /\ RunningRun /\ BenchmarkNext # {} /\ d = Min(BenchmarkNext) /\ Opened(d)
       /\ sim.blocked["benchmark"] = "none" /\ "benchmark" \notin sim.fraction
       /\ ~FinancialAfter(Paper, "benchmark", OpenAt(d)) /\ \A x \in Actions : actions[x].of = "benchmark" /\ actions[x].kind # "none" => actions[x].at <= OpenAt(d)
       /\ cash >= 0
       /\ LET spent == [Paper EXCEPT !.funds[d] = 0]
          IN Journalled(IF units = 0 THEN Revised(spent, OpenAt(d))
                     ELSE Traded(spent, "benchmark", d, -units * sim.opening[d], units, {}))

\* The transitions of the orders tell what was pending when a session closed.
TimeGoesOn ==
    /\ sim.clock < RunEnds
    /\ Journalled([Paper EXCEPT !.sim.clock = @ + 1, !.sim.closed = [d \in TradingDay |-> IF CloseAt(d) = sim.clock THEN Pending(Paper) ELSE @[d]]])

SimulatorNext ==
    \/ TimeGoesOn
    \/ \E o \in PaperOrders :
          \/ \E side \in {"BUY", "SELL"} : Decide(o, side)
          \/ \E yes \in BOOLEAN : Submit(o, yes) \/ FillOrder(o, yes)
          \/ ReviewDecision(o) \/ ExpireOrder(o) \/ CancelPaper(o)
    \/ \E life \in {"active", "paused", "ended"} : ControlLife(life)
    \/ \E d \in TradingDay : Value(d) \/ CorrectOpening(d) \/ BenchmarkOpen(d) \/ \E price \in Prices : Observe(d, price)
    \/ \E a \in Actions :
          \/ PayDividend(a)
          \/ \E b \in BookIds, kind \in {"dividend", "split", "unsupported"}, at \in ActionTimes : Action(a, b, kind, at)

SimulatorSpec == SimulatorInit /\ [][SimulatorNext]_simulatorVars

-----------------------------------------------------------------------------
(* Properties.                                                             *)

\* The books are what was posted, nothing in them is negative or promised
\* twice, and what is reserved is what pending orders hold: the last checks of
\* reduce() (lines 310 to 312), which reject the command, never have to.
BooksBalance ==
    /\ \A b \in BookIds : holdings[b].cash >= holdings[b].heldCash /\ holdings[b].shares >= holdings[b].heldShares /\ holdings[b].due >= 0
    /\ holdings["portfolio"].heldCash = FoldSet(LAMBDA o, n : n + orders[o].cash, 0, Pending(Paper))
    /\ holdings["portfolio"].heldShares = FoldSet(LAMBDA o, n : n + orders[o].shares, 0, Pending(Paper))
    /\ \A b \in BookIds : holdings[b].due = FoldSet(LAMBDA a, n : n + actions[a].amount, 0,
                                                {a \in Actions : actions[a].of = b /\ actions[a].kind = "dividend" /\ ~actions[a].paid})
    /\ holdings["benchmark"].cash >= FoldSet(LAMBDA d, n : n + funds[d], 0, 0..TradingDays)

\* However late its evidence comes, a dividend is owed on the shares that were
\* held before its ex-date, or its instrument is blocked; only the evidence of
\* a split before that date, when nothing was traded since, breaks this.
Owed(a) ==
    actions[a].kind = "dividend" =>
        \/ actions[a].amount = Replayed(Paper, actions[a].of, actions[a].at - 1, NoValue).shares
        \/ sim.blocked[actions[a].of] # "none"
LateSplit(a) ==
    \E x \in Actions : /\ actions[x].kind = "none" /\ actions'[x].kind = "split" /\ sim'.blocked = sim.blocked
                       /\ actions'[x].of = actions[a].of /\ actions'[x].at < actions[a].at
EntitledTruly == \A a \in Actions : Owed(a) /\ ~LateSplit(a) => Owed(a)'

\* The latest valuation of a day is of the books as they were at its close, as
\* far as is known by now.
ValuedTruly ==
    \A d \in TradingDay, b \in BookIds : values[d][b].known => values[d][b] = Replayed(Paper, b, CloseAt(d), values[d][b])

\* The first valuation of a past close shows what was reserved at that close, and
\* nothing that was reserved since; only an order that a split or dividend of
\* that time cancelled, as it posted, is missing.
PendingAt(d) == IF sim.clock = CloseAt(d) THEN Pending(Paper) ELSE sim.closed[d]
FirstValued(d) == ~values[d]["portfolio"].known /\ values'[d]["portfolio"].known
CancelledByAction(o, d) ==
    /\ orders[o].st = "cancelled"
    /\ \E a \in Actions : actions[a].of = "portfolio" /\ actions[a].kind \in {"split", "dividend"} /\ actions[a].at <= CloseAt(d)
ReservedTruly ==
    \A d \in TradingDay : FirstValued(d) =>
        /\ values'[d]["portfolio"].pending \subseteq PendingAt(d)
        /\ \A o \in PendingAt(d) \ values'[d]["portfolio"].pending : CancelledByAction(o, d)

\* The rules of the simulation, at their word: no reservation of a later time is
\* shown as that of a past close, and no earlier one is forgotten.
NoLeak == [][\A d \in TradingDay : FirstValued(d) => values'[d]["portfolio"].pending = PendingAt(d)]_simulatorVars

\* Again at their word: a split that comes out of order blocks its instrument.
SplitsInOrder == \A a \in Actions : Owed(a)
=============================================================================
