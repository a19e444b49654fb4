----------------------------- MODULE PaperLoop ------------------------------
(***************************************************************************)
(* A scheduled investment loop over its paper ledger: the occurrences of   *)
(* every session, the discussion that researches it, the orders it places  *)
(* and what a hold, a missed window or an unknown outcome leaves of them.  *)
(* Source: src/control/investment-loop/service.ts, control/investment.ts,  *)
(* domain/investment/reducer.ts, control/investment-team/service.ts and    *)
(* startInvestmentCycle() of control/discussions.ts.                       *)
(*                                                                         *)
(* tick() is one transaction over all that is due, in order.  Every        *)
(* session has one reviewed proposal and at most one order, prepared and   *)
(* submitted by turns that come one after the other.  Abstracted: amounts, *)
(* prices and risk (an order or a fill may be refused), missing data (an   *)
(* opening may wait), benchmark, actions and valuations with their stage   *)
(* `mark`, budgets, calendars (a stage is due at a phase of its session),  *)
(* the collections of observed runs, and the receipts by which a repeated  *)
(* command finds its first result.                                         *)
(***************************************************************************)
EXTENDS Integers

CONSTANTS Days, HoldBound   \* sessions, and a bound on the holds and on what resumes from them

ASSUME PaperAssumption == Days \in Nat /\ HoldBound \in Nat

VARIABLES
    loop,    \* the loop row: state, generation; clock; clear: its scope is authorized, no usage is unknown
    occ,     \* its occurrences: the state of every stage and the generation of the research
    talk,    \* the group, and per session its queued or running turn and the turn's generation
    paper    \* the run: lifecycle, proposals and orders

paperVars == <<loop, occ, talk, paper>>
Session == 1..Days
Stage == {"research", "cutoff", "open", "expire"}
Due(d, s) == 4 * (d - 1) + [research |-> 1, cutoff |-> 2, open |-> 3, expire |-> 4][s]
WindowEnds(d, s) == IF s = "research" THEN Due(d, "cutoff") ELSE Due(d, "expire")
Horizon == Due(Days, "expire")

\* The control columns of the loop, its occurrences, the group and the portfolio.
Loop == [st : {"draft", "active", "paused", "blocked", "stopped", "finished"}, gen : Nat, clock : 0..Horizon, clear : BOOLEAN]
Occurrences == [st : [Session \X Stage -> {"pending", "running", "complete", "missed", "blocked", "cancelled"}],
                gen : [Session -> Nat]]
Talk == [group : {"draft", "active", "paused", "blocked", "completed", "stopped"},
         turn : [Session -> {"none", "queued", "running"}], gen : [Session -> Nat], did : BOOLEAN]
Portfolio == [life : {"active", "paused", "ended"}, ready : [Session -> BOOLEAN],
              order : [Session -> {"none", "pending", "filled", "expired", "cancelled", "rejected"}]]

PaperTypeOK == loop \in Loop /\ occ \in Occurrences /\ talk \in Talk /\ paper \in Portfolio

PaperInit ==
    /\ loop = [st |-> "draft", gen |-> 1, clock |-> 0, clear |-> TRUE]
    /\ occ = [st |-> [x \in Session \X Stage |-> "pending"], gen |-> [d \in Session |-> 1]]
    /\ talk = [group |-> "draft", turn |-> [d \in Session |-> "none"], gen |-> [d \in Session |-> 0], did |-> FALSE]
    /\ paper = [life |-> "active", ready |-> [d \in Session |-> FALSE], order |-> [d \in Session |-> "none"]]

-----------------------------------------------------------------------------
(* Handlers call each other, so they work on a copy s of the whole state.  *)

Now == [loop |-> loop, occ |-> occ, talk |-> talk, paper |-> paper]
Becomes(s) == loop' = s.loop /\ occ' = s.occ /\ talk' = s.talk /\ paper' = s.paper

Researching(s) == {d \in Session : s.occ.st[<<d, "research">>] = "running"}
ActiveExecutions(s) == {d \in Session : s.talk.turn[d] = "running"}
Set(s, d, stage, st) == [s EXCEPT !.occ.st[<<d, stage>>] = st]

\* The ledger's control command: whatever is not active holds no pending order.
ControlRun(s, life) ==
    IF s.paper.life = "ended" /\ life # "ended" THEN s
    ELSE [s EXCEPT !.paper.life = life,
                   !.paper.order = [d \in Session |-> IF life # "active" /\ @[d] = "pending" THEN "cancelled" ELSE @[d]]]

CancelModel(s) ==
    [s EXCEPT !.talk.turn = [d \in Session |-> IF @[d] = "queued" THEN "none" ELSE @[d]],
              !.talk.group = IF @ \in {"completed", "stopped", "draft"} THEN @ ELSE "paused"]

\* block() without its run: the loop, its discussions and what they were doing.
BlockDiscussion(s) ==
    LET held == CancelModel([s EXCEPT !.loop.st = "blocked", !.loop.gen = @ + 1])
    IN [held EXCEPT !.occ.st = [x \in Session \X Stage |-> IF @[x] = "running" THEN "blocked" ELSE @[x]]]
Block(s) == ControlRun(BlockDiscussion(s), "paused")

-----------------------------------------------------------------------------
(* tick().                                                                 *)

\* Trusted cleanup, in every held state too.
Cleanup(s) ==
    LET due == {d \in Session : s.occ.st[<<d, "expire">>] = "pending" /\ Due(d, "expire") <= s.loop.clock}
    IN [s EXCEPT !.occ.st = [x \in Session \X Stage |-> IF x[1] \in due /\ x[2] = "expire" THEN "complete" ELSE @[x]],
                 !.paper.order = [d \in Session |-> IF d \in due /\ @[d] = "pending" THEN "expired" ELSE @[d]]]

ExpireResearch(s) ==
    LET late == {d \in Researching(s) : s.loop.clock >= WindowEnds(d, "research")}
    IN IF late = {} THEN s
       ELSE CancelModel([s EXCEPT !.occ.st =
              [x \in Session \X Stage |-> IF x[1] \notin late THEN @[x]
                                          ELSE CASE x[2] = "research" -> "missed"
                                                 [] x[2] = "cutoff" /\ @[x] = "pending" -> "complete"
                                                 [] OTHER -> @[x]]])

\* What keeps a research occurrence from starting; how: its outside checks.
Prepared(s, d, how) ==
    how = "go" /\ Researching(s) = {} /\ ActiveExecutions(s) = {} /\ s.loop.clear /\ s.talk.group # "completed"

StartResearch(s, d, how) ==
    IF s.loop.clock >= WindowEnds(d, "research") THEN Set(s, d, "research", "missed")
    ELSE IF how = "wait" THEN s
    ELSE IF ~Prepared(s, d, how) THEN Set(Block(s), d, "research", "blocked")
    ELSE [Set(s, d, "research", "running") EXCEPT !.occ.gen[d] = s.loop.gen, !.talk.group = "active",
                                                  !.talk.turn[d] = "queued", !.talk.gen[d] = s.loop.gen]

\* A fill waits for a verified opening that is not known to be wrong.
Fill(s, d, how) ==
    IF s.paper.order[d] # "pending" \/ how \in {"wait", "spent"} THEN s
    ELSE [s EXCEPT !.paper.order[d] = IF how = "go" THEN "filled" ELSE "rejected"]

\* how = "spent": the last attempt the envelope allows.
Deterministic(s, d, how) ==
    IF s.loop.clock > WindowEnds(d, "open") THEN Set(s, d, "open", "missed")
    ELSE LET waits == how \in {"wait", "spent"}
         IN Set(Fill(s, d, how), d, "open", IF ~waits THEN "complete"
                                ELSE IF how = "spent" \/ s.loop.clock = WindowEnds(d, "open") THEN "blocked" ELSE "pending")

Cutoff(s, d) ==
    IF d \in Researching(s) THEN CancelModel(Set(Set(s, d, "research", "missed"), d, "cutoff", "complete"))
    ELSE Set(s, d, "cutoff", "complete")

Agenda == [n \in 1..3 * Days |-> <<((n - 1) \div 3) + 1, <<"research", "cutoff", "open">>[((n - 1) % 3) + 1]>>]

Occurrence(s, x, how) ==
    IF s.loop.st # "active" \/ s.occ.st[x] # "pending" \/ Due(x[1], x[2]) > s.loop.clock THEN s
    ELSE CASE x[2] = "research" -> StartResearch(s, x[1], how)
           [] x[2] = "cutoff" -> Cutoff(s, x[1])
           [] OTHER -> Deterministic(s, x[1], how)

\* Every occurrence in its turn: after[n] is what the first n of them leave.
RunAgenda(s, how) ==
    LET after[n \in 0..3 * Days] == IF n = 0 THEN s ELSE Occurrence(after[n - 1], Agenda[n], how)
    IN after[3 * Days]

LoopEnds(s) ==
    LET all == {s.occ.st[x] : x \in Session \X Stage}
        blocked == "blocked" \in all
    IN IF s.loop.st # "active" \/ all \cap {"pending", "running"} # {} THEN s
       ELSE [ControlRun(s, IF blocked THEN "paused" ELSE "ended") EXCEPT
               !.loop.st = IF blocked THEN "blocked" ELSE "finished",
               !.talk.group = IF blocked \/ @ = "completed" THEN @ ELSE "stopped"]

Advance(s, how) ==
    LET timely == ExpireResearch(s)
        seen == IF timely.talk.group # "completed" THEN timely
                ELSE [timely EXCEPT !.occ.st = [x \in Session \X Stage |-> IF @[x] = "running" THEN "complete" ELSE @[x]]]
    IN IF ~s.loop.clear THEN Block(s)
       ELSE IF Researching(timely) # {} /\ timely.talk.group = "blocked" THEN Block(timely)
       ELSE LoopEnds(RunAgenda(seen, how))

\* What the outside checks of a tick find, when it makes any.
Findings ==
    IF \E d \in Session, stage \in {"research", "open"} : occ.st[<<d, stage>>] = "pending" /\ Due(d, stage) <= loop.clock
    THEN {"go", "wait", "spent", "refuse"} ELSE {"go"}

Tick ==
    /\ loop.st \in {"active", "paused", "blocked"}
    /\ \E how \in Findings :
          LET clean == Cleanup(Now) IN Becomes(IF loop.st = "active" THEN Advance(clean, how) ELSE clean)
    /\ <<loop, occ, talk, paper>>' # paperVars

-----------------------------------------------------------------------------
(* The owner.                                                              *)

StartLoop == loop.st = "draft" /\ loop.clock < Due(1, "research") /\ loop' = [loop EXCEPT !.st = "active"] /\ UNCHANGED <<occ, talk, paper>>

PauseOrStop(stop) ==
    /\ loop.st \in {"active", "paused", "blocked"} /\ (stop \/ loop.gen <= HoldBound)
    /\ LET s == CancelModel(ControlRun([Now EXCEPT !.loop.st = IF stop THEN "stopped" ELSE "paused", !.loop.gen = @ + 1],
                                    IF stop THEN "ended" ELSE "paused"))
       IN Becomes([s EXCEPT !.talk.group = IF stop /\ @ # "completed" THEN "stopped" ELSE @,
                            !.occ.st = [x \in Session \X Stage |-> IF @[x] = "running" \/ (stop /\ @[x] = "pending")
                                                                   THEN "cancelled" ELSE @[x]]])

\* A mutant of Elapsed: what fell due while the loop was held is caught up.
ElapsedNever(x) == FALSE
Elapsed(x) == x[2] # "expire" /\ Due(x[1], x[2]) <= loop.clock

ResumeLoop ==
    /\ loop.st \in {"paused", "blocked"} /\ loop.clear /\ ActiveExecutions(Now) = {} /\ paper.life # "ended"
    /\ loop.gen <= 2 * HoldBound
    /\ \E x \in Session \X (Stage \ {"expire"}) : occ.st[x] = "pending" /\ Due(x[1], x[2]) > loop.clock
    /\ LET s == ControlRun(Now, "active")
       IN Becomes([s EXCEPT !.loop.st = "active", !.loop.gen = @ + 1,
                            !.occ.st = [x \in Session \X Stage |-> IF @[x] = "pending" /\ Elapsed(x) THEN "missed" ELSE @[x]]])

CancelOrder(d) == paper.order[d] = "pending" /\ paper' = [paper EXCEPT !.order[d] = "cancelled"] /\ UNCHANGED <<loop, occ, talk>>

-----------------------------------------------------------------------------
(* The turns of a discussion.                                              *)

\* authorize() and reserve() when the request is claimed.
ClaimTurn(d) ==
    /\ talk.turn[d] = "queued" /\ talk.group = "active" /\ loop.st = "active" /\ paper.life = "active" /\ loop.clear
    /\ d \in Researching(Now) /\ talk.gen[d] = loop.gen /\ occ.gen[d] = loop.gen
    /\ loop.clock \in Due(d, "research")..(WindowEnds(d, "research") - 1)
    /\ talk' = [talk EXCEPT !.turn[d] = "running", !.did = FALSE] /\ UNCHANGED <<loop, occ, paper>>

\* A tool call of a running turn, for a session: it prepares the session's
\* reviewed proposal, or submits the one of earlier turns, which the ledger
\* may refuse.
PaperTool(d, session) ==
    /\ talk.turn[d] = "running" /\ talk.group = "active" /\ loop.st = "active" /\ paper.life = "active" /\ ~talk.did
    /\ session \in Researching(Now) /\ loop.clock < WindowEnds(session, "research") /\ paper.order[session] = "none"
    /\ IF paper.ready[session] THEN \E st \in {"pending", "rejected"} : paper' = [paper EXCEPT !.order[session] = st]
       ELSE paper' = [paper EXCEPT !.ready[session] = TRUE]
    /\ talk' = [talk EXCEPT !.did = TRUE] /\ UNCHANGED <<loop, occ>>

\* finish(): work of a turn that did not complete cannot be built upon.
\* The discussion then goes on, ends the cycle, or ends for good.
TurnCompletes(d, goesOn) ==
    /\ talk.turn[d] = "running"
    /\ LET waits == \E n \in Session : n > d /\ occ.st[<<n, "research">>] = "pending"
           ends == talk.group = "active" /\ ~goesOn /\ d \in Researching(Now)
       IN /\ talk' = [talk EXCEPT !.turn[d] = IF goesOn /\ talk.group = "active" THEN "queued" ELSE "none",
                                  !.group = IF ~ends THEN @ ELSE IF waits THEN "paused" ELSE "completed"]
          /\ occ' = [occ EXCEPT !.st[<<d, "research">>] = IF ends /\ waits THEN "complete" ELSE @]
    /\ UNCHANGED <<loop, paper>>

TurnFails(d, settled) ==
    /\ talk.turn[d] = "running"
    /\ talk' = [talk EXCEPT !.turn[d] = "none", !.group = IF @ = "active" THEN "blocked" ELSE @]
    /\ loop' = [loop EXCEPT !.clear = @ /\ settled]
    /\ paper' = [paper EXCEPT !.ready[d] = @ /\ ~(talk.did /\ paper.order[d] = "none")] /\ UNCHANGED occ

-----------------------------------------------------------------------------
(* The world.                                                              *)

TimePasses == loop.clock < Horizon /\ loop' = [loop EXCEPT !.clock = @ + 1] /\ UNCHANGED <<occ, talk, paper>>
LoopAuthorityEnds == loop.clear /\ loop' = [loop EXCEPT !.clear = FALSE] /\ UNCHANGED <<occ, talk, paper>>

PaperNext ==
    \/ Tick \/ StartLoop \/ ResumeLoop \/ TimePasses \/ LoopAuthorityEnds
    \/ \E stop \in BOOLEAN : PauseOrStop(stop)
    \/ \E d \in Session :
          \/ CancelOrder(d) \/ ClaimTurn(d)
          \/ \E session \in Session : PaperTool(d, session)
          \/ \E yes \in BOOLEAN : TurnCompletes(d, yes) \/ TurnFails(d, yes)

PaperSpec == PaperInit /\ [][PaperNext]_paperVars

-----------------------------------------------------------------------------
(* Properties.                                                             *)

\* A loop that is held or over has a run that is too: no order is pending and
\* no research runs.  While a discussion is open, only turns of the current
\* research of the current generation are at work in it.
PaperHeld ==
    /\ loop.st \notin {"draft", "active"} =>
          paper.life # "active" /\ Researching(Now) = {} /\ \A d \in Session : paper.order[d] # "pending"
    /\ talk.group = "active" => \A d \in ActiveExecutions(Now) : d \in Researching(Now) /\ talk.gen[d] = loop.gen

\* What ended stays ended: through holds and resumptions, no occurrence that
\* was missed, cancelled or blocked is worked again, no finished order moves,
\* and no window that elapsed in a hold is caught up.
DoneOnce ==
    /\ \A x \in Session \X Stage : occ.st[x] \notin {"pending", "running"} => occ'.st[x] = occ.st[x]
    /\ \A d \in Session : paper.order[d] \notin {"none", "pending"} => paper'.order[d] = paper.order[d]
    /\ loop.st \in {"paused", "blocked"} /\ loop'.st = "active" =>
         \A x \in Session \X (Stage \ {"expire"}) : occ'.st[x] = "pending" => Due(x[1], x[2]) > loop.clock
NeverReplayed == [][DoneOnce]_paperVars
=============================================================================
