------------------------------ MODULE Research ------------------------------
(***************************************************************************)
(* Public research of one worker: lookups under a standing grant of the    *)
(* owner, reserved before they start, and searches of a provider whose     *)
(* outcome HQ may not learn.                                               *)
(* Source: src/control/research.ts and runtime/research.ts, with claim,    *)
(* finish and recovery of company.ts and the drain of dispatcher.ts.       *)
(*                                                                         *)
(* A step lasts until the next await.  A repeated call gives what the      *)
(* first one gave and changes nothing.  Abstracted: queries, sources and   *)
(* their bounds, the modes of a grant, the contexts of provider threads.   *)
(***************************************************************************)
EXTENDS Integers, Sequences

CONSTANTS Lookups, Grants, Turns   \* bounds: lookups of the work, grants and executions of the worker

ASSUME ResearchAssumption == {Lookups, Grants, Turns} \subseteq Nat

VARIABLES
    lookups,   \* research_operations, the promise of each and the provider's turn
    standing,  \* the active grant (0: none) and the number of grants made
    turn       \* the execution (0: none) and the number of executions

researchVars == <<lookups, standing, turn>>
Unsettled == {"reserved", "running"}

ResearchOperation == \* the control columns of an operation, and the provider turn of a search
    [exec : 1..Turns, grant : 1..Grants, search : BOOLEAN, unresolved : BOOLEAN, result : BOOLEAN,
     st : Unsettled \cup {"completed", "failed", "withheld", "unknown"},
     live : BOOLEAN, aborted : BOOLEAN, provider : {"none", "running", "ended"}]

ResearchTypeOK ==
    /\ lookups \in Seq(ResearchOperation) /\ Len(lookups) <= Lookups
    /\ standing \in [now : 0..Grants, made : 0..Grants] /\ turn \in [now : 0..Turns, made : 0..Turns]

ResearchInit == lookups = <<>> /\ standing = [now |-> 0, made |-> 0] /\ turn = [now |-> 0, made |-> 0]

Lookup(o, r) == lookups' = [lookups EXCEPT ![o] = r] /\ UNCHANGED <<standing, turn>>
Unresolved == \E o \in DOMAIN lookups : lookups[o].unresolved
HasPending == \E o \in DOMAIN lookups : lookups[o].exec = turn.now /\ (lookups[o].live \/ lookups[o].st \in Unsettled)

-----------------------------------------------------------------------------
(* The owner and the scheduler.                                            *)

GrantResearch ==
    /\ standing.now = 0 /\ standing.made < Grants
    /\ standing' = [now |-> standing.made + 1, made |-> standing.made + 1] /\ UNCHANGED <<lookups, turn>>

\* An expired grant is only seen to be over; a revoked one also stops its lookups.
GrantEnds(revoked) ==
    /\ standing.now # 0 /\ standing' = [standing EXCEPT !.now = 0] /\ UNCHANGED turn
    /\ lookups' = [o \in DOMAIN lookups |->
                     [lookups[o] EXCEPT !.aborted = @ \/ (revoked /\ lookups[o].live /\ lookups[o].grant = standing.now)]]

TurnStarts ==
    /\ turn.now = 0 /\ turn.made < Turns /\ ~Unresolved
    /\ turn' = [now |-> turn.made + 1, made |-> turn.made + 1] /\ UNCHANGED <<lookups, standing>>

InterruptSearch ==
    /\ turn.now # 0
    /\ lookups' = [o \in DOMAIN lookups |-> [lookups[o] EXCEPT !.aborted = @ \/ lookups[o].live]]
    /\ UNCHANGED <<standing, turn>>

ResearchTurnEnds == turn.now # 0 /\ ~HasPending /\ turn' = [turn EXCEPT !.now = 0] /\ UNCHANGED <<lookups, standing>>

-----------------------------------------------------------------------------
(* A lookup.                                                               *)

\* A mutant of Reservable: only the lookups of the same execution are looked at.
ReservableHere == ~HasPending
Reservable == ~HasPending /\ ~Unresolved

\* callTool(): a read of what is retained is committed at once.
CallLookup(kind) ==
    LET local == kind = "read" IN
    /\ turn.now # 0 /\ standing.now # 0 /\ Len(lookups) < Lookups /\ Reservable
    /\ lookups' = Append(lookups, [exec |-> turn.now, grant |-> standing.now, search |-> kind = "search", unresolved |-> FALSE,
                                   result |-> local, st |-> IF local THEN "completed" ELSE "reserved",
                                   live |-> ~local, aborted |-> FALSE, provider |-> "none"])
    /\ UNCHANGED <<standing, turn>>

\* The catch of the promise.
Caught(r) ==
    [r EXCEPT !.st = IF r.unresolved THEN "unknown" ELSE IF r.aborted THEN "withheld" ELSE "failed", !.result = TRUE, !.live = FALSE]

Begin(o) ==
    LET r == lookups[o] IN
    /\ r.live /\ r.st = "reserved"
    /\ Lookup(o, IF standing.now # 0 /\ ~r.aborted THEN [r EXCEPT !.st = "running"] ELSE Caught(r))

Granted(r) == standing.now = r.grant /\ ~r.aborted

\* invoking() and the request that starts the provider's turn.
Invoke(o) ==
    LET r == lookups[o] IN
    /\ r.live /\ r.st = "running" /\ r.search /\ r.provider = "none"
    /\ Lookup(o, IF Granted(r) THEN [r EXCEPT !.unresolved = TRUE, !.provider = "running"] ELSE Caught(r))

SearchEnds(o) == lookups[o].provider = "running" /\ Lookup(o, [lookups[o] EXCEPT !.provider = "ended"])

\* The result is kept only while the same grant covers it.
SettleSearch(r, found) == IF found /\ Granted(r) THEN [r EXCEPT !.st = "completed", !.result = TRUE, !.live = FALSE] ELSE Caught(r)

SearchSettles(o, found) ==
    LET r == lookups[o] IN
    r.live /\ r.provider = "ended" /\ Lookup(o, SettleSearch([r EXCEPT !.unresolved = FALSE], found))

PageArrives(o, found) == lookups[o].live /\ lookups[o].st = "running" /\ ~lookups[o].search /\ Lookup(o, SettleSearch(lookups[o], found))

\* The runtime closes, stops or fails before it says how the turn ended.
SearchLost(o) == lookups[o].live /\ lookups[o].st = "running" /\ lookups[o].search /\ Lookup(o, Caught(lookups[o]))

Recovered(r) == [r EXCEPT !.st = IF @ \notin Unsettled THEN @ ELSE IF r.unresolved THEN "unknown" ELSE "failed", !.live = FALSE]

\* HQ dies; provider turns go on.
ResearchRestart ==
    /\ turn.now # 0
    /\ lookups' = [o \in DOMAIN lookups |-> Recovered(lookups[o])] /\ turn' = [turn EXCEPT !.now = 0] /\ UNCHANGED standing

ResearchNext ==
    \/ GrantResearch \/ TurnStarts \/ InterruptSearch \/ ResearchTurnEnds \/ ResearchRestart
    \/ \E revoked \in BOOLEAN : GrantEnds(revoked)
    \/ \E kind \in {"read", "open", "search"} : CallLookup(kind)
    \/ \E o \in DOMAIN lookups :
          \/ Begin(o) \/ Invoke(o) \/ SearchEnds(o) \/ SearchLost(o)
          \/ \E found \in BOOLEAN : SearchSettles(o, found) \/ PageArrives(o, found)

ResearchSpec == ResearchInit /\ [][ResearchNext]_researchVars

-----------------------------------------------------------------------------
(* Properties.                                                             *)

\* A search that HQ gave up and that may still run at the provider is
\* recorded as unknown, whoever gave it up: the turn, the owner or a crash.
\* It is the worker's last lookup and no further execution has started.
AbandonedSearchLast ==
    \A o \in DOMAIN lookups :
        lookups[o].provider = "running" /\ ~lookups[o].live =>
            /\ lookups[o].st = "unknown" /\ o = Len(lookups)
            /\ turn.made = lookups[o].exec
=============================================================================
