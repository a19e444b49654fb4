------------------------------ MODULE AskGrants ------------------------------
(***************************************************************************)
(* The authority for public questions: the owner's grants, the turns that  *)
(* are charged to them, and the journal of bounded length that remembers   *)
(* both.  Source: src/control/ask/authority-journal.ts and                 *)
(* src/domain/ask/authority.ts.                                            *)
(*                                                                         *)
(* Every event is checked by replaying the journal, appended, and then     *)
(* confirmed in a checkpoint file; a process that dies between the two     *)
(* leaves a journal nobody reads again.  A turn is charged in units of its *)
(* largest permitted size, so the limits on executions stand for those on  *)
(* tokens and cost; the day in universal time, which lies within a rolling *)
(* one, is left out.  The time is counted in ticks longer than a turn may  *)
(* take: deadline and proof of a turn are over with the tick it started    *)
(* in.  Requests to the website and the room the journal keeps for them    *)
(* are left out (AskWire follows them).                                    *)
(***************************************************************************)
EXTENDS Integers, Sequences, FiniteSetsExt

CONSTANTS
    MaxGrants, MaxTurns,       \* how many grants and turns are followed
    GrantTicks, DayTicks, LastTick,   \* how long a grant lasts, a rolling day, the end of time
    JournalRoom    \* ASK_AUTHORITY_CAPACITY.events

ASSUME AskGrantsAssumption == {MaxGrants, MaxTurns, GrantTicks, DayTicks, LastTick, JournalRoom} \subseteq Nat \ {0} /\ GrantTicks <= DayTicks

VARIABLES
    permit,   \* what the journal replays to
    office,   \* the turn of this process, the checkpoint, and what the provider ran
    today

grantVars == <<permit, office, today>>

TurnStates == {"reserved", "admitted", "transmitted", "settled", "over", "unknown"}

\* AskGrant: limits on the executions in all and in a day.
AskGrant == [gen : 1..MaxGrants, from : 0..LastTick, until : 1..LastTick + GrantTicks,
             all : 1..MaxTurns, daily : 1..MaxTurns, revoked : BOOLEAN]
\* AskReservation with its state; receipt: its usage is known.
ModelTurn == [grant : 1..MaxGrants, at : 0..LastTick, st : TurnStates, receipt : BOOLEAN]

AskGrantsTypeOK ==
    /\ permit \in [grants : Seq(AskGrant), turns : Seq(ModelTurn), paused : BOOLEAN, length : 1..JournalRoom]
    /\ office \in [mine : 0..MaxTurns, torn : BOOLEAN, ran : SUBSET (1..MaxTurns)]
    /\ today \in 0..LastTick

AskGrantsInit ==
    /\ permit = [grants |-> <<>>, turns |-> <<>>, paused |-> FALSE, length |-> 1]
    /\ office = [mine |-> 0, torn |-> FALSE, ran |-> {}]
    /\ today = 0

-----------------------------------------------------------------------------
(* The journal.                                                            *)

InState(p, states) == {t \in DOMAIN p.turns : p.turns[t].st \in states}

\* The entries it takes to complete everything that was accepted, and to revoke
\* every grant.
Completion(p) ==
    3 * Cardinality(InState(p, {"reserved"})) + 2 * Cardinality(InState(p, {"admitted"})) + Cardinality(InState(p, {"transmitted"}))
    + Cardinality({g \in DOMAIN p.grants : ~p.grants[g].revoked})
\* A mutant of Holds: the room is counted without the entry to be written.
HoldsBefore(p) == permit.length <= JournalRoom
Holds(p) == permit.length + 1 + Completion(p) <= JournalRoom

\* event(): the entry is committed, then the checkpoint is renewed, and only
\* then anything else may happen (next), unless HQ died in between.
Journalled(p, next) ==
    /\ ~office.torn /\ Holds(p) /\ permit' = [p EXCEPT !.length = @ + 1] /\ UNCHANGED today
    /\ office' = next \/ office' = [office EXCEPT !.mine = 0, !.torn = TRUE]

\* current(): nothing is unknown or over its limits, and the grant is of the
\* newest generation, within its time, not revoked and not paused.
CurrentGrant(g) ==
    /\ InState(permit, {"over", "unknown"}) = {} /\ ~permit.paused
    /\ LET it == permit.grants[g] IN
          /\ ~it.revoked /\ it.from <= today /\ today < it.until
          /\ \A o \in DOMAIN permit.grants : permit.grants[o].gen <= it.gen

\* limits(): one turn at a time, within the grant and within the day, whatever
\* grant the day's turns were charged to.
WithinLimits(g) ==
    LET it == permit.grants[g]
        own == {t \in DOMAIN permit.turns : permit.turns[t].grant = g}
        rolling == {t \in DOMAIN permit.turns : permit.turns[t].at > today - DayTicks}
    IN  /\ InState(permit, TurnStates \ {"settled"}) = {}
        /\ Cardinality(own) < it.all /\ Cardinality(rolling) < it.daily

-----------------------------------------------------------------------------
(* The owner.                                                              *)

\* grant(), configuration(): what the owner may approve, and apply 'grant'.  As
\* a grant lasts at most a day, a limit in all above that of a day never binds.
Newest == Max({permit.grants[g].gen : g \in DOMAIN permit.grants} \cup {0})
ApproveGrant(gen, all, daily) ==
    /\ Len(permit.grants) < MaxGrants /\ gen \in {Newest, Newest + 1} \ {0} /\ all <= daily
    /\ Journalled([permit EXCEPT !.grants = Append(@, [gen |-> gen, from |-> today, until |-> today + GrantTicks,
                                                       all |-> all, daily |-> daily, revoked |-> FALSE])], office)
RevokeGrant(g) == Journalled([permit EXCEPT !.grants[g].revoked = TRUE], office)
OwnerPause == \E on \in BOOLEAN : on # permit.paused /\ Journalled([permit EXCEPT !.paused = on], office)

-----------------------------------------------------------------------------
(* A turn: counted, admitted with a fresh proof, marked, then sent.        *)

ReserveTurn(g) ==
    /\ Len(permit.turns) < MaxTurns /\ CurrentGrant(g) /\ WithinLimits(g)
    /\ Journalled([permit EXCEPT !.turns = Append(@, [grant |-> g, at |-> today, st |-> "reserved", receipt |-> FALSE])],
                  [office EXCEPT !.mine = Len(permit.turns) + 1])

Mine == office.mine # 0
TheTurn == permit.turns[office.mine]
Becomes(st) == [permit EXCEPT !.turns[office.mine].st = st]
Passes == Mine /\ CurrentGrant(TheTurn.grant) /\ today = TheTurn.at

\* admission().
AdmitTurn == Passes /\ TheTurn.st = "reserved" /\ Journalled(Becomes("admitted"), office)
TransmitTurn ==
    /\ Passes /\ TheTurn.st = "admitted"
    /\ Journalled(Becomes("transmitted"), [office EXCEPT !.ran = @ \cup {office.mine}])

\* usage(): what was measured is retained; a subscription whose use is over the
\* limit closes the service for good, any other is refused and left unknown.
SettleTurn ==
    /\ Mine /\ TheTurn.st = "transmitted"
    /\ \E st \in {"settled", "over"} :
          Journalled([Becomes(st) EXCEPT !.turns[office.mine].receipt = TRUE], [office EXCEPT !.mine = 0])
NotSent == Mine /\ TheTurn.st \in {"reserved", "admitted"} /\ Journalled(Becomes("settled"), [office EXCEPT !.mine = 0])

\* At the end of a turn without its usage, and of every turn after a restart.
TurnUnknown(t) ==
    /\ permit.turns[t].st \in {"reserved", "admitted", "transmitted"}
    /\ t = office.mine => TheTurn.st = "transmitted"
    /\ Journalled([permit EXCEPT !.turns[t].st = "unknown"], [office EXCEPT !.mine = 0])

-----------------------------------------------------------------------------
(* Time and crashes.                                                       *)

PassTick == today < LastTick /\ today' = today + 1 /\ UNCHANGED <<permit, office>>
AuthorityDies == Mine /\ office' = [office EXCEPT !.mine = 0] /\ UNCHANGED <<permit, today>>

AskGrantsNext ==
    \/ \E gen \in 1..MaxGrants, all, daily \in 1..MaxTurns : ApproveGrant(gen, all, daily)
    \/ \E g \in DOMAIN permit.grants : RevokeGrant(g) \/ ReserveTurn(g)
    \/ OwnerPause \/ AdmitTurn \/ TransmitTurn \/ SettleTurn \/ NotSent
    \/ \E t \in DOMAIN permit.turns : TurnUnknown(t)
    \/ PassTick \/ AuthorityDies

AskGrantsSpec == AskGrantsInit /\ [][AskGrantsNext]_grantVars

-----------------------------------------------------------------------------
(* Properties.                                                             *)

\* Every turn the provider ran is in the journal, and settled only with its
\* usage; counted with all others of its day it is within the grant it was
\* charged to; and after one that nobody can account for, or that was over its
\* limits, none runs.
ChargedTruly ==
    LET daybefore(t) == {u \in office.ran : permit.turns[u].at > permit.turns[t].at - DayTicks /\ u <= t} IN
    \A t \in office.ran :
        /\ permit.turns[t].st \in {"transmitted", "over", "unknown", "settled"}
        /\ permit.turns[t].st = "settled" => permit.turns[t].receipt
        /\ Cardinality(daybefore(t)) <= permit.grants[permit.turns[t].grant].daily
        /\ Cardinality({u \in office.ran : permit.turns[u].grant = permit.turns[t].grant}) <= permit.grants[permit.turns[t].grant].all
        /\ \A u \in DOMAIN permit.turns : u < t => permit.turns[u].st = "settled"

\* However full the journal is, the outcome of every turn and the revocation of
\* every grant still fit (event()).
RoomForOutcomes ==
    /\ \A t \in InState(permit, {"reserved", "admitted", "transmitted"}) : Holds([permit EXCEPT !.turns[t].st = "unknown"])
    /\ \A g \in DOMAIN permit.grants : ~permit.grants[g].revoked => Holds([permit EXCEPT !.grants[g].revoked = TRUE])
=============================================================================
