------------------------------- MODULE Finite -------------------------------
(***************************************************************************)
(* The finite authority: an allowance of provider turns and of source      *)
(* requests that the owner approved once and that no restart or restored   *)
(* company database may refund.  It lives in a journal of its own, whose   *)
(* head is repeated in an independent custody file.                        *)
(* Source: src/control/usage/finite-journal.ts, finite-hq.ts, activity.ts  *)
(* and service.ts, market/research-collection.ts, with finish and recover  *)
(* of company.ts.                                                          *)
(*                                                                         *)
(* One observed authority.  A journal operation commits its events, then   *)
(* renews the custody file, then returns to a company transaction that     *)
(* commits last: HQ may die between any two of these.  Abstracted: hashes, *)
(* identities and clocks, the several ceilings (one is kept), the renewal, *)
(* recovery and continuation envelopes that follow a retired authority.    *)
(***************************************************************************)
EXTENDS Integers, FiniteSets

CONSTANTS FiniteTurns, RunLimit, Sources   \* executions 1..n that may ask, the allowance, approved source requests

ASSUME FiniteAssumption == FiniteTurns \in Nat

VARIABLES
    journal,   \* the replayed events; behind: the custody file does not match them
    books,     \* the company's rows: executions, their activity and usage rows, the loop, the running collection
    beyond     \* what really happens at the provider and at the sources

finiteVars == <<journal, books, beyond>>

Reservations == [st : {"none", "reserved", "admitted", "transmitted", "settled", "unknown"}, good : BOOLEAN]
Collections == [st : {"none", "reserved", "settled", "unknown"}, wired : BOOLEAN]
Journals == [res : [1..FiniteTurns -> Reservations], coll : [Sources -> Collections], hold : {"none", "recovery", "held"},
             stopped : BOOLEAN, attested : BOOLEAN, blocked : BOOLEAN, fresh : BOOLEAN, behind : BOOLEAN]
Invocations == [exec : {"none", "running", "completed", "failed"}, row : {"none", "reserved", "active", "settled", "unknown"},
                settled : BOOLEAN, complete : BOOLEAN]
Books == [up : BOOLEAN, turns : [1..FiniteTurns -> Invocations], loop : {"active", "held"}, fetch : SUBSET Sources]
FiniteTypeOK ==
    /\ journal \in Journals /\ books \in Books
    /\ beyond \in [turn : [1..FiniteTurns -> {"none", "running", "ended"}], fetch : [Sources -> {"none", "open", "ended"}]]

FiniteInit ==
    /\ journal = [res |-> [t \in 1..FiniteTurns |-> [st |-> "none", good |-> FALSE]],
                  coll |-> [h \in Sources |-> [st |-> "none", wired |-> FALSE]], hold |-> "none",
                  stopped |-> FALSE, attested |-> TRUE, blocked |-> FALSE, fresh |-> FALSE, behind |-> FALSE]
    /\ books = [up |-> TRUE, loop |-> "active", fetch |-> {},
                turns |-> [t \in 1..FiniteTurns |-> [exec |-> "none", row |-> "none", settled |-> FALSE, complete |-> FALSE]]]
    /\ beyond = [turn |-> [t \in 1..FiniteTurns |-> "none"], fetch |-> [h \in Sources |-> "none"]]

-----------------------------------------------------------------------------
(* The journal.                                                            *)

Spent(j) == {t \in 1..FiniteTurns : j.res[t].st # "none"}
TurnsSettled(j) == \A t \in 1..FiniteTurns : j.res[t].st \in {"none", "settled"}
CollectionsSettled(j) == \A h \in Sources : j.coll[h].st \in {"none", "settled"}
Current(j, held) == ~j.stopped /\ j.attested /\ (held \/ j.hold = "none")
SettledHistory(j) == TurnsSettled(j) /\ \A t \in Spent(j) : j.res[t].good

\* A recovery hold is only recorded as one when no other hold stands.
Hold(j, cause) ==
    [j EXCEPT !.hold = IF cause = "recovery" /\ j.hold # "held" THEN "recovery" ELSE "held", !.fresh = FALSE]
Resume(j) == [j EXCEPT !.hold = "none", !.fresh = FALSE]
HoldUnless(good, j) == IF good THEN j ELSE Hold(j, "outcome")

FiniteDead(b) == [b EXCEPT !.up = FALSE]

\* One operation on the journal inside a transaction of the company, and what
\* follows it outside: HQ may die after the journal's commit, before or after
\* the custody file, and the company's transaction may still fail (undone).
Commits(j, undone, b, w) ==
    /\ books.up /\ ~journal.behind
    /\ \/ journal' = j /\ books' = b /\ beyond' = w
       \/ journal' = j /\ books' \in undone \cup {FiniteDead(books)} /\ UNCHANGED beyond
       \/ journal' = [j EXCEPT !.behind = TRUE] /\ books' = FiniteDead(books) /\ UNCHANGED beyond

Turn(t, exec, row) == [books EXCEPT !.turns[t].exec = exec, !.turns[t].row = row]

-----------------------------------------------------------------------------
(* A provider turn.                                                        *)

ReserveTurn(t) ==
    /\ Cardinality(Spent(journal)) < RunLimit /\ t = Cardinality(Spent(journal)) + 1
    /\ Current(journal, FALSE) /\ CollectionsSettled(journal) /\ TurnsSettled(journal)
    /\ books.loop = "active" /\ \A u \in 1..FiniteTurns : books.turns[u].row \in {"none", "settled"}
    /\ Commits([journal EXCEPT !.res[t].st = "reserved"], {books}, Turn(t, "running", "reserved"), beyond)

AdmitTurn(t) ==
    /\ books.turns[t].exec = "running" /\ books.turns[t].row = "reserved" /\ journal.res[t].st = "reserved"
    /\ books.loop = "active" /\ Current(journal, FALSE) /\ CollectionsSettled(journal)
    /\ Commits([journal EXCEPT !.res[t].st = "admitted"], {books}, Turn(t, "running", "active"), beyond)

\* The last check of the runtime before it sends turn/start.
TransmitTurn(t) ==
    /\ books.turns[t].exec = "running" /\ books.turns[t].row = "active" /\ journal.res[t].st = "admitted"
    /\ books.loop = "active" /\ Current(journal, FALSE) /\ CollectionsSettled(journal)
    /\ Commits([journal EXCEPT !.res[t].st = "transmitted"], {books}, books, [beyond EXCEPT !.turn[t] = "running"])

ProviderEndsTurn(t) ==
    beyond.turn[t] = "running" /\ beyond' = [beyond EXCEPT !.turn[t] = "ended"] /\ UNCHANGED <<journal, books>>

\* Company.finish() commits first; then the journal learns of it.  The
\* runtime calls a turn settled only when it saw it end.
FinishFiniteTurn(t, status, seen, complete) ==
    LET settled == seen /\ journal.res[t].st = "transmitted"
        good == settled /\ complete /\ status = "completed"
        row == IF seen \/ books.turns[t].row = "reserved" THEN "settled" ELSE "unknown"
        done == [books EXCEPT !.turns[t] = [exec |-> status, row |-> row, settled |-> seen, complete |-> complete]]
        told == HoldUnless(good, [journal EXCEPT !.res[t] = [st |-> IF settled THEN "settled" ELSE "unknown", good |-> good]])
    IN  /\ books.up /\ books.turns[t].exec = "running"
        /\ seen => beyond.turn[t] = "ended"
        /\ status = "completed" => seen
        /\ complete => seen
        /\ UNCHANGED beyond
        /\ \/ journal' = journal /\ books' = FiniteDead(done)
           \/ journal' = told /\ books' = IF good THEN done ELSE [done EXCEPT !.loop = "held"]
           \/ journal' = [told EXCEPT !.behind = TRUE] /\ books' = FiniteDead(done)

-----------------------------------------------------------------------------
(* A request to a source.                                                  *)

\* The occurrence of the schedule is running before its request is reserved.
StartCollection(h) ==
    /\ books.up /\ books.loop = "active" /\ books.fetch = {} /\ journal.coll[h].st = "none"
    /\ books' = [books EXCEPT !.fetch = {h}] /\ UNCHANGED <<journal, beyond>>

ReserveCollection(h) ==
    /\ h \in books.fetch /\ journal.coll[h].st = "none" /\ ~journal.blocked /\ Current(journal, FALSE)
    /\ TurnsSettled(journal) /\ CollectionsSettled(journal)
    /\ books.loop = "active"
    /\ Commits([journal EXCEPT !.coll[h].st = "reserved"], {}, books, beyond)

\* consume() refuses: the occurrence is blocked and nothing is spent.
RefuseCollection(h) ==
    /\ books.up /\ h \in books.fetch /\ journal.coll[h].st = "none"
    /\ books' = [books EXCEPT !.fetch = {}, !.loop = "held"] /\ UNCHANGED <<journal, beyond>>

CollectionWire(h) ==
    /\ h \in books.fetch /\ journal.coll[h] = [st |-> "reserved", wired |-> FALSE]
    /\ ~journal.blocked /\ Current(journal, FALSE) /\ TurnsSettled(journal)
    /\ Commits([journal EXCEPT !.coll[h].wired = TRUE], {}, books, [beyond EXCEPT !.fetch[h] = "open"])

SourceAnswers(h) ==
    beyond.fetch[h] = "open" /\ beyond' = [beyond EXCEPT !.fetch[h] = "ended"] /\ UNCHANGED <<journal, books>>

\* settleCollection() of a complete answer, and failCollection() of any other
\* end: only a request that was never put on the wire is known not to be sent.
EndCollection(h, status) ==
    LET known == status # "lost" \/ ~journal.coll[h].wired
        j == [journal EXCEPT !.coll[h].st = IF known THEN "settled" ELSE "unknown", !.blocked = @ \/ status = "blocked"]
    IN  /\ h \in books.fetch /\ journal.coll[h].st = "reserved"
        /\ status # "lost" => beyond.fetch[h] = "ended"
        /\ Commits(HoldUnless(status = "ok", j), {},
                   [books EXCEPT !.fetch = {}, !.loop = IF status = "ok" THEN @ ELSE "held"], beyond)

-----------------------------------------------------------------------------
(* The owner, and a restart.                                               *)

\* The local part of a pause or a stop is kept when the journal cannot be written.
OwnerHolds(stop) ==
    /\ books.up /\ books.loop = "active"
    /\ books' = [books EXCEPT !.loop = "held"] /\ UNCHANGED beyond
    /\ journal' = IF journal.behind THEN journal
                  ELSE IF stop THEN [journal EXCEPT !.stopped = TRUE, !.fresh = FALSE] ELSE Hold(journal, "owner")

OwnerReads == ~journal.behind /\ ~journal.fresh /\ journal' = [journal EXCEPT !.fresh = TRUE] /\ UNCHANGED <<books, beyond>>

\* A resume names the hold it clears: a newer one needs a newer reading.
OwnerResumes ==
    /\ books.loop = "held" /\ journal.fresh /\ Current(journal, TRUE) /\ CollectionsSettled(journal)
    /\ SettledHistory(journal) /\ Cardinality(Spent(journal)) < RunLimit
    /\ Commits(Resume(journal), {books}, [books EXCEPT !.loop = "active"], beyond)

OwnerReload(off) ==
    /\ books.up /\ ~journal.behind /\ ~journal.stopped /\ journal.attested # off /\ UNCHANGED beyond
    /\ journal' = IF off THEN [journal EXCEPT !.attested = TRUE] ELSE Hold([journal EXCEPT !.attested = FALSE], "owner")
    /\ books' = IF off THEN books ELSE [books EXCEPT !.loop = "held"]

FiniteCrash == books.up /\ books' = FiniteDead(books) /\ UNCHANGED <<journal, beyond>>

\* A mutant of FiniteRecovered: the company's own rows decide.
RecoveredLocally(t) == IF books.turns[t].exec = "running" THEN [journal.res[t] EXCEPT !.st = "unknown"] ELSE
                       IF journal.res[t].st = "none" THEN journal.res[t] ELSE [st |-> "settled", good |-> TRUE]

\* recover(): what is not settled in both places is unknown for ever.
FiniteRecovered(t) ==
    LET r == journal.res[t]
        same == books.turns[t].settled /\ r.good = (books.turns[t].exec = "completed" /\ books.turns[t].complete)
    IN  IF r.st = "none" \/ (r.st = "settled" /\ same) THEN r ELSE [r EXCEPT !.st = "unknown"]

FiniteHQStarts ==
    LET kept == [journal EXCEPT !.res = [t \in 1..FiniteTurns |-> FiniteRecovered(t)],
                                !.coll = [h \in Sources |-> IF journal.coll[h].st = "reserved"
                                                            THEN [journal.coll[h] EXCEPT !.st = "unknown"] ELSE journal.coll[h]]]
        held == IF journal.stopped THEN kept ELSE Hold(kept, "recovery")
        idle == books.fetch = {} /\ \A t \in 1..FiniteTurns : books.turns[t].exec # "running"
        restored == /\ books.loop = "active" /\ idle /\ held.hold = "recovery" /\ Current(held, TRUE) /\ ~held.blocked
                    /\ CollectionsSettled(held) /\ SettledHistory(held)
        lost(r) == IF r.exec = "running" THEN [r EXCEPT !.exec = "failed", !.row = "unknown", !.settled = FALSE] ELSE r
        loop == IF restored /\ ~journal.behind THEN "active" ELSE "held"
    IN  /\ ~books.up /\ UNCHANGED beyond
        /\ journal' = IF journal.behind THEN journal ELSE IF restored THEN Resume(held) ELSE held
        /\ books' = [up |-> TRUE, turns |-> [t \in 1..FiniteTurns |-> lost(books.turns[t])], loop |-> loop, fetch |-> {}]

FiniteNext ==
    \/ \E t \in 1..FiniteTurns :
          \/ ReserveTurn(t) \/ AdmitTurn(t) \/ TransmitTurn(t) \/ ProviderEndsTurn(t)
          \/ \E status \in {"completed", "failed"}, seen, complete \in BOOLEAN : FinishFiniteTurn(t, status, seen, complete)
    \/ \E h \in Sources :
          \/ StartCollection(h) \/ ReserveCollection(h) \/ RefuseCollection(h) \/ CollectionWire(h) \/ SourceAnswers(h)
          \/ \E status \in {"ok", "failed", "blocked", "lost"} : EndCollection(h, status)
    \/ \E b \in BOOLEAN : OwnerHolds(b) \/ OwnerReload(b)
    \/ OwnerReads \/ OwnerResumes \/ FiniteCrash \/ FiniteHQStarts

FiniteSpec == FiniteInit /\ [][FiniteNext]_finiteVars

-----------------------------------------------------------------------------
(* Properties.                                                             *)

\* Whatever dies between the journal, the custody file and the company's
\* rows, no two effects of the authority are ever under way together, even
\* when HQ gave the first one up, and nothing is sent that the journal does
\* not count against the allowance.
SentOnAllowance ==
    /\ Cardinality({t \in 1..FiniteTurns : beyond.turn[t] = "running"} \cup {h \in Sources : beyond.fetch[h] = "open"}) <= 1
    /\ \A t \in 1..FiniteTurns : beyond.turn[t] # "none" => journal.res[t].st \in {"transmitted", "settled", "unknown"}
    /\ \A h \in Sources : beyond.fetch[h] # "none" => journal.coll[h].wired
    /\ \A t \in 1..FiniteTurns : journal.res[t].st = "settled" => beyond.turn[t] = "ended"
=============================================================================
