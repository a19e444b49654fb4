---------------------------- MODULE MarketProofs ----------------------------
(***************************************************************************)
(* Bounded spending and the custody of collected data (SpendingCounted and *)
(* CollectedOnce of MCMarket), for every number of turns, sources, runs of *)
(* the owner's command, requests, calls and retries.                       *)
(*                                                                         *)
(* Each of the four components has an inductive invariant of its own.      *)
(* Spending relates the journal of the finite authority, the books and     *)
(* what is beyond both: at most one effect is open, and a crash between    *)
(* the stores only leaves the journal ahead.  GatewayKept says what an     *)
(* inquiry knows of the calls already made: the attempt that may be sent   *)
(* is the last one and is not sent yet, and an attempt of unknown outcome  *)
(* is of a request that is never settled.  CustodyKept relates, for each   *)
(* run, where its data process is to the messages its supervisor has not   *)
(* read, to what its watchdog was told (Talks) and to what it has on disk  *)
(* and on the ledger (Holding).  PilotKept says for each stage of the      *)
(* credit pilot what its lineage, its company and the provider have in     *)
(* common, and what a command that works on it relies on.                  *)
(***************************************************************************)
EXTENDS MCMarket, FiniteSetTheorems, SequenceTheorems, TLAPS

\* A sequence is the function from its positions.
LEMMA SequenceAsFunction ==
  ASSUME NEW S, NEW s \in Seq(S)
  PROVE  Len(s) \in Nat /\ DOMAIN s = 1..Len(s) /\ s \in [1..Len(s) -> S]
  BY LenProperties

\* A function over the positions of a sequence is a sequence of its length.
LEMMA FunctionAsSequence ==
  ASSUME NEW S, NEW s \in Seq(S), NEW f \in [DOMAIN s -> S]
  PROVE  f \in Seq(S) /\ DOMAIN f = DOMAIN s /\ Len(f) = Len(s)
<1>1. Len(s) \in Nat /\ DOMAIN s = 1..Len(s)
  BY SequenceAsFunction
<1>2. f \in Seq(S)
  BY <1>1, IsASeq
<1> QED
  BY <1>1, <1>2, LenProperties

-----------------------------------------------------------------------------
(* The finite authority.                                                   *)

OpenTurn(j, t) == j.res[t].st \notin {"none", "settled"}
OpenFetch(j, h) == j.coll[h].st \notin {"none", "settled"}

\* At most one effect of the authority has no known end in the journal.
OneOpen(j) ==
    /\ \A t, u \in 1..FiniteTurns : OpenTurn(j, t) /\ OpenTurn(j, u) => t = u
    /\ \A g, h \in Sources : OpenFetch(j, g) /\ OpenFetch(j, h) => g = h
    /\ \A t \in 1..FiniteTurns, h \in Sources : ~ (OpenTurn(j, t) /\ OpenFetch(j, h))

\* A turn in the journal, in the books, and at the provider.
TurnSpent(j, b, w, t) ==
    /\ w.turn[t] # "none" => j.res[t].st \in {"transmitted", "settled", "unknown"}
    /\ b.turns[t].exec # "none" => j.res[t].st # "none"
    /\ j.res[t].st = "settled" =>
          /\ w.turn[t] = "ended" /\ b.turns[t].settled /\ b.turns[t].exec # "running"
          /\ j.res[t].good = (b.turns[t].exec = "completed" /\ b.turns[t].complete)

\* A request in the journal and at the source.
FetchSpent(j, w, h) ==
    /\ j.coll[h].wired => j.coll[h].st # "none"
    /\ w.fetch[h] # "none" => j.coll[h].wired
    /\ j.coll[h].st = "settled" => w.fetch[h] # "open"

\* Turns are spent in their order.
InOrder(j) == \A t, u \in 1..FiniteTurns : u < t /\ j.res[t].st # "none" => j.res[u].st # "none"

Outside == [turn : [1..FiniteTurns -> {"none", "running", "ended"}], fetch : [Sources -> {"none", "open", "ended"}]]

Spending(j, b, w) ==
    /\ j \in Journals /\ b \in Books /\ w \in Outside
    /\ OneOpen(j) /\ InOrder(j)
    /\ \A t \in 1..FiniteTurns : TurnSpent(j, b, w, t)
    /\ \A h \in Sources : FetchSpent(j, w, h)

\* What a hold, a resume, a reading or a crash changes is none of this.
LEMMA SpendingFrame ==
  ASSUME NEW j, NEW b, NEW w, Spending(j, b, w),
         NEW k \in Journals, k.res = j.res, k.coll = j.coll,
         NEW c \in Books, c.turns = b.turns
  PROVE  Spending(k, c, w)
  BY DEF Spending, OneOpen, InOrder, TurnSpent, FetchSpent, OpenTurn, OpenFetch

\* The parts of the journal that a hold writes.
LEMMA HoldFrame ==
  ASSUME NEW j \in Journals, NEW cause
  PROVE  /\ Hold(j, cause) \in Journals
         /\ Hold(j, cause).res = j.res /\ Hold(j, cause).coll = j.coll
         /\ Hold(j, cause).stopped = j.stopped /\ Hold(j, cause).attested = j.attested
  BY DEF Hold, Journals

\* A journal that is behind its file has the same rows.
LEMMA BehindFrame ==
  ASSUME NEW j \in Journals
  PROVE  LET k == [j EXCEPT !.behind = TRUE] IN k \in Journals /\ k.res = j.res /\ k.coll = j.coll
  BY DEF Journals

\* A process that dies leaves the turns of the books.
LEMMA DeadFrame ==
  ASSUME NEW b \in Books
  PROVE  FiniteDead(b) \in Books /\ FiniteDead(b).turns = b.turns
  BY DEF FiniteDead, Books

\* An operation on the journal keeps the invariant if it does when all of it
\* is done, and when only the journal is written.
LEMMA CommitsKept ==
  ASSUME NEW j, NEW undone, undone \subseteq {books}, NEW b, NEW w, Commits(j, undone, b, w),
         Spending(j, b, w), Spending(j, books, beyond)
  PROVE  Spending(journal', books', beyond')
<1>1. j \in Journals /\ b \in Books /\ books \in Books
  BY DEF Spending
<1>2. CASE journal' = j /\ books' = b /\ beyond' = w
  BY <1>2
<1>3. CASE journal' = j /\ books' \in undone \cup {FiniteDead(books)} /\ UNCHANGED beyond
  BY <1>1, <1>3, DeadFrame, SpendingFrame
<1>4. CASE journal' = [j EXCEPT !.behind = TRUE] /\ books' = FiniteDead(books) /\ UNCHANGED beyond
  BY <1>1, <1>4, DeadFrame, BehindFrame, SpendingFrame
<1> QED
  BY <1>2, <1>3, <1>4 DEF Commits

\* A turn that may be reserved is the first that is not spent.
LEMMA NextTurn ==
  ASSUME NEW j \in Journals, InOrder(j), NEW t \in 1..FiniteTurns, t = Cardinality(Spent(j)) + 1
  PROVE  /\ j.res[t].st = "none"
         /\ \A u \in 1..FiniteTurns : u < t => j.res[u].st # "none"
<1>1. IsFiniteSet(1..FiniteTurns) /\ Spent(j) \subseteq 1..FiniteTurns /\ FiniteTurns \in Nat
  BY FS_Interval, FiniteAssumption DEF Spent
<1>2. IsFiniteSet(Spent(j)) /\ Cardinality(Spent(j)) \in Nat
  BY <1>1, FS_Subset, FS_CardinalityType
<1>3. ASSUME j.res[t].st # "none" PROVE FALSE
  <2>1. 1..t \subseteq Spent(j)
    <3> SUFFICES ASSUME NEW u \in 1..t PROVE u \in Spent(j)
      OBVIOUS
    <3>1. u \in 1..FiniteTurns /\ (u < t \/ u = t)
      BY <1>1
    <3> QED
      BY <1>3, <3>1 DEF Spent, InOrder
  <2>2. Cardinality(1..t) <= Cardinality(Spent(j))
    BY <1>2, <2>1, FS_Subset
  <2> QED
    BY <1>2, <2>2, FS_Interval
<1>4. ASSUME NEW u \in 1..FiniteTurns, u < t, j.res[u].st = "none" PROVE FALSE
  <2>1. Spent(j) \subseteq 1..(u - 1)
    <3> SUFFICES ASSUME NEW v \in Spent(j) PROVE v \in 1..(u - 1)
      OBVIOUS
    <3>1. v \in 1..FiniteTurns /\ j.res[v].st # "none"
      BY DEF Spent
    <3>2. ~ (u < v) /\ u # v
      BY <1>4, <3>1 DEF InOrder
    <3> QED
      BY <1>1, <3>1, <3>2
  <2>2. IsFiniteSet(1..(u - 1)) /\ Cardinality(1..(u - 1)) = u - 1
    <3>1. 1 \in Int /\ u - 1 \in Int /\ u \in Int /\ u >= 1
      BY <1>1
    <3>2. IsFiniteSet(1..(u - 1)) /\ Cardinality(1..(u - 1)) = IF 1 > u - 1 THEN 0 ELSE (u - 1) - 1 + 1
      BY <3>1, FS_Interval
    <3> QED
      BY <3>1, <3>2
  <2>3. Cardinality(Spent(j)) <= u - 1
    BY <2>1, <2>2, FS_Subset
  <2> QED
    BY <1>2, <1>4, <2>3
<1> QED
  BY <1>3, <1>4

\* What a step that writes one turn of the journal has to respect.
LEMMA TurnWritten ==
  ASSUME NEW j, NEW b, NEW w, Spending(j, b, w), NEW t \in 1..FiniteTurns,
         NEW r \in Reservations, r.st # "none",
         OpenTurn(j, t) \/ ((\A h \in Sources : ~ OpenFetch(j, h)) /\ \A u \in 1..FiniteTurns : ~ OpenTurn(j, u)),
         j.res[t].st # "none" \/ \A u \in 1..FiniteTurns : u < t => j.res[u].st # "none",
         NEW c \in Books, \A u \in 1..FiniteTurns \ {t} : c.turns[u] = b.turns[u],
         NEW x \in Outside, x.fetch = w.fetch, \A u \in 1..FiniteTurns \ {t} : x.turn[u] = w.turn[u],
         x.turn[t] # "none" => r.st \in {"transmitted", "settled", "unknown"},
         r.st = "settled" => /\ x.turn[t] = "ended" /\ c.turns[t].settled /\ c.turns[t].exec # "running"
                             /\ r.good = (c.turns[t].exec = "completed" /\ c.turns[t].complete)
  PROVE  Spending([j EXCEPT !.res[t] = r], c, x)
<1> DEFINE k == [j EXCEPT !.res[t] = r]
<1>1. j \in Journals
  BY DEF Spending
<1>2. k \in Journals /\ k.res = [j.res EXCEPT ![t] = r] /\ k.coll = j.coll
  BY <1>1 DEF Journals
<1>3. \A u \in 1..FiniteTurns : k.res[u] = IF u = t THEN r ELSE j.res[u]
  BY <1>1, <1>2 DEF Journals
<1> HIDE DEF k
<1>4. OneOpen(k)
  BY <1>2, <1>3 DEF Spending, OneOpen, OpenTurn, OpenFetch
<1>5. InOrder(k)
  BY <1>3 DEF Spending, InOrder
<1>6. ASSUME NEW u \in 1..FiniteTurns PROVE TurnSpent(k, c, x, u)
  BY <1>3 DEF Spending, TurnSpent
<1>7. ASSUME NEW h \in Sources PROVE FetchSpent(k, x, h)
  BY <1>2 DEF Spending, FetchSpent
<1>8. Spending(k, c, x)
  BY <1>2, <1>4, <1>5, <1>6, <1>7 DEF Spending
<1> QED
  BY <1>8 DEF k

\* One row of the journal's requests, what it says of the source, and no other open.
LEMMA FetchWritten ==
  ASSUME NEW j, NEW b, NEW w, Spending(j, b, w), NEW h \in Sources,
         NEW r \in Collections, r.st # "none",
         OpenFetch(j, h) \/ ((\A g \in Sources : ~ OpenFetch(j, g)) /\ \A u \in 1..FiniteTurns : ~ OpenTurn(j, u)),
         NEW x \in Outside, x.turn = w.turn, \A g \in Sources \ {h} : x.fetch[g] = w.fetch[g],
         x.fetch[h] # "none" => r.wired,
         r.st = "settled" => x.fetch[h] # "open"
  PROVE  Spending([j EXCEPT !.coll[h] = r], b, x)
<1> DEFINE k == [j EXCEPT !.coll[h] = r]
<1>1. j \in Journals
  BY DEF Spending
<1>2. k \in Journals /\ k.coll = [j.coll EXCEPT ![h] = r] /\ k.res = j.res
  BY <1>1 DEF Journals
<1>3. \A g \in Sources : k.coll[g] = IF g = h THEN r ELSE j.coll[g]
  BY <1>1, <1>2 DEF Journals
<1> HIDE DEF k
<1>4. OneOpen(k)
  BY <1>2, <1>3 DEF Spending, OneOpen, OpenTurn, OpenFetch
<1>5. InOrder(k)
  BY <1>2 DEF Spending, InOrder
<1>6. ASSUME NEW u \in 1..FiniteTurns PROVE TurnSpent(k, b, x, u)
  BY <1>2 DEF Spending, TurnSpent
<1>7. ASSUME NEW g \in Sources PROVE FetchSpent(k, x, g)
  BY <1>3 DEF Spending, FetchSpent
<1>8. Spending(k, b, x)
  BY <1>2, <1>4, <1>5, <1>6, <1>7 DEF Spending
<1> QED
  BY <1>8 DEF k

\* The Boolean conditions on the journal, in the terms of the invariant.
LEMMA SettledMeans ==
  ASSUME NEW j
  PROVE  /\ TurnsSettled(j) <=> \A u \in 1..FiniteTurns : ~ OpenTurn(j, u)
         /\ CollectionsSettled(j) <=> \A h \in Sources : ~ OpenFetch(j, h)
  BY DEF TurnsSettled, CollectionsSettled, OpenTurn, OpenFetch

\* A write of the state of one turn is a write of its row.
LEMMA TurnRow ==
  ASSUME NEW j \in Journals, NEW t \in 1..FiniteTurns, NEW s \in {"reserved", "admitted", "transmitted"}
  PROVE  LET r == [st |-> s, good |-> j.res[t].good]
         IN r \in Reservations /\ [j EXCEPT !.res[t].st = s] = [j EXCEPT !.res[t] = r]
<1>1. j.res[t] \in Reservations /\ j.res \in [1..FiniteTurns -> Reservations]
  BY DEF Journals
<1>2. [j.res[t] EXCEPT !.st = s] = [st |-> s, good |-> j.res[t].good]
  BY <1>1 DEF Reservations
<1> QED
  BY <1>1, <1>2 DEF Reservations, Journals

\* The rows a request may be written with.
LEMMA FetchRow ==
  ASSUME NEW j \in Journals, NEW h \in Sources
  PROVE  /\ \A s \in {"reserved", "settled", "unknown"} : LET r == [st |-> s, wired |-> j.coll[h].wired]
            IN r \in Collections /\ [j EXCEPT !.coll[h].st = s] = [j EXCEPT !.coll[h] = r]
         /\ LET r == [j.coll[h] EXCEPT !.wired = TRUE]
            IN r \in Collections /\ r.st = j.coll[h].st /\ r.wired /\ [j EXCEPT !.coll[h].wired = TRUE] = [j EXCEPT !.coll[h] = r]
<1>1. j.coll[h] \in Collections /\ j.coll \in [Sources -> Collections]
  BY DEF Journals
<1>2. \A s : [j.coll[h] EXCEPT !.st = s] = [st |-> s, wired |-> j.coll[h].wired]
  BY <1>1 DEF Collections
<1>4. \A s \in {"reserved", "settled", "unknown"} :
         /\ [st |-> s, wired |-> j.coll[h].wired] \in Collections
         /\ [j EXCEPT !.coll[h].st = s] = [j EXCEPT !.coll[h] = [j.coll[h] EXCEPT !.st = s]]
  BY <1>1 DEF Collections, Journals
<1>5. /\ LET r == [j.coll[h] EXCEPT !.wired = TRUE] IN r \in Collections /\ r.st = j.coll[h].st /\ r.wired
      /\ [j EXCEPT !.coll[h].wired = TRUE] = [j EXCEPT !.coll[h] = [j.coll[h] EXCEPT !.wired = TRUE]]
  BY <1>1 DEF Collections, Journals
<1> QED
  BY <1>2, <1>4, <1>5

\* The books with one turn running.
LEMMA TurnBooks ==
  ASSUME NEW t \in 1..FiniteTurns, books \in Books, NEW row \in {"none", "reserved", "active", "settled", "unknown"}
  PROVE  LET c == Turn(t, "running", row)
         IN /\ c \in Books /\ c.turns[t].exec = "running"
            /\ \A u \in 1..FiniteTurns \ {t} : c.turns[u] = books.turns[u]
<1> DEFINE c == Turn(t, "running", row)
           r == [books.turns[t] EXCEPT !.exec = "running", !.row = row]
<1>1. books.turns \in [1..FiniteTurns -> Invocations] /\ books.turns[t] \in Invocations
  BY DEF Books
<1>2. r \in Invocations /\ r.exec = "running"
  BY <1>1 DEF Invocations
<1>3. c = [books EXCEPT !.turns = [books.turns EXCEPT ![t] = r]]
  BY <1>1 DEF Turn, Books, Invocations
<1>4. [books.turns EXCEPT ![t] = r] \in [1..FiniteTurns -> Invocations]
  BY <1>1, <1>2
<1>5. c \in Books /\ c.turns = [books.turns EXCEPT ![t] = r]
  BY <1>3, <1>4 DEF Books
<1> QED
  BY <1>1, <1>2, <1>5

\* A turn is counted in the journal before the books know of it.
LEMMA ReserveTurnSpends ==
  ASSUME Spending(journal, books, beyond), NEW t \in 1..FiniteTurns, ReserveTurn(t)
  PROVE  Spending(journal', books', beyond')
<1> DEFINE r == [st |-> "reserved", good |-> journal.res[t].good]
           j == [journal EXCEPT !.res[t] = r]
<1>1. journal \in Journals /\ books \in Books /\ beyond \in Outside /\ InOrder(journal)
  BY DEF Spending
<1>2. /\ (\A h \in Sources : ~ OpenFetch(journal, h)) /\ \A u \in 1..FiniteTurns : ~ OpenTurn(journal, u)
      /\ t = Cardinality(Spent(journal)) + 1
  BY SettledMeans DEF ReserveTurn
<1>3. journal.res[t].st = "none" /\ \A u \in 1..FiniteTurns : u < t => journal.res[u].st # "none"
  BY <1>1, <1>2, NextTurn
<1>4. r \in Reservations /\ [journal EXCEPT !.res[t].st = "reserved"] = j
  BY <1>1, TurnRow
<1>5. beyond.turn[t] = "none" /\ r.st = "reserved"
  BY <1>3 DEF Spending, TurnSpent
<1> HIDE DEF r
<1>6. \A c \in Books : (\A u \in 1..FiniteTurns \ {t} : c.turns[u] = books.turns[u]) => Spending(j, c, beyond)
  BY <1>1, <1>2, <1>3, <1>4, <1>5, TurnWritten
<1>7. Spending(j, Turn(t, "running", "reserved"), beyond) /\ Spending(j, books, beyond)
  BY <1>1, <1>6, TurnBooks
<1>8. Commits(j, {books}, Turn(t, "running", "reserved"), beyond)
  BY <1>4 DEF ReserveTurn
<1> QED
  BY <1>7, <1>8, CommitsKept

\* The books admit a turn that is reserved.
LEMMA AdmitTurnSpends ==
  ASSUME Spending(journal, books, beyond), NEW t \in 1..FiniteTurns, AdmitTurn(t)
  PROVE  Spending(journal', books', beyond')
<1> DEFINE r == [st |-> "admitted", good |-> journal.res[t].good]
           j == [journal EXCEPT !.res[t] = r]
<1>1. journal \in Journals /\ books \in Books /\ beyond \in Outside
  BY DEF Spending
<1>2. journal.res[t].st = "reserved" /\ OpenTurn(journal, t)
  BY DEF AdmitTurn, OpenTurn
<1>4. r \in Reservations /\ [journal EXCEPT !.res[t].st = "admitted"] = j
  BY <1>1, TurnRow
<1>5. beyond.turn[t] = "none" /\ r.st = "admitted"
  BY <1>2 DEF Spending, TurnSpent
<1> HIDE DEF r
<1>6. \A c \in Books : (\A u \in 1..FiniteTurns \ {t} : c.turns[u] = books.turns[u]) => Spending(j, c, beyond)
  BY <1>1, <1>2, <1>4, <1>5, TurnWritten
<1>7. Spending(j, Turn(t, "running", "active"), beyond) /\ Spending(j, books, beyond)
  BY <1>1, <1>6, TurnBooks
<1>8. Commits(j, {books}, Turn(t, "running", "active"), beyond)
  BY <1>4 DEF AdmitTurn
<1> QED
  BY <1>7, <1>8, CommitsKept

\* The turn is sent once the journal says it will be.
LEMMA TransmitTurnSpends ==
  ASSUME Spending(journal, books, beyond), NEW t \in 1..FiniteTurns, TransmitTurn(t)
  PROVE  Spending(journal', books', beyond')
<1> DEFINE r == [st |-> "transmitted", good |-> journal.res[t].good]
           j == [journal EXCEPT !.res[t] = r]
           w == [beyond EXCEPT !.turn[t] = "running"]
<1>1. journal \in Journals /\ books \in Books /\ beyond \in Outside
  BY DEF Spending
<1>2. journal.res[t].st = "admitted" /\ OpenTurn(journal, t)
  BY DEF TransmitTurn, OpenTurn
<1>3. w \in Outside /\ w.fetch = beyond.fetch /\ \A u \in 1..FiniteTurns \ {t} : w.turn[u] = beyond.turn[u]
  BY <1>1 DEF Outside
<1>4. r \in Reservations /\ [journal EXCEPT !.res[t].st = "transmitted"] = j
  BY <1>1, TurnRow
<1>5. r.st = "transmitted"
  OBVIOUS
<1> HIDE DEF r
<1>6. \A x \in Outside : x.fetch = beyond.fetch /\ (\A u \in 1..FiniteTurns \ {t} : x.turn[u] = beyond.turn[u]) => Spending(j, books, x)
  BY <1>1, <1>2, <1>4, <1>5, TurnWritten
<1>7. Spending(j, books, w) /\ Spending(j, books, beyond)
  BY <1>1, <1>3, <1>6
<1>8. Commits(j, {books}, books, w)
  BY <1>4 DEF TransmitTurn
<1> QED
  BY <1>7, <1>8, CommitsKept

\* The provider ends the turn on its own.
LEMMA ProviderEndsSpends ==
  ASSUME Spending(journal, books, beyond), NEW t \in 1..FiniteTurns, ProviderEndsTurn(t)
  PROVE  Spending(journal', books', beyond')
<1>1. beyond \in Outside /\ journal' = journal /\ books' = books
  BY DEF Spending, ProviderEndsTurn
<1>2. /\ beyond' \in Outside /\ beyond'.fetch = beyond.fetch /\ beyond'.turn[t] = "ended" /\ beyond.turn[t] = "running"
      /\ \A u \in 1..FiniteTurns \ {t} : beyond'.turn[u] = beyond.turn[u]
  BY <1>1 DEF ProviderEndsTurn, Outside
<1>3. ASSUME NEW u \in 1..FiniteTurns PROVE TurnSpent(journal, books, beyond', u)
  BY <1>2 DEF Spending, TurnSpent
<1>4. ASSUME NEW h \in Sources PROVE FetchSpent(journal, beyond', h)
  BY <1>2 DEF Spending, FetchSpent
<1> QED
  BY <1>1, <1>2, <1>3, <1>4 DEF Spending

\* HoldUnless writes no turn and no request.
LEMMA HoldUnlessFrame ==
  ASSUME NEW j \in Journals, NEW good \in BOOLEAN
  PROVE  /\ HoldUnless(good, j) \in Journals
         /\ HoldUnless(good, j).res = j.res /\ HoldUnless(good, j).coll = j.coll
  BY HoldFrame DEF HoldUnless

\* The turn is settled as the books have it.
LEMMA FinishSpends ==
  ASSUME Spending(journal, books, beyond), NEW t \in 1..FiniteTurns,
         NEW status \in {"completed", "failed"}, NEW seen \in BOOLEAN, NEW complete \in BOOLEAN,
         FinishFiniteTurn(t, status, seen, complete)
  PROVE  Spending(journal', books', beyond')
<1> DEFINE settled == seen /\ journal.res[t].st = "transmitted"
           good == settled /\ complete /\ status = "completed"
           row == IF seen \/ books.turns[t].row = "reserved" THEN "settled" ELSE "unknown"
           i == [exec |-> status, row |-> row, settled |-> seen, complete |-> complete]
           done == [books EXCEPT !.turns[t] = i]
           r == [st |-> IF settled THEN "settled" ELSE "unknown", good |-> good]
           j == [journal EXCEPT !.res[t] = r]
           told == HoldUnless(good, j)
<1>1. journal \in Journals /\ books \in Books /\ beyond \in Outside
  BY DEF Spending
<1>2. /\ books.turns[t].exec = "running" /\ (seen => beyond.turn[t] = "ended") /\ beyond' = beyond
      /\ \/ journal' = journal /\ books' = FiniteDead(done)
         \/ journal' = told /\ books' = IF good THEN done ELSE [done EXCEPT !.loop = "held"]
         \/ journal' = [told EXCEPT !.behind = TRUE] /\ books' = FiniteDead(done)
  BY Zenon DEF FinishFiniteTurn
<1>3. journal.res[t].st \notin {"none", "settled"} /\ OpenTurn(journal, t)
  BY <1>2 DEF Spending, TurnSpent, OpenTurn
<1>4. i \in Invocations /\ i.exec = status /\ i.settled = seen /\ i.complete = complete
  BY DEF Invocations
<1> HIDE DEF i
<1>5. /\ done \in Books /\ done.turns[t] = i /\ \A u \in 1..FiniteTurns \ {t} : done.turns[u] = books.turns[u]
  BY <1>1, <1>4 DEF Books
<1>6. [done EXCEPT !.loop = "held"] \in Books /\ [done EXCEPT !.loop = "held"].turns = done.turns
  BY <1>5 DEF Books
<1> HIDE DEF done
<1>7. Spending(journal, done, beyond)
  <2>1. ASSUME NEW u \in 1..FiniteTurns PROVE TurnSpent(journal, done, beyond, u)
    BY <1>3, <1>5 DEF Spending, TurnSpent
  <2> QED
    BY <1>5, <2>1 DEF Spending
<1>8. good \in BOOLEAN /\ r \in Reservations /\ r.st # "none" /\ (r.st = "settled" <=> settled) /\ r.good = good /\ r.st \in {"settled", "unknown"}
  BY DEF Reservations
<1>9. Spending(j, done, beyond)
  <2>1. beyond.turn[t] # "none" => r.st \in {"transmitted", "settled", "unknown"}
    BY <1>8
  <2>2. r.st = "settled" => /\ beyond.turn[t] = "ended" /\ done.turns[t].settled /\ done.turns[t].exec # "running"
                            /\ r.good = (done.turns[t].exec = "completed" /\ done.turns[t].complete)
    BY <1>2, <1>4, <1>5, <1>8
  <2> HIDE DEF r
  <2> QED
    BY <1>1, <1>3, <1>5, <1>8, <2>1, <2>2, TurnWritten
<1>10. told \in Journals /\ told.res = j.res /\ told.coll = j.coll
  <2> HIDE DEF j, good
  <2>1. j \in Journals /\ good \in BOOLEAN
    BY <1>8, <1>9 DEF Spending
  <2> QED
    BY <2>1, HoldUnlessFrame
<1> HIDE DEF j, good, r, told
<1>11. CASE journal' = journal /\ books' = FiniteDead(done)
  BY <1>1, <1>2, <1>5, <1>7, <1>11, DeadFrame, SpendingFrame
<1>12. CASE journal' = told /\ books' = IF good THEN done ELSE [done EXCEPT !.loop = "held"]
  BY <1>2, <1>5, <1>6, <1>9, <1>10, <1>12, SpendingFrame
<1>13. CASE journal' = [told EXCEPT !.behind = TRUE] /\ books' = FiniteDead(done)
  <2>1. journal' \in Journals /\ journal'.res = j.res /\ journal'.coll = j.coll
    BY <1>10, <1>13, BehindFrame
  <2> QED
    BY <1>2, <1>5, <1>9, <1>13, <2>1, DeadFrame, SpendingFrame
<1> QED
  BY <1>2, <1>11, <1>12, <1>13

\* The occurrence of a request begins or is refused: nothing is counted.
LEMMA StartsSpend ==
  ASSUME Spending(journal, books, beyond), NEW h \in Sources, StartCollection(h) \/ RefuseCollection(h)
  PROVE  Spending(journal', books', beyond')
<1>1. journal' = journal /\ beyond' = beyond /\ books' \in Books /\ books'.turns = books.turns
  <2>1. books \in Books
    BY DEF Spending
  <2>2. CASE StartCollection(h)
    BY <2>1, <2>2 DEF StartCollection, Books
  <2>3. CASE RefuseCollection(h)
    BY <2>1, <2>3 DEF RefuseCollection, Books
  <2> QED
    BY <2>2, <2>3
<1> QED
  BY <1>1, SpendingFrame DEF Spending

\* A request is counted before it may be made.
LEMMA ReserveCollectionSpends ==
  ASSUME Spending(journal, books, beyond), NEW h \in Sources, ReserveCollection(h)
  PROVE  Spending(journal', books', beyond')
<1> DEFINE r == [st |-> "reserved", wired |-> journal.coll[h].wired]
           j == [journal EXCEPT !.coll[h] = r]
<1>1. journal \in Journals /\ books \in Books /\ beyond \in Outside
  BY DEF Spending
<1>2. (\A g \in Sources : ~ OpenFetch(journal, g)) /\ \A u \in 1..FiniteTurns : ~ OpenTurn(journal, u)
  BY SettledMeans DEF ReserveCollection
<1>3. r \in Collections /\ [journal EXCEPT !.coll[h].st = "reserved"] = j /\ r.st = "reserved" /\ r.wired = journal.coll[h].wired
  BY <1>1, FetchRow
<1>4. beyond.fetch[h] # "none" => r.wired
  BY <1>3 DEF Spending, FetchSpent
<1> HIDE DEF r
<1>5. Spending(j, books, beyond)
  BY <1>1, <1>2, <1>3, <1>4, FetchWritten
<1>6. Commits(j, {}, books, beyond)
  BY <1>3 DEF ReserveCollection
<1> QED
  BY <1>5, <1>6, CommitsKept

\* The request leaves once the journal says it will.
LEMMA CollectionWireSpends ==
  ASSUME Spending(journal, books, beyond), NEW h \in Sources, CollectionWire(h)
  PROVE  Spending(journal', books', beyond')
<1> DEFINE r == [journal.coll[h] EXCEPT !.wired = TRUE]
           j == [journal EXCEPT !.coll[h] = r]
           w == [beyond EXCEPT !.fetch[h] = "open"]
<1>1. journal \in Journals /\ books \in Books /\ beyond \in Outside
  BY DEF Spending
<1>2. journal.coll[h].st = "reserved" /\ OpenFetch(journal, h)
  BY DEF CollectionWire, OpenFetch
<1>3. r \in Collections /\ [journal EXCEPT !.coll[h].wired = TRUE] = j /\ r.st = "reserved" /\ r.wired
  BY <1>1, <1>2, FetchRow
<1>4. w \in Outside /\ w.turn = beyond.turn /\ \A g \in Sources \ {h} : w.fetch[g] = beyond.fetch[g]
  BY <1>1 DEF Outside
<1> HIDE DEF r, w
<1>5. Spending(j, books, beyond) /\ Spending(j, books, w)
  BY <1>1, <1>2, <1>3, <1>4, FetchWritten
<1>6. Commits(j, {}, books, w)
  BY <1>3 DEF CollectionWire, w
<1> QED
  BY <1>5, <1>6, CommitsKept

\* The source answers on its own.
LEMMA SourceAnswersSpends ==
  ASSUME Spending(journal, books, beyond), NEW h \in Sources, SourceAnswers(h)
  PROVE  Spending(journal', books', beyond')
<1>1. beyond \in Outside /\ journal' = journal /\ books' = books
  BY DEF Spending, SourceAnswers
<1>2. /\ beyond' \in Outside /\ beyond'.turn = beyond.turn /\ beyond'.fetch[h] = "ended" /\ beyond.fetch[h] = "open"
      /\ \A g \in Sources \ {h} : beyond'.fetch[g] = beyond.fetch[g]
  BY <1>1 DEF SourceAnswers, Outside
<1>3. ASSUME NEW u \in 1..FiniteTurns PROVE TurnSpent(journal, books, beyond', u)
  BY <1>2 DEF Spending, TurnSpent
<1>4. ASSUME NEW g \in Sources PROVE FetchSpent(journal, beyond', g)
  BY <1>2 DEF Spending, FetchSpent
<1> QED
  BY <1>1, <1>2, <1>3, <1>4 DEF Spending

\* A request is settled with its answer, or has no known end.
LEMMA EndCollectionSpends ==
  ASSUME Spending(journal, books, beyond), NEW h \in Sources, NEW status \in {"ok", "failed", "blocked", "lost"},
         EndCollection(h, status)
  PROVE  Spending(journal', books', beyond')
<1> DEFINE known == status # "lost" \/ ~journal.coll[h].wired
           s == IF known THEN "settled" ELSE "unknown"
           r == [st |-> s, wired |-> journal.coll[h].wired]
           k == [journal EXCEPT !.coll[h] = r]
           j == [journal EXCEPT !.coll[h].st = s, !.blocked = @ \/ status = "blocked"]
           b == [books EXCEPT !.fetch = {}, !.loop = IF status = "ok" THEN @ ELSE "held"]
<1>1. journal \in Journals /\ books \in Books /\ beyond \in Outside
  BY DEF Spending
<1>2. journal.coll[h].st = "reserved" /\ OpenFetch(journal, h) /\ (status # "lost" => beyond.fetch[h] = "ended")
  BY DEF EndCollection, OpenFetch
<1>3. r \in Collections /\ [journal EXCEPT !.coll[h].st = s] = k /\ r.st = s /\ r.wired = journal.coll[h].wired
  BY <1>1, FetchRow
<1>4. (beyond.fetch[h] # "none" => r.wired) /\ (r.st = "settled" => beyond.fetch[h] # "open")
  BY <1>2, <1>3 DEF Spending, FetchSpent
<1>5. Spending(k, books, beyond)
  <2> HIDE DEF r
  <2> QED
    BY <1>1, <1>2, <1>3, <1>4, FetchWritten
<1>6. j \in Journals /\ j.res = k.res /\ j.coll = k.coll
  <2>1. k \in Journals
    BY <1>5 DEF Spending
  <2>2. j = [[journal EXCEPT !.coll[h].st = s] EXCEPT !.blocked = @ \/ status = "blocked"]
    BY <1>1 DEF Journals
  <2>3. j = [k EXCEPT !.blocked = @ \/ status = "blocked"]
    BY <1>3, <2>2
  <2> QED
    BY ZenonT(40), <2>1, <2>3 DEF Journals
<1>7. b \in Books /\ b.turns = books.turns
  BY <1>1 DEF Books
<1>8. HoldUnless(status = "ok", j) \in Journals /\ HoldUnless(status = "ok", j).res = k.res /\ HoldUnless(status = "ok", j).coll = k.coll
  <2> HIDE DEF j, k
  <2>1. (status = "ok") \in BOOLEAN
    OBVIOUS
  <2> QED
    BY <1>6, <2>1, HoldUnlessFrame, Zenon
<1>9. Commits(HoldUnless(status = "ok", j), {}, b, beyond)
  BY Zenon DEF EndCollection
<1> HIDE DEF j, b, k
<1>10. Spending(HoldUnless(status = "ok", j), b, beyond) /\ Spending(HoldUnless(status = "ok", j), books, beyond)
  BY <1>1, <1>5, <1>7, <1>8, SpendingFrame
<1> QED
  BY <1>9, <1>10, CommitsKept

\* The owner holds, reloads or reads, or the process dies.
LEMMA OwnerSpends ==
  ASSUME Spending(journal, books, beyond),
         (\E b \in BOOLEAN : OwnerHolds(b) \/ OwnerReload(b)) \/ OwnerReads \/ FiniteCrash
  PROVE  Spending(journal', books', beyond')
<1>1. journal \in Journals /\ books \in Books /\ beyond \in Outside
  BY DEF Spending
<1>2. CASE \E b \in BOOLEAN : OwnerHolds(b)
  <2>1. PICK b \in BOOLEAN : OwnerHolds(b)
    BY <1>2
  <2>2. books' \in Books /\ books'.turns = books.turns /\ beyond' = beyond
    BY <1>1, <2>1 DEF OwnerHolds, Books
  <2>3. journal' \in Journals /\ journal'.res = journal.res /\ journal'.coll = journal.coll
    <3>1. /\ Hold(journal, "owner") \in Journals
          /\ Hold(journal, "owner").res = journal.res /\ Hold(journal, "owner").coll = journal.coll
      BY <1>1, HoldFrame
    <3>2. CASE journal' = [journal EXCEPT !.stopped = TRUE, !.fresh = FALSE]
      BY <1>1, <3>2 DEF Journals
    <3>3. journal' = journal \/ journal' = Hold(journal, "owner") \/ journal' = [journal EXCEPT !.stopped = TRUE, !.fresh = FALSE]
      BY <2>1 DEF OwnerHolds
    <3> QED
      BY <1>1, <3>1, <3>2, <3>3
  <2> QED
    BY <2>2, <2>3, SpendingFrame
<1>3. CASE \E b \in BOOLEAN : OwnerReload(b)
  <2>1. PICK b \in BOOLEAN : OwnerReload(b)
    BY <1>3
  <2>2. books' \in Books /\ books'.turns = books.turns /\ beyond' = beyond
    BY <1>1, <2>1 DEF OwnerReload, Books
  <2>3. journal' \in Journals /\ journal'.res = journal.res /\ journal'.coll = journal.coll
    <3> DEFINE off == [journal EXCEPT !.attested = FALSE]
    <3>1. off \in Journals /\ off.res = journal.res /\ off.coll = journal.coll
      BY <1>1 DEF Journals
    <3>2. /\ Hold(off, "owner") \in Journals
          /\ Hold(off, "owner").res = off.res /\ Hold(off, "owner").coll = off.coll
      BY <3>1, HoldFrame
    <3>3. CASE journal' = [journal EXCEPT !.attested = TRUE]
      BY <1>1, <3>3 DEF Journals
    <3>4. journal' = Hold(off, "owner") \/ journal' = [journal EXCEPT !.attested = TRUE]
      BY <2>1 DEF OwnerReload
    <3> QED
      BY <3>1, <3>2, <3>3, <3>4
  <2> QED
    BY <2>2, <2>3, SpendingFrame
<1>4. CASE OwnerReads
  <2>1. journal' \in Journals /\ journal'.res = journal.res /\ journal'.coll = journal.coll
    BY <1>1, <1>4 DEF OwnerReads, Journals
  <2> QED
    BY <1>1, <1>4, <2>1, SpendingFrame DEF OwnerReads
<1>5. CASE FiniteCrash
  BY <1>1, <1>5, DeadFrame, SpendingFrame DEF FiniteCrash
<1> QED
  BY <1>2, <1>3, <1>4, <1>5

\* The owner resumes what was held.
LEMMA OwnerResumesSpends ==
  ASSUME Spending(journal, books, beyond), OwnerResumes
  PROVE  Spending(journal', books', beyond')
<1>1. journal \in Journals /\ books \in Books /\ beyond \in Outside
  BY DEF Spending
<1>2. Resume(journal) \in Journals /\ Resume(journal).res = journal.res /\ Resume(journal).coll = journal.coll
  BY <1>1 DEF Resume, Journals
<1>3. [books EXCEPT !.loop = "active"] \in Books /\ [books EXCEPT !.loop = "active"].turns = books.turns
  BY <1>1 DEF Books
<1>4. /\ Spending(Resume(journal), books, beyond)
      /\ Spending(Resume(journal), [books EXCEPT !.loop = "active"], beyond)
  BY <1>1, <1>2, <1>3, SpendingFrame
<1>5. Commits(Resume(journal), {books}, [books EXCEPT !.loop = "active"], beyond)
  BY DEF OwnerResumes
<1> QED
  BY <1>4, <1>5, CommitsKept

\* What a restart makes of a turn is open if it was.
LEMMA RecoveredRow ==
  ASSUME Spending(journal, books, beyond), NEW t \in 1..FiniteTurns
  PROVE  /\ FiniteRecovered(t) \in Reservations
         /\ journal.res[t].st \in {"none", "settled"} => FiniteRecovered(t) = journal.res[t]
         /\ journal.res[t].st \notin {"none", "settled"} => FiniteRecovered(t).st = "unknown"
<1>1. journal.res[t] \in Reservations
  BY DEF Spending, Journals
<1>2. journal.res[t].st = "settled" =>
         books.turns[t].settled /\ journal.res[t].good = (books.turns[t].exec = "completed" /\ books.turns[t].complete)
  BY DEF Spending, TurnSpent
<1> QED
  BY <1>1, <1>2 DEF FiniteRecovered, Reservations

\* A new process, with the journal it finds.
LEMMA RestartSpends ==
  ASSUME Spending(journal, books, beyond), FiniteHQStarts
  PROVE  Spending(journal', books', beyond')
<1> DEFINE res == [t \in 1..FiniteTurns |-> FiniteRecovered(t)]
           coll == [h \in Sources |-> IF journal.coll[h].st = "reserved"
                                      THEN [journal.coll[h] EXCEPT !.st = "unknown"] ELSE journal.coll[h]]
           kept == [journal EXCEPT !.res = res, !.coll = coll]
           held == IF journal.stopped THEN kept ELSE Hold(kept, "recovery")
           lost(r) == IF r.exec = "running" THEN [r EXCEPT !.exec = "failed", !.row = "unknown", !.settled = FALSE] ELSE r
           turns == [t \in 1..FiniteTurns |-> lost(books.turns[t])]
<1>1. journal \in Journals /\ books \in Books /\ beyond \in Outside
  BY DEF Spending
<1>2. res \in [1..FiniteTurns -> Reservations]
  BY RecoveredRow
<1>3. coll \in [Sources -> Collections]
  BY <1>1 DEF Journals, Collections
<1>4. kept \in Journals /\ kept.res = res /\ kept.coll = coll
  BY <1>1, <1>2, <1>3 DEF Journals
<1>5. /\ held \in Journals /\ held.res = res /\ held.coll = coll
      /\ Resume(held) \in Journals /\ Resume(held).res = res /\ Resume(held).coll = coll
  <2> HIDE DEF kept, res, coll
  <2>1. held \in Journals /\ held.res = res /\ held.coll = coll
    BY <1>4, HoldFrame
  <2> HIDE DEF held
  <2> QED
    BY <2>1 DEF Resume, Journals
<1>6. turns \in [1..FiniteTurns -> Invocations]
  BY <1>1 DEF Books, Invocations
<1>7. /\ journal' = journal \/ journal' = held \/ journal' = Resume(held)
      /\ beyond' = beyond /\ books' \in Books /\ books'.turns = turns
  BY <1>1, <1>6 DEF FiniteHQStarts, Books
<1>8. \A t \in 1..FiniteTurns : IF books.turns[t].exec = "running" THEN turns[t].exec = "failed" ELSE turns[t] = books.turns[t]
  BY <1>1 DEF Books, Invocations
<1>9. \A t \in 1..FiniteTurns : /\ res[t] = FiniteRecovered(t)
                                /\ journal.res[t].st \in {"none", "settled"} => res[t] = journal.res[t]
                                /\ journal.res[t].st \notin {"none", "settled"} => res[t].st = "unknown"
  BY RecoveredRow
<1>10. \A h \in Sources : /\ coll[h].wired = journal.coll[h].wired
                          /\ journal.coll[h].st \in {"none", "settled"} => coll[h] = journal.coll[h]
                          /\ journal.coll[h].st \notin {"none", "settled"} => coll[h].st \notin {"none", "settled"}
  BY <1>1 DEF Journals, Collections
<1> HIDE DEF res, coll, kept, held, turns
<1>11. ASSUME NEW k \in Journals, \/ k.res = journal.res /\ k.coll = journal.coll
                                  \/ k.res = res /\ k.coll = coll
       PROVE  Spending(k, books', beyond)
  <2>1. \A t \in 1..FiniteTurns : /\ journal.res[t].st \in {"none", "settled"} => k.res[t] = journal.res[t]
                                  /\ journal.res[t].st \notin {"none", "settled"} => k.res[t].st \notin {"none", "settled"}
                                  /\ k.res[t].st \in {journal.res[t].st, "unknown"}
    BY <1>9, <1>11
  <2>2. \A h \in Sources : /\ k.coll[h].wired = journal.coll[h].wired
                           /\ journal.coll[h].st \in {"none", "settled"} => k.coll[h] = journal.coll[h]
                           /\ journal.coll[h].st \notin {"none", "settled"} => k.coll[h].st \notin {"none", "settled"}
    BY <1>10, <1>11
  <2>3. OneOpen(k)
    BY <2>1, <2>2 DEF Spending, OneOpen, OpenTurn, OpenFetch
  <2>4. InOrder(k)
    BY <2>1 DEF Spending, InOrder
  <2>5. ASSUME NEW t \in 1..FiniteTurns PROVE TurnSpent(k, books', beyond, t)
    BY <1>7, <1>8, <2>1 DEF Spending, TurnSpent
  <2>6. ASSUME NEW h \in Sources PROVE FetchSpent(k, beyond, h)
    BY <2>2 DEF Spending, FetchSpent
  <2> QED
    BY <1>1, <1>7, <1>11, <2>3, <2>4, <2>5, <2>6 DEF Spending
<1> QED
  BY <1>1, <1>5, <1>7, <1>11

\* Every step of the authority, the provider, the source and the owner.
LEMMA FiniteStep == Spending(journal, books, beyond) /\ FiniteNext => Spending(journal', books', beyond')
<1> SUFFICES ASSUME Spending(journal, books, beyond), FiniteNext PROVE Spending(journal', books', beyond')
  OBVIOUS
<1>1. ASSUME NEW t \in 1..FiniteTurns, ReserveTurn(t) \/ AdmitTurn(t) \/ TransmitTurn(t) \/ ProviderEndsTurn(t)
      PROVE Spending(journal', books', beyond')
  BY <1>1, ReserveTurnSpends, AdmitTurnSpends, TransmitTurnSpends, ProviderEndsSpends
<1>2. ASSUME NEW t \in 1..FiniteTurns, NEW status \in {"completed", "failed"}, NEW seen \in BOOLEAN, NEW complete \in BOOLEAN,
             FinishFiniteTurn(t, status, seen, complete)
      PROVE Spending(journal', books', beyond')
  BY <1>2, FinishSpends
<1>3. ASSUME NEW h \in Sources, \/ StartCollection(h) \/ ReserveCollection(h) \/ RefuseCollection(h)
                                \/ CollectionWire(h) \/ SourceAnswers(h)
      PROVE Spending(journal', books', beyond')
  BY <1>3, StartsSpend, ReserveCollectionSpends, CollectionWireSpends, SourceAnswersSpends
<1>4. ASSUME NEW h \in Sources, NEW status \in {"ok", "failed", "blocked", "lost"}, EndCollection(h, status)
      PROVE Spending(journal', books', beyond')
  BY <1>4, EndCollectionSpends
<1> QED
  BY <1>1, <1>2, <1>3, <1>4, OwnerSpends, OwnerResumesSpends, RestartSpends DEF FiniteNext

\* Nothing was spent yet.
LEMMA FiniteInitSpends == FiniteInit => Spending(journal, books, beyond)
  BY DEF FiniteInit, Spending, Journals, Books, Outside, Reservations, Collections, Invocations,
         OneOpen, InOrder, TurnSpent, FetchSpent, OpenTurn, OpenFetch

\* The invariant holds what is said of spending.
LEMMA SpendingMeans == Spending(journal, books, beyond) => SentOnAllowance
<1> SUFFICES ASSUME Spending(journal, books, beyond) PROVE SentOnAllowance
  OBVIOUS
<1> DEFINE R == {t \in 1..FiniteTurns : beyond.turn[t] = "running"}
           O == {h \in Sources : beyond.fetch[h] = "open"}
<1>1. \A t \in R : OpenTurn(journal, t)
  BY DEF Spending, TurnSpent, OpenTurn
<1>2. \A h \in O : OpenFetch(journal, h)
  BY DEF Spending, FetchSpent, OpenFetch
<1>3. \A x, y \in R \cup O : x = y
  BY <1>1, <1>2 DEF Spending, OneOpen
<1>4. Cardinality(R \cup O) <= 1
  <2>1. CASE R \cup O = {}
    BY <2>1, FS_EmptySet
  <2>2. CASE R \cup O # {}
    <3>1. PICK x \in R \cup O : TRUE
      BY <2>2
    <3>2. R \cup O = {x}
      BY <1>3, <3>1
    <3> QED
      BY <3>2, FS_Singleton
  <2> QED
    BY <2>1, <2>2
<1> QED
  BY <1>4 DEF SentOnAllowance, Spending, TurnSpent, FetchSpent

-----------------------------------------------------------------------------
(* The gateway.                                                            *)

Underway == inquiry.st # "none"
Attempted == inquiry.st \in {"marked", "calling"}
LastTry == Len(desk.tries)

Tries == [req : FinancialRequests, at : Nat, outcome : Outcomes, retry : Nat]
Desks == [asked : SUBSET FinancialRequests, result : [FinancialRequests -> Results], tries : Seq(Tries), seen : Nat,
          revoked : BOOLEAN, clock : Nat]
Inquiries == [req : FinancialRequests \cup {"none"}, st : {"none", "adapter", "spacing", "marked", "calling"},
              terminal : BOOLEAN, raw : BOOLEAN, retry : Nat, called : BOOLEAN, last : Nat]

GatewayTyped ==
    /\ desk \in Desks /\ inquiry \in Inquiries /\ sent \in Seq([try : Nat, at : Nat])
    /\ Underway => inquiry.req \in FinancialRequests

\* The inquiry under way is of a request that has no result yet.
Inquiring ==
    /\ \A q \in FinancialRequests : q \notin desk.asked => desk.result[q] = "none"
    /\ Underway => inquiry.req \in desk.asked /\ desk.result[inquiry.req] = "none"
    /\ \A n \in 1..LastTry : desk.tries[n].req \in desk.asked

\* The attempt that may be sent is the last one, and it is not sent yet.
Counting ==
    /\ LastTry <= MaxCalls
    /\ Attempted => LastTry >= 1 /\ desk.tries[LastTry].req = inquiry.req
    /\ \A m \in 1..Len(sent) : m <= sent[m].try /\ sent[m].try <= LastTry /\ sent[m].at <= desk.clock
    /\ \A m, n \in 1..Len(sent) : m < n => sent[m].try < sent[n].try
    /\ inquiry.st = "marked" => \A m \in 1..Len(sent) : sent[m].try < LastTry

\* The inquiry knows when its last call was made.
Spacing ==
    /\ \A m, n \in 1..Len(sent) : m < n /\ desk.tries[sent[m].try].req = desk.tries[sent[n].try].req =>
          sent[n].at >= sent[m].at + Interval
    /\ Underway => \A m \in 1..Len(sent) : desk.tries[sent[m].try].req = inquiry.req => inquiry.called /\ sent[m].at <= inquiry.last

\* An attempt without a known outcome is the last of the inquiry under way, or
\* of a request that will never be settled.
Knowing ==
    /\ \A n \in 1..LastTry : desk.tries[n].outcome # "known" => desk.result[desk.tries[n].req] \in {"none", "unknown"}
    /\ Underway => \A n \in 1..LastTry : desk.tries[n].req # inquiry.req => desk.tries[n].outcome = "known"
    /\ Underway /\ ~inquiry.terminal => \A n \in 1..LastTry : desk.tries[n].outcome # "known" => Attempted /\ n = LastTry
    /\ inquiry.st \in {"spacing", "marked", "calling"} => ~inquiry.terminal
    /\ Attempted => \A n \in 1..LastTry : n < LastTry => desk.tries[n].retry <= desk.clock

\* Content comes from a call.
Sourced ==
    /\ inquiry.st = "calling" => Len(sent) >= 1 /\ sent[Len(sent)].try = LastTry
    /\ Underway /\ inquiry.raw => \E m \in 1..Len(sent) : desk.tries[sent[m].try].req = inquiry.req
    /\ \A q \in FinancialRequests : desk.result[q] = "ok" => \E m \in 1..Len(sent) : desk.tries[sent[m].try].req = q

GatewayKept == GatewayTyped /\ Inquiring /\ Counting /\ Spacing /\ Knowing /\ Sourced

\* The invariant holds what is said of calls and of results.
LEMMA GatewayMeans == GatewayKept => SentSparingly /\ SettledKnown
<1> SUFFICES ASSUME GatewayKept PROVE SentSparingly /\ SettledKnown
  OBVIOUS
<1>1. /\ DOMAIN desk.tries = 1..LastTry /\ LastTry \in Nat
      /\ DOMAIN sent = 1..Len(sent) /\ Len(sent) \in Nat /\ sent \in [1..Len(sent) -> [try : Nat, at : Nat]]
  BY SequenceAsFunction DEF GatewayKept, GatewayTyped, Desks, LastTry
<1>2. MaxCalls \in Nat
  BY GatewayAssumption
<1>3. Len(sent) <= MaxCalls
  <2>1. CASE Len(sent) = 0
    BY <1>2, <2>1
  <2>2. CASE Len(sent) # 0
    <3>1. Len(sent) \in 1..Len(sent)
      BY <1>1, <2>2
    <3> QED
      BY <1>1, <1>2, <3>1 DEF GatewayKept, Counting
  <2> QED
    BY <2>1, <2>2
<1>4. SentSparingly
  BY <1>1, <1>3 DEF SentSparingly, GatewayKept, Counting, Spacing
<1>5. SettledKnown
  BY <1>1 DEF SettledKnown, UnsettledBy, GatewayKept, Knowing, Sourced
<1> QED
  BY <1>4, <1>5

\* Nothing was asked yet.
LEMMA GatewayInitKept == GatewayInit => GatewayKept
<1> SUFFICES ASSUME GatewayInit PROVE GatewayKept
  OBVIOUS
<1>1. <<>> \in Seq(Tries) /\ <<>> \in Seq([try : Nat, at : Nat]) /\ Len(<<>>) = 0
  OBVIOUS
<1>2. GatewayTyped
  BY <1>1 DEF GatewayInit, GatewayTyped, NoInquiry, Desks, Inquiries, Underway, Results
<1> QED
  BY <1>1, <1>2, GatewayAssumption DEF GatewayInit, GatewayKept, Inquiring, Counting, Spacing, Knowing, Sourced, NoInquiry, Underway, Attempted, LastTry

\* The call that leaves is the one the budget was checked for.
LEMMA CallNotRefunded ==
  ASSUME GatewayKept, CallProvider, sent' # sent
  PROVE  \A n \in DOMAIN desk.tries : n < Len(desk.tries) => desk.tries[n].outcome = "known" /\ desk.tries[n].retry <= desk.clock
<1>1. DOMAIN desk.tries = 1..LastTry /\ LastTry \in Nat
  BY SequenceAsFunction DEF GatewayKept, GatewayTyped, Desks, LastTry
<1> QED
  BY <1>1 DEF CallProvider, GatewayKept, Knowing, Attempted, Underway, LastTry

\* The sequences, as functions of their positions.
LEMMA GatewayRows ==
  ASSUME GatewayTyped
  PROVE  /\ DOMAIN desk.tries = 1..LastTry /\ LastTry \in Nat /\ desk.tries \in [1..LastTry -> Tries]
         /\ DOMAIN sent = 1..Len(sent) /\ Len(sent) \in Nat /\ sent \in [1..Len(sent) -> [try : Nat, at : Nat]]
         /\ desk.clock \in Nat /\ inquiry.last \in Nat
  BY SequenceAsFunction DEF GatewayTyped, Desks, Inquiries, LastTry

\* What changes no attempt and no call keeps the invariant if its inquiry and
\* its results are right.
LEMMA GatewayFrame ==
  ASSUME GatewayKept, GatewayTyped', desk'.tries = desk.tries, sent' = sent, desk'.clock >= desk.clock, desk.asked \subseteq desk'.asked,
         \A q \in FinancialRequests : desk.result[q] # "none" => desk'.result[q] = desk.result[q],
         \A q \in FinancialRequests : desk'.result[q] # desk.result[q] =>
            /\ q \in desk'.asked
            /\ UnsettledBy(q) => desk'.result[q] = "unknown"
            /\ desk'.result[q] = "ok" => \E m \in 1..Len(sent) : desk.tries[sent[m].try].req = q,
         Underway' =>
            /\ inquiry' = inquiry /\ desk'.result[inquiry.req] = desk.result[inquiry.req]
            \/ /\ inquiry'.req \in desk'.asked /\ desk'.result[inquiry'.req] = "none" /\ ~ Attempted'
               /\ \A n \in 1..LastTry : desk.tries[n].req # inquiry'.req => desk.tries[n].outcome = "known"
               /\ \A m \in 1..Len(sent) : desk.tries[sent[m].try].req = inquiry'.req => inquiry'.called /\ sent[m].at <= inquiry'.last
               /\ inquiry'.st = "spacing" => ~inquiry'.terminal
               /\ inquiry'.terminal \/ \A n \in 1..LastTry : desk.tries[n].outcome = "known"
               /\ inquiry'.raw => \E m \in 1..Len(sent) : desk.tries[sent[m].try].req = inquiry'.req
  PROVE  GatewayKept'
<1>1. LastTry' = LastTry
  BY DEF LastTry
<1>2. /\ DOMAIN desk.tries = 1..LastTry /\ LastTry \in Nat /\ desk.tries \in [1..LastTry -> Tries]
      /\ DOMAIN sent = 1..Len(sent) /\ Len(sent) \in Nat /\ sent \in [1..Len(sent) -> [try : Nat, at : Nat]]
      /\ desk.clock \in Nat /\ desk'.clock \in Nat /\ GatewayTyped
  BY GatewayRows DEF GatewayKept, GatewayTyped, Desks
<1>3. \A n \in 1..LastTry : desk.tries[n].req \in FinancialRequests /\ desk.tries[n].retry \in Nat
  BY <1>2 DEF Tries
<1>4. \A m \in 1..Len(sent) : sent[m].try \in Nat /\ sent[m].at \in Nat /\ sent[m].try \in 1..LastTry
  BY <1>2 DEF GatewayKept, Counting
<1>5. Inquiring'
  BY <1>1, <1>2, <1>3 DEF GatewayKept, GatewayTyped, Inquiring, Underway, LastTry
<1>6. Counting'
  BY <1>1, <1>2, <1>4 DEF GatewayKept, Counting, Attempted, Underway
<1>7. Spacing'
  <2>1. (\A m, n \in 1..Len(sent) : m < n /\ desk.tries[sent[m].try].req = desk.tries[sent[n].try].req =>
          sent[n].at >= sent[m].at + Interval)'
    BY DEF GatewayKept, Spacing
  <2>2. (Underway => \A m \in 1..Len(sent) : desk.tries[sent[m].try].req = inquiry.req =>
          inquiry.called /\ sent[m].at <= inquiry.last)'
    BY DEF GatewayKept, Spacing, Underway, Attempted
  <2> QED
    BY <2>1, <2>2 DEF Spacing
<1>8. Knowing'
  <2>1. \A n \in 1..LastTry : desk.tries[n].outcome # "known" => desk'.result[desk.tries[n].req] \in {"none", "unknown"}
    BY <1>2, <1>3 DEF GatewayKept, Knowing, UnsettledBy
  <2>2. (Underway => \A n \in 1..LastTry : desk.tries[n].req # inquiry.req => desk.tries[n].outcome = "known")'
    BY <1>1 DEF GatewayKept, Knowing, Underway
  <2>3. (Underway /\ ~inquiry.terminal => \A n \in 1..LastTry : desk.tries[n].outcome # "known" => Attempted /\ n = LastTry)'
    BY <1>1 DEF GatewayKept, Knowing, Underway, Attempted
  <2>4. (inquiry.st \in {"spacing", "marked", "calling"} => ~inquiry.terminal)'
    BY DEF GatewayKept, Knowing, Underway, Attempted
  <2>5. (Attempted => \A n \in 1..LastTry : n < LastTry => desk.tries[n].retry <= desk.clock)'
    BY <1>1, <1>2, <1>3 DEF GatewayKept, Knowing, Underway, Attempted
  <2> QED
    BY <1>1, <2>1, <2>2, <2>3, <2>4, <2>5 DEF Knowing
<1>9. Sourced'
  BY <1>1, <1>2 DEF GatewayKept, Sourced, Underway, Attempted
<1> QED
  BY <1>5, <1>6, <1>7, <1>8, <1>9 DEF GatewayKept

\* No inquiry is one.
LEMMA NoInquiryTyped == NoInquiry \in Inquiries /\ NoInquiry.st = "none"
  BY DEF NoInquiry, Inquiries

\* A request is taken up, or answered from an earlier result.
LEMMA CollectKept ==
  ASSUME GatewayKept, NEW q \in FinancialRequests, Collect(q)
  PROVE  GatewayKept'
<1> DEFINE asked == [desk EXCEPT !.asked = @ \cup {q}]
           next == [NoInquiry EXCEPT !.req = q, !.st = "adapter"]
<1>1. GatewayTyped /\ desk \in Desks /\ q \notin desk.asked /\ desk.result[q] = "none" /\ sent' = sent
  BY DEF GatewayKept, GatewayTyped, Inquiring, Collect
<1>2. \/ Uncertain(q) /\ desk' = [asked EXCEPT !.result[q] = "blocked"] /\ inquiry' = inquiry
      \/ ~Uncertain(q) /\ desk' = [asked EXCEPT !.result[q] = "cached"] /\ inquiry' = inquiry
      \/ ~Uncertain(q) /\ desk' = asked /\ inquiry' = next
  BY Zenon DEF Collect
<1>3. /\ asked \in Desks /\ asked.tries = desk.tries /\ asked.clock = desk.clock /\ asked.asked = desk.asked \cup {q}
      /\ asked.result = desk.result
  BY <1>1 DEF Desks
<1>4. /\ DOMAIN desk.tries = 1..LastTry /\ LastTry \in Nat /\ desk.tries \in [1..LastTry -> Tries]
      /\ DOMAIN sent = 1..Len(sent) /\ Len(sent) \in Nat /\ desk.clock \in Nat
  BY <1>1, GatewayRows
<1>5. \A n \in 1..LastTry : desk.tries[n].req # q /\ desk.tries[n].req \in desk.asked
  BY <1>1 DEF GatewayKept, Inquiring
<1>6. ~ UnsettledBy(q)
  BY <1>4, <1>5 DEF UnsettledBy
<1>7. \A m \in 1..Len(sent) : sent[m].try \in 1..LastTry
  <2>1. \A m \in 1..Len(sent) : sent[m].try \in Nat
    BY <1>1, GatewayRows
  <2> QED
    BY <1>4, <2>1 DEF GatewayKept, Counting
<1> HIDE DEF asked
<1>8. ASSUME NEW s \in {"blocked", "cached"}, desk' = [asked EXCEPT !.result[q] = s], inquiry' = inquiry
      PROVE  GatewayKept'
  <2>1. /\ desk' \in Desks /\ desk'.tries = desk.tries /\ desk'.clock = desk.clock /\ desk'.asked = desk.asked \cup {q}
        /\ \A p \in FinancialRequests : desk'.result[p] = IF p = q THEN s ELSE desk.result[p]
    BY <1>3, <1>8 DEF Desks, Results
  <2>2. GatewayTyped'
    BY <1>1, <1>8, <2>1 DEF GatewayTyped, Underway
  <2>3. Underway => inquiry.req \in desk.asked /\ desk.result[inquiry.req] = "none" /\ inquiry.req \in FinancialRequests
    BY <1>1 DEF GatewayKept, GatewayTyped, Inquiring
  <2>4. Underway' => inquiry' = inquiry /\ desk'.result[inquiry.req] = desk.result[inquiry.req]
    BY <1>1, <1>8, <2>1, <2>3 DEF Underway
  <2>5. desk'.clock >= desk.clock
    BY <1>4, <2>1
  <2>6. \A p \in FinancialRequests : desk'.result[p] # desk.result[p] => p = q /\ desk'.result[p] # "ok"
    BY <2>1
  <2>7. \A p \in FinancialRequests : desk.result[p] # "none" => desk'.result[p] = desk.result[p]
    BY <1>1, <2>1
  <2> QED
    BY <1>1, <1>6, <2>1, <2>2, <2>4, <2>5, <2>6, <2>7, GatewayFrame
<1>9. ASSUME ~Uncertain(q), desk' = asked, inquiry' = next PROVE GatewayKept'
  <2>1. /\ next \in Inquiries /\ next.req = q /\ next.st = "adapter" /\ ~next.raw
    BY DEF NoInquiry, Inquiries
  <2>2. GatewayTyped'
    BY <1>1, <1>3, <1>9, <2>1 DEF GatewayTyped
  <2>3. \A n \in 1..LastTry : desk.tries[n].outcome = "known"
    BY <1>5, <1>9 DEF GatewayKept, Knowing, Uncertain
  <2>4. ~Attempted' /\ inquiry'.req = q /\ ~inquiry'.raw /\ inquiry'.st = "adapter" /\ q \in desk'.asked /\ desk'.result[q] = "none"
    BY <1>1, <1>3, <1>9, <2>1 DEF Attempted
  <2>5. desk'.clock >= desk.clock
    BY <1>3, <1>4, <1>9
  <2>6. \A m \in 1..Len(sent) : desk.tries[sent[m].try].req # inquiry'.req
    BY <1>5, <1>7, <2>4
  <2> QED
    BY <1>1, <1>3, <1>9, <2>2, <2>3, <2>4, <2>5, <2>6, GatewayFrame
<1> QED
  BY <1>2, <1>8, <1>9 DEF asked

\* The rest of an inquiry that leaves the desk alone.
LEMMA ExchangeKept ==
  ASSUME GatewayKept, Exchange
  PROVE  GatewayKept'
<1>1. GatewayTyped /\ inquiry \in Inquiries /\ desk \in Desks /\ Underway
  BY DEF GatewayKept, GatewayTyped, Exchange, Underway
<1>2. /\ desk' = desk /\ sent' = sent /\ inquiry' \in Inquiries /\ inquiry'.st = "spacing" /\ ~inquiry'.terminal /\ ~inquiry.terminal
      /\ inquiry'.req = inquiry.req /\ inquiry'.called = inquiry.called /\ inquiry'.last = inquiry.last /\ inquiry'.raw = inquiry.raw
      /\ inquiry.st = "adapter"
  BY <1>1 DEF Exchange, Inquiries
<1>3. GatewayTyped' /\ desk.clock >= desk.clock
  BY <1>1, <1>2 DEF GatewayTyped, Desks
<1>4. \A n \in 1..LastTry : desk.tries[n].outcome = "known"
  BY <1>1, <1>2 DEF GatewayKept, Knowing, Attempted
<1>5. inquiry.req \in desk.asked /\ desk.result[inquiry.req] = "none"
  BY <1>1 DEF GatewayKept, Inquiring
<1>6. \A m \in 1..Len(sent) : desk.tries[sent[m].try].req = inquiry.req => inquiry.called /\ sent[m].at <= inquiry.last
  BY <1>1 DEF GatewayKept, Spacing
<1>7. inquiry.raw => \E m \in 1..Len(sent) : desk.tries[sent[m].try].req = inquiry.req
  BY <1>1 DEF GatewayKept, Sourced
<1>8. ~Attempted'
  BY <1>2 DEF Attempted
<1> QED
  BY <1>2, <1>3, <1>4, <1>5, <1>6, <1>7, <1>8, GatewayFrame

\* An inquiry ends with a result.
LEMMA FinishInquiryKept ==
  ASSUME GatewayKept, Underway, NEW s \in {"ok", "failed", "unknown"}, NEW seen \in Nat,
         desk' = [desk EXCEPT !.result[inquiry.req] = s, !.seen = seen], inquiry' = NoInquiry, sent' = sent,
         s # "unknown" => ~UnsettledBy(inquiry.req),
         s = "ok" => inquiry.raw
  PROVE  GatewayKept'
<1>1. GatewayTyped /\ desk \in Desks /\ inquiry.req \in FinancialRequests
  BY DEF GatewayKept, GatewayTyped
<1>2. inquiry.req \in desk.asked /\ desk.result[inquiry.req] = "none"
  BY DEF GatewayKept, Inquiring
<1>3. /\ desk' \in Desks /\ desk'.tries = desk.tries /\ desk'.clock = desk.clock /\ desk'.asked = desk.asked
      /\ \A p \in FinancialRequests : desk'.result[p] = IF p = inquiry.req THEN s ELSE desk.result[p]
  BY <1>1 DEF Desks, Results
<1>4. GatewayTyped' /\ ~Underway' /\ desk'.clock >= desk.clock
  BY <1>1, <1>3, NoInquiryTyped DEF GatewayTyped, Underway, Desks
<1>5. s = "ok" => \E m \in 1..Len(sent) : desk.tries[sent[m].try].req = inquiry.req
  BY DEF GatewayKept, Sourced
<1> QED
  BY <1>1, <1>2, <1>3, <1>4, <1>5, GatewayFrame

\* Time, a revoked scope or a stop of the gateway.
LEMMA StaysKept ==
  ASSUME GatewayKept, RevokeScope \/ StopGateway \/ TickGateway
  PROVE  GatewayKept'
<1>1. GatewayTyped /\ desk \in Desks /\ inquiry \in Inquiries /\ sent' = sent
  BY DEF GatewayKept, GatewayTyped, RevokeScope, StopGateway, TickGateway
<1>2. /\ desk' \in Desks /\ desk'.tries = desk.tries /\ desk'.asked = desk.asked /\ desk'.result = desk.result
      /\ desk'.clock >= desk.clock
  <2>1. CASE desk' = desk
    BY <1>1, <2>1 DEF Desks
  <2>2. CASE RevokeScope
    <3>1. desk' = [desk EXCEPT !.revoked = TRUE] /\ desk.clock \in Nat
      BY <1>1, <2>2 DEF RevokeScope, Desks
    <3>2. desk' \in Desks
      BY <1>1, <3>1 DEF Desks
    <3>3. desk'.tries = desk.tries /\ desk'.asked = desk.asked /\ desk'.result = desk.result /\ desk'.clock = desk.clock
      BY <1>1, <3>1 DEF Desks
    <3> QED
      BY <3>1, <3>2, <3>3
  <2>3. CASE TickGateway
    BY <1>1, <2>3 DEF TickGateway, Desks
  <2> QED
    BY <2>1, <2>2, <2>3 DEF StopGateway
<1>3. inquiry' = inquiry \/ inquiry' = NoInquiry
  BY DEF RevokeScope, StopGateway, TickGateway
<1>4. GatewayTyped' /\ (Underway' => inquiry' = inquiry)
  BY <1>1, <1>2, <1>3, NoInquiryTyped DEF GatewayTyped, Underway
<1> QED
  BY <1>2, <1>4, <1>1, GatewayFrame

\* An attempt that is not made, or not sent, ends the inquiry's exchanges.
LEMMA EndsExchange ==
  ASSUME GatewayKept, Underway, inquiry' = [inquiry EXCEPT !.st = "adapter", !.terminal = TRUE], desk' = desk, sent' = sent
  PROVE  GatewayKept'
<1>1. GatewayTyped /\ inquiry \in Inquiries /\ desk \in Desks
  BY DEF GatewayKept, GatewayTyped
<1>2. /\ inquiry' \in Inquiries /\ inquiry'.st = "adapter" /\ inquiry'.terminal
      /\ inquiry'.req = inquiry.req /\ inquiry'.called = inquiry.called /\ inquiry'.last = inquiry.last /\ inquiry'.raw = inquiry.raw
  BY <1>1 DEF Inquiries
<1>3. GatewayTyped' /\ desk.clock >= desk.clock
  BY <1>1, <1>2 DEF GatewayTyped, Desks, Underway
<1>4. inquiry.req \in desk.asked /\ desk.result[inquiry.req] = "none"
  BY DEF GatewayKept, Inquiring
<1>5. \A m \in 1..Len(sent) : desk.tries[sent[m].try].req = inquiry.req => inquiry.called /\ sent[m].at <= inquiry.last
  BY DEF GatewayKept, Spacing
<1>6. inquiry.raw => \E m \in 1..Len(sent) : desk.tries[sent[m].try].req = inquiry.req
  BY DEF GatewayKept, Sourced
<1>7. \A n \in 1..LastTry : desk.tries[n].req # inquiry.req => desk.tries[n].outcome = "known"
  BY DEF GatewayKept, Knowing
<1>8. ~Attempted'
  BY <1>2 DEF Attempted
<1> QED
  BY <1>2, <1>3, <1>4, <1>5, <1>6, <1>7, <1>8, GatewayFrame

\* An attempt is recorded before it is made.
LEMMA MarkAttemptKept ==
  ASSUME GatewayKept, MarkAttempt
  PROVE  GatewayKept'
<1> DEFINE try == [req |-> inquiry.req, at |-> desk.clock, outcome |-> "none", retry |-> 0]
<1>1. GatewayTyped /\ inquiry \in Inquiries /\ desk \in Desks /\ Underway /\ inquiry.st = "spacing" /\ sent' = sent /\ inquiry.req \in FinancialRequests
  BY DEF GatewayKept, GatewayTyped, MarkAttempt, Underway
<1>2. CASE ~(ScopeCurrent /\ BudgetAllows)
  <2>1. inquiry' = [inquiry EXCEPT !.st = "adapter", !.terminal = TRUE] /\ desk' = desk
    BY <1>2 DEF MarkAttempt
  <2> QED
    BY <1>1, <2>1, EndsExchange
<1>3. CASE ScopeCurrent /\ BudgetAllows
  <2>1. /\ desk' = [desk EXCEPT !.tries = Append(@, try)] /\ inquiry' = [inquiry EXCEPT !.st = "marked"]
    BY <1>3 DEF MarkAttempt
  <2>2. try \in Tries /\ try.req = inquiry.req /\ try.outcome = "none"
    BY <1>1 DEF Tries, Desks, Outcomes
  <2>3. /\ DOMAIN desk.tries = 1..LastTry /\ LastTry \in Nat /\ desk.tries \in [1..LastTry -> Tries] /\ desk.tries \in Seq(Tries)
        /\ DOMAIN sent = 1..Len(sent) /\ Len(sent) \in Nat /\ sent \in [1..Len(sent) -> [try : Nat, at : Nat]]
        /\ desk.clock \in Nat
    BY <1>1, GatewayRows DEF Desks
  <2> HIDE DEF try
  <2>4. /\ Append(desk.tries, try) \in Seq(Tries) /\ Len(Append(desk.tries, try)) = LastTry + 1
        /\ \A n \in 1..LastTry : Append(desk.tries, try)[n] = desk.tries[n]
        /\ Append(desk.tries, try)[LastTry + 1] = try
    BY <2>2, <2>3, AppendProperties DEF LastTry
  <2>5. /\ desk' \in Desks /\ desk'.tries = Append(desk.tries, try) /\ desk'.clock = desk.clock /\ desk'.asked = desk.asked
        /\ desk'.result = desk.result
    BY <1>1, <2>1, <2>4 DEF Desks
  <2>6. /\ inquiry' \in Inquiries /\ inquiry'.st = "marked" /\ inquiry'.terminal = inquiry.terminal /\ inquiry'.raw = inquiry.raw
        /\ inquiry'.req = inquiry.req /\ inquiry'.called = inquiry.called /\ inquiry'.last = inquiry.last
    BY <1>1, <2>1 DEF Inquiries
  <2>7. LastTry' = LastTry + 1 /\ Underway' /\ Attempted'
    BY <2>4, <2>5, <2>6 DEF LastTry, Underway, Attempted
  <2>8. /\ \A n \in 1..LastTry : desk'.tries[n] = desk.tries[n]
        /\ desk'.tries[LastTry + 1] = try
    BY <2>4, <2>5
  <2>9. \A m \in 1..Len(sent) : sent[m].try \in 1..LastTry /\ sent[m].try \in Nat
    BY <2>3 DEF GatewayKept, Counting
  <2>10. GatewayTyped'
    BY <1>1, <2>5, <2>6 DEF GatewayTyped
  <2>11. Inquiring'
    BY <1>1, <2>2, <2>3, <2>5, <2>6, <2>7, <2>8 DEF GatewayKept, Inquiring
  <2>12. LastTry < MaxCalls /\ \A n \in 1..LastTry : desk.tries[n].outcome # "none" /\ desk.tries[n].retry <= desk.clock
    BY <1>3, <2>3 DEF BudgetAllows, LastTry
  <2>13. Counting'
    BY <1>1, <2>2, <2>3, <2>5, <2>6, <2>7, <2>8, <2>9, <2>12, GatewayAssumption DEF GatewayKept, Counting
  <2>14. Spacing'
    <3>1. (\A m, n \in 1..Len(sent) : m < n /\ desk.tries[sent[m].try].req = desk.tries[sent[n].try].req =>
            sent[n].at >= sent[m].at + Interval)'
      <4> SUFFICES ASSUME NEW m \in 1..Len(sent), NEW n \in 1..Len(sent), m < n,
                          desk'.tries[sent[m].try].req = desk'.tries[sent[n].try].req
                   PROVE  sent[n].at >= sent[m].at + Interval
        BY <1>1
      <4>1. desk.tries[sent[m].try].req = desk.tries[sent[n].try].req
        BY <2>8, <2>9
      <4> QED
        BY <4>1 DEF GatewayKept, Spacing
    <3>2. (Underway => \A m \in 1..Len(sent) : desk.tries[sent[m].try].req = inquiry.req =>
            inquiry.called /\ sent[m].at <= inquiry.last)'
      BY <1>1, <2>6, <2>8, <2>9 DEF GatewayKept, Spacing
    <3> QED
      BY <3>1, <3>2 DEF Spacing
  <2>15. Knowing'
    <3>1. ~inquiry.terminal /\ ~inquiry'.terminal
      BY <1>1, <2>6 DEF GatewayKept, Knowing
    <3>2. \A n \in 1..LastTry : desk.tries[n].outcome = "known"
      BY <1>1, <3>1 DEF GatewayKept, Knowing, Attempted
    <3>3. desk.result[inquiry.req] = "none"
      BY <1>1 DEF GatewayKept, Inquiring
    <3>4. \A n \in 1..LastTry + 1 : n \in 1..LastTry \/ n = LastTry + 1
      BY <2>3
    <3> QED
      BY <2>2, <2>3, <2>5, <2>6, <2>7, <2>8, <2>12, <3>1, <3>2, <3>3, <3>4 DEF Knowing
  <2>16. Sourced'
    BY ZenonT(40), <1>1, <2>5, <2>6, <2>7, <2>8, <2>9 DEF GatewayKept, Sourced
  <2> QED
    BY <2>10, <2>11, <2>13, <2>14, <2>15, <2>16 DEF GatewayKept
<1> QED
  BY <1>2, <1>3

\* The call leaves for the attempt just recorded.
LEMMA CallProviderKept ==
  ASSUME GatewayKept, CallProvider
  PROVE  GatewayKept'
<1> DEFINE call == [try |-> LastTry, at |-> desk.clock]
<1>1. /\ GatewayTyped /\ inquiry \in Inquiries /\ desk \in Desks /\ Underway /\ Attempted /\ inquiry.st = "marked" /\ desk' = desk
      /\ inquiry.req \in FinancialRequests /\ sent \in Seq([try : Nat, at : Nat])
  BY DEF GatewayKept, GatewayTyped, CallProvider, Underway, Attempted
<1>2. CASE ~ScopeCurrent
  <2>1. inquiry' = [inquiry EXCEPT !.st = "adapter", !.terminal = TRUE] /\ sent' = sent
    BY <1>2 DEF CallProvider
  <2> QED
    BY <1>1, <2>1, EndsExchange
<1>3. CASE ScopeCurrent
  <2>1. /\ sent' = Append(sent, call)
        /\ inquiry' = [inquiry EXCEPT !.st = "calling", !.called = TRUE, !.last = desk.clock]
    BY <1>3 DEF CallProvider, LastTry
  <2>2. /\ DOMAIN desk.tries = 1..LastTry /\ LastTry \in Nat /\ desk.tries \in [1..LastTry -> Tries]
        /\ DOMAIN sent = 1..Len(sent) /\ Len(sent) \in Nat /\ sent \in [1..Len(sent) -> [try : Nat, at : Nat]]
        /\ desk.clock \in Nat /\ inquiry.last \in Nat
    BY <1>1, GatewayRows
  <2>3. call \in [try : Nat, at : Nat] /\ call.try = LastTry /\ call.at = desk.clock
    BY <2>2
  <2> HIDE DEF call
  <2>4. /\ sent' \in Seq([try : Nat, at : Nat]) /\ Len(sent') = Len(sent) + 1
        /\ \A m \in 1..Len(sent) : sent'[m] = sent[m]
        /\ sent'[Len(sent) + 1] = call
    BY <1>1, <2>1, <2>2, <2>3, AppendProperties
  <2>5. /\ inquiry' \in Inquiries /\ inquiry'.st = "calling" /\ inquiry'.terminal = inquiry.terminal /\ inquiry'.raw = inquiry.raw
        /\ inquiry'.req = inquiry.req /\ inquiry'.called /\ inquiry'.last = desk.clock
    BY <1>1, <2>1, <2>2 DEF Inquiries
  <2>6. LastTry' = LastTry /\ Underway' /\ Attempted'
    BY <1>1, <2>5 DEF LastTry, Underway, Attempted
  <2>7. \A m \in 1..Len(sent) : sent[m].try \in Nat /\ sent[m].at \in Nat /\ sent[m].try < LastTry /\ sent[m].at <= desk.clock /\ m <= sent[m].try
    BY <1>1, <2>2 DEF GatewayKept, Counting
  <2>8. \A m \in 1..Len(sent) + 1 : m \in 1..Len(sent) \/ m = Len(sent) + 1
    BY <2>2
  <2>9. GatewayTyped'
    BY <1>1, <2>4, <2>5 DEF GatewayTyped
  <2>10. Inquiring'
    BY <1>1, <2>5, <2>6 DEF GatewayKept, Inquiring
  <2>11. LastTry >= 1 /\ desk.tries[LastTry].req = inquiry.req
    BY <1>1 DEF GatewayKept, Counting
  <2>12. Len(sent) + 1 <= LastTry
    <3>1. CASE Len(sent) = 0
      BY <2>2, <2>11, <3>1
    <3>2. CASE Len(sent) # 0
      <4>1. Len(sent) \in 1..Len(sent)
        BY <2>2, <3>2
      <4> QED
        BY <2>2, <2>7, <4>1
    <3> QED
      BY <3>1, <3>2
  <2>13. Counting'
    <3>1. \A m \in 1..Len(sent') : m <= sent'[m].try /\ sent'[m].try <= LastTry /\ sent'[m].at <= desk.clock
      BY <2>2, <2>3, <2>4, <2>7, <2>8, <2>12
    <3>2. \A m, n \in 1..Len(sent') : m < n => sent'[m].try < sent'[n].try
      <4> SUFFICES ASSUME NEW m \in 1..Len(sent'), NEW n \in 1..Len(sent'), m < n PROVE sent'[m].try < sent'[n].try
        OBVIOUS
      <4>1. m \in 1..Len(sent)
        BY <2>2, <2>4
      <4>2. CASE n \in 1..Len(sent)
        BY <2>4, <4>1, <4>2 DEF GatewayKept, Counting
      <4>3. CASE n = Len(sent) + 1
        BY <2>3, <2>4, <2>7, <4>1, <4>3
      <4> QED
        BY <2>4, <2>8, <4>2, <4>3
    <3> QED
      BY <1>1, <2>5, <2>6, <2>11, <3>1, <3>2 DEF GatewayKept, Counting
  <2>14. Spacing'
    <3>1. \A m \in 1..Len(sent) : desk.tries[sent[m].try].req = inquiry.req => inquiry.called /\ sent[m].at <= inquiry.last
      BY <1>1 DEF GatewayKept, Spacing
    <3>2. inquiry.called => desk.clock >= inquiry.last + Interval
      BY DEF CallProvider
    <3>3. \A m, n \in 1..Len(sent') : m < n /\ desk.tries[sent'[m].try].req = desk.tries[sent'[n].try].req =>
            sent'[n].at >= sent'[m].at + Interval
      <4> SUFFICES ASSUME NEW m \in 1..Len(sent'), NEW n \in 1..Len(sent'), m < n,
                          desk.tries[sent'[m].try].req = desk.tries[sent'[n].try].req
                   PROVE  sent'[n].at >= sent'[m].at + Interval
        OBVIOUS
      <4>1. m \in 1..Len(sent)
        BY <2>2, <2>4
      <4>2. CASE n \in 1..Len(sent)
        BY <2>4, <4>1, <4>2 DEF GatewayKept, Spacing
      <4>3. CASE n = Len(sent) + 1
        <5>1. inquiry.called /\ sent[m].at <= inquiry.last
          BY <2>3, <2>4, <2>11, <3>1, <4>1, <4>3
        <5>2. Interval \in Nat
          BY GatewayAssumption
        <5>3. sent'[n].at = desk.clock /\ sent'[m].at = sent[m].at /\ sent[m].at \in Nat
          BY <2>3, <2>4, <2>7, <4>1, <4>3
        <5>4. sent[m].at <= inquiry.last /\ desk.clock >= inquiry.last + Interval
          BY <3>2, <5>1
        <5> QED
          BY <2>2, <5>2, <5>3, <5>4
      <4> QED
        BY <2>4, <2>8, <4>2, <4>3
    <3>4. \A m \in 1..Len(sent') : sent'[m].at <= desk.clock
      <4> SUFFICES ASSUME NEW m \in 1..Len(sent') PROVE sent'[m].at <= desk.clock
        OBVIOUS
      <4>1. CASE m \in 1..Len(sent)
        BY <2>4, <2>7, <4>1
      <4>2. CASE m = Len(sent) + 1
        BY <2>2, <2>3, <2>4, <4>2
      <4> QED
        BY <2>4, <2>8, <4>1, <4>2
    <3> QED
      BY <1>1, <2>5, <3>3, <3>4 DEF Spacing
  <2>15. Knowing'
    BY <1>1, <2>5, <2>6 DEF GatewayKept, Knowing
  <2>16. Sourced'
    <3>1. Len(sent') >= 1 /\ sent'[Len(sent')].try = LastTry
      BY <2>2, <2>3, <2>4
    <3>2. \A m \in 1..Len(sent) : m \in 1..Len(sent') /\ sent'[m] = sent[m]
      BY <2>2, <2>4
    <3>3. inquiry'.raw => \E m \in 1..Len(sent') : desk.tries[sent'[m].try].req = inquiry.req
      BY <1>1, <2>5, <3>2 DEF GatewayKept, Sourced
    <3>4. ASSUME NEW q \in FinancialRequests, desk.result[q] = "ok" PROVE \E m \in 1..Len(sent') : desk.tries[sent'[m].try].req = q
      BY <3>2, <3>4 DEF GatewayKept, Sourced
    <3> QED
      BY <1>1, <2>5, <2>6, <3>1, <3>3, <3>4 DEF Sourced
  <2> QED
    BY <2>9, <2>10, <2>13, <2>14, <2>15, <2>16 DEF GatewayKept
<1> QED
  BY <1>2, <1>3

\* The answer of a call, or none: the last attempt has an outcome or keeps none,
\* and the inquiry goes on only with a known one.
LEMMA CallEndsKept ==
  ASSUME GatewayKept, inquiry.st = "calling", sent' = sent, GatewayTyped',
         desk'.asked = desk.asked, desk'.clock = desk.clock,
         LastTry' = LastTry,
         \A n \in 1..LastTry : desk'.tries[n].req = desk.tries[n].req,
         \A n \in 1..LastTry : n < LastTry => desk'.tries[n] = desk.tries[n],
         \A q \in FinancialRequests \ {inquiry.req} : desk'.result[q] = desk.result[q],
         \/ /\ inquiry'.st \in {"adapter", "spacing"} /\ inquiry'.req = inquiry.req
            /\ inquiry'.called = inquiry.called /\ inquiry'.last = inquiry.last
            /\ inquiry'.terminal \/ desk'.tries[LastTry].outcome = "known"
            /\ inquiry'.st = "spacing" => ~inquiry'.terminal
            /\ desk'.result = desk.result
         \/ ~Underway' /\ desk'.result[inquiry.req] = "unknown"
  PROVE  GatewayKept'
<1>1. GatewayTyped /\ desk \in Desks /\ Underway /\ Attempted /\ inquiry.req \in FinancialRequests /\ ~Attempted'
  BY DEF GatewayKept, GatewayTyped, Underway, Attempted
<1>2. /\ DOMAIN desk.tries = 1..LastTry /\ LastTry \in Nat /\ desk.tries \in [1..LastTry -> Tries]
      /\ DOMAIN sent = 1..Len(sent) /\ Len(sent) \in Nat /\ sent \in [1..Len(sent) -> [try : Nat, at : Nat]]
      /\ desk.clock \in Nat /\ inquiry.last \in Nat
  BY <1>1, GatewayRows
<1>3. /\ inquiry.req \in desk.asked /\ desk.result[inquiry.req] = "none"
      /\ LastTry >= 1 /\ desk.tries[LastTry].req = inquiry.req /\ ~inquiry.terminal
      /\ Len(sent) >= 1 /\ sent[Len(sent)].try = LastTry
  BY <1>1 DEF GatewayKept, Inquiring, Counting, Knowing, Sourced
<1>4. \A n \in 1..LastTry : n < LastTry => desk.tries[n].outcome = "known"
  BY <1>1, <1>2, <1>3 DEF GatewayKept, Knowing
<1>5. \A m \in 1..Len(sent) : sent[m].try \in 1..LastTry /\ sent[m].try \in Nat
  BY <1>2 DEF GatewayKept, Counting
<1>6. Inquiring'
  BY <1>1, <1>2, <1>3 DEF GatewayKept, Inquiring, Underway
<1>7. Counting'
  BY <1>1, <1>2 DEF GatewayKept, Counting, Underway, Attempted
<1>8. Spacing'
  <2>1. (\A m, n \in 1..Len(sent) : m < n /\ desk.tries[sent[m].try].req = desk.tries[sent[n].try].req =>
          sent[n].at >= sent[m].at + Interval)'
    <3> SUFFICES ASSUME NEW m \in 1..Len(sent), NEW n \in 1..Len(sent), m < n,
                        desk'.tries[sent[m].try].req = desk'.tries[sent[n].try].req
                 PROVE  sent[n].at >= sent[m].at + Interval
      OBVIOUS
    <3>1. desk.tries[sent[m].try].req = desk.tries[sent[n].try].req
      BY <1>5
    <3> QED
      BY <3>1 DEF GatewayKept, Spacing
  <2>2. (Underway => \A m \in 1..Len(sent) : desk.tries[sent[m].try].req = inquiry.req =>
          inquiry.called /\ sent[m].at <= inquiry.last)'
    BY <1>1, <1>5 DEF GatewayKept, Spacing
  <2> QED
    BY <2>1, <2>2 DEF Spacing
<1>9. Knowing'
  <2>1. \A n \in 1..LastTry : n < LastTry \/ n = LastTry
    BY <1>2
  <2>2. \A n \in 1..LastTry : desk'.tries[n].outcome # "known" => n = LastTry
    BY <1>4, <2>1
  <2>3. desk'.result[inquiry.req] \in {"none", "unknown"} /\ LastTry \in 1..LastTry
    BY <1>2, <1>3
  <2> QED
    BY <1>1, <1>3, <2>1, <2>2, <2>3 DEF Knowing, Underway, Attempted
<1>10. Sourced'
  <2>1. Len(sent) \in 1..Len(sent) /\ desk'.tries[sent[Len(sent)].try].req = inquiry.req
    BY <1>2, <1>3, <1>5
  <2>2. ASSUME NEW q \in FinancialRequests, desk'.result[q] = "ok" PROVE \E m \in 1..Len(sent) : desk'.tries[sent[m].try].req = q
    <3>1. desk.result[q] = "ok"
      BY <1>3, <2>2
    <3> QED
      BY <3>1, <1>5 DEF GatewayKept, Sourced
  <2> QED
    BY <1>1, <2>1, <2>2 DEF Sourced, Attempted
<1> QED
  BY <1>6, <1>7, <1>8, <1>9, <1>10 DEF GatewayKept

\* The attempts of the desk with another last row of the same request.
LEMMA LastRowTyped ==
  ASSUME GatewayKept, inquiry.st = "calling", NEW row \in Tries, row.req = desk.tries[LastTry].req,
         NEW tries, tries = [desk.tries EXCEPT ![LastTry] = row]
  PROVE  /\ tries \in Seq(Tries) /\ Len(tries) = LastTry
         /\ \A n \in 1..LastTry : tries[n].req = desk.tries[n].req
         /\ \A n \in 1..LastTry : n < LastTry => tries[n] = desk.tries[n]
         /\ tries[LastTry] = row
<1>1. /\ LastTry \in Nat /\ desk.tries \in Seq(Tries) /\ desk.tries \in [1..LastTry -> Tries] /\ DOMAIN desk.tries = 1..LastTry
  BY GatewayRows DEF GatewayKept, GatewayTyped, Desks
<1>2. LastTry \in 1..LastTry
  BY <1>1 DEF GatewayKept, Counting, Attempted
<1>4. tries \in [1..LastTry -> Tries] /\ tries[LastTry] = row /\ \A n \in 1..LastTry : n # LastTry => tries[n] = desk.tries[n]
  BY <1>1, <1>2
<1>5. tries \in Seq(Tries) /\ Len(tries) = LastTry
  BY <1>1, <1>4, FunctionAsSequence DEF LastTry
<1>6. \A n \in 1..LastTry : tries[n].req = desk.tries[n].req
  BY <1>4
<1>7. \A n \in 1..LastTry : n < LastTry => tries[n] = desk.tries[n]
  BY <1>1, <1>4
<1> QED
  BY <1>4, <1>5, <1>6, <1>7

\* The row of the last attempt, with the outcome that is recorded.
LEMMA OutcomeIsTyped ==
  ASSUME GatewayKept, inquiry.st = "calling", NEW outcome \in Outcomes, NEW retry \in Nat, OutcomeIs(outcome, retry)
  PROVE  /\ desk' \in Desks /\ LastTry' = LastTry
         /\ desk'.asked = desk.asked /\ desk'.clock = desk.clock /\ desk'.result = desk.result
         /\ \A n \in 1..LastTry : desk'.tries[n].req = desk.tries[n].req
         /\ \A n \in 1..LastTry : n < LastTry => desk'.tries[n] = desk.tries[n]
         /\ desk'.tries[LastTry].outcome = outcome
<1> DEFINE row == [desk.tries[LastTry] EXCEPT !.outcome = outcome, !.retry = retry]
           tries == [desk.tries EXCEPT ![LastTry] = row]
<1>1. desk \in Desks /\ LastTry \in 1..LastTry /\ desk.tries[LastTry] \in Tries
  <2>1. GatewayTyped /\ LastTry >= 1
    BY DEF GatewayKept, Counting, Attempted
  <2> QED
    BY <2>1, GatewayRows DEF GatewayTyped
<1>2. desk' = [desk EXCEPT !.tries = tries]
  BY <1>1 DEF OutcomeIs, LastTry, Desks
<1>3. row \in Tries /\ row.req = desk.tries[LastTry].req /\ row.outcome = outcome
  BY <1>1 DEF Tries
<1> HIDE DEF row
<1>4. /\ tries \in Seq(Tries) /\ Len(tries) = LastTry
      /\ \A n \in 1..LastTry : tries[n].req = desk.tries[n].req
      /\ \A n \in 1..LastTry : n < LastTry => tries[n] = desk.tries[n]
      /\ tries[LastTry] = row
  BY <1>3, LastRowTyped
<1> HIDE DEF tries
<1>5. desk' \in Desks /\ desk'.tries = tries /\ desk'.asked = desk.asked /\ desk'.clock = desk.clock /\ desk'.result = desk.result
  BY <1>1, <1>2, <1>4 DEF Desks
<1> QED
  BY <1>3, <1>4, <1>5 DEF LastTry

\* Once the call has ended, the inquiry goes on as the adapter's.
LEMMA BackKept ==
  ASSUME GatewayKept, inquiry.st = "calling", sent' = sent,
         NEW terminal \in BOOLEAN, NEW raw \in BOOLEAN, Back(terminal, raw),
         \/ desk' = desk /\ terminal
         \/ \E outcome \in {"known", "unknown"}, retry \in Nat : OutcomeIs(outcome, retry) /\ (terminal \/ outcome = "known")
  PROVE  GatewayKept'
<1>1. GatewayTyped /\ desk \in Desks /\ inquiry \in Inquiries /\ LastTry >= 1 /\ Underway /\ inquiry.req \in FinancialRequests
  BY DEF GatewayKept, GatewayTyped, Counting, Attempted, Underway
<1>2. /\ inquiry' \in Inquiries /\ inquiry'.st = "adapter" /\ inquiry'.req = inquiry.req
      /\ inquiry'.called = inquiry.called /\ inquiry'.last = inquiry.last /\ (terminal => inquiry'.terminal)
  <2>1. inquiry' = [inquiry EXCEPT !.st = "adapter", !.terminal = inquiry.terminal \/ terminal, !.raw = inquiry.raw \/ raw]
    BY <1>1 DEF Back, Inquiries
  <2>2. (inquiry.terminal \/ terminal) \in BOOLEAN /\ (inquiry.raw \/ raw) \in BOOLEAN
    OBVIOUS
  <2> QED
    BY <1>1, <2>1, <2>2 DEF Inquiries
<1>3. CASE desk' = desk /\ terminal
  <2>1. GatewayTyped' /\ LastTry' = LastTry
    BY <1>1, <1>2, <1>3 DEF GatewayTyped, LastTry
  <2> QED
    BY <1>2, <1>3, <2>1, CallEndsKept
<1>4. ASSUME NEW outcome \in {"known", "unknown"}, NEW retry \in Nat, OutcomeIs(outcome, retry), terminal \/ outcome = "known"
      PROVE GatewayKept'
  <2>1. /\ desk' \in Desks /\ LastTry' = LastTry
        /\ desk'.asked = desk.asked /\ desk'.clock = desk.clock /\ desk'.result = desk.result
        /\ \A n \in 1..LastTry : desk'.tries[n].req = desk.tries[n].req
        /\ \A n \in 1..LastTry : n < LastTry => desk'.tries[n] = desk.tries[n]
        /\ desk'.tries[LastTry].outcome = outcome
    BY <1>4, OutcomeIsTyped DEF Outcomes
  <2>2. GatewayTyped'
    BY <1>1, <1>2, <2>1 DEF GatewayTyped
  <2> QED
    BY <1>2, <1>4, <2>1, <2>2, CallEndsKept
<1> QED
  BY <1>3, <1>4

\* An answer, or none, is recorded and goes back to the adapter.
LEMMA ReadKept ==
  ASSUME GatewayKept, Accepted \/ Refused \/ NoAnswer
  PROVE  GatewayKept'
<1>1. inquiry.st = "calling" /\ sent' = sent /\ desk.clock \in Nat
  BY GatewayRows DEF Accepted, Refused, NoAnswer, GatewayKept
<1>2. CASE Accepted
  <2>1. OutcomeIs("known", 0) /\ (Back(TRUE, FALSE) \/ \E raw \in BOOLEAN : Back(FALSE, raw))
    BY <1>2 DEF Accepted
  <2> QED
    BY <1>1, <2>1, BackKept
<1>3. CASE Refused
  <2>1. Back(TRUE, FALSE) /\ (desk' = desk \/ \E until \in desk.clock + 1..ScopeEnd : OutcomeIs("known", until))
    BY <1>3 DEF Refused
  <2>2. \A until \in desk.clock + 1..ScopeEnd : until \in Nat
    BY <1>1, GatewayAssumption
  <2>3. CASE desk' = desk
    BY <1>1, <2>1, <2>3, BackKept
  <2>4. CASE \E until \in desk.clock + 1..ScopeEnd : OutcomeIs("known", until)
    <3>1. PICK until \in Nat : OutcomeIs("known", until)
      BY <2>2, <2>4
    <3> QED
      BY <1>1, <2>1, <3>1, BackKept
  <2> QED
    BY <2>1, <2>3, <2>4
<1>4. CASE NoAnswer
  BY <1>1, <1>4, BackKept DEF NoAnswer
<1> QED
  BY <1>2, <1>3, <1>4

\* A call that may be repeated is recorded with the time of the next.
LEMMA TransientKept ==
  ASSUME GatewayKept, Transient
  PROVE  GatewayKept'
<1>1. /\ inquiry.st = "calling" /\ sent' = sent /\ desk.clock \in Nat /\ GatewayTyped /\ inquiry \in Inquiries
      /\ ~inquiry.terminal /\ inquiry.req \in FinancialRequests
  BY GatewayRows DEF Transient, GatewayKept, GatewayTyped, Knowing, Underway
<1>2. CASE MayRetry
  <2>1. OutcomeIs("known", 0) /\ inquiry' = [inquiry EXCEPT !.st = "spacing", !.retry = @ + 1]
    BY <1>2 DEF Transient
  <2>2. /\ inquiry' \in Inquiries /\ inquiry'.st = "spacing" /\ inquiry'.req = inquiry.req
        /\ inquiry'.called = inquiry.called /\ inquiry'.last = inquiry.last /\ ~inquiry'.terminal
    <3>1. inquiry.retry + 1 \in Nat
      BY <1>1 DEF Inquiries
    <3>2. inquiry' \in Inquiries
      BY <1>1, <2>1, <3>1 DEF Inquiries
    <3>3. /\ inquiry'.st = "spacing" /\ inquiry'.req = inquiry.req /\ inquiry'.terminal = inquiry.terminal
          /\ inquiry'.called = inquiry.called /\ inquiry'.last = inquiry.last
      BY <1>1, <2>1 DEF Inquiries
    <3> QED
      BY <1>1, <3>2, <3>3
  <2>3. /\ desk' \in Desks /\ LastTry' = LastTry
        /\ desk'.asked = desk.asked /\ desk'.clock = desk.clock /\ desk'.result = desk.result
        /\ \A n \in 1..LastTry : desk'.tries[n].req = desk.tries[n].req
        /\ \A n \in 1..LastTry : n < LastTry => desk'.tries[n] = desk.tries[n]
        /\ desk'.tries[LastTry].outcome = "known"
    BY <1>1, <2>1, OutcomeIsTyped DEF Outcomes
  <2>4. GatewayTyped'
    BY <1>1, <2>2, <2>3 DEF GatewayTyped
  <2> QED
    BY <1>1, <2>2, <2>3, <2>4, CallEndsKept
<1>3. CASE ~MayRetry
  <2>1. OutcomeIs("known", desk.clock + 1) /\ Back(TRUE, FALSE)
    BY <1>3, Zenon DEF Transient
  <2>2. desk.clock + 1 \in Nat
    BY <1>1
  <2> QED
    BY <1>1, <2>1, <2>2, BackKept
<1> QED
  BY <1>2, <1>3

\* An inquiry that is not at a call ends without an observation.
LEMMA AdapterEndsKept ==
  ASSUME GatewayKept, Underway, inquiry.st # "calling",
         FinishInquiry(IF UnsettledBy(inquiry.req) THEN "unknown" ELSE "failed")
  PROVE  GatewayKept'
<1> DEFINE s == IF UnsettledBy(inquiry.req) THEN "unknown" ELSE "failed"
<1>1. desk \in Desks /\ desk.seen \in Nat
  BY DEF GatewayKept, GatewayTyped, Desks
<1>2. desk' = [desk EXCEPT !.result[inquiry.req] = s] /\ inquiry' = NoInquiry /\ sent' = sent
  BY DEF FinishInquiry
<1>3. desk' = [desk EXCEPT !.result[inquiry.req] = s, !.seen = desk.seen]
  BY <1>1, <1>2 DEF Desks
<1>4. s \in {"ok", "failed", "unknown"} /\ (s # "unknown" => ~UnsettledBy(inquiry.req)) /\ s # "ok"
  OBVIOUS
<1> HIDE DEF s
<1> QED
  BY <1>1, <1>2, <1>3, <1>4, FinishInquiryKept

\* The adapter ends, with an observation or without.
LEMMA ObservedKept ==
  ASSUME GatewayKept, AdapterEnds
  PROVE  GatewayKept'
<1>1. Underway /\ inquiry.st = "adapter" /\ ~Attempted
  BY DEF AdapterEnds, Underway, Attempted
<1>2. ASSUME ~inquiry.terminal, inquiry.raw, NEW whole \in BOOLEAN,
             desk' = [desk EXCEPT !.result[inquiry.req] = "ok", !.seen = IF whole THEN desk.clock ELSE 0],
             inquiry' = NoInquiry, sent' = sent
      PROVE  GatewayKept'
  <2>1. ~UnsettledBy(inquiry.req)
    <3>1. DOMAIN desk.tries = 1..LastTry
      BY GatewayRows DEF GatewayKept
    <3> QED
      BY <1>1, <1>2, <3>1 DEF GatewayKept, Knowing, UnsettledBy
  <2>2. (IF whole THEN desk.clock ELSE 0) \in Nat
    BY GatewayRows DEF GatewayKept
  <2> QED
    BY <1>1, <1>2, <2>1, <2>2, FinishInquiryKept
<1> QED
  BY <1>1, <1>2, AdapterEndsKept DEF AdapterEnds

\* What has no known outcome ends unknown.
LEMMA GiveUpKept ==
  ASSUME GatewayKept, GiveUp
  PROVE  GatewayKept'
<1>1. Underway
  BY DEF GiveUp, Underway
<1>2. CASE inquiry.st # "calling"
  BY <1>1, <1>2, AdapterEndsKept DEF GiveUp
<1>3. CASE inquiry.st = "calling"
  <2> DEFINE row == [desk.tries[LastTry] EXCEPT !.outcome = "unknown"]
             tries == [desk.tries EXCEPT ![LastTry] = row]
  <2>1. desk \in Desks /\ GatewayTyped /\ inquiry.req \in FinancialRequests /\ LastTry \in 1..LastTry /\ desk.tries[LastTry] \in Tries
    <3>1. GatewayTyped /\ LastTry >= 1
      BY <1>3 DEF GatewayKept, Counting, Attempted
    <3> QED
      BY <1>1, <3>1, GatewayRows DEF GatewayTyped
  <2>3. desk' = [desk EXCEPT !.tries[LastTry].outcome = "unknown", !.result[inquiry.req] = "unknown"] /\ inquiry' = NoInquiry /\ sent' = sent
    BY <1>3 DEF GiveUp, LastTry
  <2>4. desk' = [desk EXCEPT !.tries = tries, !.result = [desk.result EXCEPT ![inquiry.req] = "unknown"]]
    BY <2>1, <2>3 DEF Desks
  <2>5. row \in Tries /\ row.req = desk.tries[LastTry].req
    BY <2>1 DEF Tries, Outcomes
  <2> HIDE DEF row
  <2>6. /\ tries \in Seq(Tries) /\ Len(tries) = LastTry
        /\ \A n \in 1..LastTry : tries[n].req = desk.tries[n].req
        /\ \A n \in 1..LastTry : n < LastTry => tries[n] = desk.tries[n]
        /\ tries[LastTry] = row
    BY <1>3, <2>5, LastRowTyped
  <2> HIDE DEF tries
  <2>7. /\ desk' \in Desks /\ desk'.tries = tries /\ desk'.asked = desk.asked /\ desk'.clock = desk.clock
        /\ desk'.result[inquiry.req] = "unknown" /\ \A q \in FinancialRequests \ {inquiry.req} : desk'.result[q] = desk.result[q]
    BY <2>1, <2>4, <2>6 DEF Desks, Results
  <2>8. GatewayTyped' /\ ~Underway' /\ LastTry' = LastTry
    BY <2>1, <2>3, <2>6, <2>7, NoInquiryTyped DEF GatewayTyped, Underway, LastTry
  <2> QED
    BY <1>3, <2>3, <2>6, <2>7, <2>8, CallEndsKept
<1> QED
  BY <1>2, <1>3

\* Every step of the gateway, of the provider and of time.
LEMMA GatewayStep == GatewayKept /\ GatewayNext => GatewayKept'
  BY CollectKept, ExchangeKept, MarkAttemptKept, CallProviderKept, ReadKept, TransientKept, ObservedKept, GiveUpKept, StaysKept
     DEF GatewayNext

\* Only a call sends.
LEMMA GatewaySends == GatewayKept /\ GatewayNext => NotRefunded
<1> SUFFICES ASSUME GatewayKept, GatewayNext, sent' # sent
             PROVE  \A n \in DOMAIN desk.tries : n < Len(desk.tries) => desk.tries[n].outcome = "known" /\ desk.tries[n].retry <= desk.clock
  BY DEF NotRefunded
<1>1. CallProvider
  BY DEF GatewayNext, Collect, Exchange, MarkAttempt, Accepted, Transient, Refused, NoAnswer, AdapterEnds, GiveUp, FinishInquiry,
         RevokeScope, StopGateway, TickGateway
<1> QED
  BY <1>1, CallNotRefunded

-----------------------------------------------------------------------------
(* The custody of a collection.                                            *)

Preparing == {"off", "ready", "told", "checked"}
Using == Exchanging \cup {"live", "idle", "finishing", "closing"}
OnTheWire == {"permitted", "started", "calling"}

Anchors == [approval : {"none", "directory", "prepared"}, late : BOOLEAN, spent : CustodyRuns \cup {Unowned},
            capsule : CustodyRuns \cup {Unowned}, owner : CustodyRuns \cup {Unowned}, ledger : Seq(Entries)]
Children == [st : Steps, attempts : 0..Requests, denied : BOOLEAN]
Supervisors == [st : {"off", "up", "joined", "cleaned", "done", "failed", "dead"}, consumed : BOOLEAN, stopping : BOOLEAN,
                requested : 0..Requests, pending : 0..Requests, reply : {"none", "consume", "permit"}]
Watchdogs == [st : {"off", "watch", "recover", "exited", "dead"}, active : BOOLEAN, ordinal : 0..Requests, pending : 0..Requests]
Messages == {<<"ready", 0>>} \cup ({"wireBegin", "wireSettled"} \X Ordinals)

\* The watchdog is on the request the data process may make.
Guards(c, d) == d.st = "dead" \/ (d.st = "watch" /\ d.active /\ d.pending = c.attempts)

\* Where a data process is, tells what its supervisor has not read or answered,
\* and what the watchdog was told.
Talks(c, s, d, m) ==
    /\ s.st = "off" <=> c.st = "off"
    /\ c.st = "off" => d.st = "off"
    /\ s.st \in {"joined", "cleaned", "done"} => c.st = "gone"
    /\ s.consumed /\ c.st # "gone" => d.active
    /\ c.st \in Preparing \cup Building \cup {"live"} => c.attempts = 0 /\ ~c.denied
    /\ c.st \in Exchanging => c.attempts >= 1
    /\ c.st \in {"asked"} \cup OnTheWire => ~c.denied
    /\ c.st \in {"off", "told", "checked", "live"} \cup Building \cup OnTheWire => m = <<>> /\ s.reply = "none"
    /\ c.st = "ready" => s.reply # "permit" /\ (m = <<>> \/ (m = <<<<"ready", 0>>>> /\ s.reply = "none"))
    /\ c.st \in {"idle", "settling"} /\ ~c.denied => s.reply = "none"
    /\ c.st = "settling" /\ ~c.denied => m = <<>>
    /\ c.st = "idle" /\ ~c.denied => m = <<>> \/ \E k \in Ordinals : m = <<<<"wireSettled", k>>>>
    /\ c.st = "asked" =>
          /\ s.reply # "consume"
          /\ \/ m = <<>>
             \/ s.reply = "none" /\ m = <<<<"wireBegin", c.attempts>>>>
             \/ s.reply = "none" /\ \E k \in Ordinals : m = <<<<"wireSettled", k>>, <<"wireBegin", c.attempts>>>>
    /\ c.st \in OnTheWire \/ (c.st = "asked" /\ s.reply = "permit") => Guards(c, d)

OnLedger(a, type, n) == Contains(a.ledger, <<type, n>>)
ConsumedAt(a) == {e \in DOMAIN a.ledger : a.ledger[e][1] = "consumed"}

\* What a data process that spent the approval has on disk and on the ledger.
Holding(r, c, s, a) ==
    /\ c.st \in Building \cup Using => a.spent = r
    /\ a.spent = r => c.st \notin Preparing
    /\ c.st \in {"made", "owned"} \cup Using => a.capsule = r
    /\ s.st \in {"cleaned", "done"} => a.capsule # r
    /\ c.st \in Building => ConsumedAt(a) = {}
    /\ c.st = "idle" /\ c.attempts >= 1 => OnLedger(a, "received", c.attempts)
    /\ c.st \in Exchanging => OnLedger(a, "reserved", c.attempts) /\ (c.attempts > 1 => OnLedger(a, "received", c.attempts - 1))
    /\ c.st = "started" => OnLedger(a, "wire_started", c.attempts)

Ledgered(a, C) ==
    /\ \A e, f \in ConsumedAt(a) : e = f
    /\ a.spent = Unowned => ConsumedAt(a) = {}
    /\ \A c \in C : /\ c[1] = a.spent
                    /\ OnLedger(a, "reserved", c[2]) /\ OnLedger(a, "wire_started", c[2])
                    /\ c[2] > 1 => OnLedger(a, "received", c[2] - 1)

CustodyTyped ==
    /\ anchor \in Anchors /\ calls \in SUBSET (CustodyRuns \X Ordinals)
    /\ child \in [CustodyRuns -> Children] /\ sup \in [CustodyRuns -> Supervisors] /\ dog \in [CustodyRuns -> Watchdogs]
    /\ mail \in [CustodyRuns -> Seq(Messages)]

CustodyKept ==
    /\ CustodyTyped
    /\ \A r \in CustodyRuns : Talks(child[r], sup[r], dog[r], mail[r]) /\ Holding(r, child[r], sup[r], anchor)
    /\ Ledgered(anchor, calls)

\* The invariant holds what is said of calls, of their guard and of what is left.
LEMMA CustodyMeans == CustodyKept => CallsAccounted /\ CallsGuarded /\ NothingLeft
<1> SUFFICES ASSUME CustodyKept PROVE CallsAccounted /\ CallsGuarded /\ NothingLeft
  OBVIOUS
<1>1. Cardinality(ConsumedAt(anchor)) <= 1
  <2>1. CASE ConsumedAt(anchor) = {}
    BY <2>1, FS_EmptySet
  <2>2. CASE ConsumedAt(anchor) # {}
    <3>1. PICK x \in ConsumedAt(anchor) : TRUE
      BY <2>2
    <3>2. ConsumedAt(anchor) = {x}
      BY <3>1 DEF CustodyKept, Ledgered
    <3>3. Cardinality({x}) = 1
      BY FS_Singleton
    <3> QED
      BY <3>2, <3>3
  <2> QED
    BY <2>1, <2>2
<1>2. CallsAccounted
  BY <1>1 DEF CallsAccounted, CustodyKept, Ledgered, ConsumedAt, OnLedger, Holds
<1>3. CallsGuarded
  BY DEF CallsGuarded, CustodyKept, Talks, OnTheWire, Guards
<1>4. NothingLeft
  BY DEF NothingLeft, CustodyKept, Talks, Holding, Using, ChildAt
<1> QED
  BY <1>2, <1>3, <1>4

\* Nothing was prepared yet.
LEMMA CustodyInitKept == CustodyInit => CustodyKept
<1> SUFFICES ASSUME CustodyInit PROVE CustodyKept
  OBVIOUS
<1>1. 0 \in 0..Requests /\ <<>> \in Seq(Entries) /\ <<>> \in Seq(Messages) /\ Unowned \notin CustodyRuns
  BY CustodyAssumption DEF Unowned
<1>2. CustodyTyped
  BY <1>1 DEF CustodyInit, CustodyTyped, Anchors, Children, Supervisors, Watchdogs, Steps
<1>3. ASSUME NEW r \in CustodyRuns PROVE Talks(child[r], sup[r], dog[r], mail[r])
  BY <1>1 DEF CustodyInit, Talks, Preparing, Building, Exchanging, OnTheWire
<1>4. ConsumedAt(anchor) = {}
  BY DEF CustodyInit, ConsumedAt
<1>5. ASSUME NEW r \in CustodyRuns PROVE Holding(r, child[r], sup[r], anchor)
  BY <1>1 DEF CustodyInit, Holding, Preparing, Building, Exchanging, Using
<1>6. Ledgered(anchor, calls)
  BY <1>4 DEF CustodyInit, Ledgered
<1> QED
  BY <1>2, <1>3, <1>5, <1>6 DEF CustodyKept

\* A step of one run, which may have spent the approval, or a recovery.
LEMMA RunStepKept ==
  ASSUME CustodyKept, NEW r \in CustodyRuns,
         NEW c \in Children, child' = [child EXCEPT ![r] = c],
         NEW s \in Supervisors, sup' = [sup EXCEPT ![r] = s],
         NEW d \in Watchdogs, dog' = [dog EXCEPT ![r] = d],
         NEW m \in Seq(Messages), mail' = [mail EXCEPT ![r] = m],
         anchor' \in Anchors, calls' \in SUBSET (CustodyRuns \X Ordinals),
         Talks(c, s, d, m), Holding(r, c, s, anchor'), Ledgered(anchor', calls'),
         \/ anchor' = anchor
         \/ anchor.spent \in {r, Unowned} /\ anchor'.spent \in {r, Unowned} /\ anchor'.capsule \in {anchor.capsule, Unowned, r}
         \/ MayRecover /\ anchor' = CapsuleGone
  PROVE  CustodyKept'
<1>1. CustodyTyped'
  BY DEF CustodyKept, CustodyTyped
<1>2. ASSUME NEW q \in CustodyRuns PROVE Talks(child'[q], sup'[q], dog'[q], mail'[q])
  BY DEF CustodyKept, CustodyTyped
<1>3. ASSUME NEW q \in CustodyRuns PROVE Holding(q, child'[q], sup'[q], anchor')
  <2>1. CASE q = r
    BY <2>1 DEF CustodyKept, CustodyTyped
  <2>2. CASE q # r
    <3>1. child'[q] = child[q] /\ sup'[q] = sup[q] /\ Holding(q, child[q], sup[q], anchor) /\ q # Unowned
      BY <2>2, CustodyAssumption DEF CustodyKept, CustodyTyped, Unowned
    <3>2. CASE anchor' = anchor
      BY <3>1, <3>2
    <3>3. CASE anchor.spent \in {r, Unowned} /\ anchor'.spent \in {r, Unowned} /\ anchor'.capsule \in {anchor.capsule, Unowned, r}
      <4>1. child[q].st \notin Building \cup Using
        BY <2>2, <3>1, <3>3 DEF Holding
      <4> QED
        BY <2>2, <3>1, <3>3, <4>1 DEF Holding, Building, Using, Exchanging
    <3>4. CASE MayRecover /\ anchor' = CapsuleGone
      <4>1. /\ anchor'.spent = anchor.spent /\ anchor'.capsule = Unowned /\ anchor'.ledger = anchor.ledger
        BY <3>4 DEF CapsuleGone, CustodyKept, CustodyTyped, Anchors
      <4>2. child[q].st \notin {"made", "owned"} \cup Using
        BY <3>1, <3>4 DEF Holding, MayRecover, Building, Using, Exchanging
      <4> QED
        BY <3>1, <4>1, <4>2 DEF Holding, ConsumedAt, OnLedger
    <3> QED
      BY <3>2, <3>3, <3>4
  <2> QED
    BY <2>1, <2>2
<1> QED
  BY <1>1, <1>2, <1>3 DEF CustodyKept

\* What the ledger says after a record.
LEMMA RecordedMeans ==
  ASSUME NEW a \in Anchors, NEW type, NEW n, <<type, n>> \in Entries,
         NEW b, b = [a EXCEPT !.ledger = Append(@, <<type, n>>)]
  PROVE  /\ b \in Anchors
         /\ b.spent = a.spent /\ b.capsule = a.capsule /\ b.owner = a.owner /\ b.late = a.late /\ b.approval = a.approval
         /\ OnLedger(b, type, n)
         /\ \A t, k : OnLedger(a, t, k) => OnLedger(b, t, k)
         /\ type # "consumed" => ConsumedAt(b) = ConsumedAt(a)
         /\ ConsumedAt(a) = {} => \A e, f \in ConsumedAt(b) : e = f
<1> DEFINE N == Len(a.ledger)
<1>1. a.ledger \in Seq(Entries) /\ N \in Nat /\ DOMAIN a.ledger = 1..N
  BY SequenceAsFunction DEF Anchors
<1>2. b = [a EXCEPT !.ledger = Append(a.ledger, <<type, n>>)]
  OBVIOUS
<1>3. /\ Append(a.ledger, <<type, n>>) \in Seq(Entries) /\ Len(Append(a.ledger, <<type, n>>)) = N + 1
      /\ \A i \in 1..N : Append(a.ledger, <<type, n>>)[i] = a.ledger[i]
      /\ Append(a.ledger, <<type, n>>)[N + 1] = <<type, n>>
  BY <1>1, AppendProperties
<1>4. b \in Anchors /\ b.ledger = Append(a.ledger, <<type, n>>)
  BY <1>2, <1>3 DEF Anchors
<1>5. b.spent = a.spent /\ b.capsule = a.capsule /\ b.owner = a.owner /\ b.late = a.late /\ b.approval = a.approval
  BY <1>2 DEF Anchors
<1>6. DOMAIN b.ledger = 1..(N + 1) /\ Len(b.ledger) = N + 1
  BY <1>3, <1>4, SequenceAsFunction
<1>7. /\ \A i \in 1..N : i \in 1..(N + 1) /\ b.ledger[i] = a.ledger[i]
      /\ N + 1 \in 1..(N + 1) /\ b.ledger[N + 1] = <<type, n>>
      /\ \A i \in 1..(N + 1) : i \in 1..N \/ i = N + 1
  BY <1>1, <1>3, <1>4
<1>8. OnLedger(b, type, n)
  BY <1>6, <1>7 DEF OnLedger, Contains
<1>9. ASSUME NEW t, NEW k, OnLedger(a, t, k) PROVE OnLedger(b, t, k)
  BY <1>6, <1>7, <1>9 DEF OnLedger, Contains
<1>10. type # "consumed" => ConsumedAt(b) = ConsumedAt(a)
  <2> SUFFICES ASSUME type # "consumed" PROVE \A e : e \in ConsumedAt(b) <=> e \in ConsumedAt(a)
    OBVIOUS
  <2>1. <<type, n>>[1] # "consumed"
    OBVIOUS
  <2> QED
    BY <1>1, <1>6, <1>7, <2>1 DEF ConsumedAt
<1>11. ConsumedAt(a) = {} => \A e \in ConsumedAt(b) : e = N + 1
  BY <1>1, <1>6, <1>7 DEF ConsumedAt
<1> QED
  BY <1>4, <1>5, <1>8, <1>9, <1>10, <1>11

\* An anchor that differs from a in what the ledger has, keeps what the calls say.
LEMMA LedgeredKept ==
  ASSUME NEW a, NEW b, NEW C, Ledgered(a, C), b.spent = a.spent \/ (C = {} /\ ConsumedAt(b) = {}),
         \A t, k : OnLedger(a, t, k) => OnLedger(b, t, k),
         ConsumedAt(b) = ConsumedAt(a) \/ (b.spent # Unowned /\ \A e, f \in ConsumedAt(b) : e = f)
  PROVE  Ledgered(b, C)
  BY DEF Ledgered

\* A ledger that is the same says the same.
LEMMA SameLedger ==
  ASSUME NEW a, NEW b, b.ledger = a.ledger
  PROVE  ConsumedAt(b) = ConsumedAt(a) /\ \A t, k : OnLedger(b, t, k) <=> OnLedger(a, t, k)
  BY DEF ConsumedAt, OnLedger

\* What is unchanged in every step of one run.
LEMMA RunRow ==
  ASSUME CustodyKept, NEW r \in CustodyRuns
  PROVE  /\ child[r] \in Children /\ sup[r] \in Supervisors /\ dog[r] \in Watchdogs /\ mail[r] \in Seq(Messages)
         /\ child \in [CustodyRuns -> Children] /\ sup \in [CustodyRuns -> Supervisors] /\ dog \in [CustodyRuns -> Watchdogs]
         /\ mail \in [CustodyRuns -> Seq(Messages)]
         /\ child = [child EXCEPT ![r] = child[r]] /\ sup = [sup EXCEPT ![r] = sup[r]]
         /\ dog = [dog EXCEPT ![r] = dog[r]] /\ mail = [mail EXCEPT ![r] = mail[r]]
         /\ anchor \in Anchors /\ calls \in SUBSET (CustodyRuns \X Ordinals)
         /\ Talks(child[r], sup[r], dog[r], mail[r]) /\ Holding(r, child[r], sup[r], anchor) /\ Ledgered(anchor, calls)
         /\ r # Unowned
  BY CustodyAssumption DEF CustodyKept, CustodyTyped, Unowned

\* A child that goes elsewhere.
LEMMA GoRow ==
  ASSUME CustodyKept, NEW r \in CustodyRuns, NEW step \in Steps, Go(r, step)
  PROVE  LET c == [child[r] EXCEPT !.st = step] IN
         /\ c \in Children /\ child' = [child EXCEPT ![r] = c]
         /\ c.st = step /\ c.attempts = child[r].attempts /\ c.denied = child[r].denied
<1>1. child[r] \in Children /\ child \in [CustodyRuns -> Children]
  BY RunRow
<1> QED
  BY <1>1 DEF Go, Children

\* A data process that is gone says nothing more, and needs nothing.
LEMMA GoneTalks ==
  ASSUME NEW c, NEW s, NEW d, NEW m, c.st = "gone", s.st # "off"
  PROVE  Talks(c, s, d, m)
  BY DEF Talks, Preparing, Building, Exchanging, OnTheWire

\* A data process that is gone needs nothing on disk.
LEMMA GoneHolds ==
  ASSUME NEW r, NEW c, NEW s, NEW a, c.st = "gone", s.st \in {"cleaned", "done"} => a.capsule # r
  PROVE  Holding(r, c, s, a)
  BY DEF Holding, Preparing, Building, Exchanging, Using

\* The owner prepares, waits or cleans up.
LEMMA OwnerStepsKept ==
  ASSUME CustodyKept, PrepareApproval \/ Expire \/ OwnerCleans
  PROVE  CustodyKept'
<1>1. /\ anchor' \in Anchors /\ anchor'.spent = anchor.spent /\ anchor'.ledger = anchor.ledger
      /\ anchor'.capsule = anchor.capsule \/ (MayRecover /\ anchor'.capsule = Unowned)
      /\ UNCHANGED <<child, sup, dog, mail, calls>>
  <2>1. anchor \in Anchors
    BY DEF CustodyKept, CustodyTyped
  <2>2. CASE PrepareApproval
    BY <2>1, <2>2 DEF PrepareApproval, Anchors
  <2>3. CASE Expire
    BY <2>1, <2>3 DEF Expire, Anchors
  <2>4. CASE OwnerCleans
    BY <2>1, <2>4 DEF OwnerCleans, Recover, CapsuleGone, Anchors
  <2> QED
    BY <2>2, <2>3, <2>4
<1>2. CustodyTyped'
  BY <1>1 DEF CustodyKept, CustodyTyped
<1>3. ConsumedAt(anchor') = ConsumedAt(anchor) /\ \A t, k : OnLedger(anchor', t, k) <=> OnLedger(anchor, t, k)
  BY <1>1, SameLedger
<1>4. ASSUME NEW r \in CustodyRuns PROVE Holding(r, child[r], sup[r], anchor')
  <2>1. Holding(r, child[r], sup[r], anchor) /\ r # Unowned
    BY RunRow
  <2>2. MayRecover => child[r].st \notin {"made", "owned"} \cup Using
    BY <2>1 DEF Holding, MayRecover, Building, Using, Exchanging
  <2> QED
    BY <1>1, <1>3, <2>1, <2>2 DEF Holding
<1>5. Ledgered(anchor', calls)
  BY <1>1, <1>3 DEF CustodyKept, Ledgered
<1> QED
  BY <1>1, <1>2, <1>4, <1>5 DEF CustodyKept

\* A step of the data process that leaves the directory alone.
LEMMA ChildStepKept ==
  ASSUME CustodyKept, NEW r \in CustodyRuns, NEW c \in Children, child' = [child EXCEPT ![r] = c],
         UNCHANGED <<anchor, sup, dog, mail, calls>>,
         Talks(c, sup[r], dog[r], mail[r]), Holding(r, c, sup[r], anchor)
  PROVE  CustodyKept'
  BY RunRow, RunStepKept

\* The approval is read before it is spent.
LEMMA CheckApprovalKept ==
  ASSUME CustodyKept, NEW r \in CustodyRuns, CheckApproval(r)
  PROVE  CustodyKept'
<1>1. PICK step \in {"checked", "gone"} : Go(r, step) /\ (step = "checked" => anchor.spent = Unowned)
  BY DEF CheckApproval
<1>2. child[r].st = "told" /\ UNCHANGED <<anchor, sup, dog, mail, calls>>
  BY DEF CheckApproval, ChildAt
<1> DEFINE c == [child[r] EXCEPT !.st = step]
<1>3. /\ c \in Children /\ child' = [child EXCEPT ![r] = c] /\ c.st = step /\ c.attempts = child[r].attempts /\ c.denied = child[r].denied
  BY <1>1, GoRow DEF Steps
<1> HIDE DEF c
<1>4. Talks(child[r], sup[r], dog[r], mail[r]) /\ Holding(r, child[r], sup[r], anchor) /\ r # Unowned
  BY RunRow
<1>5. Talks(c, sup[r], dog[r], mail[r])
  BY <1>1, <1>2, <1>3, <1>4 DEF Talks, Preparing, Building, Exchanging, OnTheWire
<1>6. Holding(r, c, sup[r], anchor)
  BY <1>1, <1>2, <1>3, <1>4 DEF Holding, Preparing, Building, Exchanging, Using
<1> QED
  BY <1>2, <1>3, <1>5, <1>6, ChildStepKept

\* A data process that goes leaves all else as it was.
LEMMA ChildGoneKept ==
  ASSUME CustodyKept, NEW r \in CustodyRuns, child[r].st # "off", Go(r, "gone"), UNCHANGED <<anchor, sup, dog, mail, calls>>
  PROVE  CustodyKept'
<1> DEFINE c == [child[r] EXCEPT !.st = "gone"]
<1>1. /\ c \in Children /\ child' = [child EXCEPT ![r] = c] /\ c.st = "gone"
  BY GoRow DEF Steps
<1> HIDE DEF c
<1>2. Talks(child[r], sup[r], dog[r], mail[r]) /\ Holding(r, child[r], sup[r], anchor)
  BY RunRow
<1>3. Talks(c, sup[r], dog[r], mail[r])
  BY <1>1, <1>2, GoneTalks DEF Talks
<1>4. Holding(r, c, sup[r], anchor)
  <2>1. sup[r].st \in {"cleaned", "done"} => anchor.capsule # r
    BY <1>2 DEF Holding
  <2> QED
    BY <1>1, <2>1, GoneHolds
<1> QED
  BY <1>1, <1>3, <1>4, ChildStepKept

\* The approval is spent by the run that finds it unspent, and by no other.
LEMMA SpendKept ==
  ASSUME CustodyKept, NEW r \in CustodyRuns, Spend(r)
  PROVE  CustodyKept'
<1>1. child[r].st = "checked" /\ UNCHANGED <<sup, dog, mail, calls>>
  BY DEF Spend, ChildAt
<1>2. CASE anchor.spent # Unowned
  <2>1. UNCHANGED anchor /\ Go(r, "gone")
    BY <1>2 DEF Spend
  <2> QED
    BY <1>1, <2>1, ChildGoneKept
<1>3. CASE anchor.spent = Unowned
  <2> DEFINE c == [child[r] EXCEPT !.st = "spent"]
  <2>1. anchor' = [anchor EXCEPT !.spent = r] /\ Go(r, "spent")
    BY <1>3 DEF Spend
  <2>2. /\ c \in Children /\ child' = [child EXCEPT ![r] = c] /\ c.st = "spent" /\ c.attempts = child[r].attempts /\ c.denied = child[r].denied
    BY <2>1, GoRow DEF Steps, Building
  <2> HIDE DEF c
  <2>3. Talks(child[r], sup[r], dog[r], mail[r]) /\ Holding(r, child[r], sup[r], anchor) /\ Ledgered(anchor, calls) /\ anchor \in Anchors
    BY RunRow
  <2>4. anchor' \in Anchors /\ anchor'.spent = r /\ anchor'.capsule = anchor.capsule /\ anchor'.ledger = anchor.ledger
    BY <2>1, <2>3 DEF Anchors
  <2>5. ConsumedAt(anchor') = {} /\ \A t, k : OnLedger(anchor', t, k) <=> OnLedger(anchor, t, k)
    BY <1>3, <2>3, <2>4, SameLedger DEF Ledgered
  <2>6. calls = {}
    BY <1>3, <2>3, RunRow, CustodyAssumption DEF Ledgered, Unowned
  <2>7. Ledgered(anchor', calls')
    BY <1>1, <2>5, <2>6 DEF Ledgered
  <2>8. Talks(c, sup[r], dog[r], mail[r])
    BY <1>1, <2>2, <2>3 DEF Talks, Preparing, Building, Exchanging, OnTheWire
  <2>9. Holding(r, c, sup[r], anchor')
    BY <1>1, <2>2, <2>3, <2>4, <2>5 DEF Holding, Preparing, Building, Exchanging, Using
  <2> QED
    BY <1>1, <1>3, <2>2, <2>4, <2>7, <2>8, <2>9, RunRow, RunStepKept
<1> QED
  BY <1>2, <1>3

\* A record of the data process that spent the approval.
LEMMA RecordStep ==
  ASSUME CustodyKept, NEW r \in CustodyRuns, child[r].st \in Using,
         NEW type \in {"logical", "reserved", "wire_started", "received"}, NEW n, <<type, n>> \in Entries, Unsure(type, n)
  PROVE  /\ anchor' \in Anchors /\ anchor'.spent = r /\ anchor.spent = r /\ anchor'.capsule = r /\ anchor.capsule = r
         /\ \A t, k : OnLedger(anchor, t, k) => OnLedger(anchor', t, k)
         /\ Recorded(type, n) => OnLedger(anchor', type, n)
         /\ Ledgered(anchor', calls)
         /\ ConsumedAt(anchor') = ConsumedAt(anchor)
<1>1. anchor \in Anchors /\ Holding(r, child[r], sup[r], anchor) /\ Ledgered(anchor, calls) /\ r # Unowned
  BY RunRow
<1>2. anchor.spent = r /\ anchor.capsule = r
  BY <1>1 DEF Holding
<1>3. CASE UNCHANGED anchor /\ ~Recorded(type, n)
  BY <1>1, <1>2, <1>3
<1>4. CASE Recorded(type, n)
  <2>1. anchor' = [anchor EXCEPT !.ledger = Append(@, <<type, n>>)]
    BY <1>4 DEF Recorded
  <2>2. /\ anchor' \in Anchors /\ anchor'.spent = anchor.spent /\ anchor'.capsule = anchor.capsule
        /\ OnLedger(anchor', type, n)
        /\ \A t, k : OnLedger(anchor, t, k) => OnLedger(anchor', t, k)
        /\ ConsumedAt(anchor') = ConsumedAt(anchor)
    BY <1>1, <2>1, RecordedMeans
  <2> QED
    BY <1>1, <1>2, <2>2, LedgeredKept
<1> QED
  BY <1>3, <1>4 DEF Unsure

\* The capsule, its owner and the first record are made in this order.
LEMMA BuildKept ==
  ASSUME CustodyKept, NEW r \in CustodyRuns, Build(r)
  PROVE  CustodyKept'
<1>1. UNCHANGED <<sup, dog, mail, calls>>
  BY DEF Build
<1>2. /\ Talks(child[r], sup[r], dog[r], mail[r]) /\ Holding(r, child[r], sup[r], anchor) /\ Ledgered(anchor, calls)
      /\ anchor \in Anchors /\ r # Unowned
  BY RunRow
<1>3. ASSUME NEW step \in {"made", "owned", "gone", "live"}, Go(r, step), child[r].st \in Building,
             anchor' \in Anchors, anchor'.spent = anchor.spent, anchor'.capsule = r,
             anchor.capsule = r \/ (child[r].st = "spent" /\ step # "gone"),
             step \in Building => ConsumedAt(anchor') = {},
             Ledgered(anchor', calls)
      PROVE  CustodyKept'
  <2> DEFINE c == [child[r] EXCEPT !.st = step]
  <2>1. /\ c \in Children /\ child' = [child EXCEPT ![r] = c] /\ c.st = step /\ c.attempts = child[r].attempts /\ c.denied = child[r].denied
    BY <1>3, GoRow DEF Steps, Building
  <2> HIDE DEF c
  <2>2. anchor.spent = r /\ sup[r].st \notin {"cleaned", "done"} /\ child[r].attempts = 0
    BY <1>2, <1>3 DEF Holding, Talks, Building
  <2>3. Talks(c, sup[r], dog[r], mail[r])
    BY <1>2, <1>3, <2>1, <2>2 DEF Talks, Preparing, Building, Exchanging, OnTheWire
  <2>4. Holding(r, c, sup[r], anchor')
    BY <1>2, <1>3, <2>1, <2>2 DEF Holding, Preparing, Building, Exchanging, Using
  <2> QED
    BY <1>1, <1>3, <2>1, <2>2, <2>3, <2>4, RunRow, RunStepKept
<1>4. child[r].st \in Building => ConsumedAt(anchor) = {} /\ anchor.spent = r
  BY <1>2 DEF Holding
<1>5. CASE ChildAt(r, "spent") /\ anchor.capsule = Unowned /\ anchor' = [anchor EXCEPT !.capsule = r] /\ Go(r, "made")
  <2>1. /\ anchor' \in Anchors /\ anchor'.spent = anchor.spent /\ anchor'.capsule = r /\ anchor'.ledger = anchor.ledger
        /\ child[r].st = "spent" /\ child[r].st \in Building
    BY <1>2, <1>5 DEF Anchors, ChildAt, Building
  <2>2. ConsumedAt(anchor') = {} /\ \A t, k : OnLedger(anchor', t, k) <=> OnLedger(anchor, t, k)
    BY <1>4, <2>1, SameLedger
  <2>3. Ledgered(anchor', calls)
    BY <1>2, <2>1, <2>2 DEF Ledgered
  <2> QED
    BY <1>3, <1>5, <2>1, <2>2, <2>3
<1>6. CASE ChildAt(r, "made") /\ anchor' = [anchor EXCEPT !.owner = r] /\ Go(r, "owned")
  <2>1. /\ anchor' \in Anchors /\ anchor'.spent = anchor.spent /\ anchor'.capsule = anchor.capsule /\ anchor'.ledger = anchor.ledger
        /\ child[r].st = "made" /\ child[r].st \in Building
    BY <1>2, <1>6 DEF Anchors, ChildAt, Building
  <2>2. ConsumedAt(anchor') = {} /\ \A t, k : OnLedger(anchor', t, k) <=> OnLedger(anchor, t, k)
    BY <1>4, <2>1, SameLedger
  <2>3. Ledgered(anchor', calls) /\ anchor.capsule = r
    BY <1>2, <2>1, <2>2 DEF Ledgered, Holding
  <2> QED
    BY <1>3, <1>6, <2>1, <2>2, <2>3
<1>7. CASE ChildAt(r, "owned") /\ Recorded("consumed", 0) /\ Go(r, IF anchor.late THEN "gone" ELSE "live")
  <2>1. child[r].st = "owned" /\ child[r].st \in Building
    BY <1>7 DEF ChildAt, Building
  <2>2. <<"consumed", 0>> \in Entries /\ anchor' = [anchor EXCEPT !.ledger = Append(@, <<"consumed", 0>>)]
    BY <1>7 DEF Recorded, Entries
  <2>3. /\ anchor' \in Anchors /\ anchor'.spent = anchor.spent /\ anchor'.capsule = anchor.capsule
        /\ \A t, k : OnLedger(anchor, t, k) => OnLedger(anchor', t, k)
        /\ \A e, f \in ConsumedAt(anchor') : e = f
    <3>1. ConsumedAt(anchor) = {} => \A e, f \in ConsumedAt(anchor') : e = f
      BY <1>2, <2>2, RecordedMeans
    <3>2. /\ anchor' \in Anchors /\ anchor'.spent = anchor.spent /\ anchor'.capsule = anchor.capsule
          /\ \A t, k : OnLedger(anchor, t, k) => OnLedger(anchor', t, k)
      BY <1>2, <2>2, RecordedMeans
    <3> QED
      BY <1>4, <2>1, <3>1, <3>2
  <2>4. Ledgered(anchor', calls) /\ anchor.capsule = r
    BY <1>2, <1>4, <2>1, <2>3, LedgeredKept DEF Holding
  <2>5. PICK step \in {"gone", "live"} : Go(r, step)
    BY <1>7
  <2> QED
    BY <1>3, <2>1, <2>3, <2>4, <2>5 DEF Building
<1> QED
  BY <1>5, <1>6, <1>7 DEF Build

\* A data process goes with its capsule, or leaves it for the recovery.
LEMMA BuildFailsKept ==
  ASSUME CustodyKept, NEW r \in CustodyRuns, BuildFails(r) \/ Destroy(r)
  PROVE  CustodyKept'
<1> DEFINE c == [child[r] EXCEPT !.st = "gone"]
<1>1. UNCHANGED <<sup, dog, mail, calls>> /\ Go(r, "gone") /\ child[r].st \in Building \cup Using
  BY DEF BuildFails, Destroy, ChildAt, Using
<1>2. /\ c \in Children /\ child' = [child EXCEPT ![r] = c] /\ c.st = "gone"
  BY <1>1, GoRow DEF Steps
<1> HIDE DEF c
<1>3. /\ Talks(child[r], sup[r], dog[r], mail[r]) /\ Holding(r, child[r], sup[r], anchor) /\ Ledgered(anchor, calls)
      /\ anchor \in Anchors /\ r # Unowned
  BY RunRow
<1>4. /\ anchor' \in Anchors /\ anchor'.spent = anchor.spent /\ anchor'.ledger = anchor.ledger
      /\ anchor'.capsule \in {anchor.capsule, Unowned}
  <2>1. CASE BuildFails(r)
    BY <1>3, <2>1 DEF BuildFails, Anchors
  <2>2. CASE Destroy(r)
    BY <1>3, <2>2 DEF Destroy, Emptied, Anchors
  <2> QED
    BY <2>1, <2>2
<1>5. anchor.spent = r /\ sup[r].st # "off" /\ sup[r].st \notin {"cleaned", "done"}
  BY <1>1, <1>3 DEF Holding, Talks, Building, Using, Exchanging
<1>6. Talks(c, sup[r], dog[r], mail[r]) /\ Holding(r, c, sup[r], anchor')
  BY <1>2, <1>5, GoneTalks, GoneHolds
<1>7. Ledgered(anchor', calls)
  BY <1>3, <1>4, SameLedger DEF Ledgered
<1> QED
  BY <1>1, <1>2, <1>4, <1>5, <1>6, <1>7, RunRow, RunStepKept

\* A data process dies.
LEMMA ChildDiesKept ==
  ASSUME CustodyKept, NEW r \in CustodyRuns, ChildDies(r)
  PROVE  CustodyKept'
  BY ChildGoneKept DEF ChildDies

\* A step of a data process that holds the capsule, with a record and a message or without.
LEMMA UsingStepKept ==
  ASSUME CustodyKept, NEW r \in CustodyRuns, child[r].st \in Using,
         NEW c \in Children, child' = [child EXCEPT ![r] = c], c.st \in Using,
         NEW m \in Seq(Messages), mail' = [mail EXCEPT ![r] = m], UNCHANGED <<sup, dog>>,
         anchor' \in Anchors, anchor'.spent = r, anchor.spent = r, anchor'.capsule = r, anchor.capsule = r,
         calls' \in SUBSET (CustodyRuns \X Ordinals), Ledgered(anchor', calls'),
         Talks(c, sup[r], dog[r], m),
         c.st = "idle" /\ c.attempts >= 1 => OnLedger(anchor', "received", c.attempts),
         c.st \in Exchanging => OnLedger(anchor', "reserved", c.attempts) /\ (c.attempts > 1 => OnLedger(anchor', "received", c.attempts - 1)),
         c.st = "started" => OnLedger(anchor', "wire_started", c.attempts)
  PROVE  CustodyKept'
<1>1. Talks(child[r], sup[r], dog[r], mail[r]) /\ Holding(r, child[r], sup[r], anchor) /\ r # Unowned
  BY RunRow
<1>2. sup[r].st \notin {"cleaned", "done"}
  BY <1>1 DEF Talks, Using, Exchanging
<1>3. Holding(r, c, sup[r], anchor')
  BY <1>2 DEF Holding, Preparing, Building, Using, Exchanging
<1> QED
  BY <1>1, <1>3, RunRow, RunStepKept

\* An ordinal is a request that may be counted, and may be recorded and told of.
LEMMA OnOrdinals ==
  /\ \A n \in 0..Requests : n \in Nat /\ (n >= 1 => n \in Ordinals)
  /\ \A n \in Ordinals : /\ n \in 0..Requests /\ n >= 1
                         /\ \A t \in {"reserved", "wire_started", "received"} : <<t, n>> \in Entries
                         /\ \A t \in {"wireBegin", "wireSettled"} : <<t, n>> \in Messages
  /\ <<"logical", 0>> \in Entries
<1>1. Requests \in Nat
  BY CustodyAssumption
<1> QED
  BY <1>1 DEF Ordinals, Entries, Messages

\* A message after another.
LEMMA Appended ==
  ASSUME NEW S, NEW e \in S, NEW x \in S 
  PROVE  Append(<<x>>, e) = <<x, e>>
<1>1. <<x>> \in Seq(S) /\ <<x,e>> \in Seq(S) /\ Len(<<x>>) = 1 /\ Len(<<x,e>>) = 2
  OBVIOUS
<1>2. Append(<<x>>, e) \in Seq(S) /\ Len(Append(<<x>>, e)) = 2
  BY <1>1, AppendProperties
<1>3. Append(<<x>>, e)[1] = x /\ Append(<<x>>, e)[2] = e
  BY <1>1, AppendProperties
<1>4. <<x,e>>[1] = x /\ <<x,e>>[2] = e
  OBVIOUS
<1>5. \A i \in 1..2 : Append(<<x>>, e)[i] = <<x, e>>[i]
  <2>1. \A i \in 1..2 : i = 1 \/ i = 2
    OBVIOUS
  <2> QED
    BY <1>3, <1>4, <2>1
<1> DEFINE p == <<x, e>>
           q == Append(<<x>>, e)
<1>6. p \in Seq(S) /\ q \in Seq(S) /\ Len(p) = Len(q) /\ Len(q) = 2 /\ \A i \in 1..2 : q[i] = p[i]
  BY <1>1, <1>2, <1>5
<1> HIDE DEF p, q
<1>7. q = p
  BY <1>6, SeqEqual
<1> QED
  BY <1>7 DEF p, q

\* The data process writes to its supervisor.
LEMMA TellRow ==
  ASSUME CustodyKept, NEW r \in CustodyRuns, NEW type, NEW n, <<type, n>> \in Messages, Tell(r, type, n),
         NEW m, m = Append(mail[r], <<type, n>>)
  PROVE  /\ m \in Seq(Messages) /\ mail' = [mail EXCEPT ![r] = m]
         /\ mail[r] = <<>> => m = <<<<type, n>>>>
<1>1. mail[r] \in Seq(Messages) /\ mail \in [CustodyRuns -> Seq(Messages)]
  BY RunRow
<1>2. mail' = [mail EXCEPT ![r] = m]
  BY <1>1 DEF Tell
<1>3. m \in Seq(Messages)
  BY <1>1, AppendProperties
<1>4. mail[r] = <<>> => m = <<<<type, n>>>>
  OBVIOUS
<1> QED
  BY <1>2, <1>3, <1>4

\* The one logical request is recorded.
LEMMA BeginLogicalKept ==
  ASSUME CustodyKept, NEW r \in CustodyRuns, BeginLogical(r)
  PROVE  CustodyKept'
<1>1. child[r].st = "live" /\ child[r].st \in Using /\ UNCHANGED <<sup, dog, mail, calls>>
  BY DEF BeginLogical, ChildAt, Using
<1>2. /\ Talks(child[r], sup[r], dog[r], mail[r]) /\ Holding(r, child[r], sup[r], anchor) /\ Ledgered(anchor, calls)
      /\ anchor \in Anchors /\ mail[r] \in Seq(Messages) /\ mail = [mail EXCEPT ![r] = mail[r]]
      /\ calls \in SUBSET (CustodyRuns \X Ordinals)
  BY RunRow
<1>3. PICK step \in {"idle", "closing"} : Go(r, step) /\ Unsure("logical", 0)
  BY DEF BeginLogical, Unsure
<1> DEFINE c == [child[r] EXCEPT !.st = step]
<1>4. /\ c \in Children /\ child' = [child EXCEPT ![r] = c] /\ c.st = step /\ c.attempts = child[r].attempts /\ c.denied = child[r].denied
  BY <1>3, GoRow DEF Steps
<1> HIDE DEF c
<1>5. /\ anchor' \in Anchors /\ anchor'.spent = r /\ anchor.spent = r /\ anchor'.capsule = r /\ anchor.capsule = r
      /\ Ledgered(anchor', calls)
  BY <1>1, <1>3, OnOrdinals, RecordStep
<1>6. c.attempts = 0 /\ c.st \in Using
  BY <1>1, <1>2, <1>4 DEF Talks, Using
<1>7. Talks(c, sup[r], dog[r], mail[r])
  BY <1>1, <1>2, <1>4 DEF Talks, Preparing, Building, Exchanging, OnTheWire
<1>8. c.st \notin Exchanging /\ ~(c.attempts >= 1) /\ c.st # "started"
  BY <1>4, <1>6 DEF Exchanging
<1> QED
  BY <1>1, <1>2, <1>4, <1>5, <1>6, <1>7, <1>8, UsingStepKept

\* The attempt is recorded, then the permission is asked for.
LEMMA ReserveAttemptKept ==
  ASSUME CustodyKept, NEW r \in CustodyRuns, ReserveAttempt(r)
  PROVE  CustodyKept'
<1> DEFINE n == child[r].attempts + 1
<1>1. child[r].st = "idle" /\ child[r].st \in Using /\ ~child[r].denied /\ n <= Requests /\ UNCHANGED <<sup, dog, calls>>
  BY DEF ReserveAttempt, ChildAt, Using
<1>2. /\ Talks(child[r], sup[r], dog[r], mail[r]) /\ Holding(r, child[r], sup[r], anchor) /\ Ledgered(anchor, calls)
      /\ anchor \in Anchors /\ mail[r] \in Seq(Messages) /\ mail = [mail EXCEPT ![r] = mail[r]]
      /\ calls \in SUBSET (CustodyRuns \X Ordinals) /\ child[r] \in Children /\ child \in [CustodyRuns -> Children]
  BY RunRow
<1>3. n \in Ordinals /\ child[r].attempts \in Nat /\ n = child[r].attempts + 1
  BY <1>1, <1>2, CustodyAssumption DEF Children, Ordinals
<1>4. Unsure("reserved", n)
  BY DEF ReserveAttempt, Unsure
<1>5. /\ anchor' \in Anchors /\ anchor'.spent = r /\ anchor.spent = r /\ anchor'.capsule = r /\ anchor.capsule = r
      /\ \A t, k : OnLedger(anchor, t, k) => OnLedger(anchor', t, k)
      /\ Recorded("reserved", n) => OnLedger(anchor', "reserved", n)
      /\ Ledgered(anchor', calls)
  BY <1>1, <1>3, <1>4, OnOrdinals, RecordStep
<1>6. \A step \in {"asked", "finishing"} :
        /\ [child[r] EXCEPT !.st = step, !.attempts = n] \in Children
        /\ [child[r] EXCEPT !.st = step, !.attempts = n].st = step
        /\ [child[r] EXCEPT !.st = step, !.attempts = n].attempts = n
        /\ [child[r] EXCEPT !.st = step, !.attempts = n].denied = child[r].denied
        /\ [child EXCEPT ![r].st = step, ![r].attempts = n] = [child EXCEPT ![r] = [child[r] EXCEPT !.st = step, !.attempts = n]]
  BY <1>2, <1>3, OnOrdinals DEF Children, Steps, Exchanging
<1> HIDE DEF n
<1>7. CASE Recorded("reserved", n) /\ Tell(r, "wireBegin", n) /\ child' = [child EXCEPT ![r].st = "asked", ![r].attempts = n]
  <2> DEFINE c == [child[r] EXCEPT !.st = "asked", !.attempts = n]
             m == Append(mail[r], <<"wireBegin", n>>)
  <2>1. c \in Children /\ child' = [child EXCEPT ![r] = c] /\ c.st = "asked" /\ c.attempts = n /\ ~c.denied
    BY <1>1, <1>6, <1>7
  <2>2. m \in Seq(Messages) /\ mail' = [mail EXCEPT ![r] = m] /\ (mail[r] = <<>> => m = <<<<"wireBegin", n>>>>)
    BY <1>3, <1>7, OnOrdinals, TellRow
  <2>9. ASSUME NEW k \in Ordinals, mail[r] = <<<<"wireSettled", k>>>> PROVE m = <<<<"wireSettled", k>>, <<"wireBegin", n>>>>
    <3>1. <<"wireSettled", k>> \in Messages /\ <<"wireBegin", n>> \in Messages
      BY <1>3, OnOrdinals
    <3> QED
      BY <2>9, <3>1, Appended
  <2> HIDE DEF m
  <2> HIDE DEF c
  <2>3. /\ sup[r].reply = "none" /\ sup[r].st # "off" /\ sup[r].st \notin {"joined", "cleaned", "done"}
        /\ (sup[r].consumed => dog[r].active)
        /\ (mail[r] = <<>> \/ \E k \in Ordinals : mail[r] = <<<<"wireSettled", k>>>>)
    BY <1>1, <1>2 DEF Talks
  <2>4. m = <<<<"wireBegin", n>>>> \/ \E k \in Ordinals : m = <<<<"wireSettled", k>>, <<"wireBegin", n>>>>
    BY <2>2, <2>3, <2>9
  <2>5. Talks(c, sup[r], dog[r], m)
    BY <1>3, <2>1, <2>3, <2>4, OnOrdinals DEF Talks, Preparing, Building, Exchanging, OnTheWire
  <2>6. n > 1 => OnLedger(anchor', "received", n - 1)
    <3> SUFFICES ASSUME n > 1 PROVE OnLedger(anchor', "received", n - 1)
      OBVIOUS
    <3>1. child[r].attempts >= 1 /\ n - 1 = child[r].attempts
      BY <1>3
    <3>2. OnLedger(anchor, "received", child[r].attempts)
      BY <1>1, <1>2, <3>1 DEF Holding
    <3> QED
      BY <1>5, <3>1, <3>2
  <2>7. c.st \in Using /\ c.st # "idle" /\ c.st # "started"
    BY <2>1 DEF Using, Exchanging
  <2> QED
    BY <1>1, <1>2, <1>5, <1>7, <2>1, <2>2, <2>5, <2>6, <2>7, UsingStepKept
<1>8. CASE mail' = mail /\ child' = [child EXCEPT ![r].st = "finishing", ![r].attempts = n]
  <2> DEFINE c == [child[r] EXCEPT !.st = "finishing", !.attempts = n]
  <2>1. c \in Children /\ child' = [child EXCEPT ![r] = c] /\ c.st = "finishing" /\ c.attempts = n /\ ~c.denied
    BY <1>1, <1>6, <1>8
  <2> HIDE DEF c
  <2>2. Talks(c, sup[r], dog[r], mail[r])
    BY <1>1, <1>2, <2>1 DEF Talks, Preparing, Building, Exchanging, OnTheWire
  <2>3. c.st \in Using /\ c.st \notin Exchanging /\ c.st # "idle" /\ c.st # "started"
    BY <2>1 DEF Using, Exchanging
  <2> QED
    BY <1>1, <1>2, <1>5, <1>8, <2>1, <2>2, <2>3, UsingStepKept
<1> QED
  BY <1>7, <1>8 DEF ReserveAttempt, n

\* The start is recorded after the permission.
LEMMA StartWireKept ==
  ASSUME CustodyKept, NEW r \in CustodyRuns, StartWire(r)
  PROVE  CustodyKept'
<1> DEFINE n == child[r].attempts
           c == [child[r] EXCEPT !.st = "started"]
<1>1. child[r].st = "permitted" /\ child[r].st \in Using /\ UNCHANGED <<sup, dog, mail, calls>> /\ Recorded("wire_started", n) /\ Go(r, "started")
  BY DEF StartWire, ChildAt, Using, Exchanging
<1>2. /\ Talks(child[r], sup[r], dog[r], mail[r]) /\ Holding(r, child[r], sup[r], anchor)
      /\ mail[r] \in Seq(Messages) /\ mail = [mail EXCEPT ![r] = mail[r]]
      /\ calls \in SUBSET (CustodyRuns \X Ordinals) /\ child[r] \in Children
  BY RunRow
<1>3. /\ c \in Children /\ child' = [child EXCEPT ![r] = c] /\ c.st = "started" /\ c.attempts = n /\ c.denied = child[r].denied
  BY <1>1, GoRow DEF Steps, Exchanging
<1> HIDE DEF c
<1>4. n \in Ordinals
  BY <1>1, <1>2, OnOrdinals DEF Talks, Children, Exchanging
<1> HIDE DEF n
<1>5. /\ anchor' \in Anchors /\ anchor'.spent = r /\ anchor.spent = r /\ anchor'.capsule = r /\ anchor.capsule = r
      /\ \A t, k : OnLedger(anchor, t, k) => OnLedger(anchor', t, k)
      /\ OnLedger(anchor', "wire_started", n)
      /\ Ledgered(anchor', calls)
  BY <1>1, <1>4, OnOrdinals, RecordStep DEF Unsure
<1>6. OnLedger(anchor', "reserved", n) /\ (n > 1 => OnLedger(anchor', "received", n - 1))
  BY <1>1, <1>2, <1>5 DEF Holding, Exchanging, n
<1>7. Talks(c, sup[r], dog[r], mail[r])
  BY <1>1, <1>2, <1>3 DEF Talks, Preparing, Building, Exchanging, OnTheWire, Guards, n
<1>8. c.st \in Using /\ c.st # "idle"
  BY <1>3 DEF Using, Exchanging
<1> QED
  BY <1>1, <1>2, <1>3, <1>5, <1>6, <1>7, <1>8, UsingStepKept

\* The request leaves after its records.
LEMMA CallKept ==
  ASSUME CustodyKept, NEW r \in CustodyRuns, Call(r)
  PROVE  CustodyKept'
<1> DEFINE n == child[r].attempts
           c == [child[r] EXCEPT !.st = "calling"]
<1>1. child[r].st = "started" /\ child[r].st \in Using /\ UNCHANGED <<anchor, sup, dog, mail>> /\ calls' = calls \cup {<<r, n>>} /\ Go(r, "calling")
  BY DEF Call, ChildAt, Using, Exchanging
<1>2. /\ Talks(child[r], sup[r], dog[r], mail[r]) /\ Holding(r, child[r], sup[r], anchor) /\ Ledgered(anchor, calls)
      /\ mail[r] \in Seq(Messages) /\ mail = [mail EXCEPT ![r] = mail[r]]
      /\ calls \in SUBSET (CustodyRuns \X Ordinals) /\ child[r] \in Children /\ anchor \in Anchors
  BY RunRow
<1>3. /\ c \in Children /\ child' = [child EXCEPT ![r] = c] /\ c.st = "calling" /\ c.attempts = n /\ c.denied = child[r].denied
  BY <1>1, GoRow DEF Steps, Exchanging
<1> HIDE DEF c
<1>4. n \in Ordinals
  BY <1>1, <1>2, OnOrdinals DEF Talks, Children, Exchanging
<1>5. anchor.spent = r /\ anchor.capsule = r
  BY <1>1, <1>2 DEF Holding
<1>6. OnLedger(anchor, "reserved", n) /\ OnLedger(anchor, "wire_started", n) /\ (n > 1 => OnLedger(anchor, "received", n - 1))
  BY <1>1, <1>2 DEF Holding, Exchanging
<1>7. Talks(c, sup[r], dog[r], mail[r])
  BY <1>1, <1>2, <1>3 DEF Talks, Preparing, Building, Exchanging, OnTheWire, Guards
<1> HIDE DEF n
<1>8. calls' \in SUBSET (CustodyRuns \X Ordinals)
  BY <1>1, <1>2, <1>4
<1>9. Ledgered(anchor', calls')
  <2>1. \A x \in calls' : x \in calls \/ x = <<r, n>>
    BY <1>1
  <2>2. \A x \in calls' : x[1] = anchor.spent /\ OnLedger(anchor, "reserved", x[2]) /\ OnLedger(anchor, "wire_started", x[2])
                          /\ (x[2] > 1 => OnLedger(anchor, "received", x[2] - 1))
    BY <1>2, <1>5, <1>6, <2>1 DEF Ledgered
  <2> QED
    BY <1>1, <1>2, <2>2 DEF Ledgered
<1>10. c.st \in Using /\ c.st # "idle" /\ c.st # "started"
  BY <1>3 DEF Using, Exchanging
<1> QED
  BY <1>1, <1>2, <1>3, <1>5, <1>6, <1>7, <1>8, <1>9, <1>10, UsingStepKept

\* The exchange ends, before or after the request left.
LEMMA AnswerKept ==
  ASSUME CustodyKept, NEW r \in CustodyRuns, Answer(r)
  PROVE  CustodyKept'
<1>1. child[r].st \in Exchanging \ {"settling"} /\ UNCHANGED <<anchor, sup, dog, mail, calls>>
  BY DEF Answer, ChildAt, Exchanging
<1>2. /\ Talks(child[r], sup[r], dog[r], mail[r]) /\ Holding(r, child[r], sup[r], anchor)
      /\ child[r] \in Children /\ child \in [CustodyRuns -> Children]
  BY RunRow
<1>3. \E c \in Children : /\ child' = [child EXCEPT ![r] = c] /\ c.st = "settling" /\ c.attempts = child[r].attempts
                          /\ c.denied \/ (child[r].st = "calling" /\ c.denied = child[r].denied)
  <2>1. CASE ChildAt(r, "calling") /\ Go(r, "settling")
    <3>1. [child[r] EXCEPT !.st = "settling"] \in Children /\ child' = [child EXCEPT ![r] = [child[r] EXCEPT !.st = "settling"]]
      BY <1>2, <2>1 DEF Go, Children, Steps, Exchanging
    <3> QED
      BY <1>2, <2>1, <3>1 DEF ChildAt, Children
  <2>2. CASE child' = [child EXCEPT ![r].st = "settling", ![r].denied = TRUE]
    <3>1. /\ [child[r] EXCEPT !.st = "settling", !.denied = TRUE] \in Children
          /\ child' = [child EXCEPT ![r] = [child[r] EXCEPT !.st = "settling", !.denied = TRUE]]
      BY <1>2, <2>2 DEF Children, Steps, Exchanging
    <3> QED
      BY <1>2, <3>1 DEF Children
  <2> QED
    BY <2>1, <2>2 DEF Answer
<1>4. PICK c \in Children : /\ child' = [child EXCEPT ![r] = c] /\ c.st = "settling" /\ c.attempts = child[r].attempts
                            /\ c.denied \/ (child[r].st = "calling" /\ c.denied = child[r].denied)
  BY <1>3
<1>5. Talks(c, sup[r], dog[r], mail[r])
  BY <1>1, <1>2, <1>4 DEF Talks, Preparing, Building, Exchanging, OnTheWire
<1>6. Holding(r, c, sup[r], anchor)
  BY <1>1, <1>2, <1>4 DEF Holding, Preparing, Building, Exchanging, Using
<1> QED
  BY <1>1, <1>4, <1>5, <1>6, ChildStepKept

\* The receipt is recorded, then the supervisor told.
LEMMA SettleKept ==
  ASSUME CustodyKept, NEW r \in CustodyRuns, Settle(r)
  PROVE  CustodyKept'
<1> DEFINE n == child[r].attempts
<1>1. child[r].st = "settling" /\ child[r].st \in Using /\ UNCHANGED <<sup, dog, calls>> /\ Unsure("received", n)
  BY DEF Settle, ChildAt, Using, Exchanging, Unsure
<1>2. /\ Talks(child[r], sup[r], dog[r], mail[r]) /\ Holding(r, child[r], sup[r], anchor)
      /\ mail[r] \in Seq(Messages) /\ mail = [mail EXCEPT ![r] = mail[r]]
      /\ calls \in SUBSET (CustodyRuns \X Ordinals) /\ child[r] \in Children
  BY RunRow
<1>3. n \in Ordinals
  BY <1>1, <1>2, OnOrdinals DEF Talks, Children, Exchanging
<1>4. /\ anchor' \in Anchors /\ anchor'.spent = r /\ anchor.spent = r /\ anchor'.capsule = r /\ anchor.capsule = r
      /\ Recorded("received", n) => OnLedger(anchor', "received", n)
      /\ Ledgered(anchor', calls)
  BY <1>1, <1>3, OnOrdinals, RecordStep
<1>5. CASE Recorded("received", n) /\ Tell(r, "wireSettled", n) /\ Go(r, "idle")
  <2> DEFINE c == [child[r] EXCEPT !.st = "idle"]
             m == Append(mail[r], <<"wireSettled", n>>)
  <2>1. /\ c \in Children /\ child' = [child EXCEPT ![r] = c] /\ c.st = "idle" /\ c.attempts = n /\ c.denied = child[r].denied
    BY <1>5, GoRow DEF Steps
  <2> HIDE DEF c
  <2>2. m \in Seq(Messages) /\ mail' = [mail EXCEPT ![r] = m] /\ (mail[r] = <<>> => m = <<<<"wireSettled", n>>>>)
    <3>1. <<"wireSettled", n>> \in Messages /\ Tell(r, "wireSettled", n) /\ m = Append(mail[r], <<"wireSettled", n>>)
      BY <1>3, <1>5, OnOrdinals
    <3> HIDE DEF m
    <3> HIDE DEF n
    <3> QED
      BY <3>1, TellRow
  <2> HIDE DEF m
  <2>3. Talks(c, sup[r], dog[r], m)
    BY <1>1, <1>2, <1>3, <2>1, <2>2 DEF Talks, Preparing, Building, Exchanging, OnTheWire
  <2>4. c.st \in Using /\ c.st \notin Exchanging /\ c.st # "started"
    BY <2>1 DEF Using, Exchanging
  <2> QED
    BY <1>1, <1>2, <1>4, <1>5, <2>1, <2>2, <2>3, <2>4, UsingStepKept
<1>6. CASE UNCHANGED mail /\ Go(r, "finishing")
  <2> DEFINE c == [child[r] EXCEPT !.st = "finishing"]
  <2>1. /\ c \in Children /\ child' = [child EXCEPT ![r] = c] /\ c.st = "finishing"
    BY <1>6, GoRow DEF Steps
  <2> HIDE DEF c
  <2>2. Talks(c, sup[r], dog[r], mail[r])
    BY <1>1, <1>2, <2>1 DEF Talks, Preparing, Building, Exchanging, OnTheWire
  <2>3. c.st \in Using /\ c.st \notin Exchanging /\ c.st # "idle" /\ c.st # "started"
    BY <2>1 DEF Using, Exchanging
  <2> QED
    BY <1>1, <1>2, <1>4, <1>6, <2>1, <2>2, <2>3, UsingStepKept
<1> QED
  BY <1>5, <1>6 DEF Settle

\* Custody stops.
LEMMA FinishRunKept ==
  ASSUME CustodyKept, NEW r \in CustodyRuns, FinishRun(r)
  PROVE  CustodyKept'
<1> DEFINE c == [child[r] EXCEPT !.st = "closing"]
<1>1. child[r].st \in {"idle", "finishing"} /\ Go(r, "closing") /\ UNCHANGED <<anchor, sup, dog, mail, calls>>
  BY DEF FinishRun
<1>2. /\ c \in Children /\ child' = [child EXCEPT ![r] = c] /\ c.st = "closing"
  BY <1>1, GoRow DEF Steps
<1> HIDE DEF c
<1>3. Talks(child[r], sup[r], dog[r], mail[r]) /\ Holding(r, child[r], sup[r], anchor)
  BY RunRow
<1>4. Talks(c, sup[r], dog[r], mail[r])
  BY <1>1, <1>2, <1>3 DEF Talks, Preparing, Building, Exchanging, OnTheWire
<1>5. Holding(r, c, sup[r], anchor)
  BY <1>1, <1>2, <1>3 DEF Holding, Preparing, Building, Exchanging, Using
<1> QED
  BY <1>1, <1>2, <1>4, <1>5, ChildStepKept

\* The watchdog starts, then the data process.
LEMMA StartKept ==
  ASSUME CustodyKept, NEW r \in CustodyRuns, Start(r)
  PROVE  CustodyKept'
<1> DEFINE c == [child[r] EXCEPT !.st = "ready"]
           s == [sup[r] EXCEPT !.st = "up"]
           d == [dog[r] EXCEPT !.st = "watch"]
           m == Append(mail[r], <<"ready", 0>>)
<1>1. sup[r].st = "off" /\ Go(r, "ready") /\ Tell(r, "ready", 0) /\ UNCHANGED <<anchor, calls>>
  BY DEF Start
<1>2. /\ Talks(child[r], sup[r], dog[r], mail[r]) /\ Holding(r, child[r], sup[r], anchor) /\ Ledgered(anchor, calls)
      /\ sup[r] \in Supervisors /\ sup \in [CustodyRuns -> Supervisors] /\ dog[r] \in Watchdogs /\ dog \in [CustodyRuns -> Watchdogs]
      /\ anchor \in Anchors /\ calls \in SUBSET (CustodyRuns \X Ordinals)
  BY RunRow
<1>3. s \in Supervisors /\ sup' = [sup EXCEPT ![r] = s] /\ s.st = "up" /\ s.consumed = sup[r].consumed /\ s.reply = sup[r].reply
  BY <1>2 DEF Start, Supervisors
<1>4. d \in Watchdogs /\ dog' = [dog EXCEPT ![r] = d] /\ d.st = "watch" /\ d.active = dog[r].active
  BY <1>2 DEF Start, Watchdogs
<1>5. /\ c \in Children /\ child' = [child EXCEPT ![r] = c] /\ c.st = "ready" /\ c.attempts = child[r].attempts /\ c.denied = child[r].denied
  BY <1>1, GoRow DEF Steps
<1> HIDE DEF c, s, d
<1>6. m \in Seq(Messages) /\ mail' = [mail EXCEPT ![r] = m] /\ (mail[r] = <<>> => m = <<<<"ready", 0>>>>)
  <2>1. <<"ready", 0>> \in Messages /\ Tell(r, "ready", 0) /\ m = Append(mail[r], <<"ready", 0>>)
    BY <1>1 DEF Messages
  <2> HIDE DEF m
  <2> QED
    BY <2>1, TellRow
<1> HIDE DEF m
<1>7. child[r].st = "off" /\ mail[r] = <<>> /\ sup[r].reply = "none"
  BY <1>1, <1>2 DEF Talks
<1>8. Talks(c, s, d, m)
  BY <1>2, <1>3, <1>4, <1>5, <1>6, <1>7 DEF Talks, Preparing, Building, Exchanging, OnTheWire
<1>9. Holding(r, c, s, anchor)
  BY <1>2, <1>3, <1>5, <1>7 DEF Holding, Preparing, Building, Exchanging, Using
<1> QED
  BY <1>1, <1>2, <1>3, <1>4, <1>5, <1>6, <1>8, <1>9, RunStepKept

\* A step of the supervisor or the watchdog that leaves the directory alone.
LEMMA SupervisionKept ==
  ASSUME CustodyKept, NEW r \in CustodyRuns, UNCHANGED <<anchor, calls>>,
         NEW c \in Children, child' = [child EXCEPT ![r] = c],
         NEW s \in Supervisors, sup' = [sup EXCEPT ![r] = s],
         NEW d \in Watchdogs, dog' = [dog EXCEPT ![r] = d],
         NEW m \in Seq(Messages), mail' = [mail EXCEPT ![r] = m],
         Talks(c, s, d, m),
         c = child[r] \/ c.st = "gone" \/ (child[r].st \in Preparing /\ c.st \in Preparing) \/ (child[r].st = "asked" /\ c.st = "permitted"),
         c.attempts = child[r].attempts \/ c.st \notin Exchanging,
         s.st \in {"cleaned", "done"} => sup[r].st \in {"cleaned", "done"}
  PROVE  CustodyKept'
<1>1. /\ Talks(child[r], sup[r], dog[r], mail[r]) /\ Holding(r, child[r], sup[r], anchor) /\ Ledgered(anchor, calls)
      /\ anchor \in Anchors /\ calls \in SUBSET (CustodyRuns \X Ordinals)
  BY RunRow
<1>2. s.st \in {"cleaned", "done"} => anchor.capsule # r
  BY <1>1 DEF Holding
<1>3. Holding(r, c, s, anchor)
  <2>1. CASE c.st = "gone"
    BY <1>2, <2>1, GoneHolds
  <2>2. CASE c = child[r]
    BY <1>1, <1>2, <2>2 DEF Holding
  <2>3. CASE child[r].st \in Preparing /\ c.st \in Preparing
    BY <1>1, <1>2, <2>3 DEF Holding, Preparing, Building, Exchanging, Using
  <2>4. CASE child[r].st = "asked" /\ c.st = "permitted"
    BY <1>1, <1>2, <2>4 DEF Holding, Preparing, Building, Exchanging, Using
  <2> QED
    BY <2>1, <2>2, <2>3, <2>4
<1> QED
  BY <1>1, <1>3, RunStepKept

\* The supervisor stops everything, with or without a message taken.
LEMMA HaltedRow ==
  ASSUME CustodyKept, NEW r \in CustodyRuns, Halted(r), sup[r].st = "up", UNCHANGED <<anchor, calls, dog>>,
         NEW m \in Seq(Messages), mail' = [mail EXCEPT ![r] = m]
  PROVE  CustodyKept'
<1> DEFINE c == [child[r] EXCEPT !.st = "gone"]
           s == [sup[r] EXCEPT !.stopping = TRUE, !.reply = "none"]
<1>1. sup[r] \in Supervisors /\ sup \in [CustodyRuns -> Supervisors] /\ dog[r] \in Watchdogs /\ dog = [dog EXCEPT ![r] = dog[r]]
  BY RunRow
<1>2. s \in Supervisors /\ sup' = [sup EXCEPT ![r] = s] /\ s.st = "up"
  BY <1>1 DEF Halted, Supervisors
<1>3. c \in Children /\ child' = [child EXCEPT ![r] = c] /\ c.st = "gone"
  BY GoRow DEF Halted, Steps
<1> HIDE DEF c, s
<1>4. Talks(c, s, dog[r], m)
  BY <1>2, <1>3, GoneTalks
<1>5. c.st \notin Exchanging
  BY <1>3 DEF Exchanging
<1> QED
  BY <1>1, <1>2, <1>3, <1>4, <1>5, SupervisionKept

\* A timer or a signal stops everything.
LEMMA StopKept ==
  ASSUME CustodyKept, NEW r \in CustodyRuns, Stop(r)
  PROVE  CustodyKept'
<1>1. mail[r] \in Seq(Messages) /\ mail = [mail EXCEPT ![r] = mail[r]]
  BY RunRow
<1> QED
  BY <1>1, HaltedRow DEF Stop

\* The permission is given to the data process that waits for it.
LEMMA GrantKept ==
  ASSUME CustodyKept, NEW r \in CustodyRuns, Grant(r)
  PROVE  CustodyKept'
<1> DEFINE s == [sup[r] EXCEPT !.reply = "none"]
<1>1. sup[r].st = "up" /\ sup[r].reply # "none" /\ UNCHANGED <<anchor, dog, mail, calls>>
  BY DEF Grant
<1>2. /\ Talks(child[r], sup[r], dog[r], mail[r])
      /\ sup[r] \in Supervisors /\ sup \in [CustodyRuns -> Supervisors] /\ dog[r] \in Watchdogs /\ dog = [dog EXCEPT ![r] = dog[r]]
      /\ mail[r] \in Seq(Messages) /\ mail = [mail EXCEPT ![r] = mail[r]]
      /\ child[r] \in Children /\ child = [child EXCEPT ![r] = child[r]]
  BY RunRow
<1>3. s \in Supervisors /\ sup' = [sup EXCEPT ![r] = s] /\ s.st = "up" /\ s.consumed = sup[r].consumed /\ s.reply = "none"
  BY <1>1, <1>2 DEF Grant, Supervisors
<1>4. sup[r].reply \in {"consume", "permit"}
  BY <1>1, <1>2 DEF Supervisors
<1> HIDE DEF s
<1>5. ASSUME NEW step \in {"told", "permitted"}, Go(r, step),
             \/ step = "told" /\ child[r].st = "ready"
             \/ step = "permitted" /\ child[r].st = "asked" /\ sup[r].reply = "permit"
      PROVE  CustodyKept'
  <2> DEFINE c == [child[r] EXCEPT !.st = step]
  <2>1. c \in Children /\ child' = [child EXCEPT ![r] = c] /\ c.st = step /\ c.attempts = child[r].attempts /\ c.denied = child[r].denied
    BY <1>5, GoRow DEF Steps, Exchanging
  <2> HIDE DEF c
  <2>2. Talks(c, s, dog[r], mail[r])
    BY <1>1, <1>2, <1>3, <1>5, <2>1 DEF Talks, Preparing, Building, Exchanging, OnTheWire, Guards
  <2>3. (child[r].st \in Preparing /\ c.st \in Preparing) \/ (child[r].st = "asked" /\ c.st = "permitted")
    BY <1>5, <2>1 DEF Preparing
  <2> QED
    BY <1>1, <1>2, <1>3, <2>1, <2>2, <2>3, SupervisionKept
<1>6. CASE UNCHANGED child /\ ~(child[r].st = "asked" /\ sup[r].reply = "permit") /\ ~(child[r].st = "ready" /\ sup[r].reply = "consume")
  <2>1. Talks(child[r], s, dog[r], mail[r])
    BY <1>1, <1>2, <1>3, <1>6 DEF Talks, Preparing, Building, Exchanging, OnTheWire
  <2> QED
    BY <1>1, <1>2, <1>3, <1>6, <2>1, SupervisionKept
<1>7. \/ ChildAt(r, "ready") /\ sup[r].reply = "consume" /\ Go(r, "told")
      \/ ChildAt(r, "asked") /\ sup[r].reply = "permit" /\ Go(r, "permitted")
      \/ ~(ChildAt(r, "ready") /\ sup[r].reply = "consume") /\ ~(ChildAt(r, "asked") /\ sup[r].reply = "permit") /\ UNCHANGED child
  BY DEF Grant
<1> QED
  BY <1>5, <1>6, <1>7 DEF ChildAt

\* What is left of one message, or of two.
LEMMA Tailed ==
  ASSUME NEW S, NEW x \in S, NEW y \in S
  PROVE  /\ Tail(<<x>>) = <<>> /\ <<x>>[1] = x
         /\ Tail(<<x, y>>) = <<y>> /\ <<x, y>>[1] = x
<1>1. Tail(<<x>>) = <<>> /\ <<x>>[1] = x /\ <<x, y>>[1] = x
  OBVIOUS
<1>2. Tail(<<x, y>>) = <<y>>
  <2> DEFINE p == Tail(<<x, y>>)
             q == <<y>>
  <2>1. <<x, y>> \in Seq(S) /\ <<x, y>> # <<>> /\ Len(<<x, y>>) = 2 /\ <<x, y>>[2] = y
    OBVIOUS
  <2>2. p \in Seq(S) /\ Len(p) = 1 /\ p[1] = y
    BY <2>1, HeadTailProperties
  <2>3. q \in Seq(S) /\ Len(q) = 1 /\ q[1] = y
    OBVIOUS
  <2> HIDE DEF p, q
  <2>4. \A i \in 1..1 : p[i] = q[i]
    BY <2>2, <2>3
  <2>5. p = q
    BY <2>2, <2>3, <2>4, SeqEqual
  <2> QED
    BY <2>5 DEF p, q
<1> QED
  BY <1>1, <1>2

\* What is taken is a message.
LEMMA HeardRow ==
  ASSUME NEW m \in Seq(Messages), m # <<>>
  PROVE  Tail(m) \in Seq(Messages) /\ m[1] \in Messages /\ m[1][2] \in 0..Requests /\ (m[1][1] = "wireBegin" => m[1][2] \in Ordinals)
<1>1. Tail(m) \in Seq(Messages) /\ m[1] \in Messages
  BY HeadTailProperties
<1>2. \A x \in Messages : x[2] \in 0..Requests /\ (x[1] = "wireBegin" => x[2] \in Ordinals)
  BY CustodyAssumption DEF Messages, Ordinals
<1> QED
  BY <1>1, <1>2

\* The first message of a data process tells where it is, and is never followed
\* by one its supervisor would have to answer first.
LEMMA HeardTalks ==
  ASSUME NEW c \in Children, NEW s, NEW d, NEW m \in Seq(Messages), m # <<>>, Talks(c, s, d, m), s.reply = "none"
  PROVE  /\ c.st \notin {"off", "told", "checked", "live"} \cup Building \cup OnTheWire
         /\ c.st = "ready" => m[1] = <<"ready", 0>> /\ Tail(m) = <<>>
         /\ c.st = "settling" => c.denied
         /\ c.st = "idle" /\ ~c.denied => m[1][1] = "wireSettled" /\ Tail(m) = <<>>
         /\ c.st = "asked" => \/ m[1] = <<"wireBegin", c.attempts>> /\ Tail(m) = <<>>
                              \/ m[1][1] = "wireSettled" /\ Tail(m) = <<<<"wireBegin", c.attempts>>>>
<1>1. c.attempts \in 0..Requests
  BY DEF Children
<1>2. c.st = "ready" => m[1] = <<"ready", 0>> /\ Tail(m) = <<>>
  <2> SUFFICES ASSUME c.st = "ready" PROVE m[1] = <<"ready", 0>> /\ Tail(m) = <<>>
    OBVIOUS
  <2>1. m = <<<<"ready", 0>>>>
    BY DEF Talks
  <2> QED
    BY <2>1, Tailed
<1>3. ASSUME c.st = "idle", ~c.denied PROVE m[1][1] = "wireSettled" /\ Tail(m) = <<>>
  <2>1. PICK k \in Ordinals : m = <<<<"wireSettled", k>>>>
    BY <1>3 DEF Talks
  <2>2. m[1] = <<"wireSettled", k>> /\ Tail(m) = <<>>
    BY <2>1, Tailed
  <2> QED
    BY <2>2
<1>4. ASSUME c.st = "asked"
      PROVE  \/ m[1] = <<"wireBegin", c.attempts>> /\ Tail(m) = <<>>
             \/ m[1][1] = "wireSettled" /\ Tail(m) = <<<<"wireBegin", c.attempts>>>>
  <2>1. CASE m = <<<<"wireBegin", c.attempts>>>>
    BY <2>1, Tailed
  <2>2. CASE \E k \in Ordinals : m = <<<<"wireSettled", k>>, <<"wireBegin", c.attempts>>>>
    <3>1. PICK k \in Ordinals : m = <<<<"wireSettled", k>>, <<"wireBegin", c.attempts>>>>
      BY <2>2
    <3>2. m[1] = <<"wireSettled", k>> /\ Tail(m) = <<<<"wireBegin", c.attempts>>>>
      BY <3>1, Tailed
    <3> QED
      BY <3>2
  <2> QED
    BY <1>4, <2>1, <2>2 DEF Talks
<1>5. c.st = "settling" => c.denied
  BY DEF Talks
<1>6. c.st \notin {"off", "told", "checked", "live"} \cup Building \cup OnTheWire
  BY DEF Talks
<1> QED
  BY <1>2, <1>3, <1>4, <1>5, <1>6

\* A message is taken, whatever the supervisor answers to it.
LEMMA TakenTalks ==
  ASSUME NEW c \in Children, NEW s, NEW d, NEW m \in Seq(Messages), m # <<>>, Talks(c, s, d, m), s.reply = "none",
         NEW t, NEW e, t.st = s.st, e.st = d.st, t.consumed => e.active,
         \/ t.reply = "none"
         \/ m[1][1] = "ready" /\ t.reply = "consume"
         \/ m[1][1] = "wireBegin" /\ t.reply = "permit" /\ e.st = "watch" /\ e.active /\ e.pending = m[1][2]
  PROVE  Talks(c, t, e, Tail(m))
<1>1. /\ c.st \notin {"off", "told", "checked", "live"} \cup Building \cup OnTheWire
      /\ c.st = "ready" => m[1] = <<"ready", 0>> /\ Tail(m) = <<>>
      /\ c.st = "settling" => c.denied
      /\ c.st = "idle" /\ ~c.denied => m[1][1] = "wireSettled" /\ Tail(m) = <<>>
      /\ c.st = "asked" => \/ m[1] = <<"wireBegin", c.attempts>> /\ Tail(m) = <<>>
                           \/ m[1][1] = "wireSettled" /\ Tail(m) = <<<<"wireBegin", c.attempts>>>>
  BY HeardTalks
<1>2. c.st = "ready" => t.reply # "permit" /\ m[1][1] = "ready" /\ Tail(m) = <<>>
  BY <1>1
<1>3. c.st = "idle" /\ ~c.denied => t.reply = "none" /\ Tail(m) = <<>>
  BY <1>1
<1>4. c.st = "asked" => /\ t.reply # "consume"
                        /\ Tail(m) = <<>> \/ (t.reply = "none" /\ Tail(m) = <<<<"wireBegin", c.attempts>>>>)
                        /\ t.reply = "permit" => Guards(c, e)
  <2> SUFFICES ASSUME c.st = "asked"
               PROVE  /\ t.reply # "consume"
                      /\ Tail(m) = <<>> \/ (t.reply = "none" /\ Tail(m) = <<<<"wireBegin", c.attempts>>>>)
                      /\ t.reply = "permit" => Guards(c, e)
    OBVIOUS
  <2>1. CASE m[1] = <<"wireBegin", c.attempts>> /\ Tail(m) = <<>>
    <3>1. m[1][1] = "wireBegin" /\ m[1][2] = c.attempts
      BY <2>1
    <3> QED
      BY <2>1, <3>1 DEF Guards
  <2>2. CASE m[1][1] = "wireSettled" /\ Tail(m) = <<<<"wireBegin", c.attempts>>>>
    BY <2>2
  <2> QED
    BY <1>1, <2>1, <2>2
<1> HIDE DEF Guards
<1>5. /\ s.st = "off" <=> c.st = "off"
      /\ c.st = "off" => d.st = "off"
      /\ s.st \in {"joined", "cleaned", "done"} => c.st = "gone"
      /\ c.st \in Preparing \cup Building \cup {"live"} => c.attempts = 0 /\ ~c.denied
      /\ c.st \in Exchanging => c.attempts >= 1
      /\ c.st \in {"asked"} \cup OnTheWire => ~c.denied
  BY DEF Talks
<1> QED
  BY <1>1, <1>2, <1>3, <1>4, <1>5 DEF Talks

\* A message is taken: the watchdog is told before any permission is given.
LEMMA HearKept ==
  ASSUME CustodyKept, NEW r \in CustodyRuns, Hear(r)
  PROVE  CustodyKept'
<1> DEFINE m == mail[r]
           type == mail[r][1][1]
           n == mail[r][1][2]
<1>1. sup[r].st = "up" /\ sup[r].reply = "none" /\ mail[r] # <<>> /\ mail' = [mail EXCEPT ![r] = Tail(@)] /\ UNCHANGED <<anchor, calls>>
  BY DEF Hear
<1>2. /\ Talks(child[r], sup[r], dog[r], mail[r])
      /\ sup[r] \in Supervisors /\ sup \in [CustodyRuns -> Supervisors] /\ sup = [sup EXCEPT ![r] = sup[r]]
      /\ dog[r] \in Watchdogs /\ dog \in [CustodyRuns -> Watchdogs] /\ dog = [dog EXCEPT ![r] = dog[r]]
      /\ mail[r] \in Seq(Messages) /\ mail \in [CustodyRuns -> Seq(Messages)]
      /\ child[r] \in Children /\ child = [child EXCEPT ![r] = child[r]]
  BY RunRow
<1>3. Tail(mail[r]) \in Seq(Messages) /\ mail[r][1] \in Messages /\ n \in 0..Requests
  BY <1>1, <1>2, HeardRow
<1>4. mail' = [mail EXCEPT ![r] = Tail(mail[r])]
  BY <1>1, <1>2
<1>5. 0 \in 0..Requests
  BY CustodyAssumption
\* What the supervisor and the watchdog may become.
<1>6. ASSUME NEW t \in Supervisors, sup' = [sup EXCEPT ![r] = t], t.st = sup[r].st,
             NEW e \in Watchdogs, dog' = [dog EXCEPT ![r] = e], e.st = dog[r].st,
             child[r].st # "gone" /\ t.consumed => e.active, UNCHANGED child,
             \/ t.reply = "none"
             \/ type = "ready" /\ t.reply = "consume"
             \/ type = "wireBegin" /\ t.reply = "permit" /\ e.st = "watch" /\ e.active /\ e.pending = n
      PROVE  CustodyKept'
  <2>1. Talks(child[r], t, e, Tail(mail[r]))
    <3>1. CASE child[r].st = "gone"
      BY <1>1, <1>6, <3>1, GoneTalks
    <3>2. CASE child[r].st # "gone"
      BY <1>1, <1>2, <1>6, <3>2, TakenTalks
    <3> QED
      BY <3>1, <3>2
  <2>2. t.st \notin {"cleaned", "done"}
    BY <1>1, <1>6
  <2> QED
    BY <1>1, <1>2, <1>3, <1>4, <1>6, <2>1, <2>2, SupervisionKept
<1>7. CASE sup[r].stopping
  <2>1. UNCHANGED <<sup, dog, child>>
    BY <1>7 DEF Hear
  <2> QED
    BY <1>1, <1>2, <1>6, <2>1 DEF Talks
<1>8. CASE ~sup[r].stopping /\ ~Expected(r, type, n)
  <2>1. Halted(r) /\ UNCHANGED dog
    BY <1>8 DEF Hear
  <2> QED
    BY <1>1, <1>3, <1>4, <2>1, HaltedRow
<1>9. CASE ~sup[r].stopping /\ Expected(r, type, n) /\ type = "ready"
  <2> DEFINE t == [sup[r] EXCEPT !.consumed = TRUE, !.reply = "consume"]
             e == [dog[r] EXCEPT !.active = TRUE]
  <2>1. /\ UNCHANGED child /\ sup' = [sup EXCEPT ![r].consumed = TRUE, ![r].reply = "consume"]
        /\ dog' = [dog EXCEPT ![r].active = TRUE]
    BY <1>9 DEF Hear
  <2>2. t \in Supervisors /\ sup' = [sup EXCEPT ![r] = t] /\ t.st = sup[r].st /\ t.reply = "consume"
    BY <1>2, <2>1 DEF Supervisors
  <2>3. e \in Watchdogs /\ dog' = [dog EXCEPT ![r] = e] /\ e.st = dog[r].st /\ e.active
    BY <1>2, <2>1 DEF Watchdogs
  <2> HIDE DEF t, e
  <2> QED
    BY <1>6, <1>9, <2>1, <2>2, <2>3
<1>10. CASE ~sup[r].stopping /\ Expected(r, type, n) /\ type = "wireBegin"
  <2> DEFINE t == [sup[r] EXCEPT !.requested = n, !.pending = n, !.reply = "permit"]
             e == [dog[r] EXCEPT !.ordinal = n, !.pending = n]
  <2>1. /\ UNCHANGED child /\ sup' = [sup EXCEPT ![r].requested = n, ![r].pending = n, ![r].reply = "permit"]
        /\ dog' = [dog EXCEPT ![r].ordinal = n, ![r].pending = n]
    BY <1>10 DEF Hear
  <2>2. t \in Supervisors /\ sup' = [sup EXCEPT ![r] = t] /\ t.st = sup[r].st /\ t.consumed = sup[r].consumed /\ t.reply = "permit"
    BY <1>2, <1>3, <2>1 DEF Supervisors
  <2>3. e \in Watchdogs /\ dog' = [dog EXCEPT ![r] = e] /\ e.st = dog[r].st /\ e.active = dog[r].active /\ e.pending = n
    BY <1>2, <1>3, <2>1 DEF Watchdogs
  <2>4. dog[r].st = "watch" /\ sup[r].consumed
    BY <1>10 DEF Expected
  <2>5. child[r].st # "gone" => dog[r].active
    BY <1>2, <2>4 DEF Talks
  <2> HIDE DEF t, e
  <2>6. CASE child[r].st # "gone"
    <3>1. e.active
      BY <2>3, <2>5, <2>6
    <3>2. e.st = "watch" /\ t.reply = "permit" /\ e.pending = n /\ type = "wireBegin"
      BY <1>10, <2>2, <2>3, <2>4
    <3>3. UNCHANGED child
      BY <2>1
    <3>4. t \in Supervisors /\ sup' = [sup EXCEPT ![r] = t] /\ t.st = sup[r].st
      BY <2>2
    <3>5. e \in Watchdogs /\ dog' = [dog EXCEPT ![r] = e] /\ e.st = dog[r].st
      BY <2>3
    <3> QED
      BY <1>6, <3>1, <3>2, <3>3, <3>4, <3>5
  <2>7. CASE child[r].st = "gone"
    <3>1. Talks(child[r], t, e, Tail(mail[r]))
      BY <1>1, <2>2, <2>7, GoneTalks
    <3> QED
      BY <1>1, <1>2, <1>3, <1>4, <2>1, <2>2, <2>3, <3>1, SupervisionKept
  <2> QED
    BY <2>6, <2>7
<1>11. CASE ~sup[r].stopping /\ Expected(r, type, n) /\ type # "ready" /\ type # "wireBegin"
  <2> DEFINE t == [sup[r] EXCEPT !.pending = 0]
             e == [dog[r] EXCEPT !.pending = 0]
  <2>1. UNCHANGED child /\ sup' = [sup EXCEPT ![r].pending = 0] /\ dog' = [dog EXCEPT ![r].pending = 0]
    BY <1>11 DEF Hear
  <2>2. t \in Supervisors /\ sup' = [sup EXCEPT ![r] = t] /\ t.st = sup[r].st /\ t.consumed = sup[r].consumed /\ t.reply = "none"
    BY <1>1, <1>2, <1>5, <2>1 DEF Supervisors
  <2>3. e \in Watchdogs /\ dog' = [dog EXCEPT ![r] = e] /\ e.st = dog[r].st /\ e.active = dog[r].active
    BY <1>2, <1>5, <2>1 DEF Watchdogs
  <2>4. child[r].st # "gone" /\ sup[r].consumed => dog[r].active
    BY <1>2 DEF Talks
  <2> HIDE DEF t, e
  <2> QED
    BY <1>6, <2>1, <2>2, <2>3, <2>4
<1> QED
  BY <1>7, <1>8, <1>9, <1>10, <1>11

\* The supervisor has seen the exit and the last message.
LEMMA JoinKept ==
  ASSUME CustodyKept, NEW r \in CustodyRuns, Join(r)
  PROVE  CustodyKept'
<1>1. child[r].st = "gone" /\ UNCHANGED <<anchor, child, mail, calls>>
  BY DEF Join, ChildAt
<1>2. /\ sup[r] \in Supervisors /\ sup \in [CustodyRuns -> Supervisors] /\ dog[r] \in Watchdogs /\ dog \in [CustodyRuns -> Watchdogs]
      /\ mail[r] \in Seq(Messages) /\ mail = [mail EXCEPT ![r] = mail[r]]
      /\ child[r] \in Children /\ child = [child EXCEPT ![r] = child[r]] /\ dog = [dog EXCEPT ![r] = dog[r]]
  BY RunRow
<1>3. PICK step \in {"joined", "failed"} : sup' = [sup EXCEPT ![r].st = step]
  BY DEF Join
<1> DEFINE s == [sup[r] EXCEPT !.st = step]
<1>4. s \in Supervisors /\ sup' = [sup EXCEPT ![r] = s] /\ s.st = step
  BY <1>2, <1>3 DEF Supervisors
<1> HIDE DEF s
<1>5. \E d \in Watchdogs : dog' = [dog EXCEPT ![r] = d]
  <2>1. CASE UNCHANGED dog
    BY <1>2, <2>1
  <2>2. CASE dog' = [dog EXCEPT ![r].active = FALSE, ![r].pending = 0]
    <3>1. [dog[r] EXCEPT !.active = FALSE, !.pending = 0] \in Watchdogs
      <4>1. 0 \in 0..Requests
        BY CustodyAssumption
      <4>2. \A b \in BOOLEAN : [dog[r] EXCEPT !.active = b] \in Watchdogs
        BY <1>2 DEF Watchdogs
      <4>3. PICK d \in Watchdogs : d = [dog[r] EXCEPT !.active = FALSE]
        BY <4>2
      <4>4. [d EXCEPT !.pending = 0] \in Watchdogs
        BY <4>1 DEF Watchdogs
      <4>5. [dog[r] EXCEPT !.active = FALSE, !.pending = 0] = [d EXCEPT !.pending = 0]
        BY <4>3
      <4> QED
        BY <4>4, <4>5
    <3>2. dog' = [dog EXCEPT ![r] = [dog[r] EXCEPT !.active = FALSE, !.pending = 0]]
      BY <1>2, <2>2
    <3> QED
      BY <3>1, <3>2
  <2> QED
    BY <2>1, <2>2 DEF Join
<1>6. PICK d \in Watchdogs : dog' = [dog EXCEPT ![r] = d]
  BY <1>5
<1>7. Talks(child[r], s, d, mail[r])
  BY <1>1, <1>4, GoneTalks
<1> QED
  BY <1>1, <1>2, <1>4, <1>6, <1>7, SupervisionKept

\* The recovery of the supervisor, done or not.
LEMMA CleanUpKept ==
  ASSUME CustodyKept, NEW r \in CustodyRuns, CleanUp(r)
  PROVE  CustodyKept'
<1>1. sup[r].st = "joined" /\ UNCHANGED <<child, dog, mail, calls>>
  BY DEF CleanUp
<1>2. /\ sup[r] \in Supervisors /\ sup \in [CustodyRuns -> Supervisors] /\ dog[r] \in Watchdogs /\ dog = [dog EXCEPT ![r] = dog[r]]
      /\ mail[r] \in Seq(Messages) /\ mail = [mail EXCEPT ![r] = mail[r]]
      /\ child[r] \in Children /\ child = [child EXCEPT ![r] = child[r]]
      /\ anchor \in Anchors /\ calls \in SUBSET (CustodyRuns \X Ordinals) /\ Ledgered(anchor, calls) /\ r # Unowned
      /\ Talks(child[r], sup[r], dog[r], mail[r])
  BY RunRow
<1>3. PICK step \in {"cleaned", "failed"} : /\ sup' = [sup EXCEPT ![r].st = step]
                                            /\ UNCHANGED anchor \/ (MayRecover /\ anchor' = CapsuleGone)
                                            /\ step = "cleaned" => MayRecover /\ anchor' = CapsuleGone
  BY DEF CleanUp, Recover
<1> DEFINE s == [sup[r] EXCEPT !.st = step]
<1>4. s \in Supervisors /\ sup' = [sup EXCEPT ![r] = s] /\ s.st = step
  BY <1>2, <1>3 DEF Supervisors
<1> HIDE DEF s
<1>5. CapsuleGone \in Anchors /\ CapsuleGone.capsule = Unowned /\ CapsuleGone.spent = anchor.spent /\ CapsuleGone.ledger = anchor.ledger
  BY <1>2 DEF CapsuleGone, Anchors
<1>6. anchor' \in Anchors /\ anchor'.spent = anchor.spent /\ anchor'.ledger = anchor.ledger /\ (step = "cleaned" => anchor'.capsule # r)
  BY <1>2, <1>3, <1>5
<1>7. Ledgered(anchor', calls)
  BY <1>2, <1>6, SameLedger DEF Ledgered
<1>8. child[r].st = "gone"
  BY <1>1, <1>2 DEF Talks
<1>9. Talks(child[r], s, dog[r], mail[r]) /\ Holding(r, child[r], s, anchor')
  BY <1>4, <1>6, <1>8, GoneTalks, GoneHolds
<1> QED
  BY <1>1, <1>2, <1>3, <1>4, <1>6, <1>7, <1>9, RunStepKept

\* The report of a verified cleanup.
LEMMA ReportKept ==
  ASSUME CustodyKept, NEW r \in CustodyRuns, Report(r)
  PROVE  CustodyKept'
<1>1. sup[r].st = "cleaned" /\ UNCHANGED <<anchor, child, mail, calls>>
  BY DEF Report
<1>2. /\ sup[r] \in Supervisors /\ sup \in [CustodyRuns -> Supervisors] /\ dog[r] \in Watchdogs /\ dog \in [CustodyRuns -> Watchdogs]
      /\ mail[r] \in Seq(Messages) /\ mail = [mail EXCEPT ![r] = mail[r]] /\ dog = [dog EXCEPT ![r] = dog[r]]
      /\ child[r] \in Children /\ child = [child EXCEPT ![r] = child[r]]
      /\ Talks(child[r], sup[r], dog[r], mail[r])
  BY RunRow
<1>3. PICK step \in {"done", "failed"} : sup' = [sup EXCEPT ![r].st = step]
  BY DEF Report
<1> DEFINE s == [sup[r] EXCEPT !.st = step]
<1>4. s \in Supervisors /\ sup' = [sup EXCEPT ![r] = s] /\ s.st = step
  BY <1>2, <1>3 DEF Supervisors
<1> HIDE DEF s
<1>5. \E d \in Watchdogs : dog' = [dog EXCEPT ![r] = d]
  <2>1. CASE UNCHANGED dog
    BY <1>2, <2>1
  <2>2. CASE dog' = [dog EXCEPT ![r].st = "exited"]
    <3>1. [dog[r] EXCEPT !.st = "exited"] \in Watchdogs /\ dog' = [dog EXCEPT ![r] = [dog[r] EXCEPT !.st = "exited"]]
      BY <1>2, <2>2 DEF Watchdogs
    <3> QED
      BY <3>1
  <2> QED
    BY <2>1, <2>2 DEF Report
<1>6. PICK d \in Watchdogs : dog' = [dog EXCEPT ![r] = d]
  BY <1>5
<1>7. child[r].st = "gone"
  BY <1>1, <1>2 DEF Talks
<1>8. Talks(child[r], s, d, mail[r])
  BY <1>4, <1>7, GoneTalks
<1> QED
  BY <1>1, <1>2, <1>4, <1>6, <1>8, SupervisionKept

\* The supervisor dies.
LEMMA SupervisorDiesKept ==
  ASSUME CustodyKept, NEW r \in CustodyRuns, SupervisorDies(r)
  PROVE  CustodyKept'
<1> DEFINE s == [sup[r] EXCEPT !.st = "dead", !.reply = "none"]
<1>1. sup[r].st # "off" /\ UNCHANGED <<anchor, child, dog, mail, calls>>
  BY DEF SupervisorDies
<1>2. /\ sup[r] \in Supervisors /\ sup \in [CustodyRuns -> Supervisors] /\ dog[r] \in Watchdogs /\ dog = [dog EXCEPT ![r] = dog[r]]
      /\ mail[r] \in Seq(Messages) /\ mail = [mail EXCEPT ![r] = mail[r]]
      /\ child[r] \in Children /\ child = [child EXCEPT ![r] = child[r]]
      /\ Talks(child[r], sup[r], dog[r], mail[r])
  BY RunRow
<1>3. s \in Supervisors /\ sup' = [sup EXCEPT ![r] = s] /\ s.st = "dead" /\ s.reply = "none" /\ s.consumed = sup[r].consumed
  BY <1>2 DEF SupervisorDies, Supervisors
<1> HIDE DEF s
<1>4. Talks(child[r], s, dog[r], mail[r])
  BY <1>1, <1>2, <1>3 DEF Talks
<1> QED
  BY <1>1, <1>2, <1>3, <1>4, SupervisionKept

\* The watchdog kills the process it was told of, and none that may have a request under way escapes it.
LEMMA FireKept ==
  ASSUME CustodyKept, NEW r \in CustodyRuns, Fire(r)
  PROVE  CustodyKept'
<1> DEFINE d == [dog[r] EXCEPT !.st = "recover"]
<1>1. dog[r].st = "watch" /\ UNCHANGED <<anchor, sup, mail, calls>>
  BY DEF Fire
<1>2. /\ sup[r] \in Supervisors /\ sup = [sup EXCEPT ![r] = sup[r]] /\ dog[r] \in Watchdogs /\ dog \in [CustodyRuns -> Watchdogs]
      /\ mail[r] \in Seq(Messages) /\ mail = [mail EXCEPT ![r] = mail[r]]
      /\ child[r] \in Children /\ child = [child EXCEPT ![r] = child[r]]
      /\ Talks(child[r], sup[r], dog[r], mail[r])
  BY RunRow
<1>3. d \in Watchdogs /\ dog' = [dog EXCEPT ![r] = d] /\ d.st = "recover" /\ d.active = dog[r].active
  BY <1>2 DEF Fire, Watchdogs
<1> HIDE DEF d
<1>4. sup[r].st # "off" /\ child[r].st # "off"
  BY <1>1, <1>2 DEF Talks
<1>5. CASE dog[r].active
  <2> DEFINE c == [child[r] EXCEPT !.st = "gone"]
  <2>1. c \in Children /\ child' = [child EXCEPT ![r] = c] /\ c.st = "gone"
    BY <1>5, GoRow DEF Fire, Steps
  <2> HIDE DEF c
  <2>2. Talks(c, sup[r], d, mail[r])
    BY <1>4, <2>1, GoneTalks
  <2>3. c.st \notin Exchanging
    BY <2>1 DEF Exchanging
  <2> QED
    BY <1>1, <1>2, <1>3, <2>1, <2>2, <2>3, SupervisionKept
<1>6. CASE ~dog[r].active
  <2>1. UNCHANGED child
    BY <1>6 DEF Fire
  <2>2. ~Guards(child[r], dog[r])
    BY <1>1, <1>6 DEF Guards
  <2> HIDE DEF Guards
  <2>3. Talks(child[r], sup[r], d, mail[r])
    BY <1>2, <1>3, <1>4, <1>6, <2>2 DEF Talks
  <2> QED
    BY <1>1, <1>2, <1>3, <2>1, <2>3, SupervisionKept
<1> QED
  BY <1>5, <1>6

\* The recovery of the watchdog, done or not.
LEMMA DogRecoversKept ==
  ASSUME CustodyKept, NEW r \in CustodyRuns, DogRecovers(r)
  PROVE  CustodyKept'
<1> DEFINE d == [dog[r] EXCEPT !.st = "exited"]
<1>1. dog[r].st = "recover" /\ UNCHANGED <<child, sup, mail, calls>> /\ (UNCHANGED anchor \/ (MayRecover /\ anchor' = CapsuleGone))
  BY DEF DogRecovers, Recover
<1>2. /\ sup[r] \in Supervisors /\ sup = [sup EXCEPT ![r] = sup[r]] /\ dog[r] \in Watchdogs /\ dog \in [CustodyRuns -> Watchdogs]
      /\ mail[r] \in Seq(Messages) /\ mail = [mail EXCEPT ![r] = mail[r]]
      /\ child[r] \in Children /\ child = [child EXCEPT ![r] = child[r]]
      /\ anchor \in Anchors /\ calls \in SUBSET (CustodyRuns \X Ordinals) /\ Ledgered(anchor, calls) /\ r # Unowned
      /\ Talks(child[r], sup[r], dog[r], mail[r]) /\ Holding(r, child[r], sup[r], anchor)
  BY RunRow
<1>3. d \in Watchdogs /\ dog' = [dog EXCEPT ![r] = d] /\ d.st = "exited" /\ d.active = dog[r].active
  BY <1>2 DEF DogRecovers, Watchdogs
<1> HIDE DEF d
<1>4. ~Guards(child[r], dog[r]) /\ child[r].st # "off"
  BY <1>1, <1>2 DEF Guards, Talks
<1> HIDE DEF Guards
<1>5. Talks(child[r], sup[r], d, mail[r])
  BY <1>2, <1>3, <1>4 DEF Talks
<1>6. CapsuleGone \in Anchors /\ CapsuleGone.capsule = Unowned /\ CapsuleGone.spent = anchor.spent /\ CapsuleGone.ledger = anchor.ledger
  BY <1>2 DEF CapsuleGone, Anchors
<1>7. anchor' \in Anchors /\ anchor'.spent = anchor.spent /\ anchor'.ledger = anchor.ledger
  BY <1>1, <1>2, <1>6
<1>8. ConsumedAt(anchor') = ConsumedAt(anchor) /\ \A t, k : OnLedger(anchor', t, k) <=> OnLedger(anchor, t, k)
  BY <1>7, SameLedger
<1>9. Ledgered(anchor', calls)
  BY <1>2, <1>7, <1>8 DEF Ledgered
<1>10. Holding(r, child[r], sup[r], anchor')
  <2>1. CASE UNCHANGED anchor
    BY <1>2, <2>1
  <2>2. CASE MayRecover /\ anchor' = CapsuleGone
    <3>1. child[r].st \notin {"made", "owned"} \cup Using
      BY <1>2, <2>2 DEF Holding, MayRecover, Building, Using, Exchanging
    <3> QED
      BY <1>2, <1>6, <1>8, <2>2, <3>1 DEF Holding
  <2> QED
    BY <1>1, <2>1, <2>2
<1> QED
  BY <1>1, <1>2, <1>3, <1>5, <1>7, <1>9, <1>10, RunStepKept

\* The watchdog dies.
LEMMA DogDiesKept ==
  ASSUME CustodyKept, NEW r \in CustodyRuns, DogDies(r)
  PROVE  CustodyKept'
<1> DEFINE d == [dog[r] EXCEPT !.st = "dead"]
<1>1. dog[r].st # "off" /\ UNCHANGED <<anchor, child, sup, mail, calls>>
  BY DEF DogDies
<1>2. /\ sup[r] \in Supervisors /\ sup = [sup EXCEPT ![r] = sup[r]] /\ dog[r] \in Watchdogs /\ dog \in [CustodyRuns -> Watchdogs]
      /\ mail[r] \in Seq(Messages) /\ mail = [mail EXCEPT ![r] = mail[r]]
      /\ child[r] \in Children /\ child = [child EXCEPT ![r] = child[r]]
      /\ Talks(child[r], sup[r], dog[r], mail[r])
  BY RunRow
<1>3. d \in Watchdogs /\ dog' = [dog EXCEPT ![r] = d] /\ d.st = "dead" /\ d.active = dog[r].active
  BY <1>2 DEF DogDies, Watchdogs
<1> HIDE DEF d
<1>4. Talks(child[r], sup[r], d, mail[r])
  BY <1>1, <1>2, <1>3 DEF Talks, Guards
<1> QED
  BY <1>1, <1>2, <1>3, <1>4, SupervisionKept

\* Every step of the owner, the data processes, their supervisors and their watchdogs.
LEMMA CustodyStep ==
  ASSUME CustodyKept, CustodyNext
  PROVE  CustodyKept'
<1>1. CASE PrepareApproval \/ Expire \/ OwnerCleans
  BY <1>1, OwnerStepsKept
<1>2. ASSUME NEW r \in CustodyRuns,
             Start(r) \/ CheckApproval(r) \/ Spend(r) \/ Build(r) \/ BuildFails(r) \/ BeginLogical(r)
      PROVE  CustodyKept'
  BY <1>2, StartKept, CheckApprovalKept, SpendKept, BuildKept, BuildFailsKept, BeginLogicalKept
<1>3. ASSUME NEW r \in CustodyRuns,
             ReserveAttempt(r) \/ StartWire(r) \/ Call(r) \/ Answer(r) \/ Settle(r) \/ FinishRun(r) \/ Destroy(r) \/ ChildDies(r)
      PROVE  CustodyKept'
  BY <1>3, ReserveAttemptKept, StartWireKept, CallKept, AnswerKept, SettleKept, FinishRunKept, BuildFailsKept, ChildDiesKept
<1>4. ASSUME NEW r \in CustodyRuns,
             \/ Hear(r) \/ Grant(r) \/ Stop(r) \/ Join(r) \/ CleanUp(r) \/ Report(r) \/ SupervisorDies(r)
             \/ Fire(r) \/ DogRecovers(r) \/ DogDies(r)
      PROVE  CustodyKept'
  BY <1>4, HearKept, GrantKept, StopKept, JoinKept, CleanUpKept, ReportKept, SupervisorDiesKept, FireKept, DogRecoversKept, DogDiesKept
<1> QED
  BY <1>1, <1>2, <1>3, <1>4 DEF CustodyNext

-----------------------------------------------------------------------------
(* The credit pilot.                                                       *)

Providers == {"none", "running", "ended"}

\* What the row of a stage says: what was released, reserved and admitted, in
\* this order, and what stopped it.
RowTrue(n, s, r) ==
    /\ n < s => r = NoLineage
    /\ r.admitted => r.reserved
    /\ r.reserved => r.released
    /\ r.st \in {"none", "authorized", "prepared", "supervising"} => ~r.released
    /\ r.st = "released" => r.released /\ ~r.reserved
    /\ r.st = "reserved" => r.reserved /\ ~r.admitted
    /\ r.st = "admitted" => r.admitted
    /\ r.reserved /\ r.st # "stopped" => r.uncertain
    /\ r.st # "stopped" => r.cause = "none"
    /\ s > 1 /\ r.st \in {"none", "authorized", "prepared"} => r.by = Nobody
    /\ s > 1 /\ r.by # Nobody => r.cause \notin {"preflight", "restart"}

\* The row of a stage, its company, the provider and what was sent.
StageTrue(n, s, r, c, w, k) ==
    /\ RowTrue(n, s, r)
    /\ c.pilot # "none" => n >= s
    /\ k <= 1 /\ (k > 0 => r.admitted)
    /\ w = "none" <=> k = 0
    /\ w = "running" => r.uncertain /\ c.inv # "settled"
    /\ r.admitted => c.inv \notin {"none", "reserved"}
    /\ c.exec # "none" => r.reserved
    /\ c.exec = "completed" => r.admitted /\ w = "ended"
    /\ c.pilot \in {"released", "running"} => r.released
    /\ n > s => r.st = "stopped" /\ ~r.uncertain /\ r.admitted /\ w = "ended"

\* What a command that works on a stage relies on.
CommandTrue(p, m, n, r, c, k) ==
    /\ m.at # "idle" \/ m.run # "none" => n >= m.stage
    /\ m.run # "none" => r.reserved
    /\ m.run = "sending" => r.admitted /\ r.uncertain /\ k = 0 /\ c.inv # "settled"
    /\ m.at = "supervising" /\ m.stage > 1 => r.by = p /\ r.st \in {"supervising", "stopped"}

\* Two commands never run a turn of the same stage.
OneRunner(cmd) ==
    \A p, q \in Commands : cmd[p].run # "none" /\ cmd[q].run # "none" /\ cmd[p].stage = cmd[q].stage => p = q

PilotKept ==
    /\ PilotTypeOK
    /\ \A s \in Stages : StageTrue(schema, s, lineage[s], successor[s], provider[s], sends[s])
    /\ \A p \in Commands : LET s == command[p].stage
                           IN  CommandTrue(p, command[p], schema, lineage[s], successor[s], sends[s])
    /\ OneRunner(command)

\* The initial state keeps the invariant.
LEMMA PilotInitKept == PilotInit => PilotKept
  BY PilotAssumption DEF PilotInit, PilotKept, PilotTypeOK, Stages, Lineages, Successors, PilotCommands, NoLineage,
     StageTrue, RowTrue, CommandTrue, OneRunner

\* The rows of a stage, and what the invariant says of it and of its commands.
StageNow(s) ==
    /\ lineage[s] \in Lineages /\ lineage = [lineage EXCEPT ![s] = lineage[s]]
    /\ successor[s] \in Successors /\ successor = [successor EXCEPT ![s] = successor[s]]
    /\ provider[s] \in Providers /\ provider = [provider EXCEPT ![s] = provider[s]]
    /\ sends[s] \in Nat /\ sends = [sends EXCEPT ![s] = sends[s]]
    /\ schema \in 0..3 /\ s \in 1..3 /\ command \in [Commands -> PilotCommands] /\ OneRunner(command)
    /\ StageTrue(schema, s, lineage[s], successor[s], provider[s], sends[s])
    /\ \A q \in Commands : command[q].stage = s => CommandTrue(q, command[q], schema, lineage[s], successor[s], sends[s])

LEMMA StageRow ==
  ASSUME PilotKept, NEW s \in Stages
  PROVE  StageNow(s)
<1>1. PilotTypeOK
  BY DEF PilotKept
<1>2. \A q \in Commands : command[q].stage = s => CommandTrue(q, command[q], schema, lineage[s], successor[s], sends[s])
  BY DEF PilotKept
<1>3. StageTrue(schema, s, lineage[s], successor[s], provider[s], sends[s]) /\ OneRunner(command)
  BY DEF PilotKept
<1> QED
  BY <1>1, <1>2, <1>3 DEF PilotTypeOK, Providers, StageNow, Stages

\* A step gives one stage a row, a company and a provider that agree.
StageMoves(s, r, c, w, k) ==
    /\ s \in Stages /\ r \in Lineages /\ c \in Successors /\ w \in Providers /\ k \in Nat
    /\ schema' = schema /\ lineage' = [lineage EXCEPT ![s] = r] /\ successor' = [successor EXCEPT ![s] = c]
    /\ provider' = [provider EXCEPT ![s] = w] /\ sends' = [sends EXCEPT ![s] = k]
    /\ StageTrue(schema, s, r, c, w, k)

\* It keeps what the commands on the stage rely on, and no other command begins.
CommandsMove(s, r, c, k) ==
    /\ command' \in [Commands -> PilotCommands] /\ OneRunner(command')
    /\ \A q \in Commands :
          IF command'[q].stage = s THEN CommandTrue(q, command'[q], schema, r, c, k)
          ELSE command'[q] = command[q] \/ (command'[q].at = "idle" /\ command'[q].run = "none")

\* Then it keeps the invariant.
LEMMA StageSteps ==
  ASSUME PilotKept, NEW s, NEW r, NEW c, NEW w, NEW k, StageMoves(s, r, c, w, k), CommandsMove(s, r, c, k)
  PROVE  PilotKept'
<1>1. PilotTypeOK' /\ OneRunner(command')
  BY DEF PilotKept, PilotTypeOK, Providers, StageMoves, CommandsMove
<1>2. ASSUME NEW u \in Stages
      PROVE  StageTrue(schema', u, lineage'[u], successor'[u], provider'[u], sends'[u])
  BY DEF PilotKept, PilotTypeOK, StageMoves
<1>3. ASSUME NEW q \in Commands
      PROVE  CommandTrue(q, command'[q], schema', lineage'[command'[q].stage], successor'[command'[q].stage], sends'[command'[q].stage])
  <2>1. command'[q].stage \in Stages /\ command[q] \in PilotCommands /\ PilotTypeOK
    BY DEF PilotCommands, PilotKept, PilotTypeOK, CommandsMove
  <2>2. CASE command'[q].stage = s
    BY <2>1, <2>2 DEF PilotTypeOK, StageMoves, CommandsMove
  <2>3. CASE command'[q].stage # s
    <3>4. command'[q] = command[q] \/ (command'[q].at = "idle" /\ command'[q].run = "none")
      BY <2>3 DEF CommandsMove
    <3>1. lineage'[command'[q].stage] = lineage[command'[q].stage] /\ successor'[command'[q].stage] = successor[command'[q].stage]
          /\ sends'[command'[q].stage] = sends[command'[q].stage] /\ schema' = schema
      BY <2>1, <2>3 DEF PilotTypeOK, StageMoves
    <3>2. CASE command'[q] = command[q]
      BY <3>1, <3>2 DEF PilotKept
    <3>3. CASE command'[q].at = "idle" /\ command'[q].run = "none"
      BY <3>3 DEF CommandTrue
    <3> QED
      BY <3>4, <3>2, <3>3
  <2> QED
    BY <2>2, <2>3
<1> QED
  BY <1>1, <1>2, <1>3 DEF PilotKept

\* One command moves, and the others on the stage still can.
CommandMoves(p, s, m, r, c, k) ==
    /\ p \in Commands /\ m \in PilotCommands /\ command' = [command EXCEPT ![p] = m]
    /\ \/ m.stage = s /\ CommandTrue(p, m, schema, r, c, k)
       \/ m.at = "idle" /\ m.run = "none"
    /\ m.run # "none" => \A q \in Commands \ {p} : command[q].stage = s => command[q].run = "none"
    /\ \A q \in Commands \ {p} : command[q].stage = s => CommandTrue(q, command[q], schema, r, c, k)

LEMMA CommandSteps ==
  ASSUME PilotKept, NEW s, NEW r, NEW c, NEW w, NEW k, StageMoves(s, r, c, w, k),
         NEW p, NEW m, CommandMoves(p, s, m, r, c, k)
  PROVE  PilotKept'
<1>1. command \in [Commands -> PilotCommands] /\ OneRunner(command)
  BY StageRow DEF StageMoves, StageNow
<1>2. command' \in [Commands -> PilotCommands] /\ command'[p] = m /\ \A q \in Commands \ {p} : command'[q] = command[q]
  BY <1>1 DEF CommandMoves
<1>3. OneRunner(command')
  BY <1>1, <1>2 DEF OneRunner, CommandMoves
<1>4. m.at = "idle" /\ m.run = "none" => CommandTrue(p, m, schema, r, c, k)
  BY DEF CommandTrue
<1>5. \A q \in Commands : command'[q].stage = s => CommandTrue(q, command'[q], schema, r, c, k)
  BY <1>2, <1>4 DEF CommandMoves
<1>6. \A q \in Commands : command'[q].stage # s => command'[q] = command[q] \/ (command'[q].at = "idle" /\ command'[q].run = "none")
  <2>1. m.stage # s => m.at = "idle" /\ m.run = "none"
    BY DEF CommandMoves
  <2> QED
    BY <1>2, <2>1 DEF CommandMoves
<1>7. command' \in [Commands -> PilotCommands]
  BY <1>2
<1>8. CommandsMove(s, r, c, k)
  BY <1>3, <1>5, <1>6, <1>7 DEF CommandsMove
<1> QED
  BY <1>8, StageSteps

\* The same, when no command moves.
LEMMA CommandsRest ==
  ASSUME PilotKept, NEW s, NEW r, NEW c, NEW w, NEW k, StageMoves(s, r, c, w, k), command' = command,
         \A q \in Commands : command[q].stage = s => CommandTrue(q, command[q], schema, r, c, k)
  PROVE  PilotKept'
<1>1. command \in [Commands -> PilotCommands] /\ OneRunner(command)
  BY StageRow DEF StageMoves, StageNow
<1>2. CommandsMove(s, r, c, k)
  BY <1>1 DEF CommandsMove
<1> QED
  BY <1>2, StageSteps

\* A stop keeps what a row says was done.
LEMMA ShutRow ==
  ASSUME NEW r \in Lineages, NEW cause \in {"owner", "finished", "attempt", "preflight", "preparation", "restart"}
  PROVE  /\ Shut(r, cause) \in Lineages /\ Shut(r, cause).st = "stopped"
         /\ Shut(r, cause).account = r.account /\ Shut(r, cause).released = r.released /\ Shut(r, cause).reserved = r.reserved
         /\ Shut(r, cause).admitted = r.admitted /\ Shut(r, cause).uncertain = r.uncertain /\ Shut(r, cause).settled = r.settled
         /\ Shut(r, cause).by = r.by /\ Shut(r, cause).cause \in {r.cause, cause}
         /\ r.st = "stopped" => Shut(r, cause) = r
<1>1. CASE r.st = "stopped"
  BY <1>1 DEF Shut
<1>2. CASE r.st # "stopped"
  <2> DEFINE u == [r EXCEPT !.st = "stopped", !.cause = cause]
  <2>1. Shut(r, cause) = u
    BY <1>2 DEF Shut
  <2>2. /\ u \in Lineages /\ u.st = "stopped" /\ u.cause = cause
        /\ u.account = r.account /\ u.released = r.released /\ u.reserved = r.reserved
        /\ u.admitted = r.admitted /\ u.uncertain = r.uncertain /\ u.settled = r.settled /\ u.by = r.by
    BY DEF Lineages
  <2> HIDE DEF u
  <2> QED
    BY <1>2, <2>1, <2>2
<1> QED
  BY <1>1, <1>2

\* The owner authorizes a stage that is known to have settled the one before it.
LEMMA OpensKept ==
  ASSUME PilotKept, NEW s \in Stages, Opens(s), s > 1 => Concluded(s - 1)
  PROVE  PilotKept'
<1>1. StageNow(s) /\ schema = s - 1 /\ s \in 1..3 /\ PilotTypeOK
  BY StageRow DEF Opens, Stages, PilotKept
<1> DEFINE r == [lineage[s] EXCEPT !.st = "authorized"]
<1>2. schema' = s /\ lineage' = [lineage EXCEPT ![s] = r] /\ UNCHANGED <<successor, command, provider, sends>>
  BY DEF Opens
<1>3. r \in Lineages /\ StageTrue(s, s, r, successor[s], provider[s], sends[s])
  BY <1>1 DEF StageNow, StageTrue, RowTrue, Lineages, NoLineage
<1> HIDE DEF r
<1>4. ASSUME NEW u \in Stages
      PROVE  StageTrue(schema', u, lineage'[u], successor'[u], provider'[u], sends'[u])
  <2>1. CASE u = s
    BY <1>1, <1>2, <1>3, <2>1 DEF StageNow, PilotTypeOK
  <2>2. CASE u # s
    <3>1. StageNow(u) /\ lineage'[u] = lineage[u]
      BY <1>1, <1>2, <2>2, StageRow DEF PilotTypeOK
    <3>2. StageTrue(s, u, lineage[u], successor[u], provider[u], sends[u])
      <4>1. CASE u = s - 1
        BY <1>1, <3>1, <4>1 DEF StageNow, StageTrue, RowTrue, Concluded, Lineages, Successors, Stages
      <4>2. CASE u # s - 1
        BY <1>1, <2>2, <3>1, <4>2 DEF StageNow, StageTrue, RowTrue, Stages
      <4> QED
        BY <4>1, <4>2
    <3> QED
      BY <1>2, <3>1, <3>2
  <2> QED
    BY <2>1, <2>2
<1>5. ASSUME NEW q \in Commands
      PROVE  CommandTrue(q, command[q], s, lineage'[command[q].stage], successor[command[q].stage], sends[command[q].stage])
  <2> DEFINE u == command[q].stage
  <2>1. u \in Stages /\ u \in 1..3 /\ CommandTrue(q, command[q], schema, lineage[u], successor[u], sends[u])
    BY <1>1 DEF PilotTypeOK, PilotCommands, Stages, PilotKept
  <2> HIDE DEF u
  <2>2. CASE u = s
    BY <1>1, <2>1, <2>2 DEF CommandTrue, u
  <2>3. CASE u # s
    <3>1. lineage'[u] = lineage[u]
      BY <1>1, <1>2, <2>1, <2>3 DEF PilotTypeOK
    <3> QED
      BY <1>1, <2>1, <3>1 DEF CommandTrue, u
  <2> QED
    BY <2>2, <2>3 DEF u
<1>6. PilotTypeOK'
  BY <1>1, <1>2, <1>3 DEF PilotTypeOK, Stages
<1> QED
  BY <1>2, <1>4, <1>5, <1>6 DEF PilotKept

LEMMA RegisterKept ==
  ASSUME PilotKept, Register \/ AuthorizeMaya \/ AuthorizeFinal
  PROVE  PilotKept'
  BY OpensKept DEF Register, AuthorizeMaya, AuthorizeFinal, ConcludedAtlas, ConcludedMaya, Stages

\* A stage is prepared.
LEMMA PrepareKept ==
  ASSUME PilotKept, NEW p \in Commands, NEW s \in Stages, Prepare(p, s)
  PROVE  PilotKept'
<1>1. StageNow(s) /\ command[p] \in PilotCommands
  BY StageRow DEF StageNow
<1> DEFINE r == [lineage[s] EXCEPT !.st = "prepared"]
           c == [successor[s] EXCEPT !.pilot = "held"]
           m == [at |-> "preparing", stage |-> s, run |-> "none"]
<1>2. r \in Lineages /\ c \in Successors /\ lineage' = [lineage EXCEPT ![s] = r] /\ successor' = [successor EXCEPT ![s] = c]
  BY <1>1 DEF StageNow, Prepare, Idle, Begins, Lineages, Successors
<1>3. StageTrue(schema, s, r, c, provider[s], sends[s])
  BY <1>1 DEF StageNow, Prepare, Idle, Begins, StageTrue, RowTrue, NoLineage, Lineages, Successors, Providers, CommandTrue
<1>4. m \in PilotCommands /\ command' = [command EXCEPT ![p] = m]
  BY <1>1 DEF Prepare, Idle, Begins, PilotCommands, Stages
<1>5. \/ m.stage = s /\ CommandTrue(p, m, schema, r, c, sends[s])
      \/ m.at = "idle" /\ m.run = "none"
  BY <1>1 DEF StageNow, Prepare, Idle, Begins, CommandTrue, PilotCommands, Lineages, Successors, StageTrue, RowTrue, NoLineage
<1>6. m.run # "none" => \A q \in Commands \ {p} : command[q].stage = s => command[q].run = "none"
  BY <1>1 DEF StageNow, Prepare, Idle, Begins, PilotCommands, OneRunner, CommandTrue
<1>7. \A q \in Commands \ {p} : command[q].stage = s => CommandTrue(q, command[q], schema, r, c, sends[s])
  BY <1>1, PilotAssumption DEF StageNow, Prepare, Idle, Begins, CommandTrue, PilotCommands, OneRunner, StageTrue, RowTrue, Lineages, Successors, Providers
<1> HIDE DEF r, c, m
<1>8. StageMoves(s, r, c, provider[s], sends[s])
  BY <1>1, <1>2, <1>3 DEF StageNow, StageMoves, Prepare, Stages
<1>9. CommandMoves(p, s, m, r, c, sends[s])
  BY <1>4, <1>5, <1>6, <1>7 DEF CommandMoves
<1> QED
  BY <1>8, <1>9, CommandSteps

\* The preparation ends, or stops the stage.
LEMMA PrepareEndsKept ==
  ASSUME PilotKept, NEW p \in Commands, NEW s \in Stages, NEW ok \in BOOLEAN, PrepareEnds(p, s, ok)
  PROVE  PilotKept'
<1>1. StageNow(s) /\ command[p] \in PilotCommands
  BY StageRow DEF StageNow
<1> DEFINE r == IF ok THEN lineage[s] ELSE Shut(lineage[s], "preparation")
           c == successor[s]
           m == [command[p] EXCEPT !.at = "idle"]
<1>2. r \in Lineages /\ c \in Successors /\ lineage' = [lineage EXCEPT ![s] = r] /\ successor' = [successor EXCEPT ![s] = c]
  <2>1. r \in Lineages /\ c \in Successors
    BY <1>1, ShutRow DEF StageNow
  <2>2. lineage' = [lineage EXCEPT ![s] = r] /\ successor' = [successor EXCEPT ![s] = c]
    BY <1>1 DEF StageNow, PrepareEnds, Stopped
  <2> QED
    BY <2>1, <2>2
<1>3. StageTrue(schema, s, r, c, provider[s], sends[s])
  BY <1>1 DEF StageNow, PrepareEnds, On, Goes, Stopped, Shut, StageTrue, RowTrue, NoLineage, Lineages, Successors, Providers, CommandTrue
<1>4. m \in PilotCommands /\ command' = [command EXCEPT ![p] = m]
  BY <1>1 DEF PrepareEnds, On, Goes, Stopped, Shut, PilotCommands, Stages
<1>5. \/ m.stage = s /\ CommandTrue(p, m, schema, r, c, sends[s])
      \/ m.at = "idle" /\ m.run = "none"
  BY <1>1 DEF StageNow, PrepareEnds, On, Goes, Stopped, Shut, CommandTrue, PilotCommands, Lineages, Successors, StageTrue, RowTrue, NoLineage
<1>6. m.run # "none" => \A q \in Commands \ {p} : command[q].stage = s => command[q].run = "none"
  BY <1>1 DEF StageNow, PrepareEnds, On, Goes, Stopped, Shut, PilotCommands, OneRunner, CommandTrue
<1>7. \A q \in Commands \ {p} : command[q].stage = s => CommandTrue(q, command[q], schema, r, c, sends[s])
  BY <1>1, PilotAssumption DEF StageNow, PrepareEnds, On, Goes, Stopped, Shut, CommandTrue, PilotCommands, OneRunner, StageTrue, RowTrue, Lineages, Successors, Providers
<1> HIDE DEF r, c, m
<1>8. StageMoves(s, r, c, provider[s], sends[s])
  BY <1>1, <1>2, <1>3 DEF StageNow, StageMoves, PrepareEnds, Stages
<1>9. CommandMoves(p, s, m, r, c, sends[s])
  BY <1>4, <1>5, <1>6, <1>7 DEF CommandMoves
<1> QED
  BY <1>8, <1>9, CommandSteps

\* A preflight begins.
LEMMA PreflightKept ==
  ASSUME PilotKept, NEW p \in Commands, NEW s \in Stages, Preflight(p, s)
  PROVE  PilotKept'
<1>1. StageNow(s) /\ command[p] \in PilotCommands
  BY StageRow DEF StageNow
<1> DEFINE r == lineage[s]
           c == successor[s]
           m == [at |-> "preflight", stage |-> s, run |-> "none"]
<1>2. r \in Lineages /\ c \in Successors /\ lineage' = [lineage EXCEPT ![s] = r] /\ successor' = [successor EXCEPT ![s] = c]
  BY <1>1 DEF StageNow, Preflight, Idle, Begins, Lineages, Successors
<1>3. StageTrue(schema, s, r, c, provider[s], sends[s])
  BY <1>1 DEF StageNow, Preflight, Idle, Begins, StageTrue, RowTrue, NoLineage, Lineages, Successors, Providers, CommandTrue
<1>4. m \in PilotCommands /\ command' = [command EXCEPT ![p] = m]
  BY <1>1 DEF Preflight, Idle, Begins, PilotCommands, Stages
<1>5. \/ m.stage = s /\ CommandTrue(p, m, schema, r, c, sends[s])
      \/ m.at = "idle" /\ m.run = "none"
  BY <1>1 DEF StageNow, Preflight, Idle, Begins, CommandTrue, PilotCommands, Lineages, Successors, StageTrue, RowTrue, NoLineage
<1>6. m.run # "none" => \A q \in Commands \ {p} : command[q].stage = s => command[q].run = "none"
  BY <1>1 DEF StageNow, Preflight, Idle, Begins, PilotCommands, OneRunner, CommandTrue
<1>7. \A q \in Commands \ {p} : command[q].stage = s => CommandTrue(q, command[q], schema, r, c, sends[s])
  BY <1>1, PilotAssumption DEF StageNow, Preflight, Idle, Begins, CommandTrue, PilotCommands, OneRunner, StageTrue, RowTrue, Lineages, Successors, Providers
<1> HIDE DEF r, c, m
<1>8. StageMoves(s, r, c, provider[s], sends[s])
  BY <1>1, <1>2, <1>3 DEF StageNow, StageMoves, Preflight, Stages
<1>9. CommandMoves(p, s, m, r, c, sends[s])
  BY <1>4, <1>5, <1>6, <1>7 DEF CommandMoves
<1> QED
  BY <1>8, <1>9, CommandSteps

\* The account of a prepared stage is bound.
LEMMA BindAccountKept ==
  ASSUME PilotKept, NEW p \in Commands, NEW s \in Stages, BindAccount(p, s)
  PROVE  PilotKept'
<1>1. StageNow(s) /\ command[p] \in PilotCommands
  BY StageRow DEF StageNow
<1> DEFINE r == [lineage[s] EXCEPT !.account = TRUE]
           c == successor[s]
           m == [command[p] EXCEPT !.at = "idle"]
<1>2. r \in Lineages /\ c \in Successors /\ lineage' = [lineage EXCEPT ![s] = r] /\ successor' = [successor EXCEPT ![s] = c]
  BY <1>1 DEF StageNow, BindAccount, On, Goes, Lineages, Successors
<1>3. StageTrue(schema, s, r, c, provider[s], sends[s])
  BY <1>1 DEF StageNow, BindAccount, On, Goes, StageTrue, RowTrue, NoLineage, Lineages, Successors, Providers, CommandTrue
<1>4. m \in PilotCommands /\ command' = [command EXCEPT ![p] = m]
  BY <1>1 DEF BindAccount, On, Goes, PilotCommands, Stages
<1>5. \/ m.stage = s /\ CommandTrue(p, m, schema, r, c, sends[s])
      \/ m.at = "idle" /\ m.run = "none"
  BY <1>1 DEF StageNow, BindAccount, On, Goes, CommandTrue, PilotCommands, Lineages, Successors, StageTrue, RowTrue, NoLineage
<1>6. m.run # "none" => \A q \in Commands \ {p} : command[q].stage = s => command[q].run = "none"
  BY <1>1 DEF StageNow, BindAccount, On, Goes, PilotCommands, OneRunner, CommandTrue
<1>7. \A q \in Commands \ {p} : command[q].stage = s => CommandTrue(q, command[q], schema, r, c, sends[s])
  BY <1>1, PilotAssumption DEF StageNow, BindAccount, On, Goes, CommandTrue, PilotCommands, OneRunner, StageTrue, RowTrue, Lineages, Successors, Providers
<1> HIDE DEF r, c, m
<1>8. StageMoves(s, r, c, provider[s], sends[s])
  BY <1>1, <1>2, <1>3 DEF StageNow, StageMoves, BindAccount, Stages
<1>9. CommandMoves(p, s, m, r, c, sends[s])
  BY <1>4, <1>5, <1>6, <1>7 DEF CommandMoves
<1> QED
  BY <1>8, <1>9, CommandSteps

\* A preflight that fails stops only what no supervisor has claimed.
LEMMA PreflightFailsKept ==
  ASSUME PilotKept, NEW p \in Commands, NEW s \in Stages, NEW loc \in BOOLEAN, NEW rev \in BOOLEAN, PreflightFails(p, s, loc, rev)
  PROVE  PilotKept'
<1>1. StageNow(s) /\ command[p] \in PilotCommands
  BY StageRow DEF StageNow
<1> DEFINE r == IF (s = 1 /\ ~Frozen(s)) \/ (s # 1 /\ lineage[s].st = "prepared") THEN Shut(lineage[s], "preflight") ELSE lineage[s]
           c == [successor[s] EXCEPT !.pilot = IF loc THEN "stopped" ELSE @, !.scope = IF rev THEN "revoked" ELSE @]
           m == [command[p] EXCEPT !.at = "idle"]
<1>2. r \in Lineages /\ c \in Successors /\ lineage' = [lineage EXCEPT ![s] = r] /\ successor' = [successor EXCEPT ![s] = c]
  <2>1. r \in Lineages /\ c \in Successors
    BY <1>1, ShutRow DEF StageNow, Successors
  <2>2. lineage' = [lineage EXCEPT ![s] = r]
    BY <1>1 DEF StageNow, PreflightFails, Stopped
  <2>3. successor' = [successor EXCEPT ![s] = c]
    BY DEF PreflightFails, CompanyHalted
  <2> QED
    BY <2>1, <2>2, <2>3
<1>3. StageTrue(schema, s, r, c, provider[s], sends[s])
  BY <1>1 DEF StageNow, PreflightFails, On, Goes, Stopped, Shut, Frozen, CompanyHalted, StageTrue, RowTrue, NoLineage, Lineages, Successors, Providers, CommandTrue
<1>4. m \in PilotCommands /\ command' = [command EXCEPT ![p] = m]
  BY <1>1 DEF PreflightFails, On, Goes, Stopped, Shut, Frozen, CompanyHalted, PilotCommands, Stages
<1>5. \/ m.stage = s /\ CommandTrue(p, m, schema, r, c, sends[s])
      \/ m.at = "idle" /\ m.run = "none"
  BY <1>1 DEF StageNow, PreflightFails, On, Goes, Stopped, Shut, Frozen, CompanyHalted, CommandTrue, PilotCommands, Lineages, Successors, StageTrue, RowTrue, NoLineage
<1>6. m.run # "none" => \A q \in Commands \ {p} : command[q].stage = s => command[q].run = "none"
  BY <1>1 DEF StageNow, PreflightFails, On, Goes, Stopped, Shut, Frozen, CompanyHalted, PilotCommands, OneRunner, CommandTrue
<1>7. \A q \in Commands \ {p} : command[q].stage = s => CommandTrue(q, command[q], schema, r, c, sends[s])
  BY <1>1, PilotAssumption DEF StageNow, PreflightFails, On, Goes, Stopped, Shut, Frozen, CompanyHalted, CommandTrue, PilotCommands, OneRunner, StageTrue, RowTrue, Lineages, Successors, Providers
<1> HIDE DEF r, c, m
<1>8. StageMoves(s, r, c, provider[s], sends[s])
  BY <1>1, <1>2, <1>3 DEF StageNow, StageMoves, PreflightFails, Stages
<1>9. CommandMoves(p, s, m, r, c, sends[s])
  BY <1>4, <1>5, <1>6, <1>7 DEF CommandMoves
<1> QED
  BY <1>8, <1>9, CommandSteps

\* A later stage is claimed before it is supervised.
LEMMA SuperviseKept ==
  ASSUME PilotKept, NEW p \in Commands, NEW s \in Stages, Supervise(p, s)
  PROVE  PilotKept'
<1>1. StageNow(s) /\ command[p] \in PilotCommands
  BY StageRow DEF StageNow
<1> DEFINE r == IF s = 1 THEN lineage[s] ELSE [lineage[s] EXCEPT !.st = "supervising", !.by = p]
           c == successor[s]
           m == [at |-> "supervising", stage |-> s, run |-> "none"]
<1>2. r \in Lineages /\ c \in Successors /\ lineage' = [lineage EXCEPT ![s] = r] /\ successor' = [successor EXCEPT ![s] = c]
  <2>1. lineage[s] \in Lineages /\ successor[s] \in Successors /\ lineage = [lineage EXCEPT ![s] = lineage[s]] /\ successor = [successor EXCEPT ![s] = c]
    BY <1>1 DEF StageNow
  <2>2. r \in Lineages
    <3>1. [lineage[s] EXCEPT !.st = "supervising", !.by = p] \in Lineages
      BY <2>1 DEF Lineages
    <3> QED
      BY <2>1, <3>1
  <2>3. lineage' = [lineage EXCEPT ![s] = r] /\ successor' = successor
    BY <2>1 DEF Supervise
  <2> QED
    BY <2>1, <2>2, <2>3
<1>3. StageTrue(schema, s, r, c, provider[s], sends[s])
  BY <1>1 DEF StageNow, Supervise, Idle, Begins, StageTrue, RowTrue, NoLineage, Lineages, Successors, Providers, CommandTrue
<1>4. m \in PilotCommands /\ command' = [command EXCEPT ![p] = m]
  BY <1>1 DEF Supervise, Idle, Begins, PilotCommands, Stages
<1>5. \/ m.stage = s /\ CommandTrue(p, m, schema, r, c, sends[s])
      \/ m.at = "idle" /\ m.run = "none"
  BY <1>1 DEF StageNow, Supervise, Idle, Begins, CommandTrue, PilotCommands, Lineages, Successors, StageTrue, RowTrue, NoLineage
<1>6. m.run # "none" => \A q \in Commands \ {p} : command[q].stage = s => command[q].run = "none"
  BY <1>1 DEF StageNow, Supervise, Idle, Begins, PilotCommands, OneRunner, CommandTrue
<1>7. \A q \in Commands \ {p} : command[q].stage = s => CommandTrue(q, command[q], schema, r, c, sends[s])
  BY <1>1, PilotAssumption DEF StageNow, Supervise, Idle, Begins, CommandTrue, PilotCommands, OneRunner, StageTrue, RowTrue, Lineages, Successors, Providers
<1> HIDE DEF r, c, m
<1>8. StageMoves(s, r, c, provider[s], sends[s])
  BY <1>1, <1>2, <1>3 DEF StageNow, StageMoves, Supervise, Stages
<1>9. CommandMoves(p, s, m, r, c, sends[s])
  BY <1>4, <1>5, <1>6, <1>7 DEF CommandMoves
<1> QED
  BY <1>8, <1>9, CommandSteps

\* A supervision that fails leaves the stage as it is.
LEMMA SupervisionFailsKept ==
  ASSUME PilotKept, NEW p \in Commands, NEW s \in Stages, SupervisionFails(p, s)
  PROVE  PilotKept'
<1>1. StageNow(s) /\ command[p] \in PilotCommands
  BY StageRow DEF StageNow
<1> DEFINE r == lineage[s]
           c == successor[s]
           m == [command[p] EXCEPT !.at = "stopping"]
<1>2. r \in Lineages /\ c \in Successors /\ lineage' = [lineage EXCEPT ![s] = r] /\ successor' = [successor EXCEPT ![s] = c]
  BY <1>1 DEF StageNow, SupervisionFails, On, Goes, Lineages, Successors
<1>3. StageTrue(schema, s, r, c, provider[s], sends[s])
  BY <1>1 DEF StageNow, SupervisionFails, On, Goes, StageTrue, RowTrue, NoLineage, Lineages, Successors, Providers, CommandTrue
<1>4. m \in PilotCommands /\ command' = [command EXCEPT ![p] = m]
  BY <1>1 DEF SupervisionFails, On, Goes, PilotCommands, Stages, StageNow
<1>5. \/ m.stage = s /\ CommandTrue(p, m, schema, r, c, sends[s])
      \/ m.at = "idle" /\ m.run = "none"
  BY <1>1, <1>3 DEF StageNow, SupervisionFails, On, Goes, CommandTrue, PilotCommands, Lineages, Successors, StageTrue, RowTrue, NoLineage
<1>6. m.run # "none" => \A q \in Commands \ {p} : command[q].stage = s => command[q].run = "none"
  BY <1>1 DEF StageNow, SupervisionFails, On, Goes, PilotCommands, OneRunner, CommandTrue, StageTrue, RowTrue
<1>7. \A q \in Commands \ {p} : command[q].stage = s => CommandTrue(q, command[q], schema, r, c, sends[s])
  BY <1>1, PilotAssumption DEF StageNow, SupervisionFails, On, Goes, CommandTrue, PilotCommands, OneRunner, StageTrue, RowTrue, Lineages, Successors, Providers
<1> HIDE DEF r, c, m
<1>8. StageMoves(s, r, c, provider[s], sends[s])
  BY <1>1, <1>2, <1>3 DEF StageMoves, StageNow, SupervisionFails, Stages, Providers
<1>9. CommandMoves(p, s, m, r, c, sends[s])
  BY <1>4, <1>5, <1>6, <1>7 DEF CommandMoves
<1> QED
  BY <1>8, <1>9, CommandSteps

\* Recovery stops what was cut short, and never what this command claimed.
LEMMA RecoverPilotKept ==
  ASSUME PilotKept, NEW p \in Commands, NEW s \in Stages, NEW reach \in 1..4, RecoverPilot(p, s, reach)
  PROVE  PilotKept'
<1>1. StageNow(s) /\ command[p] \in PilotCommands
  BY StageRow DEF StageNow
<1> DEFINE r == IF Interrupts(p, s) THEN Shut(lineage[s], "restart") ELSE lineage[s]
           c == [successor[s] EXCEPT
                    !.pilot = IF reach >= 2
                              THEN IF r.st = "stopped" \/ @ = "running" THEN "stopped" ELSE IF @ = "released" THEN "held" ELSE @
                              ELSE @,
                    !.inv = IF reach >= 3 /\ @ \in {"reserved", "active"} THEN "unknown" ELSE @,
                    !.exec = IF reach = 4 /\ @ = "running" THEN "interrupted" ELSE @]
           m == [command[p] EXCEPT !.at = IF reach = 4 THEN "dispatching" ELSE "stopping"]
<1>2. r \in Lineages /\ c \in Successors /\ lineage' = [lineage EXCEPT ![s] = r] /\ successor' = [successor EXCEPT ![s] = c]
  <2>1. r \in Lineages /\ c \in Successors
    <3> DEFINE a == IF reach >= 2
                    THEN IF r.st = "stopped" \/ successor[s].pilot = "running" THEN "stopped"
                         ELSE IF successor[s].pilot = "released" THEN "held" ELSE successor[s].pilot
                    ELSE successor[s].pilot
               b == IF reach >= 3 /\ successor[s].inv \in {"reserved", "active"} THEN "unknown" ELSE successor[s].inv
               d == IF reach = 4 /\ successor[s].exec = "running" THEN "interrupted" ELSE successor[s].exec
    <3>1. r \in Lineages
      BY <1>1, ShutRow DEF StageNow
    <3>2. /\ a \in {"none", "held", "released", "running", "stopped"}
          /\ b \in {"none", "reserved", "active", "settled", "unknown"}
          /\ d \in {"none", "running", "completed", "failed", "interrupted"}
      BY <1>1 DEF StageNow, Successors
    <3>3. c = [successor[s] EXCEPT !.pilot = a, !.inv = b, !.exec = d]
      OBVIOUS
    <3> HIDE DEF a, b, c, d
    <3>4. c \in Successors
      BY ZenonT(40), <1>1, <3>2, <3>3 DEF StageNow, Successors
    <3> QED
      BY <3>1, <3>4
  <2>2. lineage' = [lineage EXCEPT ![s] = r]
    BY <1>1 DEF StageNow, RecoverPilot, Interrupts, Owns, Stopped
  <2>3. successor' = [successor EXCEPT ![s] = c]
    BY <1>1 DEF StageNow, RecoverPilot, Interrupts, Owns, CompanyHalted
  <2> QED
    BY <2>1, <2>2, <2>3
<1>3. StageTrue(schema, s, r, c, provider[s], sends[s])
  BY <1>1 DEF StageNow, RecoverPilot, On, Goes, Interrupts, Owns, Shut, StageTrue, RowTrue, NoLineage, Lineages, Successors, Providers, CommandTrue
<1>4. m \in PilotCommands /\ command' = [command EXCEPT ![p] = m]
  BY <1>1 DEF RecoverPilot, On, Goes, Interrupts, Owns, Shut, PilotCommands, Stages, StageNow
<1>5. \/ m.stage = s /\ CommandTrue(p, m, schema, r, c, sends[s])
      \/ m.at = "idle" /\ m.run = "none"
  BY <1>1, <1>3 DEF StageNow, RecoverPilot, On, Goes, Interrupts, Owns, Shut, CommandTrue, PilotCommands, Lineages, Successors, StageTrue, RowTrue, NoLineage
<1>6. m.run # "none" => \A q \in Commands \ {p} : command[q].stage = s => command[q].run = "none"
  BY <1>1 DEF StageNow, RecoverPilot, On, Goes, Interrupts, Owns, Shut, PilotCommands, OneRunner, CommandTrue, StageTrue, RowTrue
<1>7. \A q \in Commands \ {p} : command[q].stage = s => CommandTrue(q, command[q], schema, r, c, sends[s])
  BY <1>1, PilotAssumption DEF StageNow, RecoverPilot, On, Goes, Interrupts, Owns, Shut, CommandTrue, PilotCommands, OneRunner, StageTrue, RowTrue, Lineages, Successors, Providers
<1> HIDE DEF r, c, m
<1>8. StageMoves(s, r, c, provider[s], sends[s])
  BY <1>1, <1>2, <1>3 DEF StageMoves, StageNow, RecoverPilot, Stages, Providers
<1>9. CommandMoves(p, s, m, r, c, sends[s])
  BY <1>4, <1>5, <1>6, <1>7 DEF CommandMoves
<1> QED
  BY <1>8, <1>9, CommandSteps

\* A stage is released once.
LEMMA ReleaseKept ==
  ASSUME PilotKept, NEW p \in Commands, NEW s \in Stages, NEW kept \in BOOLEAN, Release(p, s, kept)
  PROVE  PilotKept'
<1>1. StageNow(s) /\ command[p] \in PilotCommands
  BY StageRow DEF StageNow
<1> DEFINE r == [lineage[s] EXCEPT !.st = "released", !.released = TRUE]
           c == IF kept THEN [successor[s] EXCEPT !.pilot = "released"] ELSE successor[s]
           m == [command[p] EXCEPT !.at = IF kept THEN "polling" ELSE "stopping"]
<1>2. r \in Lineages /\ c \in Successors /\ lineage' = [lineage EXCEPT ![s] = r] /\ successor' = [successor EXCEPT ![s] = c]
  <2>1. r \in Lineages /\ c \in Successors
    <3>1. [lineage[s] EXCEPT !.st = "released", !.released = TRUE] \in Lineages
      BY <1>1 DEF StageNow, Lineages
    <3>2. [successor[s] EXCEPT !.pilot = "released"] \in Successors
      BY <1>1 DEF StageNow, Successors
    <3> QED
      BY <1>1, <3>1, <3>2, ShutRow DEF StageNow
  <2>2. lineage' = [lineage EXCEPT ![s] = r]
    BY <1>1 DEF StageNow, Release, On, Stopped
  <2>3. successor' = [successor EXCEPT ![s] = c]
    BY <1>1 DEF StageNow, Release, On, CompanyHalted
  <2> QED
    BY <2>1, <2>2, <2>3
<1>3. StageTrue(schema, s, r, c, provider[s], sends[s])
  BY <1>1 DEF StageNow, Release, On, Goes, Owns, StageTrue, RowTrue, NoLineage, Lineages, Successors, Providers, CommandTrue
<1>4. m \in PilotCommands /\ command' = [command EXCEPT ![p] = m]
  BY <1>1 DEF Release, On, Goes, Owns, PilotCommands, Stages, StageNow
<1>5. \/ m.stage = s /\ CommandTrue(p, m, schema, r, c, sends[s])
      \/ m.at = "idle" /\ m.run = "none"
  BY <1>1, <1>3 DEF StageNow, Release, On, Goes, Owns, CommandTrue, PilotCommands, Lineages, Successors, StageTrue, RowTrue, NoLineage
<1>6. m.run # "none" => \A q \in Commands \ {p} : command[q].stage = s => command[q].run = "none"
  BY <1>1 DEF StageNow, Release, On, Goes, Owns, PilotCommands, OneRunner, CommandTrue, StageTrue, RowTrue
<1>7. \A q \in Commands \ {p} : command[q].stage = s => CommandTrue(q, command[q], schema, r, c, sends[s])
  BY <1>1, PilotAssumption DEF StageNow, Release, On, Goes, Owns, CommandTrue, PilotCommands, OneRunner, StageTrue, RowTrue, Lineages, Successors, Providers
<1> HIDE DEF r, c, m
<1>8. StageMoves(s, r, c, provider[s], sends[s])
  BY <1>1, <1>2, <1>3 DEF StageMoves, StageNow, Release, Stages, Providers
<1>9. CommandMoves(p, s, m, r, c, sends[s])
  BY <1>4, <1>5, <1>6, <1>7 DEF CommandMoves
<1> QED
  BY <1>8, <1>9, CommandSteps

\* The reservation is spent before the company claims the request.
LEMMA ReserveKept ==
  ASSUME PilotKept, NEW p \in Commands, NEW s \in Stages, NEW kept \in BOOLEAN, Reserve(p, s, kept)
  PROVE  PilotKept'
<1>1. StageNow(s) /\ command[p] \in PilotCommands
  BY StageRow DEF StageNow
<1> DEFINE r == [lineage[s] EXCEPT !.st = "reserved", !.reserved = TRUE, !.uncertain = TRUE]
           c == IF kept THEN [successor[s] EXCEPT !.pilot = "running", !.exec = "running", !.inv = "reserved"] ELSE successor[s]
           m == IF kept THEN [command[p] EXCEPT !.run = "claimed"] ELSE command[p]
<1>2. r \in Lineages /\ c \in Successors /\ lineage' = [lineage EXCEPT ![s] = r] /\ successor' = [successor EXCEPT ![s] = c]
  <2>1. r \in Lineages /\ c \in Successors
    <3>1. [lineage[s] EXCEPT !.st = "reserved", !.reserved = TRUE, !.uncertain = TRUE] \in Lineages
      BY <1>1 DEF StageNow, Lineages
    <3>2. [successor[s] EXCEPT !.pilot = "running", !.exec = "running", !.inv = "reserved"] \in Successors
      BY <1>1 DEF StageNow, Successors
    <3> QED
      BY <1>1, <3>1, <3>2, ShutRow DEF StageNow
  <2>2. lineage' = [lineage EXCEPT ![s] = r]
    BY <1>1 DEF StageNow, Reserve, On, Stopped
  <2>3. successor' = [successor EXCEPT ![s] = c]
    BY ZenonT(40), <1>1 DEF StageNow, Reserve, On, CompanyHalted
  <2> QED
    BY <2>1, <2>2, <2>3
<1>3. StageTrue(schema, s, r, c, provider[s], sends[s])
  BY <1>1 DEF StageNow, Reserve, On, Goes, StageTrue, RowTrue, NoLineage, Lineages, Successors, Providers, CommandTrue
<1>4. m \in PilotCommands /\ command' = [command EXCEPT ![p] = m]
  BY <1>1 DEF Reserve, On, Goes, PilotCommands, Stages, StageNow
<1>5. \/ m.stage = s /\ CommandTrue(p, m, schema, r, c, sends[s])
      \/ m.at = "idle" /\ m.run = "none"
  BY <1>1, <1>3 DEF StageNow, Reserve, On, Goes, CommandTrue, PilotCommands, Lineages, Successors, StageTrue, RowTrue, NoLineage
<1>6. m.run # "none" => \A q \in Commands \ {p} : command[q].stage = s => command[q].run = "none"
  BY <1>1 DEF StageNow, Reserve, On, Goes, PilotCommands, OneRunner, CommandTrue, StageTrue, RowTrue
<1>7. \A q \in Commands \ {p} : command[q].stage = s => CommandTrue(q, command[q], schema, r, c, sends[s])
  BY <1>1, PilotAssumption DEF StageNow, Reserve, On, Goes, CommandTrue, PilotCommands, OneRunner, StageTrue, RowTrue, Lineages, Successors, Providers
<1> HIDE DEF r, c, m
<1>8. StageMoves(s, r, c, provider[s], sends[s])
  BY <1>1, <1>2, <1>3 DEF StageMoves, StageNow, Reserve, Stages, Providers
<1>9. CommandMoves(p, s, m, r, c, sends[s])
  BY <1>4, <1>5, <1>6, <1>7 DEF CommandMoves
<1> QED
  BY <1>8, <1>9, CommandSteps

\* The turn is admitted by the company, then by the lineage.
LEMMA AdmitKept ==
  ASSUME PilotKept, NEW p \in Commands, NEW s \in Stages, NEW ext \in BOOLEAN, Admit(p, s, ext)
  PROVE  PilotKept'
<1>1. StageNow(s) /\ command[p] \in PilotCommands
  BY StageRow DEF StageNow
<1> DEFINE r == IF ext THEN [lineage[s] EXCEPT !.st = "admitted", !.admitted = TRUE] ELSE lineage[s]
           c == [successor[s] EXCEPT !.inv = "active"]
           m == IF ext THEN [command[p] EXCEPT !.run = "sending"] ELSE command[p]
<1>2. r \in Lineages /\ c \in Successors /\ lineage' = [lineage EXCEPT ![s] = r] /\ successor' = [successor EXCEPT ![s] = c]
  <2>1. r \in Lineages /\ c \in Successors
    <3>1. [lineage[s] EXCEPT !.st = "admitted", !.admitted = TRUE] \in Lineages
      BY <1>1 DEF StageNow, Lineages
    <3>2. [successor[s] EXCEPT !.inv = "active"] \in Successors
      BY <1>1 DEF StageNow, Successors
    <3> QED
      BY <1>1, <3>1, <3>2, ShutRow DEF StageNow
  <2>2. lineage' = [lineage EXCEPT ![s] = r]
    BY ZenonT(40), <1>1 DEF StageNow, Admit, On, Stopped
  <2>3. successor' = [successor EXCEPT ![s] = c]
    BY <1>1 DEF StageNow, Admit, On, CompanyHalted
  <2> QED
    BY <2>1, <2>2, <2>3
<1>3. StageTrue(schema, s, r, c, provider[s], sends[s])
  BY <1>1 DEF StageNow, Admit, StageTrue, RowTrue, NoLineage, Lineages, Successors, Providers, CommandTrue
<1>4. m \in PilotCommands /\ command' = [command EXCEPT ![p] = m]
  BY <1>1 DEF Admit, PilotCommands, Stages, StageNow
<1>5. \/ m.stage = s /\ CommandTrue(p, m, schema, r, c, sends[s])
      \/ m.at = "idle" /\ m.run = "none"
  BY <1>1, <1>3 DEF StageNow, Admit, CommandTrue, PilotCommands, Lineages, Successors, StageTrue, RowTrue, NoLineage
<1>6. m.run # "none" => \A q \in Commands \ {p} : command[q].stage = s => command[q].run = "none"
  BY <1>1 DEF StageNow, Admit, PilotCommands, OneRunner, CommandTrue, StageTrue, RowTrue
<1>7. \A q \in Commands \ {p} : command[q].stage = s => CommandTrue(q, command[q], schema, r, c, sends[s])
  BY <1>1, PilotAssumption DEF StageNow, Admit, CommandTrue, PilotCommands, OneRunner, StageTrue, RowTrue, Lineages, Successors, Providers
<1> HIDE DEF r, c, m
<1>8. StageMoves(s, r, c, provider[s], sends[s])
  BY <1>1, <1>2, <1>3 DEF StageMoves, StageNow, Admit, Stages, Providers
<1>9. CommandMoves(p, s, m, r, c, sends[s])
  BY <1>4, <1>5, <1>6, <1>7 DEF CommandMoves
<1> QED
  BY <1>8, <1>9, CommandSteps

\* An admitted turn is sent, by the one command that runs it.
LEMMA SendKept ==
  ASSUME PilotKept, NEW p \in Commands, NEW s \in Stages, Send(p, s)
  PROVE  PilotKept'
<1>1. StageNow(s) /\ command[p] \in PilotCommands
  BY StageRow DEF StageNow
<1> DEFINE r == lineage[s]
           c == successor[s]
           m == [command[p] EXCEPT !.run = "turn"]
<1>2. r \in Lineages /\ c \in Successors /\ lineage' = [lineage EXCEPT ![s] = r] /\ successor' = [successor EXCEPT ![s] = c]
  BY <1>1 DEF StageNow, Send, Lineages, Successors
<1>3. StageTrue(schema, s, r, c, "running", sends[s] + 1)
  BY <1>1 DEF StageNow, Send, StageTrue, RowTrue, NoLineage, Lineages, Successors, Providers, CommandTrue
<1>4. m \in PilotCommands /\ command' = [command EXCEPT ![p] = m]
  BY <1>1 DEF Send, PilotCommands, Stages, StageNow
<1>5. \/ m.stage = s /\ CommandTrue(p, m, schema, r, c, sends[s] + 1)
      \/ m.at = "idle" /\ m.run = "none"
  BY <1>1, <1>3 DEF StageNow, Send, CommandTrue, PilotCommands, Lineages, Successors, StageTrue, RowTrue, NoLineage
<1>6. m.run # "none" => \A q \in Commands \ {p} : command[q].stage = s => command[q].run = "none"
  BY <1>1 DEF StageNow, Send, PilotCommands, OneRunner, CommandTrue, StageTrue, RowTrue
<1>7. \A q \in Commands \ {p} : command[q].stage = s => CommandTrue(q, command[q], schema, r, c, sends[s] + 1)
  BY <1>1, PilotAssumption DEF StageNow, Send, CommandTrue, PilotCommands, OneRunner, StageTrue, RowTrue, Lineages, Successors, Providers
<1> HIDE DEF r, c, m
<1>10. /\ sends[s] + 1 \in Nat /\ schema' = schema
       /\ provider' = [provider EXCEPT ![s] = "running"] /\ sends' = [sends EXCEPT ![s] = sends[s] + 1]
  BY <1>1 DEF StageNow, Send
<1>8. StageMoves(s, r, c, "running", sends[s] + 1)
  BY <1>1, <1>2, <1>3, <1>10 DEF StageMoves, Stages, Providers
<1>9. CommandMoves(p, s, m, r, c, sends[s] + 1)
  BY <1>4, <1>5, <1>6, <1>7 DEF CommandMoves
<1> QED
  BY <1>8, <1>9, CommandSteps

\* The execution ends, and what the lineage knows of it.
LEMMA FinishAttemptKept ==
  ASSUME PilotKept, NEW p \in Commands, NEW s \in Stages, NEW out \in {"completed", "failed", "interrupted"}, NEW settled \in BOOLEAN, NEW ext \in BOOLEAN, NEW kept \in BOOLEAN, FinishAttempt(p, s, out, settled, ext, kept)
  PROVE  PilotKept'
<1>1. StageNow(s) /\ command[p] \in PilotCommands
  BY StageRow DEF StageNow
<1> DEFINE r == LET row == IF lineage[s].st = "stopped" THEN lineage[s] ELSE [Shut(lineage[s], "attempt") EXCEPT !.uncertain = ~settled]
                IN  IF successor[s].exec = "running" /\ ext /\ ~Frozen(s) THEN [row EXCEPT !.settled = @ \/ settled] ELSE lineage[s]
           c == IF successor[s].exec = "running" /\ kept
                THEN [successor[s] EXCEPT !.exec = out, !.pilot = "stopped", !.inv = IF settled \/ @ = "reserved" THEN "settled" ELSE "unknown"]
                ELSE successor[s]
           m == [command[p] EXCEPT !.run = "none"]
<1>2. r \in Lineages /\ c \in Successors /\ lineage' = [lineage EXCEPT ![s] = r] /\ successor' = [successor EXCEPT ![s] = c]
  <2>1. r \in Lineages /\ c \in Successors
    <3>1. \A x \in Lineages, b \in BOOLEAN : [x EXCEPT !.uncertain = b] \in Lineages /\ [x EXCEPT !.settled = @ \/ b] \in Lineages
      BY <1>1 DEF StageNow, Lineages
    <3>2. [successor[s] EXCEPT !.exec = out, !.pilot = "stopped", !.inv = IF settled \/ @ = "reserved" THEN "settled" ELSE "unknown"] \in Successors
      BY <1>1 DEF StageNow, Successors
    <3> QED
      BY <1>1, <3>1, <3>2, ShutRow DEF StageNow
  <2>2. lineage' = [lineage EXCEPT ![s] = r]
    BY <1>1 DEF StageNow, FinishAttempt, Frozen, Stopped
  <2>3. successor' = [successor EXCEPT ![s] = c]
    BY <1>1 DEF StageNow, FinishAttempt, Frozen, CompanyHalted
  <2> QED
    BY <2>1, <2>2, <2>3
<1>3. StageTrue(schema, s, r, c, provider[s], sends[s])
  BY <1>1 DEF StageNow, FinishAttempt, Frozen, Shut, StageTrue, RowTrue, NoLineage, Lineages, Successors, Providers, CommandTrue
<1>4. m \in PilotCommands /\ command' = [command EXCEPT ![p] = m]
  BY <1>1 DEF FinishAttempt, Frozen, Shut, PilotCommands, Stages, StageNow
<1>5. \/ m.stage = s /\ CommandTrue(p, m, schema, r, c, sends[s])
      \/ m.at = "idle" /\ m.run = "none"
  BY <1>1, <1>3 DEF StageNow, FinishAttempt, Frozen, Shut, CommandTrue, PilotCommands, Lineages, Successors, StageTrue, RowTrue, NoLineage
<1>6. m.run # "none" => \A q \in Commands \ {p} : command[q].stage = s => command[q].run = "none"
  BY <1>1 DEF StageNow, FinishAttempt, Frozen, Shut, PilotCommands, OneRunner, CommandTrue, StageTrue, RowTrue
<1>7. \A q \in Commands \ {p} : command[q].stage = s => CommandTrue(q, command[q], schema, r, c, sends[s])
  BY <1>1, PilotAssumption DEF StageNow, FinishAttempt, Frozen, Shut, CommandTrue, PilotCommands, OneRunner, StageTrue, RowTrue, Lineages, Successors, Providers
<1> HIDE DEF r, c, m
<1>8. StageMoves(s, r, c, provider[s], sends[s])
  BY <1>1, <1>2, <1>3 DEF StageMoves, StageNow, FinishAttempt, Stages, Providers
<1>9. CommandMoves(p, s, m, r, c, sends[s])
  BY <1>4, <1>5, <1>6, <1>7 DEF CommandMoves
<1> QED
  BY <1>8, <1>9, CommandSteps

\* The supervisor sees the end of the turn, or gives it up.
LEMMA StopPollKept ==
  ASSUME PilotKept, NEW p \in Commands, NEW s \in Stages, NEW ext \in BOOLEAN, StopPoll(p, s, ext)
  PROVE  PilotKept'
<1>1. StageNow(s) /\ command[p] \in PilotCommands
  BY StageRow DEF StageNow
<1> DEFINE r == IF lineage' # lineage THEN Shut(lineage[s], "owner") ELSE lineage[s]
           c == IF successor' # successor THEN [successor[s] EXCEPT !.pilot = "stopped"] ELSE successor[s]
           m == [command[p] EXCEPT !.at = "stopping"]
<1>2. r \in Lineages /\ c \in Successors /\ lineage' = [lineage EXCEPT ![s] = r] /\ successor' = [successor EXCEPT ![s] = c]
  <2>1. r \in Lineages /\ c \in Successors
    BY <1>1, ShutRow DEF StageNow, Frozen, Successors
  <2>2. lineage' = [lineage EXCEPT ![s] = r]
    BY <1>1 DEF StageNow, StopPoll, Frozen, Stopped
  <2>3. successor' = [successor EXCEPT ![s] = c]
    BY <1>1 DEF StageNow, StopPoll, Frozen, CompanyHalted
  <2> QED
    BY <2>1, <2>2, <2>3
<1>3. StageTrue(schema, s, r, c, provider[s], sends[s])
  BY <1>1 DEF StageNow, StopPoll, On, Goes, Stopped, Shut, Frozen, CompanyHalted, StageTrue, RowTrue, NoLineage, Lineages, Successors, Providers, CommandTrue
<1>4. m \in PilotCommands /\ command' = [command EXCEPT ![p] = m]
  BY <1>1 DEF StopPoll, On, Goes, Stopped, Shut, Frozen, CompanyHalted, PilotCommands, Stages, StageNow
<1>5. \/ m.stage = s /\ CommandTrue(p, m, schema, r, c, sends[s])
      \/ m.at = "idle" /\ m.run = "none"
  BY <1>1, <1>3 DEF StageNow, StopPoll, On, Goes, Stopped, Shut, Frozen, CompanyHalted, CommandTrue, PilotCommands, Lineages, Successors, StageTrue, RowTrue, NoLineage
<1>6. m.run # "none" => \A q \in Commands \ {p} : command[q].stage = s => command[q].run = "none"
  BY <1>1 DEF StageNow, StopPoll, On, Goes, Stopped, Shut, Frozen, CompanyHalted, PilotCommands, OneRunner, CommandTrue, StageTrue, RowTrue
<1>7. \A q \in Commands \ {p} : command[q].stage = s => CommandTrue(q, command[q], schema, r, c, sends[s])
  BY <1>1, PilotAssumption DEF StageNow, StopPoll, On, Goes, Stopped, Shut, Frozen, CompanyHalted, CommandTrue, PilotCommands, OneRunner, StageTrue, RowTrue, Lineages, Successors, Providers
<1> HIDE DEF r, c, m
<1>8. StageMoves(s, r, c, provider[s], sends[s])
  BY <1>1, <1>2, <1>3 DEF StageMoves, StageNow, StopPoll, Stages, Providers
<1>9. CommandMoves(p, s, m, r, c, sends[s])
  BY <1>4, <1>5, <1>6, <1>7 DEF CommandMoves
<1> QED
  BY <1>8, <1>9, CommandSteps

\* A supervisor that ends leaves the stage stopped.
LEMMA FinalizeKept ==
  ASSUME PilotKept, NEW p \in Commands, NEW s \in Stages, NEW ext \in BOOLEAN, NEW loc \in BOOLEAN, NEW rev \in BOOLEAN, Finalize(p, s, ext, loc, rev)
  PROVE  PilotKept'
<1>1. StageNow(s) /\ command[p] \in PilotCommands
  BY StageRow DEF StageNow
<1> DEFINE r == IF ext /\ ~Frozen(s) THEN Shut(lineage[s], "finished") ELSE lineage[s]
           c == [successor[s] EXCEPT !.pilot = IF loc THEN "stopped" ELSE @, !.scope = IF rev THEN "revoked" ELSE @]
           m == [command[p] EXCEPT !.at = "idle"]
<1>2. r \in Lineages /\ c \in Successors /\ lineage' = [lineage EXCEPT ![s] = r] /\ successor' = [successor EXCEPT ![s] = c]
  <2>1. r \in Lineages /\ c \in Successors
    BY ZenonT(40), <1>1, ShutRow DEF StageNow, Frozen, Successors
  <2>2. lineage' = [lineage EXCEPT ![s] = r]
    BY <1>1 DEF StageNow, Finalize, Frozen, Stopped
  <2>3. successor' = [successor EXCEPT ![s] = c]
    BY <1>1 DEF StageNow, Finalize, Frozen, CompanyHalted
  <2> QED
    BY <2>1, <2>2, <2>3
<1>3. StageTrue(schema, s, r, c, provider[s], sends[s])
  BY <1>1 DEF StageNow, Finalize, On, Goes, Stopped, Shut, Frozen, CompanyHalted, StageTrue, RowTrue, NoLineage, Lineages, Successors, Providers, CommandTrue
<1>4. m \in PilotCommands /\ command' = [command EXCEPT ![p] = m]
  BY <1>1 DEF Finalize, On, Goes, Stopped, Shut, Frozen, CompanyHalted, PilotCommands, Stages, StageNow
<1>5. \/ m.stage = s /\ CommandTrue(p, m, schema, r, c, sends[s])
      \/ m.at = "idle" /\ m.run = "none"
  BY <1>1, <1>3 DEF StageNow, Finalize, On, Goes, Stopped, Shut, Frozen, CompanyHalted, CommandTrue, PilotCommands, Lineages, Successors, StageTrue, RowTrue, NoLineage
<1>6. m.run # "none" => \A q \in Commands \ {p} : command[q].stage = s => command[q].run = "none"
  BY <1>1 DEF StageNow, Finalize, On, Goes, Stopped, Shut, Frozen, CompanyHalted, PilotCommands, OneRunner, CommandTrue, StageTrue, RowTrue
<1>7. \A q \in Commands \ {p} : command[q].stage = s => CommandTrue(q, command[q], schema, r, c, sends[s])
  BY <1>1, PilotAssumption DEF StageNow, Finalize, On, Goes, Stopped, Shut, Frozen, CompanyHalted, CommandTrue, PilotCommands, OneRunner, StageTrue, RowTrue, Lineages, Successors, Providers
<1> HIDE DEF r, c, m
<1>8. StageMoves(s, r, c, provider[s], sends[s])
  BY <1>1, <1>2, <1>3 DEF StageMoves, StageNow, Finalize, Stages, Providers
<1>9. CommandMoves(p, s, m, r, c, sends[s])
  BY <1>4, <1>5, <1>6, <1>7 DEF CommandMoves
<1> QED
  BY <1>8, <1>9, CommandSteps

\* The turn ends at the provider.
LEMMA TurnEndsKept ==
  ASSUME PilotKept, NEW s \in Stages, TurnEnds(s)
  PROVE  PilotKept'
<1>1. StageNow(s)
  BY StageRow
<1>2. StageTrue(schema, s, lineage[s], successor[s], "ended", sends[s])
  BY <1>1 DEF StageNow, TurnEnds, StageTrue
<1>3. StageMoves(s, lineage[s], successor[s], "ended", sends[s]) /\ command' = command
  BY <1>1, <1>2 DEF StageNow, StageMoves, TurnEnds, Providers
<1> QED
  BY <1>1, <1>3, CommandsRest DEF StageNow

\* The owner's stop is kept, whatever the stage was doing.
LEMMA OwnerStopsKept ==
  ASSUME PilotKept, NEW s \in Stages, NEW ext \in BOOLEAN, NEW loc \in BOOLEAN, NEW rev \in BOOLEAN,
         OwnerStops(s, ext, loc, rev)
  PROVE  PilotKept'
<1>1. StageNow(s)
  BY StageRow
<1> DEFINE r == IF ext /\ ~Frozen(s) THEN Shut(lineage[s], "owner") ELSE lineage[s]
           c == [successor[s] EXCEPT !.pilot = IF loc THEN "stopped" ELSE @, !.scope = IF rev THEN "revoked" ELSE @]
<1>2. r \in Lineages /\ c \in Successors
  BY ZenonT(40), <1>1, ShutRow DEF StageNow, Successors
<1>3. lineage' = [lineage EXCEPT ![s] = r]
  BY <1>1 DEF StageNow, OwnerStops, Stopped
<1>4. successor' = [successor EXCEPT ![s] = c]
  BY DEF OwnerStops, CompanyHalted
<1>5. StageTrue(schema, s, r, c, provider[s], sends[s])
  BY <1>1 DEF StageNow, OwnerStops, Shut, Frozen, StageTrue, RowTrue, NoLineage, Lineages, Successors
<1>6. \A q \in Commands : command[q].stage = s => CommandTrue(q, command[q], schema, r, c, sends[s])
  BY <1>1 DEF StageNow, Shut, Frozen, CommandTrue, Lineages, Successors
<1> HIDE DEF r, c
<1>7. StageMoves(s, r, c, provider[s], sends[s]) /\ command' = command
  BY <1>1, <1>2, <1>3, <1>4, <1>5 DEF StageNow, StageMoves, OwnerStops, Stages
<1> QED
  BY <1>6, <1>7, CommandsRest

\* A command dies.
LEMMA CommandDiesKept ==
  ASSUME PilotKept, NEW p \in Commands, CommandDies(p)
  PROVE  PilotKept'
<1> DEFINE m == [at |-> "idle", stage |-> 1, run |-> "none"]
<1>1. 1 \in Stages /\ m \in PilotCommands
  BY DEF Stages, PilotCommands
<1>2. StageNow(1)
  BY <1>1, StageRow
<1>3. StageMoves(1, lineage[1], successor[1], provider[1], sends[1])
  BY <1>1, <1>2 DEF StageNow, StageMoves, CommandDies
<1>4. CommandMoves(p, 1, m, lineage[1], successor[1], sends[1])
  BY <1>1, <1>2 DEF StageNow, CommandMoves, CommandDies
<1> QED
  BY <1>3, <1>4, CommandSteps

\* Every step of the owner's commands and of the provider.
LEMMA PilotStep ==
  ASSUME PilotKept, PilotNext
  PROVE  PilotKept'
<1>1. CASE Register \/ AuthorizeMaya \/ AuthorizeFinal
  BY <1>1, RegisterKept
<1>2. ASSUME NEW p \in Commands, NEW s \in Stages,
             Prepare(p, s) \/ Preflight(p, s) \/ BindAccount(p, s) \/ Supervise(p, s) \/ SupervisionFails(p, s) \/ Send(p, s)
      PROVE  PilotKept'
  BY <1>2, PrepareKept, PreflightKept, BindAccountKept, SuperviseKept, SupervisionFailsKept, SendKept
<1>3. ASSUME NEW p \in Commands, NEW s \in Stages, NEW b \in BOOLEAN,
             PrepareEnds(p, s, b) \/ Release(p, s, b) \/ Reserve(p, s, b) \/ Admit(p, s, b) \/ StopPoll(p, s, b)
      PROVE  PilotKept'
  BY <1>3, PrepareEndsKept, ReleaseKept, ReserveKept, AdmitKept, StopPollKept
<1>4. ASSUME NEW p \in Commands, NEW s \in Stages, NEW reach \in 1..4, RecoverPilot(p, s, reach)
      PROVE  PilotKept'
  BY <1>4, RecoverPilotKept
<1>5. ASSUME NEW p \in Commands, NEW s \in Stages, NEW out \in {"completed", "failed", "interrupted"},
             NEW settled \in BOOLEAN, NEW ext \in BOOLEAN, NEW kept \in BOOLEAN, FinishAttempt(p, s, out, settled, ext, kept)
      PROVE  PilotKept'
  BY <1>5, FinishAttemptKept
<1>6. ASSUME NEW p \in Commands, NEW s \in Stages, NEW loc \in BOOLEAN, NEW rev \in BOOLEAN,
             PreflightFails(p, s, loc, rev) \/ \E ext \in BOOLEAN : Finalize(p, s, ext, loc, rev)
      PROVE  PilotKept'
  BY <1>6, PreflightFailsKept, FinalizeKept
<1>7. ASSUME NEW s \in Stages, TurnEnds(s) \/ \E ext, loc, rev \in BOOLEAN : OwnerStops(s, ext, loc, rev)
      PROVE  PilotKept'
  BY <1>7, TurnEndsKept, OwnerStopsKept
<1>8. ASSUME NEW p \in Commands, CommandDies(p)
      PROVE  PilotKept'
  BY <1>8, CommandDiesKept
<1> QED
  BY <1>1, <1>2, <1>3, <1>4, <1>5, <1>6, <1>7, <1>8 DEF PilotNext

\* What the invariant says of the turns of credit.
LEMMA PilotMeans == PilotKept => PilotTypeOK /\ OneCreditTurn
<1> SUFFICES ASSUME PilotKept PROVE PilotTypeOK /\ OneCreditTurn
  OBVIOUS
<1>1. PilotTypeOK
  BY DEF PilotKept
<1>2. ASSUME NEW s \in Stages
      PROVE  /\ sends[s] <= 1 /\ (sends[s] > 0 => lineage[s].released /\ lineage[s].reserved /\ lineage[s].admitted)
             /\ provider[s] = "running" => lineage[s].uncertain
             /\ Frozen(s) => provider[s] = "ended"
             /\ successor[s].pilot \in {"released", "running"} => lineage[s].released
             /\ successor[s].exec # "none" => lineage[s].reserved
             /\ successor[s].exec = "completed" => lineage[s].admitted /\ provider[s] = "ended"
             /\ successor[s].inv = "settled" => provider[s] # "running"
             /\ s > 1 /\ lineage[s].by # Nobody => lineage[s].cause \notin {"preflight", "restart"}
  <2>1. StageNow(s)
    BY StageRow
  <2> QED
    BY <2>1 DEF StageNow, StageTrue, RowTrue, Frozen
<1>3. OneTurnEach /\ NeverTwoTurns
  BY <1>2 DEF OneTurnEach, NeverTwoTurns
<1>4. WithinLineage
  BY <1>2 DEF WithinLineage
<1>5. ClaimRespected
  BY <1>2 DEF ClaimRespected, Stages
<1> QED
  BY <1>1, <1>3, <1>4, <1>5 DEF OneCreditTurn

-----------------------------------------------------------------------------
(* The theorems.                                                           *)

\* The part that moves is the same throughout, and keeps its invariant.
MarketKept ==
    /\ part = "spending" => Spending(journal, books, beyond)
    /\ part = "gateway" => GatewayKept
    /\ part = "history" => CustodyKept
    /\ part = "pilot" => PilotKept

\* Each component starts with its invariant.
LEMMA MarketInitKept == MarketInit => MarketKept
<1> SUFFICES ASSUME MarketInit PROVE MarketKept
  OBVIOUS
<1>1. part = "spending" => FiniteInit
  BY DEF MarketInit
<1>2. part = "gateway" => GatewayInit
  BY DEF MarketInit
<1>3. part = "history" => CustodyInit
  BY DEF MarketInit
<1>4. part = "pilot" => PilotInit
  BY DEF MarketInit
<1> QED
  BY <1>1, <1>2, <1>3, <1>4, FiniteInitSpends, GatewayInitKept, CustodyInitKept, PilotInitKept DEF MarketKept

\* A part that does not move.
LEMMA MarketStutters ==
  /\ Spending(journal, books, beyond) /\ UNCHANGED finiteVars => Spending(journal, books, beyond)'
  /\ GatewayKept /\ UNCHANGED gatewayVars => GatewayKept'
  /\ CustodyKept /\ UNCHANGED custodyVars => CustodyKept'
  /\ PilotKept /\ UNCHANGED pilotVars => PilotKept'
<1>1. Spending(journal, books, beyond) /\ UNCHANGED finiteVars => Spending(journal, books, beyond)'
  BY DEF finiteVars
<1>2. GatewayKept /\ UNCHANGED gatewayVars => GatewayKept'
  BY DEF gatewayVars, GatewayKept, GatewayTyped, Inquiring, Counting, Spacing, Knowing, Sourced, Underway, Attempted, LastTry
<1>3. CustodyKept /\ UNCHANGED custodyVars => CustodyKept'
  BY DEF custodyVars, CustodyKept, CustodyTyped, Talks, Holding, Ledgered
<1>4. PilotKept /\ UNCHANGED pilotVars => PilotKept'
  BY DEF pilotVars, PilotKept, PilotTypeOK, OneRunner
<1> QED
  BY <1>1, <1>2, <1>3, <1>4

\* The component that moves keeps its invariant.
LEMMA MarketStep == MarketKept /\ [MarketNext]_MarketVars => MarketKept'
<1> SUFFICES ASSUME MarketKept, [MarketNext]_MarketVars PROVE MarketKept'
  OBVIOUS
<1>1. part' = part
  BY DEF MarketNext, MarketVars
<1>2. part = "spending" => FiniteNext \/ UNCHANGED finiteVars
  BY DEF MarketNext, MarketVars
<1>3. part = "gateway" => GatewayNext \/ UNCHANGED gatewayVars
  BY DEF MarketNext, MarketVars
<1>4. part = "history" => CustodyNext \/ UNCHANGED custodyVars
  BY DEF MarketNext, MarketVars
<1>5. part = "spending" => Spending(journal, books, beyond)'
  BY <1>2, FiniteStep, MarketStutters DEF MarketKept
<1>6. part = "gateway" => GatewayKept'
  BY <1>3, GatewayStep, MarketStutters DEF MarketKept
<1>7. part = "history" => CustodyKept'
  BY <1>4, CustodyStep, MarketStutters DEF MarketKept
<1>8. part = "pilot" => PilotNext \/ UNCHANGED pilotVars
  BY DEF MarketNext, MarketVars
<1>9. part = "pilot" => PilotKept'
  BY <1>8, PilotStep, MarketStutters DEF MarketKept
<1> QED
  BY <1>1, <1>5, <1>6, <1>7, <1>9 DEF MarketKept

\* At most one effect of the finite authority is under way, each was counted in
\* the journal before it was sent, and what the journal settles is what ended,
\* whatever order the journal, the database and the provider crash in; and of the
\* turns paid from credits one of each stage is sent, and never two at a time,
\* whatever commands run beside each other or die.
THEOREM SpendingAllowed == MarketSpec => []SpendingCounted
<1>1. MarketInit => MarketKept
  BY MarketInitKept
<1>2. MarketKept /\ [MarketNext]_MarketVars => MarketKept'
  BY MarketStep
<1>3. MarketKept => SpendingCounted
  BY SpendingMeans, PilotMeans DEF MarketKept, SpendingCounted
<1> QED
  BY <1>1, <1>2, <1>3, PTL DEF MarketSpec

\* One approval is one collection, recorded before it is sent, under a watchdog
\* while it is under way and gone when it is reported gone; and the gateway never
\* exceeds its calls, never settles what it does not know, and never sends again
\* while an earlier attempt has no known outcome.
THEOREM CustodyOnce == MarketSpec => CollectedOnce
<1>1. MarketInit => MarketKept
  BY MarketInitKept
<1>2. MarketKept /\ [MarketNext]_MarketVars => MarketKept'
  BY MarketStep
<1>3. MarketKept => (part = "history" => CallsAccounted /\ CallsGuarded /\ NothingLeft)
  BY CustodyMeans DEF MarketKept
<1>4. MarketKept => (part = "gateway" => SentSparingly /\ SettledKnown)
  BY GatewayMeans DEF MarketKept
<1>5. MarketKept /\ [MarketNext]_MarketVars => [part = "gateway" => NotRefunded]_MarketVars
  <2> SUFFICES ASSUME MarketKept, MarketNext, part = "gateway" PROVE NotRefunded
    OBVIOUS
  <2>1. GatewayNext
    BY DEF MarketNext
  <2> QED
    BY <2>1, GatewaySends DEF MarketKept
<1> QED
  BY <1>1, <1>2, <1>3, <1>4, <1>5, PTL DEF MarketSpec, CollectedOnce
=============================================================================
