------------------------------- MODULE Clients -------------------------------
(***************************************************************************)
(* Remote clients of the owner: pairing a device, its challenge and token, *)
(* requests that change something and may be repeated under their key, and *)
(* the stream of notifications.  Source: src/control/remote-clients.ts,    *)
(* src/http/client-api.ts, src/client/protocol.ts and the tables of        *)
(* src/persistence/client-migration.ts.                                    *)
(*                                                                         *)
(* A request is handled in steps with an await between them, so others run *)
(* in the middle of it.  Abstracted: signatures and secrets (a proof is    *)
(* good or not), capabilities, which are fixed when a device is paired,    *)
(* rate limits and the capacities of the tables, the contents of what is   *)
(* read and sent, and a second stream, challenge or token of a device.  A  *)
(* device in the model is one row with the pairing that made it and has a  *)
(* key of its own.  Each row of the audit log or the message table is a    *)
(* notification: one that a request makes is counted with it, those of the *)
(* rest of the program and of pairing devices come as Happens.             *)
(***************************************************************************)
EXTENDS Integers, Sequences, FiniteSets

CONSTANTS
    Devices, Keys,                          \* device rows, and idempotency keys of each
    PairingTime, ChallengeTime, TokenTime,  \* LIMITS.pairingMs, challengeMs, tokenMs
    RetryTime,                              \* LIMITS.retryMs
    EventsKept,                             \* LIMITS.events
    ClientClock, EventBound, Handlers       \* bounds: time, notifications, requests handled at once

ASSUME ClientsAssumption ==
    /\ {PairingTime, ChallengeTime, TokenTime, RetryTime, EventsKept} \subseteq Nat \ {0}
    /\ {ClientClock, EventBound} \subseteq Nat

VARIABLES
    trust,  \* the clock and, per device, its pairing, state, challenge and token
    calls,  \* per device and key: when it was made, its receipt and its effects; and the requests being handled
    feed    \* the newest notification and, per device, its stream and what the client has of it

clientVars == <<trust, calls, feed>>
NoCallHere == [d |-> "none", k |-> "none", b |-> 0, token |-> 0, step |-> "none"]
NoReceipt == [b |-> 0, until |-> 0]
NoStream == [on |-> FALSE, cursor |-> 0, token |-> 0, pipe |-> <<>>, blocked |-> FALSE]
Horizons == 0..(ClientClock + PairingTime + ChallengeTime + TokenTime + RetryTime)

\* The control columns of the rows; 0 is no challenge, token or receipt.
TrustRow == [st : {"none", "pending", "active", "denied", "revoked"}, pairing : {"none", "open", "claimed", "confirmed", "denied", "expired"},
             until : Horizons, challenge : Horizons, token : Horizons]
Handled == [d : Devices, k : Keys, b : 1..2, token : Horizons \ {0}, step : {"body", "catalog"}] \cup {NoCallHere}
StreamRow == [on : BOOLEAN, cursor : 0..EventBound, token : Horizons, pipe : Seq(1..EventBound), blocked : BOOLEAN]

ClientsTypeOK ==
    /\ trust.clock \in 0..ClientClock /\ trust.rows \in [Devices -> TrustRow]
    /\ calls.made \in [Devices \X Keys -> -1..ClientClock] /\ calls.did \in [Devices \X Keys -> 0..2]
    /\ calls.receipt \in [Devices \X Keys -> [b : 0..2, until : Horizons]] /\ calls.open \in [Handlers -> Handled]
    /\ feed.seq \in 0..EventBound /\ feed.stream \in [Devices -> StreamRow] /\ feed.got \in [Devices -> 0..EventBound]

ClientsInit ==
    /\ trust = [clock |-> 0, rows |-> [d \in Devices |-> [st |-> "none", pairing |-> "none", until |-> 0,
                                                          challenge |-> 0, token |-> 0]]]
    /\ calls = [made |-> [x \in Devices \X Keys |-> -1], did |-> [x \in Devices \X Keys |-> 0],
                receipt |-> [x \in Devices \X Keys |-> NoReceipt], open |-> [h \in Handlers |-> NoCallHere]]
    /\ feed = [seq |-> 0, stream |-> [d \in Devices |-> NoStream], got |-> [d \in Devices |-> 0]]

-----------------------------------------------------------------------------
(* Rows that expire.                                                       *)

CleanRow(r) ==
    LET over == r.pairing \in {"open", "claimed"} /\ r.until <= trust.clock
        left(t) == IF t <= trust.clock THEN 0 ELSE t
    IN [r EXCEPT !.pairing = IF over THEN "expired" ELSE @, !.st = IF over /\ @ = "pending" THEN "denied" ELSE @,
                 !.challenge = left(@), !.token = left(@)]
CleanRows == [d \in Devices |-> CleanRow(trust.rows[d])]
LiveReceipts == [x \in Devices \X Keys |-> IF calls.receipt[x].until <= trust.clock THEN NoReceipt ELSE calls.receipt[x]]

\* cleanup(), then row d of the device becomes r.
Cleanup(d, r) ==
    /\ trust' = [trust EXCEPT !.rows = [CleanRows EXCEPT ![d] = r]]
    /\ calls' = [calls EXCEPT !.receipt = LiveReceipts] /\ UNCHANGED feed

TimedCleanup ==
    /\ trust' = [trust EXCEPT !.rows = CleanRows] /\ calls' = [calls EXCEPT !.receipt = LiveReceipts]
    /\ <<trust, calls>>' # <<trust, calls>> /\ UNCHANGED feed

-----------------------------------------------------------------------------
(* Trust in a device.                                                      *)

CreatePairing(d) ==
    /\ trust.rows[d].pairing = "none"
    /\ Cleanup(d, [trust.rows[d] EXCEPT !.pairing = "open", !.until = trust.clock + PairingTime])

ClaimPairing(d) ==
    LET r == CleanRow(trust.rows[d]) IN
    r.pairing = "open" /\ Cleanup(d, [r EXCEPT !.pairing = "claimed", !.st = "pending"])

DecideDevice(d, confirmed) ==
    LET r == CleanRow(trust.rows[d]) IN
    /\ r.st = "pending" /\ r.pairing = "claimed"
    /\ Cleanup(d, [r EXCEPT !.st = IF confirmed THEN "active" ELSE "denied",
                            !.pairing = IF confirmed THEN "confirmed" ELSE "denied"])

RevokeDevice(d) ==
    /\ trust.rows[d].st = "active"
    /\ trust' = [trust EXCEPT !.rows[d] = [@ EXCEPT !.st = "revoked", !.token = 0, !.challenge = 0]]
    /\ UNCHANGED <<calls, feed>>

IssueChallenge(d) ==
    LET r == CleanRow(trust.rows[d]) IN
    r.st = "active" /\ r.challenge = 0 /\ Cleanup(d, [r EXCEPT !.challenge = trust.clock + ChallengeTime])

\* A proof uses its challenge up, a good one as well as a bad one.
IssueToken(d, good) ==
    LET r == CleanRow(trust.rows[d]) IN
    /\ r.st = "active" /\ r.challenge # 0
    /\ Cleanup(d, [r EXCEPT !.challenge = 0, !.token = IF good /\ @ = 0 THEN trust.clock + TokenTime ELSE @])

Authenticates(d, token) == trust.rows[d].st = "active" /\ token = trust.rows[d].token /\ token > trust.clock

-----------------------------------------------------------------------------
(* A request that changes something: its body is awaited, for a profile    *)
(* the catalog too, and only then is it carried out.                       *)

InWindow(x) == calls.made[x] > trust.clock - RetryTime

\* The client makes a key, or repeats what it sent under it, or confuses two requests.
Arrive(h, d, k, b) ==
    LET x == <<d, k>>
        keyed == IF calls.made[x] = -1 THEN [calls EXCEPT !.made[x] = trust.clock] ELSE calls
    IN /\ calls.open[h] = NoCallHere /\ Authenticates(d, trust.rows[d].token)
       /\ calls.made[x] = -1 \/ InWindow(x)
       /\ calls' = [keyed EXCEPT !.open[h] = [d |-> d, k |-> k, b |-> b, token |-> trust.rows[d].token, step |-> "body"]]
       /\ UNCHANGED <<trust, feed>>

\* A mutant of Replayed: the receipt is not looked up again under the transaction.
ReplayedBefore(x, step) == calls.receipt[x] # NoReceipt /\ step = "body"
Replayed(x, step) == calls.receipt[x] # NoReceipt

\* The transaction: authority, key and receipt are read again.  The change may
\* be refused, and then leaves nothing behind.  (The signal of an interruption, after
\* the commit and not repeated by recovery, is the dispatcher's: see Company.)
Commit(h, refused) ==
    LET r == calls.open[h]  x == <<r.d, r.k>>
        free == [calls EXCEPT !.open[h] = NoCallHere, !.receipt = LiveReceipts]
        done == [free EXCEPT !.did[x] = @ + 1, !.receipt[x] = [b |-> r.b, until |-> calls.made[x] + RetryTime]]
    IN /\ trust' = [trust EXCEPT !.rows = CleanRows]
       /\ IF Authenticates(r.d, r.token) /\ InWindow(x) /\ ~Replayed(x, r.step) /\ ~refused /\ feed.seq < EventBound
          THEN calls' = done /\ feed' = [feed EXCEPT !.seq = @ + 1]
          ELSE calls' = free /\ UNCHANGED feed

Fails(h) == calls' = [calls EXCEPT !.open[h] = NoCallHere] /\ UNCHANGED <<trust, feed>>

BodyArrives(h) ==
    LET r == calls.open[h] IN
    /\ r.step = "body"
    /\ \/ Fails(h)
       \/ ~Replayed(<<r.d, r.k>>, "body") /\ \E refused \in BOOLEAN : Commit(h, refused)
       \/ ~Replayed(<<r.d, r.k>>, "body") /\ calls' = [calls EXCEPT !.open[h].step = "catalog"] /\ UNCHANGED <<trust, feed>>
CatalogArrives(h) == calls.open[h].step = "catalog" /\ (Fails(h) \/ \E refused \in BOOLEAN : Commit(h, refused))

-----------------------------------------------------------------------------
(* Notifications.                                                          *)

Happens == feed.seq < EventBound /\ feed' = [feed EXCEPT !.seq = @ + 1] /\ UNCHANGED <<trust, calls>>

Oldest == IF feed.seq > EventsKept THEN feed.seq - EventsKept ELSE 0
Retained(cursor) == cursor >= Oldest

\* With its last event the client goes on from there; without, it reads the state anew.
OpenStream(d, resumes) ==
    LET cursor == IF resumes THEN feed.got[d] ELSE feed.seq IN
    /\ ~feed.stream[d].on /\ Authenticates(d, trust.rows[d].token) /\ Retained(cursor)
    /\ feed' = [feed EXCEPT !.got[d] = cursor,
                            !.stream[d] = [NoStream EXCEPT !.on = TRUE, !.cursor = cursor, !.token = trust.rows[d].token]]
    /\ UNCHANGED <<trust, calls>>

\* pump() of one stream: what is not written because the socket is full waits for its drain.
Pump(d) ==
    LET s == feed.stream[d]
        next == IF s.cursor > Oldest THEN s.cursor ELSE Oldest
        writes(last) == [s EXCEPT !.cursor = last, !.blocked = last < feed.seq,
                                  !.pipe = @ \o [n \in 1..(last - next) |-> next + n]]
    IN /\ s.on /\ UNCHANGED <<trust, calls>>
       /\ IF ~Authenticates(d, s.token) \/ ~Retained(s.cursor) THEN feed' = [feed EXCEPT !.stream[d].on = FALSE]
          ELSE ~s.blocked /\ \E last \in (next + 1)..feed.seq : feed' = [feed EXCEPT !.stream[d] = writes(last)]

Drains(d) == feed.stream[d].blocked /\ feed' = [feed EXCEPT !.stream[d].blocked = FALSE] /\ UNCHANGED <<trust, calls>>

Receives(d) ==
    /\ feed.stream[d].pipe # <<>> /\ UNCHANGED <<trust, calls>>
    /\ feed' = [feed EXCEPT !.got[d] = Head(feed.stream[d].pipe), !.stream[d].pipe = Tail(@)]

\* The connection ends, by the timer of its token, by overflow or by itself: what is on the way is lost.
Disconnects(d) == feed.stream[d] # NoStream /\ feed' = [feed EXCEPT !.stream[d] = NoStream] /\ UNCHANGED <<trust, calls>>

-----------------------------------------------------------------------------
ClientClockTicks ==
    trust.clock < ClientClock /\ trust' = [trust EXCEPT !.clock = @ + 1] /\ UNCHANGED <<calls, feed>>

\* Rows survive a restart; requests and streams do not.
ClientsRestart ==
    /\ calls' = [calls EXCEPT !.open = [h \in Handlers |-> NoCallHere], !.receipt = LiveReceipts]
    /\ feed' = [feed EXCEPT !.stream = [d \in Devices |-> NoStream]]
    /\ trust' = [trust EXCEPT !.rows = CleanRows] /\ <<calls, feed>>' # <<calls, feed>>

ClientsNext ==
    \/ \E d \in Devices :
          \/ CreatePairing(d) \/ ClaimPairing(d) \/ RevokeDevice(d) \/ IssueChallenge(d) \/ Pump(d) \/ Drains(d)
          \/ Receives(d) \/ Disconnects(d)
          \/ \E yes \in BOOLEAN : DecideDevice(d, yes) \/ IssueToken(d, yes) \/ OpenStream(d, yes)
          \/ \E h \in Handlers, k \in Keys, b \in 1..2 : Arrive(h, d, k, b)
    \/ \E h \in Handlers : BodyArrives(h) \/ CatalogArrives(h)
    \/ Happens \/ TimedCleanup \/ ClientClockTicks \/ ClientsRestart

ClientsSpec == ClientsInit /\ [][ClientsNext]_clientVars

-----------------------------------------------------------------------------
(* Properties.                                                             *)

\* What a client asked for under one key happens at most once, though it may
\* repeat it while the first is being handled, after a restart, and after the
\* receipt was deleted.
OnceByKey == \A x \in Devices \X Keys : calls.did[x] <= 1

\* A client misses nothing it is not told of: each notification it receives
\* is the next one, until it reads the state anew.
NothingMissed == \A d \in Devices : feed'.got[d] # feed.got[d] /\ feed.stream[d].on => feed'.got[d] = feed.got[d] + 1

\* An effect is of a device that is trusted at that moment, however long its
\* request has waited.
EffectTrusted ==
    \A d \in Devices : (\E k \in Keys : calls'.did[<<d, k>>] # calls.did[<<d, k>>]) =>
        trust.rows[d].st = "active" /\ trust.rows[d].token > trust.clock
=============================================================================
