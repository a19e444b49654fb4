------------------------------ MODULE Custody -------------------------------
(***************************************************************************)
(* The custody of one approved collection of market history               *)
(* (src/control/market/yahoo-history-custody.ts): an approval prepared    *)
(* once on disk, consumed by at most one isolated data process, which      *)
(* accounts for each request in a ledger before it is sent, under a        *)
(* supervisor (scripts/yahoo-history.ts) and an independent watchdog       *)
(* (adapters/yahoo/history_watchdog.py) that arm their timers before the   *)
(* request is permitted, and kill the process and remove its capsule when  *)
(* anything goes wrong.  The owner may run the command more than once, and *)
(* every process may die at every step.                                    *)
(***************************************************************************)
EXTENDS Naturals, Sequences, FiniteSets, SequencesExt

CONSTANTS CustodyRuns,      \* runs of the owner's command
          Requests   \* manifest.limits.requests

ASSUME CustodyAssumption == Requests \in Nat \ {0} /\ "unowned" \notin CustodyRuns

Unowned == "unowned"

VARIABLES anchor,   \* the private directory, and the capsule it speaks of
          child,    \* the data process of each run
          sup,      \* its supervisor
          dog,      \* its watchdog
          mail,     \* messages of each data process its supervisor has not read
          calls     \* the requests that left for the provider: <<run, ordinal>>

custodyVars == <<anchor, child, sup, dog, mail, calls>>

Ordinals == 1..Requests
Entries == {<<"consumed", 0>>, <<"logical", 0>>} \cup ({"reserved", "wire_started", "received"} \X Ordinals)
Building == {"spent", "made", "owned"}
Exchanging == {"asked", "permitted", "started", "calling", "settling"}
Steps == {"off", "ready", "told", "checked", "gone", "live", "idle", "finishing", "closing"} \cup Building \cup Exchanging

CustodyInit ==
    /\ anchor = [approval |-> "none", late |-> FALSE, spent |-> Unowned, capsule |-> Unowned, owner |-> Unowned,
                 ledger |-> <<>>]
    /\ child = [r \in CustodyRuns |-> [st |-> "off", attempts |-> 0, denied |-> FALSE]]
    /\ sup = [r \in CustodyRuns |-> [st |-> "off", consumed |-> FALSE, stopping |-> FALSE,
                                    requested |-> 0, pending |-> 0, reply |-> "none"]]
    /\ dog = [r \in CustodyRuns |-> [st |-> "off", active |-> FALSE, ordinal |-> 0, pending |-> 0]]
    /\ mail = [r \in CustodyRuns |-> <<>>]
    /\ calls = {}

CustodyTypeOK ==
    /\ anchor \in [approval : {"none", "directory", "prepared"}, late : BOOLEAN, spent : CustodyRuns \cup {Unowned},
                   capsule : CustodyRuns \cup {Unowned}, owner : CustodyRuns \cup {Unowned}, ledger : Seq(Entries)]
    /\ child \in [CustodyRuns -> [st : Steps, attempts : 0..Requests, denied : BOOLEAN]]
    /\ sup \in [CustodyRuns -> [st : {"off", "up", "joined", "cleaned", "done", "failed", "dead"}, consumed : BOOLEAN, stopping : BOOLEAN,
                         requested : 0..Requests, pending : 0..Requests, reply : {"none", "consume", "permit"}]]
    /\ dog \in [CustodyRuns -> [st : {"off", "watch", "recover", "exited", "dead"}, active : BOOLEAN,
                                ordinal : 0..Requests, pending : 0..Requests]]
    /\ \A r \in CustodyRuns : mail[r] \in Seq({<<"ready", 0>>} \cup ({"wireBegin", "wireSettled"} \X Ordinals))
    /\ calls \subseteq CustodyRuns \X Ordinals

-----------------------------------------------------------------------------
(* The owner's side: preparation and time.                                 *)

\* prepare() makes the directory, which must not exist, and then writes the
\* approval: dying in between leaves a directory nothing will ever accept.
PrepareApproval ==
    /\ \/ anchor.approval = "none" /\ anchor' = [anchor EXCEPT !.approval = "directory"]
       \/ anchor.approval = "directory" /\ anchor' = [anchor EXCEPT !.approval = "prepared"]
    /\ UNCHANGED <<child, sup, dog, mail, calls>>

\* The approval expires, or the operation has taken its 120 seconds.
Expire ==
    /\ anchor.approval = "prepared" /\ ~anchor.late
    /\ anchor' = [anchor EXCEPT !.late = TRUE]
    /\ UNCHANGED <<child, sup, dog, mail, calls>>

-----------------------------------------------------------------------------
(* The data process.                                                       *)

ChildAt(r, step) == child[r].st = step
Go(r, step) == child' = [child EXCEPT ![r].st = step]

\* A durable record: it is on the ledger, and after a failed write it may be.
Recorded(type, n) == anchor' = [anchor EXCEPT !.ledger = Append(@, <<type, n>>)]
Unsure(type, n) == Recorded(type, n) \/ UNCHANGED anchor
Tell(r, type, n) == mail' = [mail EXCEPT ![r] = Append(@, <<type, n>>)]

\* check(): the authority is unexpired, and the files are the ones consumed.
InCustody(r) == ~anchor.late /\ anchor.spent = r /\ anchor.capsule = r

\* The constructor reads the approval, finds nothing else in the directory and
\* no capsule; otherwise it throws, and nothing was touched.
CheckApproval(r) ==
    /\ ChildAt(r, "told")
    /\ LET fresh == anchor.approval = "prepared" /\ anchor.spent = Unowned /\ anchor.capsule = Unowned /\ ~anchor.late
       IN Go(r, IF fresh THEN "checked" ELSE "gone")
    /\ UNCHANGED <<anchor, sup, dog, mail, calls>>

\* writeNew(): spent.json is created exclusively, before anything else exists.
Spend(r) ==
    /\ ChildAt(r, "checked")
    /\ IF anchor.spent = Unowned
       THEN anchor' = [anchor EXCEPT !.spent = r] /\ Go(r, "spent")
       ELSE UNCHANGED anchor /\ Go(r, "gone")
    /\ UNCHANGED <<sup, dog, mail, calls>>

\* The capsule, then capsule.json that identifies it, then the ledger.
Build(r) ==
    /\ \/ ChildAt(r, "spent") /\ anchor.capsule = Unowned /\ anchor' = [anchor EXCEPT !.capsule = r] /\ Go(r, "made")
       \/ ChildAt(r, "made") /\ anchor' = [anchor EXCEPT !.owner = r] /\ Go(r, "owned")
       \/ ChildAt(r, "owned") /\ Recorded("consumed", 0) /\ Go(r, IF anchor.late THEN "gone" ELSE "live")
    /\ UNCHANGED <<sup, dog, mail, calls>>

\* A failure of the constructor removes the capsule it made, if it can.
BuildFails(r) ==
    /\ child[r].st \in Building
    /\ \/ UNCHANGED anchor
       \/ anchor' = [anchor EXCEPT !.capsule = IF @ = r THEN Unowned ELSE @]
    /\ Go(r, "gone")
    /\ UNCHANGED <<sup, dog, mail, calls>>

\* begin(): the one logical request.
BeginLogical(r) ==
    /\ ChildAt(r, "live")
    /\ \/ InCustody(r) /\ Recorded("logical", 0) /\ Go(r, "idle")
       \/ UNCHANGED anchor /\ Go(r, "closing")
    /\ UNCHANGED <<sup, dog, mail, calls>>

\* reserve() and beforeDns(): the attempt is counted and recorded, then the
\* permission of the supervisor is asked for.  A failed record stops custody.
ReserveAttempt(r) ==
    LET n == child[r].attempts + 1 IN
    /\ ChildAt(r, "idle") /\ ~child[r].denied /\ n <= Requests /\ InCustody(r)
    /\ \/ /\ Recorded("reserved", n) /\ Tell(r, "wireBegin", n)
          /\ child' = [child EXCEPT ![r].st = "asked", ![r].attempts = n]
       \/ /\ Unsure("reserved", n) /\ UNCHANGED mail
          /\ child' = [child EXCEPT ![r].st = "finishing", ![r].attempts = n]
    /\ UNCHANGED <<sup, dog, calls>>

\* beforeWire(), after the address was resolved: the start is recorded.
StartWire(r) ==
    /\ ChildAt(r, "permitted") /\ InCustody(r)
    /\ Recorded("wire_started", child[r].attempts) /\ Go(r, "started")
    /\ UNCHANGED <<sup, dog, mail, calls>>

\* The request leaves.
Call(r) ==
    /\ ChildAt(r, "started") /\ ~anchor.late
    /\ calls' = calls \cup {<<r, child[r].attempts>>} /\ Go(r, "calling")
    /\ UNCHANGED <<anchor, sup, dog, mail>>

\* The answer is complete with status 200, or anything else: another status, a
\* deadline, an abort, a lost connection, before or after the request left.
Answer(r) ==
    /\ \/ ChildAt(r, "calling") /\ Go(r, "settling")
       \/ child[r].st \in Exchanging \ {"settling"} /\ child' = [child EXCEPT ![r].st = "settling", ![r].denied = TRUE]
    /\ UNCHANGED <<anchor, sup, dog, mail, calls>>

\* received(): the receipt is recorded and the supervisor is told; failing
\* that, the attempt stays pending and custody has stopped.
Settle(r) ==
    LET n == child[r].attempts IN
    /\ ChildAt(r, "settling")
    /\ \/ Recorded("received", n) /\ Tell(r, "wireSettled", n) /\ Go(r, "idle")
       \/ Unsure("received", n) /\ UNCHANGED mail /\ Go(r, "finishing")
    /\ UNCHANGED <<sup, dog, calls>>

\* finish(): with the result of the logical request, custody stops.
FinishRun(r) ==
    /\ child[r].st \in {"idle", "finishing"}
    /\ Go(r, "closing")
    /\ UNCHANGED <<anchor, sup, dog, mail, calls>>

\* removeOwnedHistoryCapsule() removes the capsule capsule.json identifies.
Removable == anchor.capsule = anchor.owner
Emptied(a) == IF Removable THEN [a EXCEPT !.capsule = Unowned] ELSE a

\* destroy(): the key and the capsule are destroyed, though the removal may
\* fail; then the process exits.
Destroy(r) ==
    /\ ChildAt(r, "closing")
    /\ anchor' \in {anchor, Emptied(anchor)}
    /\ Go(r, "gone")
    /\ UNCHANGED <<sup, dog, mail, calls>>

\* The process dies, or ends itself when its supervisor is gone.
ChildDies(r) ==
    /\ child[r].st \notin {"off", "gone"}
    /\ Go(r, "gone")
    /\ UNCHANGED <<anchor, sup, dog, mail, calls>>

-----------------------------------------------------------------------------
(* Recovery, run by the supervisor, the watchdog or the owner.             *)

\* cleanupOwnerAt(): only after the process that spent the approval is gone,
\* and only the capsule identified as its own.
MayRecover ==
    IF anchor.spent = Unowned THEN anchor.capsule = Unowned
    ELSE child[anchor.spent].st = "gone" /\ (anchor.capsule # Unowned => Removable)
CapsuleGone == [anchor EXCEPT !.capsule = Unowned]

\* Recovery succeeds, is refused, or dies before or after the removal.
Recover(succeeded) ==
    IF succeeded THEN MayRecover /\ anchor' = CapsuleGone
    ELSE UNCHANGED anchor \/ (MayRecover /\ anchor' = CapsuleGone)

OwnerCleans ==
    /\ anchor.approval = "prepared"
    /\ Recover(TRUE)
    /\ UNCHANGED <<child, sup, dog, mail, calls>>

-----------------------------------------------------------------------------
(* The supervisor and the watchdog.                                        *)

\* superviseHistory(): the watchdog first, then the data process.
Start(r) ==
    /\ sup[r].st = "off"
    /\ sup' = [sup EXCEPT ![r].st = "up"]
    /\ dog' = [dog EXCEPT ![r].st = "watch"]
    /\ Go(r, "ready") /\ Tell(r, "ready", 0)
    /\ UNCHANGED <<anchor, calls>>

Halted(r) == sup' = [sup EXCEPT ![r].stopping = TRUE, ![r].reply = "none"] /\ Go(r, "gone")

\* A message is taken: it is a step the protocol expects, and the watchdog has
\* acknowledged the command for it, or everything is stopped.
Expected(r, type, n) ==
    /\ dog[r].st = "watch"
    /\ CASE type = "ready" -> ~sup[r].consumed
         [] type = "wireBegin" -> sup[r].consumed /\ sup[r].pending = 0 /\ n = sup[r].requested + 1 /\ n <= Requests
         [] OTHER -> n = sup[r].pending
Hear(r) ==
    LET type == mail[r][1][1]  n == mail[r][1][2] IN
    /\ sup[r].st = "up" /\ sup[r].reply = "none" /\ mail[r] # <<>>
    /\ mail' = [mail EXCEPT ![r] = Tail(@)]
    /\ IF sup[r].stopping THEN UNCHANGED <<sup, dog, child>>
       ELSE IF ~Expected(r, type, n) THEN Halted(r) /\ UNCHANGED dog
       ELSE /\ UNCHANGED child
            /\ CASE type = "ready" -> /\ sup' = [sup EXCEPT ![r].consumed = TRUE, ![r].reply = "consume"]
                                      /\ dog' = [dog EXCEPT ![r].active = TRUE]
                 [] type = "wireBegin" -> /\ sup' = [sup EXCEPT ![r].requested = n, ![r].pending = n, ![r].reply = "permit"]
                                          /\ dog' = [dog EXCEPT ![r].ordinal = n, ![r].pending = n]
                 [] OTHER -> /\ sup' = [sup EXCEPT ![r].pending = 0]
                             /\ dog' = [dog EXCEPT ![r].pending = 0]
    /\ UNCHANGED <<anchor, calls>>

\* The answer to the data process, with the supervisor's own timer running.
Grant(r) ==
    /\ sup[r].st = "up" /\ sup[r].reply # "none"
    /\ sup' = [sup EXCEPT ![r].reply = "none"]
    /\ CASE ChildAt(r, "ready") /\ sup[r].reply = "consume" -> Go(r, "told")
         [] ChildAt(r, "asked") /\ sup[r].reply = "permit" -> Go(r, "permitted")
         [] OTHER -> UNCHANGED child
    /\ UNCHANGED <<anchor, dog, mail, calls>>

\* A timer of the supervisor, or a signal: the data process group is killed.
Stop(r) ==
    /\ sup[r].st = "up" /\ ~sup[r].stopping /\ Halted(r)
    /\ UNCHANGED <<anchor, dog, mail, calls>>

\* After the exit and the last message, the watchdog is told that the group is
\* gone; a watchdog that is not there fails the supervision.
Join(r) ==
    /\ sup[r].st = "up" /\ ChildAt(r, "gone") /\ mail[r] = <<>> /\ sup[r].reply = "none"
    /\ IF dog[r].st = "watch" /\ (sup[r].consumed => dog[r].active)
       THEN /\ sup' = [sup EXCEPT ![r].st = "joined"]
            /\ dog' = [dog EXCEPT ![r].active = FALSE, ![r].pending = 0]
       ELSE sup' = [sup EXCEPT ![r].st = "failed"] /\ UNCHANGED dog
    /\ UNCHANGED <<anchor, child, mail, calls>>

\* The recovery of the supervisor, and its report when all is verified.
CleanUp(r) ==
    /\ sup[r].st = "joined"
    /\ \/ Recover(TRUE) /\ sup' = [sup EXCEPT ![r].st = IF dog[r].st = "watch" THEN "cleaned" ELSE "failed"]
       \/ Recover(FALSE) /\ sup' = [sup EXCEPT ![r].st = "failed"]
    /\ UNCHANGED <<child, dog, mail, calls>>
Report(r) ==
    /\ sup[r].st = "cleaned"
    /\ IF dog[r].st = "watch"
       THEN sup' = [sup EXCEPT ![r].st = "done"] /\ dog' = [dog EXCEPT ![r].st = "exited"]
       ELSE sup' = [sup EXCEPT ![r].st = "failed"] /\ UNCHANGED dog
    /\ UNCHANGED <<anchor, child, mail, calls>>

SupervisorDies(r) ==
    /\ sup[r].st \in {"up", "joined", "cleaned"}
    /\ sup' = [sup EXCEPT ![r].st = "dead", ![r].reply = "none"]
    /\ UNCHANGED <<anchor, child, dog, mail, calls>>

\* The supervisor is gone, or a deadline passed: the watchdog kills the data
\* process group it was told of, and runs the recovery in the time that is left.
Fire(r) ==
    /\ dog[r].st = "watch"
    /\ dog' = [dog EXCEPT ![r].st = "recover"]
    /\ IF dog[r].active THEN Go(r, "gone") ELSE UNCHANGED child
    /\ UNCHANGED <<anchor, sup, mail, calls>>
DogRecovers(r) ==
    /\ dog[r].st = "recover"
    /\ \E succeeded \in BOOLEAN : Recover(succeeded)
    /\ dog' = [dog EXCEPT ![r].st = "exited"]
    /\ UNCHANGED <<child, sup, mail, calls>>
DogDies(r) ==
    /\ dog[r].st \in {"watch", "recover"}
    /\ dog' = [dog EXCEPT ![r].st = "dead"]
    /\ UNCHANGED <<anchor, child, sup, mail, calls>>

CustodyNext ==
    \/ PrepareApproval \/ Expire \/ OwnerCleans
    \/ \E r \in CustodyRuns :
        \/ Start(r) \/ CheckApproval(r) \/ Spend(r) \/ Build(r) \/ BuildFails(r) \/ BeginLogical(r)
        \/ ReserveAttempt(r) \/ StartWire(r) \/ Call(r) \/ Answer(r) \/ Settle(r) \/ FinishRun(r) \/ Destroy(r) \/ ChildDies(r)
        \/ Hear(r) \/ Grant(r) \/ Stop(r) \/ Join(r) \/ CleanUp(r) \/ Report(r) \/ SupervisorDies(r)
        \/ Fire(r) \/ DogRecovers(r) \/ DogDies(r)

CustodySpec == CustodyInit /\ [][CustodyNext]_custodyVars

-----------------------------------------------------------------------------
(* Properties.                                                             *)

Holds(type, n) == Contains(anchor.ledger, <<type, n>>)

\* One approval is consumed once, whatever runs raced for it, and every
\* request that left was recorded before, after the previous one was settled
\* (reserve(), beforeWire(), received() of the custody).
CallsAccounted ==
    /\ Cardinality({e \in DOMAIN anchor.ledger : anchor.ledger[e][1] = "consumed"}) <= 1
    /\ \A c \in calls :
        /\ c[1] = anchor.spent
        /\ Holds("reserved", c[2]) /\ Holds("wire_started", c[2])
        /\ c[2] > 1 => Holds("received", c[2] - 1)

\* No request is under way without an independent timer on it: the watchdog
\* was told before the permission was given, and is watching unless it died.
CallsGuarded ==
    \A r \in CustodyRuns : child[r].st \in {"started", "calling"} =>
        dog[r].st = "dead" \/ (dog[r].st = "watch" /\ dog[r].active /\ dog[r].pending = child[r].attempts)

\* A supervision that reports a verified cleanup left neither its process nor
\* its capsule, and a capsule is never taken from a process still using it.
NothingLeft ==
    /\ \A r \in CustodyRuns : sup[r].st = "done" => ChildAt(r, "gone") /\ anchor.capsule # r
    /\ \A r \in CustodyRuns : child[r].st \in Exchanging \cup {"live", "idle", "finishing", "closing"} => anchor.capsule = r
=============================================================================
