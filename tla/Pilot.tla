-------------------------------- MODULE Pilot --------------------------------
(***************************************************************************)
(* The credit pilot (Decision 037): three single turns of a provider that  *)
(* is paid from existing credits, the first of one worker, a review by     *)
(* another, and a final response, each authorized by the owner only when   *)
(* the one before it is known to have settled.                             *)
(* Source: src/control/usage/pilot-lineage.ts, pilot-history.ts,           *)
(* pilot-final-history.ts, credit-pilot.ts and activity.ts, with           *)
(* scripts/credit-pilot and persistence/credit-pilot-migration.ts.         *)
(*                                                                         *)
(* Each stage has a row in the durable lineage, outside every company, and *)
(* a disposable company of its own.  Any number of the owner's commands    *)
(* may run at once on both; a command may die at any point.  A write of    *)
(* the lineage commits before the company's transaction around it: one     *)
(* action says how far the two got.  Abstracted: archives and their        *)
(* digests by what they must show of the stage before; clocks and an       *)
(* unreadable lineage by refusals that may always happen.                  *)
(***************************************************************************)
EXTENDS Integers

CONSTANTS Commands, Nobody   \* the owner's processes, and none of them

ASSUME PilotAssumption == Nobody \notin Commands

VARIABLES
    schema,      \* the newest stage the owner authorized: older rows are frozen
    lineage,     \* the row of each stage
    successor,   \* the company of each stage: its pilot, its scope, its execution and the invocation
    command,     \* what each process is doing, and the turn it runs
    provider,    \* what really happens at the provider
    sends        \* how often a turn of the stage was sent

pilotVars == <<schema, lineage, successor, command, provider, sends>>

Stages == 1..3
Lineages == [st : {"none", "authorized", "prepared", "supervising", "released", "reserved", "admitted", "stopped"},
             account : BOOLEAN, released : BOOLEAN, reserved : BOOLEAN, admitted : BOOLEAN, uncertain : BOOLEAN,
             settled : BOOLEAN, by : Commands \cup {Nobody},
             cause : {"none", "owner", "finished", "attempt", "preflight", "preparation", "restart"}]
Successors == [pilot : {"none", "held", "released", "running", "stopped"}, scope : {"active", "revoked"},
               exec : {"none", "running", "completed", "failed", "interrupted"},
               inv : {"none", "reserved", "active", "settled", "unknown"}]
PilotCommands == [at : {"idle", "preparing", "preflight", "supervising", "dispatching", "polling", "stopping"},
                  stage : Stages, run : {"none", "claimed", "sending", "turn"}]
PilotTypeOK ==
    /\ schema \in 0..3 /\ lineage \in [Stages -> Lineages] /\ successor \in [Stages -> Successors]
    /\ command \in [Commands -> PilotCommands]
    /\ provider \in [Stages -> {"none", "running", "ended"}] /\ sends \in [Stages -> Nat]

NoLineage == [st |-> "none", account |-> FALSE, released |-> FALSE, reserved |-> FALSE, admitted |-> FALSE,
              uncertain |-> FALSE, settled |-> FALSE, by |-> Nobody, cause |-> "none"]
PilotInit ==
    /\ schema = 0 /\ lineage = [s \in Stages |-> NoLineage]
    /\ successor = [s \in Stages |-> [pilot |-> "none", scope |-> "active", exec |-> "none", inv |-> "none"]]
    /\ command = [p \in Commands |-> [at |-> "idle", stage |-> 1, run |-> "none"]]
    /\ provider = [s \in Stages |-> "none"] /\ sends = [s \in Stages |-> 0]

-----------------------------------------------------------------------------
(* The lineage.                                                            *)

Idle(p) == command[p].at = "idle" /\ command[p].run = "none"
On(p, s, at) == command[p].at = at /\ command[p].stage = s
Goes(p, at) == command' = [command EXCEPT ![p].at = at]
Begins(p, s, at) == command' = [command EXCEPT ![p] = [at |-> at, stage |-> s, run |-> "none"]]

\* A stop is kept: the first cause, and what was uncertain, for ever.
Shut(r, cause) == IF r.st = "stopped" THEN r ELSE [r EXCEPT !.st = "stopped", !.cause = cause]
Stopped(s, cause) == [lineage EXCEPT ![s] = Shut(@, cause)]
Frozen(s) == schema > s

\* The company's own stop: the pilot first, then the scope it spends for.
CompanyHalted(s, loc, rev) ==
    [successor EXCEPT ![s].pilot = IF loc THEN "stopped" ELSE @, ![s].scope = IF rev THEN "revoked" ELSE @]

\* What the retained evidence of a stage must show before the next one.
Concluded(s) ==
    /\ lineage[s].st = "stopped" /\ lineage[s].released /\ lineage[s].reserved /\ lineage[s].admitted
    /\ ~lineage[s].uncertain /\ lineage[s].settled
    /\ successor[s] = [pilot |-> "stopped", scope |-> "revoked", exec |-> "completed", inv |-> "settled"]
ConcludedAtlas == Concluded(1)
ConcludedMaya == Concluded(2)

Opens(s) ==
    /\ schema = s - 1 /\ schema' = s /\ lineage' = [lineage EXCEPT ![s].st = "authorized"]
    /\ UNCHANGED <<successor, command, provider, sends>>
Register == Opens(1)
AuthorizeMaya == ConcludedAtlas /\ Opens(2)
AuthorizeFinal == ConcludedMaya /\ Opens(3)

\* One compare-and-swap makes one of the prepared companies the successor.
Prepare(p, s) ==
    /\ Idle(p) /\ lineage[s].st = "authorized" /\ Begins(p, s, "preparing")
    /\ lineage' = [lineage EXCEPT ![s].st = "prepared"]
    /\ successor' = [successor EXCEPT ![s].pilot = "held"]
    /\ UNCHANGED <<schema, provider, sends>>

PrepareEnds(p, s, ok) ==
    /\ On(p, s, "preparing") /\ Goes(p, "idle")
    /\ lineage' = IF ok THEN lineage ELSE Stopped(s, "preparation")
    /\ UNCHANGED <<schema, successor, provider, sends>>

\* The context imported for a later stage is still what was prepared.
ContextIntact(s) == s = 1 \/ successor[s].exec \in {"none", "running"}

Preflight(p, s) ==
    /\ Idle(p) /\ successor[s].pilot # "none" /\ Begins(p, s, "preflight")
    /\ UNCHANGED <<schema, lineage, successor, provider, sends>>

BindAccount(p, s) ==
    /\ On(p, s, "preflight") /\ lineage[s].st = "prepared" /\ ContextIntact(s) /\ Goes(p, "idle")
    /\ lineage' = [lineage EXCEPT ![s].account = TRUE]
    /\ UNCHANGED <<schema, successor, provider, sends>>

\* A failed preflight of the first stage stops it whatever it is doing; of a
\* later one only what nobody supervises yet.
PreflightFails(p, s, loc, rev) ==
    /\ On(p, s, "preflight") /\ Goes(p, "idle") /\ (rev => loc)
    /\ \/ s = 1 /\ ~loc /\ lineage' = IF Frozen(s) THEN lineage ELSE Stopped(s, "preflight")
       \/ s # 1 /\ lineage[s].st = "prepared" /\ lineage' = Stopped(s, "preflight")
       \/ s # 1 /\ lineage[s].st # "prepared" /\ ~loc /\ lineage' = lineage
    /\ successor' = CompanyHalted(s, loc, rev) /\ UNCHANGED <<schema, provider, sends>>

-----------------------------------------------------------------------------
(* The supervised turn.                                                    *)

\* A later stage is claimed by one supervisor before it recovers anything.
Supervise(p, s) ==
    /\ Idle(p) /\ lineage[s].st = "prepared" /\ ~lineage[s].released /\ Begins(p, s, "supervising")
    /\ \/ s = 1 /\ lineage' = lineage
       \/ /\ s # 1 /\ lineage[s].account /\ lineage[s].by = Nobody /\ ContextIntact(s)
          /\ lineage' = [lineage EXCEPT ![s].st = "supervising", ![s].by = p]
    /\ UNCHANGED <<schema, successor, provider, sends>>

Owns(p, s) == lineage[s].by = p

\* What a starting dispatcher takes for a supervision that was cut short.
Interrupts(p, s) ==
    lineage[s].st \in {"released", "reserved", "admitted"} \/ (lineage[s].st = "supervising" /\ ~Owns(p, s))

\* The dispatcher starts by recovering its company, step by step: the lineage,
\* the pilot, the invocation, the execution.
RecoverPilot(p, s, reach) ==
    LET row == IF Interrupts(p, s) THEN Shut(lineage[s], "restart") ELSE lineage[s]
        r == successor[s]
        pilot == IF row.st = "stopped" \/ r.pilot = "running" THEN "stopped" ELSE IF r.pilot = "released" THEN "held" ELSE r.pilot
    IN  /\ On(p, s, "supervising")
        /\ lineage' = [lineage EXCEPT ![s] = row]
        /\ successor' = [successor EXCEPT ![s] =
              [r EXCEPT !.pilot = IF reach >= 2 THEN pilot ELSE @,
                        !.inv = IF reach >= 3 /\ @ \in {"reserved", "active"} THEN "unknown" ELSE @,
                        !.exec = IF reach = 4 /\ @ = "running" THEN "interrupted" ELSE @]]
        /\ Goes(p, IF reach = 4 THEN "dispatching" ELSE "stopping")
        /\ UNCHANGED <<schema, provider, sends>>

\* The one release of the stage.
Release(p, s, kept) ==
    /\ On(p, s, "dispatching") /\ successor[s].pilot = "held" /\ successor[s].scope = "active"
    /\ ~lineage[s].released
    /\ \/ s = 1 /\ lineage[s].st = "prepared" /\ lineage[s].account
       \/ s # 1 /\ lineage[s].st = "supervising" /\ Owns(p, s) /\ ContextIntact(s)
    /\ lineage' = [lineage EXCEPT ![s].st = "released", ![s].released = TRUE]
    /\ successor' = IF kept THEN [successor EXCEPT ![s].pilot = "released"] ELSE successor
    /\ Goes(p, IF kept THEN "polling" ELSE "stopping") /\ UNCHANGED <<schema, provider, sends>>

SupervisionFails(p, s) ==
    /\ On(p, s, "supervising") \/ On(p, s, "dispatching")
    /\ Goes(p, "stopping") /\ UNCHANGED <<schema, lineage, successor, provider, sends>>

\* The dispatcher claims the released request: the reservation is spent first.
Reserve(p, s, kept) ==
    /\ On(p, s, "polling") /\ command[p].run = "none" /\ successor[s].pilot = "released" /\ successor[s].scope = "active"
    /\ successor[s].exec = "none" /\ successor[s].inv = "none"
    /\ lineage[s].st = "released" /\ ~lineage[s].reserved
    /\ lineage' = [lineage EXCEPT ![s].st = "reserved", ![s].reserved = TRUE, ![s].uncertain = TRUE]
    /\ IF kept THEN /\ successor' = [successor EXCEPT ![s].pilot = "running", ![s].exec = "running", ![s].inv = "reserved"]
                    /\ command' = [command EXCEPT ![p].run = "claimed"]
       ELSE UNCHANGED <<successor, command>>
    /\ UNCHANGED <<schema, provider, sends>>

\* The runtime admits the turn in the company, then in the lineage (ext).
Admit(p, s, ext) ==
    /\ command[p].stage = s /\ command[p].run = "claimed"
    /\ successor[s].pilot = "running" /\ successor[s].exec = "running" /\ successor[s].inv = "reserved"
    /\ successor' = [successor EXCEPT ![s].inv = "active"]
    /\ IF ext THEN /\ lineage[s].st = "reserved" /\ lineage[s].account
                   /\ lineage' = [lineage EXCEPT ![s].st = "admitted", ![s].admitted = TRUE]
                   /\ command' = [command EXCEPT ![p].run = "sending"]
       ELSE UNCHANGED <<lineage, command>>
    /\ UNCHANGED <<schema, provider, sends>>

Send(p, s) ==
    /\ command[p].stage = s /\ command[p].run = "sending"
    /\ command' = [command EXCEPT ![p].run = "turn"]
    /\ provider' = [provider EXCEPT ![s] = "running"] /\ sends' = [sends EXCEPT ![s] = @ + 1]
    /\ UNCHANGED <<schema, lineage, successor>>

TurnEnds(s) ==
    /\ provider[s] = "running" /\ provider' = [provider EXCEPT ![s] = "ended"]
    /\ UNCHANGED <<schema, lineage, successor, command, sends>>

\* The execution ends: in the lineage (ext), then in the company (kept).  An
\* execution that another command's recovery ended is left as it is.
FinishAttempt(p, s, out, settled, ext, kept) ==
    LET r == successor[s]
        row == IF lineage[s].st = "stopped" THEN lineage[s] ELSE [Shut(lineage[s], "attempt") EXCEPT !.uncertain = ~settled]
        mine == r.exec = "running"
    IN  /\ command[p].stage = s /\ command[p].run # "none"
        /\ settled => provider[s] = "ended"
        /\ out = "completed" => settled
        /\ command' = [command EXCEPT ![p].run = "none"]
        /\ lineage' = IF mine /\ ext /\ ~Frozen(s) THEN [lineage EXCEPT ![s] = [row EXCEPT !.settled = @ \/ settled]] ELSE lineage
        /\ successor' = IF mine /\ kept
                        THEN [successor EXCEPT ![s] = [r EXCEPT !.exec = out, !.pilot = "stopped",
                                !.inv = IF settled \/ @ = "reserved" THEN "settled" ELSE "unknown"]]
                        ELSE successor
        /\ UNCHANGED <<schema, provider, sends>>

\* The supervisor sees the end of the execution, or gives it up.
StopPoll(p, s, ext) ==
    /\ On(p, s, "polling") /\ Goes(p, "stopping")
    /\ \/ /\ successor[s].exec # "none" /\ successor[s].pilot \notin {"running", "released"} /\ ~ext
          /\ UNCHANGED <<lineage, successor>>
       \/ /\ successor' = CompanyHalted(s, TRUE, FALSE)
          /\ lineage' = IF ext /\ ~Frozen(s) THEN Stopped(s, "owner") ELSE lineage
    /\ UNCHANGED <<schema, provider, sends>>

\* A supervisor that ends leaves the stage stopped, when its turn is over.  The
\* first stage does nothing to its company when the lineage cannot be written.
Finalize(p, s, ext, loc, rev) ==
    /\ On(p, s, "stopping") /\ command[p].run = "none" /\ Goes(p, "idle")
    /\ rev => loc
    /\ (s = 1 /\ loc) => (ext /\ ~Frozen(s))
    /\ lineage' = IF ext /\ ~Frozen(s) THEN Stopped(s, "finished") ELSE lineage
    /\ successor' = CompanyHalted(s, loc, rev) /\ UNCHANGED <<schema, provider, sends>>

\* The owner's stop of the lineage alone, or of the company as far as it gets.
OwnerStops(s, ext, loc, rev) ==
    /\ schema >= s /\ (loc => successor[s].pilot # "none") /\ (rev => loc)
    /\ lineage' = IF ext /\ ~Frozen(s) THEN Stopped(s, "owner") ELSE lineage
    /\ successor' = CompanyHalted(s, loc, rev) /\ UNCHANGED <<schema, command, provider, sends>>

CommandDies(p) ==
    /\ ~Idle(p) /\ command' = [command EXCEPT ![p] = [at |-> "idle", stage |-> 1, run |-> "none"]]
    /\ UNCHANGED <<schema, lineage, successor, provider, sends>>

PilotNext ==
    \/ Register \/ AuthorizeMaya \/ AuthorizeFinal
    \/ \E p \in Commands, s \in Stages :
          \/ Prepare(p, s) \/ Preflight(p, s) \/ BindAccount(p, s) \/ Supervise(p, s) \/ SupervisionFails(p, s) \/ Send(p, s)
          \/ \E b \in BOOLEAN : PrepareEnds(p, s, b) \/ Release(p, s, b) \/ Reserve(p, s, b) \/ Admit(p, s, b) \/ StopPoll(p, s, b)
          \/ \E reach \in 1..4 : RecoverPilot(p, s, reach)
          \/ \E out \in {"completed", "failed", "interrupted"}, settled, ext, kept \in BOOLEAN :
                FinishAttempt(p, s, out, settled, ext, kept)
          \/ \E loc, rev \in BOOLEAN : PreflightFails(p, s, loc, rev) \/ \E ext \in BOOLEAN : Finalize(p, s, ext, loc, rev)
    \/ \E s \in Stages : TurnEnds(s) \/ \E ext, loc, rev \in BOOLEAN : OwnerStops(s, ext, loc, rev)
    \/ \E p \in Commands : CommandDies(p)

PilotSpec == PilotInit /\ [][PilotNext]_pilotVars

-----------------------------------------------------------------------------
(* Properties.                                                             *)

\* A stage sends at most one turn, and only what the durable lineage released,
\* reserved and admitted, whatever commands run beside each other or die.
OneTurnEach == \A s \in Stages : sends[s] <= 1 /\ (sends[s] > 0 => lineage[s].released /\ lineage[s].reserved /\ lineage[s].admitted)

\* A turn that may still run is uncertain in the lineage, so that the next stage
\* cannot be authorized beside it: never do two run.
NeverTwoTurns ==
    /\ \A s \in Stages : provider[s] = "running" => lineage[s].uncertain
    /\ \A s \in Stages : Frozen(s) => provider[s] = "ended"

\* The company never claims more than the lineage holds against the allowance.
WithinLineage ==
    \A s \in Stages :
        /\ successor[s].pilot \in {"released", "running"} => lineage[s].released
        /\ successor[s].exec # "none" => lineage[s].reserved
        /\ successor[s].exec = "completed" => lineage[s].admitted /\ provider[s] = "ended"
        /\ successor[s].inv = "settled" => provider[s] # "running"

\* Once claimed, a later stage is stopped neither by a preflight nor by the
\* recovery of a command that lost the claim.
ClaimRespected == \A s \in 2..3 : lineage[s].by # Nobody => lineage[s].cause \notin {"preflight", "restart"}

OneCreditTurn == OneTurnEach /\ NeverTwoTurns /\ WithinLineage /\ ClaimRespected
=============================================================================
