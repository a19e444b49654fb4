------------------------------ MODULE Business ------------------------------
(***************************************************************************)
(* External actions of a mandate: proposed by its coordinator, approved by *)
(* the owner, sent once to the provider, and never sent again when their   *)
(* outcome is not known.  Source: src/control/business.ts.                 *)
(*                                                                         *)
(* One grant of one mandate and its cycle; `turn` is the model turn that   *)
(* proposed an action.  A request that was transmitted may take effect at  *)
(* any later time.  Abstracted: the intent's contents and hash, evidence   *)
(* and its reads, and audit.  What ends an action's authority is one flag  *)
(* of the action (its deadline, withdrawn evidence) and one of the scope   *)
(* (grant, mandate or cycle is over); what only holds it back is another   *)
(* (HQ or mandate paused, a model outcome of the worker unknown).          *)
(***************************************************************************)
EXTENDS Integers, Sequences, FiniteSets

CONSTANTS
    Documents,        \* targets
    ActionBound,      \* actions of the grant (max_actions)
    ReconcileBound    \* read-only reconciliations of an action (6 in the code)

ASSUME BusinessAssumption == ActionBound \in Nat /\ ReconcileBound \in Nat

VARIABLES
    acts,     \* external_actions with their attempt, approval and reconciliations
    scope,    \* what the authority of an action rests on
    sending   \* the action whose execute() runs, 0 if none

businessVars == <<acts, scope, sending>>
Waiting == {"awaiting_approval", "approved"}

ExternalAction == \* the control columns of an action with its approval, attempt and reconciliations
    [doc : Documents,
     st : Waiting \cup {"denied", "cancelled", "revoked", "executing", "succeeded", "failed", "outcome_unknown"},
     att : {"none", "preparing", "transmitting", "settled", "outcome_unknown"},
     turn : {"running", "waits", "ended"}, due : BOOLEAN, cut : BOOLEAN,
     wire : {"none", "sent", "effective", "refused"}, recs : 0..ReconcileBound, rec : BOOLEAN]

BusinessTypeOK ==
    /\ acts \in Seq(ExternalAction) /\ Len(acts) <= ActionBound /\ sending \in 0..Len(acts)
    /\ scope \in [open : BOOLEAN, held : BOOLEAN, stopping : BOOLEAN]

BusinessInit ==
    /\ acts = <<>> /\ sending = 0
    /\ scope = [open |-> TRUE, held |-> FALSE, stopping |-> FALSE]

-----------------------------------------------------------------------------
(* Authority.                                                              *)

Busy == \E k \in DOMAIN acts : acts[k].turn = "running"

EffectAuthority(k, settled) ==
    /\ scope.open /\ ~scope.held /\ ~scope.stopping /\ ~acts[k].due /\ ~acts[k].cut
    /\ settled => ~Busy /\ acts[k].turn = "waits"

\* A mutant of ResourceFence: only an effect in progress is respected.
FenceExecuting(k, doc) == \A j \in DOMAIN acts \ {k} : acts[j].doc = doc => acts[j].st # "executing"
ResourceFence(k, doc) == \A j \in DOMAIN acts \ {k} : acts[j].doc = doc => acts[j].st \notin {"executing", "outcome_unknown"}

Stale(k) == acts[k].turn = "ended" \/ acts[k].due \/ ~scope.open

-----------------------------------------------------------------------------
(* The coordinator and the owner.                                          *)

Propose(doc) ==
    /\ scope.open /\ ~scope.held /\ ~Busy /\ Len(acts) < ActionBound
    /\ ResourceFence(0, doc)
    /\ acts' = Append(acts, [doc |-> doc, st |-> "awaiting_approval", att |-> "none", turn |-> "running", due |-> FALSE,
                             cut |-> FALSE, wire |-> "none", recs |-> 0, rec |-> FALSE])
    /\ UNCHANGED <<scope, sending>>

\* The turn ends with an explicit wait for its action, or in any other way.
ProposerEnds(k, how) ==
    acts[k].turn = "running" /\ acts' = [acts EXCEPT ![k].turn = how] /\ UNCHANGED <<scope, sending>>

BusinessDecide(k, approved) ==
    /\ acts[k].st = "awaiting_approval"
    /\ approved => EffectAuthority(k, FALSE)
    /\ acts' = [acts EXCEPT ![k].st = IF approved THEN "approved" ELSE "denied"]
    /\ UNCHANGED <<scope, sending>>

\* control() of an action or of the grant: what was not sent yet is closed.
Closed(S, st) == [k \in DOMAIN acts |-> IF k \in S /\ acts[k].st \in Waiting THEN [acts[k] EXCEPT !.st = st] ELSE acts[k]]
ControlAction(k, st) ==
    ~acts[k].cut /\ acts' = [Closed({k}, st) EXCEPT ![k].cut = TRUE] /\ UNCHANGED <<scope, sending>>
ControlGrant(st) ==
    scope.open /\ scope' = [scope EXCEPT !.open = FALSE] /\ acts' = Closed(DOMAIN acts, st) /\ UNCHANGED sending

\* Deadlines and evidence of an action; the mandate, the cycle, HQ and the worker.
AuthorityEnds(k) == ~acts[k].due /\ acts' = [acts EXCEPT ![k].due = TRUE] /\ UNCHANGED <<scope, sending>>
ScopeMoves ==
    /\ \/ scope.open /\ scope' = [scope EXCEPT !.open = FALSE]
       \/ scope' = [scope EXCEPT !.held = ~@]
       \/ ~scope.stopping /\ scope' = [scope EXCEPT !.stopping = TRUE]
    /\ UNCHANGED <<acts, sending>>

-----------------------------------------------------------------------------
(* progress() and execute().                                               *)

BusinessProgress ==
    LET kept == [k \in DOMAIN acts |-> IF acts[k].st \in Waiting /\ Stale(k) THEN [acts[k] EXCEPT !.st = "cancelled"] ELSE acts[k]]
        ready == {k \in DOMAIN acts : kept[k].st = "approved" /\ EffectAuthority(k, TRUE) /\ ResourceFence(k, acts[k].doc)}
        first == CHOOSE k \in ready : \A j \in ready : k <= j
        start == sending = 0 /\ ready # {}
    IN /\ acts' = IF start THEN [kept EXCEPT ![first].st = "executing", ![first].att = "preparing"] ELSE kept
       /\ sending' = IF start THEN first ELSE sending
       /\ UNCHANGED scope
       /\ acts' # acts

\* The adapter is about to transmit: authority and fence are asked again, then it is recorded.
Transmitting ==
    /\ sending # 0 /\ acts[sending].att = "preparing"
    /\ EffectAuthority(sending, TRUE) /\ ResourceFence(sending, acts[sending].doc)
    /\ acts' = [acts EXCEPT ![sending].att = "transmitting", ![sending].wire = "sent"]
    /\ UNCHANGED <<scope, sending>>

\* A mutant of EndedAttempt: every attempt that fails is reported as not sent.
EndedAsFailed(a) == [a EXCEPT !.st = "failed", !.att = "settled"]

\* What an attempt without an answer leaves: nothing was sent, or nobody knows.
EndedAttempt(a) ==
    IF a.att = "transmitting" THEN [a EXCEPT !.st = "outcome_unknown", !.att = "outcome_unknown"]
    ELSE [a EXCEPT !.st = "failed", !.att = "settled"]

AttemptFails ==
    /\ sending # 0 /\ acts' = [acts EXCEPT ![sending] = EndedAttempt(@)] /\ sending' = 0
    /\ UNCHANGED scope

ReceiptArrives ==
    /\ sending # 0 /\ acts[sending].wire = "effective"
    /\ acts' = [acts EXCEPT ![sending].st = "succeeded", ![sending].att = "settled"] /\ sending' = 0
    /\ UNCHANGED scope

\* The provider applies what was sent, if the document still has the expected content.
ProviderActs(k) ==
    /\ acts[k].wire = "sent"
    /\ \E how \in {"effective", "refused"} : acts' = [acts EXCEPT ![k].wire = how]
    /\ UNCHANGED <<scope, sending>>

ReconcileStarts(k) ==
    /\ acts[k].st = "outcome_unknown" /\ ~acts[k].rec /\ acts[k].recs < ReconcileBound /\ ~scope.stopping
    /\ acts' = [acts EXCEPT ![k].rec = TRUE, ![k].recs = @ + 1] /\ UNCHANGED <<scope, sending>>
ReconcileEnds(k) ==
    /\ acts[k].rec
    /\ \/ acts' = [acts EXCEPT ![k].rec = FALSE]
       \/ /\ acts[k].wire = "effective"
          /\ acts' = [acts EXCEPT ![k].rec = FALSE, ![k].st = "succeeded", ![k].att = "settled"]
    /\ UNCHANGED <<scope, sending>>

BusinessRecover ==
    /\ acts' = [k \in DOMAIN acts |-> [(IF acts[k].att \in {"preparing", "transmitting"} THEN EndedAttempt(acts[k]) ELSE acts[k])
                                       EXCEPT !.rec = FALSE, !.turn = IF @ = "running" THEN "ended" ELSE @]]
    /\ sending' = 0 /\ scope' = [scope EXCEPT !.stopping = FALSE]

BusinessNext ==
    \/ \E doc \in Documents : Propose(doc)
    \/ \E k \in DOMAIN acts :
          \/ \E how \in {"waits", "ended"} : ProposerEnds(k, how)
          \/ \E approved \in BOOLEAN : BusinessDecide(k, approved)
          \/ \E st \in {"cancelled", "revoked"} : ControlAction(k, st)
          \/ AuthorityEnds(k) \/ ProviderActs(k) \/ ReconcileStarts(k) \/ ReconcileEnds(k)
    \/ \E st \in {"cancelled", "revoked"} : ControlGrant(st)
    \/ ScopeMoves \/ BusinessProgress \/ Transmitting \/ AttemptFails \/ ReceiptArrives \/ BusinessRecover

BusinessSpec == BusinessInit /\ [][BusinessNext]_businessVars

-----------------------------------------------------------------------------
(* Properties.                                                             *)

\* An action HQ calls failed, denied, cancelled or revoked was never sent, and
\* one it calls succeeded took effect; all else stays unknown, through lost
\* answers, late effects, restarts and reconciliations.
OutcomeTrue ==
    \A k \in DOMAIN acts :
        /\ acts[k].st \in {"failed", "denied", "cancelled", "revoked"} => acts[k].wire = "none"
        /\ acts[k].st = "succeeded" => acts[k].wire = "effective"

\* While the effect of an action on a document is under way or unknown, no
\* other action is sent to the same document.
UnknownFenced ==
    \A j, k \in DOMAIN acts :
        /\ acts[j].doc = acts[k].doc
        /\ acts[j].st \in {"executing", "outcome_unknown"} /\ acts[k].st \in {"executing", "outcome_unknown"}
        => j = k
=============================================================================
