---------------------------- MODULE EffectsProofs ----------------------------
(***************************************************************************)
(* What HQ records of effects outside it, and what the provisioner of the  *)
(* host promises (HostTold, OutcomesTrue, UnknownFences and HostKept of    *)
(* MCEffects), for every number of workers, operations, actions,           *)
(* publications, sessions and lookups.                                     *)
(*                                                                         *)
(* Each component has an inductive invariant of its own, one predicate per *)
(* row (ActionKept, LookupKept, SessionKept, PushKept and PushTold, and    *)
(* StaffKept over a worker's row, account and clone) and what relates the  *)
(* rows: one action is sent at a time, only the last lookup may run, and   *)
(* no two operations of a kind are asked for at once.  The hard part is    *)
(* that an answer of the host may be lost at any point: StaffKept is kept  *)
(* by any request that is Proper, whatever it leaves behind (HandledWell,  *)
(* AskedKept), and by its answer, whenever that comes (AnsweredKept).  For *)
(* the provisioner it is what is known at each step of a request (Served)  *)
(* and which request has done what (Achieved), that later ones do not undo.    *)
(***************************************************************************)
EXTENDS MCEffects, FiniteSetTheorems, SequenceTheorems, WellFoundedInduction, TLAPS

\* A sequence is a function of its positions.
LEMMA SequenceAsFunction ==
  ASSUME NEW S, NEW s \in Seq(S)
  PROVE  Len(s) \in Nat /\ DOMAIN s = 1..Len(s) /\ s \in [1..Len(s) -> S]
  BY LenProperties

\* A function of the positions of a sequence is a sequence of the same length.
LEMMA FunctionAsSequence ==
  ASSUME NEW S, NEW s \in Seq(S), NEW f \in [DOMAIN s -> S]
  PROVE  f \in Seq(S) /\ DOMAIN f = DOMAIN s /\ Len(f) = Len(s)
<1>1. Len(s) \in Nat /\ DOMAIN s = 1..Len(s)
  BY SequenceAsFunction
<1>2. f \in Seq(S)
  BY <1>1, IsASeq
<1> QED
  BY <1>1, <1>2, LenProperties

\* A set of numbers that is not empty has a smallest one.
LEMMA Smallest ==
  ASSUME NEW S \in SUBSET Nat, S # {}
  PROVE  \E k \in S : \A j \in S : k <= j
<1> DEFINE R == {p \in Nat \X Nat : p[1] < p[2]}
<1>1. IsWellFoundedOn(R, Nat)
  BY NatLessThanWellFounded DEF OpToRel
<1>2. PICK k \in S : \A j \in S : ~ (<<j, k>> \in R)
  BY <1>1, WFMin
<1>3. \A j \in S : ~ (j < k) /\ j \in Nat /\ k \in Nat
  BY <1>2
<1> QED
  BY <1>3

-----------------------------------------------------------------------------
(* External actions.                                                       *)

\* A row of an action: how its state, its attempt and what is on the wire go together.
ActionKept(a) ==
    /\ a.st \in Waiting \cup {"denied", "cancelled", "revoked"} => a.att = "none"
    /\ a.att \in {"none", "preparing"} => a.wire = "none"
    /\ a.st = "executing" <=> a.att \in {"preparing", "transmitting"}
    /\ a.st = "outcome_unknown" <=> a.att = "outcome_unknown"
    /\ a.st = "failed" => a.wire = "none"
    /\ a.st = "succeeded" => a.wire = "effective"
    /\ a.rec => a.st = "outcome_unknown"

\* One action is being executed, and it is the one that is sent.
BusinessInv ==
    /\ BusinessTypeOK
    /\ \A k \in DOMAIN acts : ActionKept(acts[k])
    /\ \A k \in DOMAIN acts : acts[k].st = "executing" <=> k = sending
    /\ UnknownFenced

\* Nothing was proposed yet.
LEMMA BusinessStarts == BusinessInit => BusinessInv
<1> SUFFICES ASSUME BusinessInit PROVE BusinessInv
  OBVIOUS
<1>1. acts \in Seq(ExternalAction) /\ Len(acts) = 0 /\ DOMAIN acts = {}
  BY DEF BusinessInit
<1> QED
  BY <1>1, BusinessAssumption DEF BusinessInit, BusinessInv, BusinessTypeOK, UnknownFenced

\* What a step that keeps the number of actions has to show of each row.
LEMMA ActionRows ==
  ASSUME BusinessInv, acts' \in [DOMAIN acts -> ExternalAction],
         \A k \in DOMAIN acts :
            /\ ActionKept(acts'[k]) /\ acts'[k].doc = acts[k].doc
            /\ acts'[k].st \in {"executing", "outcome_unknown"} => acts[k].st \in {"executing", "outcome_unknown"}
            /\ acts'[k].st = "executing" <=> k = sending',
         sending' \in {0} \cup DOMAIN acts,
         scope' \in [open : BOOLEAN, held : BOOLEAN, stopping : BOOLEAN]
  PROVE  BusinessInv'
<1>1. acts' \in Seq(ExternalAction) /\ Len(acts') = Len(acts) /\ DOMAIN acts' = DOMAIN acts
  BY FunctionAsSequence DEF BusinessInv, BusinessTypeOK
<1>2. DOMAIN acts = 1..Len(acts) /\ Len(acts) \in Nat
  BY SequenceAsFunction DEF BusinessInv, BusinessTypeOK
<1>3. BusinessTypeOK'
  BY <1>1, <1>2 DEF BusinessInv, BusinessTypeOK
<1>4. UnknownFenced'
  BY <1>1 DEF BusinessInv, UnknownFenced
<1> QED
  BY <1>1, <1>3, <1>4 DEF BusinessInv

\* One row changes, and nothing is started or ended.
LEMMA ActionChanges ==
  ASSUME BusinessInv, NEW k \in DOMAIN acts, NEW a \in ExternalAction, acts' = [acts EXCEPT ![k] = a],
         ActionKept(a), a.doc = acts[k].doc,
         a.st \in {"executing", "outcome_unknown"} => acts[k].st \in {"executing", "outcome_unknown"},
         sending' = (IF k = sending /\ a.st # "executing" THEN 0 ELSE sending),
         a.st = "executing" => k = sending,
         scope' \in [open : BOOLEAN, held : BOOLEAN, stopping : BOOLEAN]
  PROVE  BusinessInv'
<1>1. acts \in [DOMAIN acts -> ExternalAction] /\ DOMAIN acts = 1..Len(acts) /\ Len(acts) \in Nat
  BY SequenceAsFunction DEF BusinessInv, BusinessTypeOK
<1>2. acts' \in [DOMAIN acts -> ExternalAction]
  BY <1>1
<1>3. sending \in {0} \cup DOMAIN acts
  BY <1>1 DEF BusinessInv, BusinessTypeOK
<1>4. \A j \in DOMAIN acts : acts'[j] = IF j = k THEN a ELSE acts[j]
  BY <1>1
<1>5. \A j \in DOMAIN acts :
        /\ ActionKept(acts'[j]) /\ acts'[j].doc = acts[j].doc
        /\ acts'[j].st \in {"executing", "outcome_unknown"} => acts[j].st \in {"executing", "outcome_unknown"}
        /\ acts'[j].st = "executing" <=> j = sending'
  BY <1>1, <1>4 DEF BusinessInv
<1> QED
  BY <1>2, <1>3, <1>5, ActionRows

\* A field of a row at a time.
LEMMA ActionFields ==
  ASSUME NEW a \in ExternalAction
  PROVE  /\ \A v \in {"running", "waits", "ended"} : [a EXCEPT !.turn = v] \in ExternalAction
         /\ \A v \in Waiting \cup {"denied", "cancelled", "revoked", "executing", "succeeded", "failed", "outcome_unknown"} : [a EXCEPT !.st = v] \in ExternalAction
         /\ \A v \in BOOLEAN : [a EXCEPT !.cut = v] \in ExternalAction /\ [a EXCEPT !.due = v] \in ExternalAction
                               /\ [a EXCEPT !.rec = v] \in ExternalAction
         /\ \A v \in {"none", "sent", "effective", "refused"} : [a EXCEPT !.wire = v] \in ExternalAction
         /\ \A v \in {"none", "preparing", "transmitting", "settled", "outcome_unknown"} : [a EXCEPT !.att = v] \in ExternalAction
         /\ \A v \in 0..ReconcileBound : [a EXCEPT !.recs = v] \in ExternalAction
  BY DEF ExternalAction

\* Every step of an action, of its attempt and of the world it is sent to.
LEMMA BusinessStep ==
  ASSUME BusinessInv, BusinessNext
  PROVE  BusinessInv'
<1> DEFINE Kept(a) == a \in ExternalAction /\ ActionKept(a)
<1>1. /\ acts \in [DOMAIN acts -> ExternalAction] /\ DOMAIN acts = 1..Len(acts) /\ Len(acts) \in Nat
      /\ sending \in {0} \cup DOMAIN acts /\ scope \in [open : BOOLEAN, held : BOOLEAN, stopping : BOOLEAN]
  BY SequenceAsFunction DEF BusinessInv, BusinessTypeOK
<1>2. \A k \in DOMAIN acts : acts[k] \in ExternalAction /\ ActionKept(acts[k]) /\ (acts[k].st = "executing" <=> k = sending)
  BY <1>1 DEF BusinessInv
<1>3. ASSUME NEW k \in DOMAIN acts, NEW how \in {"waits", "ended"}, ProposerEnds(k, how)
      PROVE  BusinessInv'
  <2> DEFINE a == [acts[k] EXCEPT !.turn = how]
  <2>1. a \in ExternalAction
    BY <1>2, ActionFields
  <2>2. ActionKept(a) /\ a.doc = acts[k].doc /\ a.st = acts[k].st
    BY <1>2 DEF ActionKept, ExternalAction
  <2>3. acts' = [acts EXCEPT ![k] = a] /\ sending' = sending /\ scope' = scope
    BY <1>3 DEF ProposerEnds
  <2> HIDE DEF a
  <2> QED
    BY <1>1, <1>2, <2>1, <2>2, <2>3, ActionChanges
<1>4. ASSUME NEW k \in DOMAIN acts, NEW approved \in BOOLEAN, BusinessDecide(k, approved)
      PROVE  BusinessInv'
  <2> DEFINE a == [acts[k] EXCEPT !.st = IF approved THEN "approved" ELSE "denied"]
  <2>1. a \in ExternalAction
    BY <1>2, ActionFields DEF Waiting
  <2>2. ActionKept(a) /\ a.doc = acts[k].doc /\ a.st \notin {"executing", "outcome_unknown"} /\ k # sending
    BY <1>2, <1>4 DEF ActionKept, ExternalAction, Waiting, BusinessDecide
  <2>3. acts' = [acts EXCEPT ![k] = a] /\ sending' = sending /\ scope' = scope
    BY <1>4 DEF BusinessDecide
  <2> HIDE DEF a
  <2> QED
    BY <1>1, <2>1, <2>2, <2>3, ActionChanges
<1>5. ASSUME NEW S \in SUBSET DOMAIN acts, NEW st \in {"cancelled", "revoked"}
      PROVE  \A k \in DOMAIN acts :
                /\ Kept(Closed(S, st)[k]) /\ Closed(S, st)[k].doc = acts[k].doc
                /\ Closed(S, st)[k].st \in {"executing", "outcome_unknown"} => acts[k].st \in {"executing", "outcome_unknown"}
                /\ Closed(S, st)[k].st = "executing" <=> k = sending
  <2> TAKE k \in DOMAIN acts
  <2>1. Closed(S, st)[k] = IF k \in S /\ acts[k].st \in Waiting THEN [acts[k] EXCEPT !.st = st] ELSE acts[k]
    BY DEF Closed
  <2>2. [acts[k] EXCEPT !.st = st] \in ExternalAction
    BY <1>2, ActionFields
  <2>3. acts[k].st \in Waiting => ActionKept([acts[k] EXCEPT !.st = st]) /\ k # sending
    BY <1>2 DEF ActionKept, ExternalAction, Waiting
  <2> QED
    BY <1>2, <2>1, <2>2, <2>3 DEF ExternalAction
<1>6. ASSUME NEW k \in DOMAIN acts, NEW st \in {"cancelled", "revoked"}, ControlAction(k, st)
      PROVE  BusinessInv'
  <2> DEFINE c == Closed({k}, st)[k]
  <2> DEFINE a == [c EXCEPT !.cut = TRUE]
  <2>1. Kept(c) /\ c.doc = acts[k].doc /\ (c.st = "executing" <=> k = sending)
        /\ (c.st \in {"executing", "outcome_unknown"} => acts[k].st \in {"executing", "outcome_unknown"})
    BY <1>5
  <2>2. acts' = [acts EXCEPT ![k] = a]
    <3>1. \A j \in DOMAIN acts \ {k} : Closed({k}, st)[j] = acts[j]
      BY DEF Closed
    <3> QED
      BY <1>1, <1>6, <3>1 DEF ControlAction, Closed
  <2> HIDE DEF c
  <2>3. a \in ExternalAction
    BY <2>1, ActionFields
  <2>4. ActionKept(a) /\ a.doc = acts[k].doc /\ a.st = c.st
    BY <2>1 DEF ActionKept, ExternalAction
  <2> HIDE DEF a
  <2> QED
    BY <1>1, <1>6, <2>1, <2>2, <2>3, <2>4, ActionChanges DEF ControlAction
<1>7. ASSUME NEW st \in {"cancelled", "revoked"}, ControlGrant(st)
      PROVE  BusinessInv'
  <2>1. acts' = Closed(DOMAIN acts, st) /\ sending' = sending /\ scope' = [scope EXCEPT !.open = FALSE]
    BY <1>7 DEF ControlGrant
  <2>2. acts' \in [DOMAIN acts -> ExternalAction]
    BY <1>5, <2>1 DEF Closed
  <2>3. \A k \in DOMAIN acts :
           /\ Kept(acts'[k]) /\ acts'[k].doc = acts[k].doc
           /\ acts'[k].st \in {"executing", "outcome_unknown"} => acts[k].st \in {"executing", "outcome_unknown"}
           /\ acts'[k].st = "executing" <=> k = sending
    BY <1>5, <2>1
  <2> QED
    BY <1>1, <2>1, <2>2, <2>3, ActionRows
<1>8. ASSUME NEW k \in DOMAIN acts, AuthorityEnds(k) PROVE BusinessInv'
  <2> DEFINE a == [acts[k] EXCEPT !.due = TRUE]
  <2>1. a \in ExternalAction
    BY <1>2, ActionFields
  <2>2. ActionKept(a) /\ a.doc = acts[k].doc /\ a.st = acts[k].st
    BY <1>2 DEF ActionKept, ExternalAction
  <2>3. acts' = [acts EXCEPT ![k] = a] /\ sending' = sending /\ scope' = scope
    BY <1>8 DEF AuthorityEnds
  <2> HIDE DEF a
  <2> QED
    BY <1>1, <1>2, <2>1, <2>2, <2>3, ActionChanges
<1>9. ASSUME NEW k \in DOMAIN acts, ProviderActs(k) PROVE BusinessInv'
  <2>1. PICK how \in {"effective", "refused"} : acts' = [acts EXCEPT ![k].wire = how]
    BY <1>9 DEF ProviderActs
  <2> DEFINE a == [acts[k] EXCEPT !.wire = how]
  <2>2. a \in ExternalAction
    BY <1>2, ActionFields
  <2>3. ActionKept(a) /\ a.doc = acts[k].doc /\ a.st = acts[k].st
    BY <1>2, <1>9 DEF ActionKept, ExternalAction, ProviderActs
  <2>4. acts' = [acts EXCEPT ![k] = a] /\ sending' = sending /\ scope' = scope
    BY <1>9, <2>1 DEF ProviderActs
  <2> HIDE DEF a
  <2> QED
    BY <1>1, <1>2, <2>2, <2>3, <2>4, ActionChanges
<1>10. ASSUME NEW k \in DOMAIN acts, ReconcileStarts(k) PROVE BusinessInv'
  <2> DEFINE a == [acts[k] EXCEPT !.rec = TRUE, !.recs = @ + 1]
  <2>1. a \in ExternalAction
    <3>1. acts[k].recs + 1 \in 0..ReconcileBound
      BY <1>2, <1>10, BusinessAssumption DEF ReconcileStarts, ExternalAction
    <3>2. [acts[k] EXCEPT !.recs = acts[k].recs + 1] \in ExternalAction
      BY <1>2, <3>1, ActionFields
    <3>3. a = [[acts[k] EXCEPT !.recs = acts[k].recs + 1] EXCEPT !.rec = TRUE]
      BY <1>2 DEF ExternalAction
    <3> QED
      BY <3>2, <3>3, ActionFields
  <2>2. ActionKept(a) /\ a.doc = acts[k].doc /\ a.st = acts[k].st
    BY <1>2, <1>10 DEF ActionKept, ExternalAction, ReconcileStarts
  <2>3. acts' = [acts EXCEPT ![k] = a] /\ sending' = sending /\ scope' = scope
    BY <1>10 DEF ReconcileStarts
  <2> HIDE DEF a
  <2> QED
    BY <1>1, <1>2, <2>1, <2>2, <2>3, ActionChanges
<1>11. ASSUME NEW k \in DOMAIN acts, ReconcileEnds(k) PROVE BusinessInv'
  <2>1. CASE acts' = [acts EXCEPT ![k].rec = FALSE]
    <3> DEFINE a == [acts[k] EXCEPT !.rec = FALSE]
    <3>1. a \in ExternalAction
      BY <1>2, ActionFields
    <3>2. ActionKept(a) /\ a.doc = acts[k].doc /\ a.st = acts[k].st
      BY <1>2 DEF ActionKept, ExternalAction
    <3>3. acts' = [acts EXCEPT ![k] = a] /\ sending' = sending /\ scope' = scope
      BY <1>11, <2>1 DEF ReconcileEnds
    <3> HIDE DEF a
    <3> QED
      BY <1>1, <1>2, <3>1, <3>2, <3>3, ActionChanges
  <2>2. CASE acts[k].wire = "effective" /\ acts' = [acts EXCEPT ![k].rec = FALSE, ![k].st = "succeeded", ![k].att = "settled"]
    <3> DEFINE a == [acts[k] EXCEPT !.rec = FALSE, !.st = "succeeded", !.att = "settled"]
    <3>1. a \in ExternalAction
      BY <1>2 DEF ExternalAction
    <3>2. ActionKept(a) /\ a.doc = acts[k].doc /\ a.st = "succeeded"
      BY <1>2, <2>2 DEF ActionKept, ExternalAction, Waiting
    <3>3. k # sending
      BY <1>2, <1>11 DEF ReconcileEnds, ActionKept
    <3>4. acts' = [acts EXCEPT ![k] = a] /\ sending' = sending /\ scope' = scope
      BY <1>1, <1>11, <2>2 DEF ReconcileEnds
    <3> HIDE DEF a
    <3> QED
      BY <1>1, <3>1, <3>2, <3>3, <3>4, ActionChanges
  <2> QED
    BY <1>11, <2>1, <2>2 DEF ReconcileEnds
<1>12. CASE ScopeMoves
  <2>1. scope' \in [open : BOOLEAN, held : BOOLEAN, stopping : BOOLEAN]
    BY <1>1, <1>12 DEF ScopeMoves
  <2> QED
    BY <1>1, <1>2, <1>12, <2>1, ActionRows DEF ScopeMoves
<1>13. CASE BusinessProgress
  <2> DEFINE kept == [k \in DOMAIN acts |-> IF acts[k].st \in Waiting /\ Stale(k) THEN [acts[k] EXCEPT !.st = "cancelled"] ELSE acts[k]]
             ready == {k \in DOMAIN acts : kept[k].st = "approved" /\ EffectAuthority(k, TRUE) /\ ResourceFence(k, acts[k].doc)}
             first == CHOOSE k \in ready : \A j \in ready : k <= j
             start == sending = 0 /\ ready # {}
  <2>1. /\ acts' = IF start THEN [kept EXCEPT ![first].st = "executing", ![first].att = "preparing"] ELSE kept
        /\ sending' = (IF start THEN first ELSE sending) /\ scope' = scope
    BY <1>13 DEF BusinessProgress
  <2>2. \A k \in DOMAIN acts : /\ Kept(kept[k]) /\ kept[k].doc = acts[k].doc
                               /\ kept[k].st \in {"executing", "outcome_unknown"} <=> acts[k].st \in {"executing", "outcome_unknown"}
                               /\ kept[k].st = "executing" <=> k = sending
    <3> TAKE k \in DOMAIN acts
    <3>1. [acts[k] EXCEPT !.st = "cancelled"] \in ExternalAction
      BY <1>2, ActionFields
    <3>2. acts[k].st \in Waiting => ActionKept([acts[k] EXCEPT !.st = "cancelled"]) /\ k # sending
                                    /\ acts[k].st \notin {"executing", "outcome_unknown"}
      BY <1>2 DEF ActionKept, ExternalAction, Waiting
    <3> QED
      BY <1>2, <3>1, <3>2 DEF ExternalAction
  <2>3. CASE ~start
    <3>1. acts' = kept /\ sending' = sending
      BY <2>1, <2>3
    <3>2. acts' \in [DOMAIN acts -> ExternalAction]
      BY <2>2, <3>1
    <3> HIDE DEF kept, start
    <3> QED
      BY <1>1, <2>1, <2>2, <3>1, <3>2, ActionRows
  <2>4. CASE start
    <3>1. first \in ready
      <4>1. ready # {} /\ ready \subseteq Nat
        <5>1. ready \subseteq DOMAIN acts
          OBVIOUS
        <5>2. ready # {}
          BY <2>4
        <5> HIDE DEF ready
        <5> QED
          BY <1>1, <5>1, <5>2
      <4> HIDE DEF ready
      <4>2. \E k \in ready : \A j \in ready : k <= j
        BY <4>1, Smallest
      <4> QED
        BY <4>2
    <3>2. first \in DOMAIN acts /\ kept[first].st = "approved" /\ ResourceFence(first, acts[first].doc)
      BY <3>1
    <3> DEFINE a == [kept[first] EXCEPT !.st = "executing", !.att = "preparing"]
    <3> HIDE DEF kept, ready, first, start
    <3>3. a \in ExternalAction
      BY ZenonT(40), <2>2, <3>2 DEF ExternalAction
    <3>4. ActionKept(a) /\ a.doc = acts[first].doc /\ a.st = "executing"
      BY <2>2, <3>2 DEF ActionKept, ExternalAction, Waiting
    <3>5. acts' = [kept EXCEPT ![first] = a] /\ sending' = first /\ sending = 0
      BY <2>1, <2>4 DEF start
    <3>6. DOMAIN kept = DOMAIN acts
      BY DEF kept
    <3> HIDE DEF a
    <3>7. \A k \in DOMAIN acts : acts'[k] = IF k = first THEN a ELSE kept[k]
      BY <3>5, <3>6
    <3>8. acts' \in [DOMAIN acts -> ExternalAction] /\ acts' \in Seq(ExternalAction) /\ Len(acts') = Len(acts) /\ DOMAIN acts' = DOMAIN acts
      <4>1. acts' \in [DOMAIN acts -> ExternalAction]
        BY <2>2, <3>3, <3>5, <3>6, <3>7
      <4> QED
        BY <4>1, FunctionAsSequence DEF BusinessInv, BusinessTypeOK
    <3>9. BusinessTypeOK'
      <4>1. sending' \in 0..Len(acts') /\ scope' \in [open : BOOLEAN, held : BOOLEAN, stopping : BOOLEAN]
        BY <1>1, <2>1, <3>2, <3>5, <3>8
      <4>2. Len(acts') <= ActionBound
        BY <3>8 DEF BusinessInv, BusinessTypeOK
      <4> QED
        BY <3>8, <4>1, <4>2 DEF BusinessTypeOK
    <3>10. \A k \in DOMAIN acts : ActionKept(acts'[k]) /\ (acts'[k].st = "executing" <=> k = first)
      BY <1>1, <2>2, <3>4, <3>5, <3>7
    <3>11. UnknownFenced'
      <4> SUFFICES ASSUME NEW i \in DOMAIN acts, NEW j \in DOMAIN acts, acts'[i].doc = acts'[j].doc,
                          acts'[i].st \in {"executing", "outcome_unknown"}, acts'[j].st \in {"executing", "outcome_unknown"}
                   PROVE  i = j
        BY <3>8 DEF UnknownFenced
      <4>1. acts[i].doc = acts[j].doc
        BY <2>2, <3>4, <3>7
      <4>2. \A k \in DOMAIN acts \ {first} : acts'[k].st \in {"executing", "outcome_unknown"} =>
                acts[k].st \in {"executing", "outcome_unknown"} /\ acts[k].doc # acts[first].doc
        BY <2>2, <3>2, <3>7 DEF ResourceFence
      <4> QED
        BY <4>1, <4>2 DEF BusinessInv, UnknownFenced
    <3> QED
      BY <3>5, <3>8, <3>9, <3>10, <3>11 DEF BusinessInv
  <2> QED
    BY <2>3, <2>4
<1>14. CASE Transmitting
  <2> DEFINE a == [acts[sending] EXCEPT !.att = "transmitting", !.wire = "sent"]
  <2>0. sending \in DOMAIN acts
    BY <1>1, <1>14 DEF Transmitting
  <2>1. a \in ExternalAction
    BY <1>2, <2>0 DEF ExternalAction
  <2>2. ActionKept(a) /\ a.doc = acts[sending].doc /\ a.st = "executing"
    BY <1>2, <1>14, <2>0 DEF ActionKept, ExternalAction, Transmitting, Waiting
  <2>3. acts' = [acts EXCEPT ![sending] = a] /\ sending' = sending /\ scope' = scope
    BY <1>1, <1>14 DEF Transmitting
  <2> HIDE DEF a
  <2> QED
    BY <1>1, <1>2, <2>0, <2>1, <2>2, <2>3, ActionChanges
<1>15. CASE AttemptFails
  <2> DEFINE a == EndedAttempt(acts[sending])
  <2>0. sending \in DOMAIN acts
    BY <1>1, <1>15 DEF AttemptFails
  <2>1. a \in ExternalAction
    BY <1>2, <2>0 DEF ExternalAction, EndedAttempt
  <2>2. ActionKept(a) /\ a.doc = acts[sending].doc /\ a.st # "executing" /\ acts[sending].st = "executing"
    BY <1>2, <2>0 DEF ActionKept, ExternalAction, Waiting, EndedAttempt
  <2>3. acts' = [acts EXCEPT ![sending] = a] /\ sending' = 0 /\ scope' = scope
    BY <1>1, <1>15 DEF AttemptFails
  <2> HIDE DEF a
  <2> QED
    BY <1>1, <1>2, <2>0, <2>1, <2>2, <2>3, ActionChanges
<1>16. CASE ReceiptArrives
  <2> DEFINE a == [acts[sending] EXCEPT !.st = "succeeded", !.att = "settled"]
  <2>0. sending \in DOMAIN acts /\ acts[sending].wire = "effective"
    BY <1>1, <1>16 DEF ReceiptArrives
  <2>1. a \in ExternalAction
    BY <1>2, <2>0 DEF ExternalAction
  <2>2. ActionKept(a) /\ a.doc = acts[sending].doc /\ a.st = "succeeded"
    BY <1>2, <2>0 DEF ActionKept, ExternalAction, Waiting
  <2>3. acts' = [acts EXCEPT ![sending] = a] /\ sending' = 0 /\ scope' = scope
    BY <1>1, <1>16 DEF ReceiptArrives
  <2> HIDE DEF a
  <2> QED
    BY <1>1, <1>2, <2>0, <2>1, <2>2, <2>3, ActionChanges
<1>17. CASE BusinessRecover
  <2> DEFINE ended(k) == IF acts[k].att \in {"preparing", "transmitting"} THEN EndedAttempt(acts[k]) ELSE acts[k]
  <2> DEFINE a(k) == [ended(k) EXCEPT !.rec = FALSE, !.turn = IF @ = "running" THEN "ended" ELSE @]
  <2>1. acts' = [k \in DOMAIN acts |-> a(k)] /\ sending' = 0 /\ scope' = [scope EXCEPT !.stopping = FALSE]
    BY <1>17 DEF BusinessRecover
  <2>2. \A k \in DOMAIN acts : /\ Kept(a(k)) /\ a(k).doc = acts[k].doc /\ a(k).st # "executing"
                               /\ a(k).st \in {"executing", "outcome_unknown"} => acts[k].st \in {"executing", "outcome_unknown"}
    <3> TAKE k \in DOMAIN acts
    <3>1. /\ Kept(ended(k)) /\ ended(k).doc = acts[k].doc /\ ended(k).st # "executing"
          /\ ended(k).st \in {"executing", "outcome_unknown"} => acts[k].st \in {"executing", "outcome_unknown"}
      <4>1. CASE acts[k].att \in {"preparing", "transmitting"}
        <5>1. ended(k) = EndedAttempt(acts[k])
          BY <4>1
        <5>2. Kept(acts[k]) /\ acts[k].st = "executing"
          BY <1>2, <4>1 DEF ActionKept
        <5>3. EndedAttempt(acts[k]) \in ExternalAction
          BY <5>2 DEF ExternalAction, EndedAttempt
        <5> QED
          BY <4>1, <5>1, <5>2, <5>3 DEF ActionKept, ExternalAction, Waiting, EndedAttempt
      <4>2. CASE acts[k].att \notin {"preparing", "transmitting"}
        BY <1>2, <4>2 DEF ActionKept
      <4> QED
        BY <4>1, <4>2
    <3> HIDE DEF ended
    <3> QED
      BY <3>1 DEF ActionKept, ExternalAction
  <2> HIDE DEF a
  <2>3. acts' \in [DOMAIN acts -> ExternalAction]
    BY <2>1, <2>2
  <2>4. scope' \in [open : BOOLEAN, held : BOOLEAN, stopping : BOOLEAN]
    BY <1>1, <2>1
  <2>5. \A k \in DOMAIN acts : acts'[k] = a(k) /\ k # 0
    BY <1>1, <2>1
  <2> QED
    BY <2>1, <2>2, <2>3, <2>4, <2>5, ActionRows
<1>18. ASSUME NEW doc \in Documents, Propose(doc) PROVE BusinessInv'
  <2> DEFINE a == [doc |-> doc, st |-> "awaiting_approval", att |-> "none", turn |-> "running", due |-> FALSE,
                   cut |-> FALSE, wire |-> "none", recs |-> 0, rec |-> FALSE]
  <2>1. a \in ExternalAction /\ ActionKept(a) /\ a.st = "awaiting_approval"
    BY BusinessAssumption DEF ExternalAction, ActionKept, Waiting
  <2>2. acts' = Append(acts, a) /\ sending' = sending /\ scope' = scope /\ Len(acts) < ActionBound
    BY <1>18 DEF Propose
  <2> HIDE DEF a
  <2>3. /\ acts' \in Seq(ExternalAction) /\ Len(acts') = Len(acts) + 1 /\ DOMAIN acts' = 1..Len(acts) + 1
        /\ \A k \in DOMAIN acts : acts'[k] = acts[k]
        /\ acts'[Len(acts) + 1] = a
    BY <1>1, <2>1, <2>2, AppendProperties DEF BusinessInv, BusinessTypeOK
  <2>4. BusinessTypeOK'
    BY <1>1, <2>2, <2>3, BusinessAssumption DEF BusinessInv, BusinessTypeOK
  <2>5. \A k \in DOMAIN acts' : k \in DOMAIN acts \/ (acts'[k] = a /\ k # sending)
    <3>1. Len(acts) + 1 # sending
      BY <1>1
    <3>2. \A k \in DOMAIN acts' : k \in DOMAIN acts \/ k = Len(acts) + 1
      BY <1>1, <2>3
    <3> QED
      BY <2>3, <3>1, <3>2
  <2>6. UnknownFenced'
    BY <2>1, <2>3, <2>5 DEF BusinessInv, UnknownFenced
  <2> QED
    BY <1>2, <2>1, <2>2, <2>3, <2>4, <2>5, <2>6 DEF BusinessInv
<1> QED
  BY <1>3, <1>4, <1>6, <1>7, <1>8, <1>9, <1>10, <1>11, <1>12, <1>13, <1>14, <1>15, <1>16, <1>17, <1>18 DEF BusinessNext

\* What is recorded of an action is what happened, and what is unknown holds its document.
LEMMA BusinessPromise == BusinessInv => OutcomeTrue /\ UnknownFenced
<1> SUFFICES ASSUME BusinessInv PROVE OutcomeTrue /\ UnknownFenced
  OBVIOUS
<1>1. OutcomeTrue
  BY DEF BusinessInv, ActionKept, OutcomeTrue
<1> QED
  BY <1>1 DEF BusinessInv
-----------------------------------------------------------------------------
(* Research.                                                               *)

\* A lookup under way, or one whose search may still run, is the last one and
\* belongs to the last execution.
LookupKept(r, last, now, made) ==
    /\ r.live <=> r.st \in Unsettled
    /\ r.live => last /\ r.exec = now
    /\ r.unresolved => last /\ r.exec = made /\ r.search
    /\ r.provider = "running" => r.unresolved
    /\ r.unresolved /\ ~r.live => r.st = "unknown"

\* The last execution is the one that runs, if one does, and only the last
\* lookup may still be under way.
ResearchInv ==
    /\ ResearchTypeOK
    /\ turn.now \in {0, turn.made}
    /\ \A o \in DOMAIN lookups : LookupKept(lookups[o], o = Len(lookups), turn.now, turn.made)

\* Nothing was looked up yet.
LEMMA ResearchStarts == ResearchInit => ResearchInv
<1> SUFFICES ASSUME ResearchInit PROVE ResearchInv
  OBVIOUS
<1>1. lookups \in Seq(ResearchOperation) /\ Len(lookups) = 0 /\ DOMAIN lookups = {}
  BY DEF ResearchInit
<1> QED
  BY <1>1, ResearchAssumption DEF ResearchInit, ResearchInv, ResearchTypeOK

\* A search that was abandoned is the last of its worker.
LEMMA ResearchPromise == ResearchInv => AbandonedSearchLast
BY DEF ResearchInv, LookupKept, AbandonedSearchLast

\* What a step that keeps the number of lookups has to show of each row.
LEMMA LookupRows ==
  ASSUME ResearchInv, lookups' \in [DOMAIN lookups -> ResearchOperation],
         standing' \in [now : 0..Grants, made : 0..Grants], turn' \in [now : 0..Turns, made : 0..Turns],
         turn'.now \in {0, turn'.made},
         \A o \in DOMAIN lookups : LookupKept(lookups'[o], o = Len(lookups), turn'.now, turn'.made)
  PROVE  ResearchInv'
<1>1. lookups' \in Seq(ResearchOperation) /\ Len(lookups') = Len(lookups) /\ DOMAIN lookups' = DOMAIN lookups
  BY FunctionAsSequence DEF ResearchInv, ResearchTypeOK
<1> QED
  BY <1>1 DEF ResearchInv, ResearchTypeOK

\* One row changes, within the same execution.
LEMMA LookupChanges ==
  ASSUME ResearchInv, NEW o \in DOMAIN lookups, NEW r \in ResearchOperation, Lookup(o, r),
         LookupKept(r, o = Len(lookups), turn.now, turn.made)
  PROVE  ResearchInv'
<1>1. lookups \in [DOMAIN lookups -> ResearchOperation]
  BY SequenceAsFunction DEF ResearchInv, ResearchTypeOK
<1>2. lookups' = [lookups EXCEPT ![o] = r] /\ standing' = standing /\ turn' = turn
  BY DEF Lookup
<1> QED
  BY <1>1, <1>2, LookupRows DEF ResearchInv, ResearchTypeOK

\* A field of a row at a time.
LEMMA LookupFields ==
  ASSUME NEW r \in ResearchOperation
  PROVE  /\ \A v \in Unsettled \cup {"completed", "failed", "withheld", "unknown"} : [r EXCEPT !.st = v] \in ResearchOperation
         /\ \A v \in BOOLEAN : /\ [r EXCEPT !.result = v] \in ResearchOperation /\ [r EXCEPT !.live = v] \in ResearchOperation
                               /\ [r EXCEPT !.unresolved = v] \in ResearchOperation /\ [r EXCEPT !.aborted = v] \in ResearchOperation
         /\ \A v \in {"none", "running", "ended"} : [r EXCEPT !.provider = v] \in ResearchOperation
  BY DEF ResearchOperation

\* A lookup that is given up is of no one's concern any more, unless its search may still run.
LEMMA CaughtKept ==
  ASSUME NEW r \in ResearchOperation, NEW last, NEW now, NEW made, LookupKept(r, last, now, made)
  PROVE  Caught(r) \in ResearchOperation /\ LookupKept(Caught(r), last, now, made)
<1>1. Caught(r).st \in {"unknown", "withheld", "failed"}
  BY DEF Caught, ResearchOperation
<1>2. Caught(r) \in ResearchOperation
  BY DEF Caught, ResearchOperation
<1> QED
  BY <1>1, <1>2 DEF Caught, LookupKept, ResearchOperation, Unsettled

\* A search that is not left running settles as it ended.
LEMMA SettledKept ==
  ASSUME NEW r \in ResearchOperation, NEW last, NEW now, NEW made, LookupKept(r, last, now, made), ~r.unresolved, NEW found
  PROVE  SettleSearch(r, found) \in ResearchOperation /\ LookupKept(SettleSearch(r, found), last, now, made)
<1> DEFINE s == [r EXCEPT !.st = "completed", !.result = TRUE, !.live = FALSE]
<1>1. s \in ResearchOperation
  BY DEF ResearchOperation
<1>2. LookupKept(s, last, now, made)
  BY DEF LookupKept, ResearchOperation, Unsettled
<1> HIDE DEF s
<1> QED
  BY <1>1, <1>2, CaughtKept DEF SettleSearch, s

\* Every step of a lookup, of the executions and of the grants.
LEMMA ResearchStep ==
  ASSUME ResearchInv, ResearchNext
  PROVE  ResearchInv'
<1>1. /\ lookups \in [DOMAIN lookups -> ResearchOperation] /\ DOMAIN lookups = 1..Len(lookups) /\ Len(lookups) \in Nat
      /\ standing \in [now : 0..Grants, made : 0..Grants] /\ turn \in [now : 0..Turns, made : 0..Turns]
  BY SequenceAsFunction DEF ResearchInv, ResearchTypeOK
<1>2. \A o \in DOMAIN lookups : lookups[o] \in ResearchOperation
                                /\ LookupKept(lookups[o], o = Len(lookups), turn.now, turn.made)
  BY <1>1 DEF ResearchInv
<1>3. Grants \in Nat /\ Turns \in Nat /\ Lookups \in Nat /\ turn.now \in {0, turn.made}
  BY ResearchAssumption DEF ResearchInv
<1>4. CASE GrantResearch
  <2>1. standing' \in [now : 0..Grants, made : 0..Grants] /\ lookups' = lookups /\ turn' = turn
    BY <1>1, <1>3, <1>4 DEF GrantResearch
  <2> QED
    BY <1>1, <1>2, <1>3, <2>1, LookupRows
<1>5. ASSUME NEW revoked \in BOOLEAN, GrantEnds(revoked) PROVE ResearchInv'
  <2> DEFINE a(o) == [lookups[o] EXCEPT !.aborted = @ \/ (revoked /\ lookups[o].live /\ lookups[o].grant = standing.now)]
  <2>1. standing' \in [now : 0..Grants, made : 0..Grants] /\ lookups' = [o \in DOMAIN lookups |-> a(o)] /\ turn' = turn
    BY <1>1, <1>3, <1>5 DEF GrantEnds
  <2>2. \A o \in DOMAIN lookups : a(o) \in ResearchOperation /\ LookupKept(a(o), o = Len(lookups), turn.now, turn.made)
    <3> TAKE o \in DOMAIN lookups
    <3>1. a(o) \in ResearchOperation
      BY <1>2 DEF ResearchOperation
    <3>2. LookupKept(a(o), o = Len(lookups), turn.now, turn.made)
      BY <1>2 DEF ResearchOperation, LookupKept
    <3> QED
      BY <3>1, <3>2
  <2> HIDE DEF a
  <2> QED
    BY <1>1, <1>3, <2>1, <2>2, LookupRows
<1>6. CASE InterruptSearch
  <2> DEFINE a(o) == [lookups[o] EXCEPT !.aborted = @ \/ lookups[o].live]
  <2>1. standing' = standing /\ lookups' = [o \in DOMAIN lookups |-> a(o)] /\ turn' = turn
    BY <1>6 DEF InterruptSearch
  <2>2. \A o \in DOMAIN lookups : a(o) \in ResearchOperation /\ LookupKept(a(o), o = Len(lookups), turn.now, turn.made)
    <3> TAKE o \in DOMAIN lookups
    <3>1. a(o) \in ResearchOperation
      BY <1>2 DEF ResearchOperation
    <3>2. LookupKept(a(o), o = Len(lookups), turn.now, turn.made)
      BY <1>2 DEF ResearchOperation, LookupKept
    <3> QED
      BY <3>1, <3>2
  <2> HIDE DEF a
  <2> QED
    BY <1>1, <1>3, <2>1, <2>2, LookupRows
<1>7. CASE TurnStarts
  <2>1. /\ turn' = [now |-> turn.made + 1, made |-> turn.made + 1] /\ turn.now = 0 /\ turn.made < Turns /\ ~Unresolved
        /\ lookups' = lookups /\ standing' = standing
    BY <1>7 DEF TurnStarts
  <2>2. \A o \in DOMAIN lookups : ~lookups[o].live /\ ~lookups[o].unresolved
    BY <1>2, <2>1 DEF LookupKept, Unresolved, ResearchOperation
  <2>3. \A o \in DOMAIN lookups : LookupKept(lookups'[o], o = Len(lookups), turn'.now, turn'.made)
    BY <1>2, <2>1, <2>2 DEF LookupKept
  <2>4. turn' \in [now : 0..Turns, made : 0..Turns] /\ turn'.now = turn'.made
    BY <1>1, <1>3, <2>1
  <2> QED
    BY <1>1, <2>1, <2>3, <2>4, LookupRows
<1>8. CASE ResearchTurnEnds
  <2>1. /\ turn' = [turn EXCEPT !.now = 0] /\ ~HasPending
        /\ lookups' = lookups /\ standing' = standing
    BY <1>8 DEF ResearchTurnEnds
  <2>2. \A o \in DOMAIN lookups : ~lookups[o].live
    BY <1>2, <2>1 DEF LookupKept, HasPending
  <2>3. turn' \in [now : 0..Turns, made : 0..Turns] /\ turn'.now = 0 /\ turn'.made = turn.made
    BY <1>1, <1>3, <2>1
  <2>4. \A o \in DOMAIN lookups : LookupKept(lookups'[o], o = Len(lookups), turn'.now, turn'.made)
    BY <1>2, <2>1, <2>2, <2>3 DEF LookupKept
  <2> QED
    BY <1>1, <2>1, <2>3, <2>4, LookupRows
<1>9. CASE ResearchRestart
  <2>1. lookups' = [o \in DOMAIN lookups |-> Recovered(lookups[o])] /\ turn' = [turn EXCEPT !.now = 0] /\ standing' = standing
    BY <1>9 DEF ResearchRestart
  <2>2. turn' \in [now : 0..Turns, made : 0..Turns] /\ turn'.now = 0 /\ turn'.made = turn.made
    BY <1>1, <1>3, <2>1
  <2>3. \A o \in DOMAIN lookups : /\ Recovered(lookups[o]) \in ResearchOperation
                                  /\ LookupKept(Recovered(lookups[o]), o = Len(lookups), 0, turn.made)
    <3> TAKE o \in DOMAIN lookups
    <3>0. lookups[o].st \in Unsettled \cup {"completed", "failed", "withheld", "unknown"}
      BY <1>2 DEF ResearchOperation
    <3>1. Recovered(lookups[o]) \in ResearchOperation
      <4> DEFINE v == IF lookups[o].st \notin Unsettled THEN lookups[o].st ELSE IF lookups[o].unresolved THEN "unknown" ELSE "failed"
      <4>1. v \in Unsettled \cup {"completed", "failed", "withheld", "unknown"}
        BY <3>0
      <4>2. Recovered(lookups[o]) = [[lookups[o] EXCEPT !.st = v] EXCEPT !.live = FALSE]
        BY <1>2 DEF Recovered, ResearchOperation
      <4> HIDE DEF v
      <4>3. [lookups[o] EXCEPT !.st = v] \in ResearchOperation
        BY <1>2, <4>1, LookupFields
      <4> QED
        BY <4>2, <4>3, LookupFields
    <3>2. LookupKept(Recovered(lookups[o]), o = Len(lookups), 0, turn.made)
      BY <1>2 DEF Recovered, ResearchOperation, LookupKept, Unsettled
    <3> QED
      BY <3>1, <3>2
  <2> QED
    BY <1>1, <2>1, <2>2, <2>3, LookupRows
<1>10. ASSUME NEW kind \in {"read", "open", "search"}, CallLookup(kind) PROVE ResearchInv'
  <2> DEFINE local == kind = "read"
             a == [exec |-> turn.now, grant |-> standing.now, search |-> kind = "search", unresolved |-> FALSE,
                   result |-> local, st |-> IF local THEN "completed" ELSE "reserved",
                   live |-> ~local, aborted |-> FALSE, provider |-> "none"]
  <2>1. /\ lookups' = Append(lookups, a) /\ standing' = standing /\ turn' = turn
        /\ turn.now # 0 /\ standing.now # 0 /\ Len(lookups) < Lookups /\ ~HasPending /\ ~Unresolved
    BY <1>10 DEF CallLookup, Reservable
  <2>2. a \in ResearchOperation /\ LookupKept(a, TRUE, turn.now, turn.made)
    <3>1. turn.now \in 1..Turns /\ standing.now \in 1..Grants
      BY <1>1, <1>3, <2>1
    <3>2. a \in ResearchOperation
      BY <3>1 DEF ResearchOperation, Unsettled
    <3>3. LookupKept(a, TRUE, turn.now, turn.made)
      BY DEF LookupKept, Unsettled
    <3> QED
      BY <3>2, <3>3
  <2>3. \A o \in DOMAIN lookups : ~lookups[o].live /\ ~lookups[o].unresolved
    BY <1>2, <2>1 DEF LookupKept, Unresolved, HasPending, ResearchOperation
  <2> HIDE DEF a
  <2>4. /\ lookups' \in Seq(ResearchOperation) /\ Len(lookups') = Len(lookups) + 1 /\ DOMAIN lookups' = 1..Len(lookups) + 1
        /\ \A o \in DOMAIN lookups : lookups'[o] = lookups[o]
        /\ lookups'[Len(lookups) + 1] = a
    BY <1>1, <2>1, <2>2, AppendProperties DEF ResearchInv, ResearchTypeOK
  <2>5. ResearchTypeOK'
    BY <1>1, <1>3, <2>1, <2>4 DEF ResearchTypeOK
  <2>6. \A o \in DOMAIN lookups' : LookupKept(lookups'[o], o = Len(lookups'), turn.now, turn.made)
    <3> TAKE o \in DOMAIN lookups'
    <3>1. CASE o \in DOMAIN lookups
      BY <1>2, <2>3, <2>4, <3>1 DEF LookupKept
    <3>2. CASE o = Len(lookups')
      BY <2>2, <2>4, <3>2
    <3> QED
      BY <1>1, <2>4, <3>1, <3>2
  <2> QED
    BY <1>3, <2>1, <2>5, <2>6 DEF ResearchInv
<1>11. ASSUME NEW o \in DOMAIN lookups, Begin(o) PROVE ResearchInv'
  <2> DEFINE r == lookups[o]
             b == [r EXCEPT !.st = "running"]
  <2>1. b \in ResearchOperation /\ LookupKept(b, o = Len(lookups), turn.now, turn.made)
    <3>1. b \in ResearchOperation
      BY <1>2, LookupFields DEF Unsettled
    <3> QED
      BY <1>2, <1>11, <3>1 DEF LookupKept, ResearchOperation, Unsettled, Begin
  <2>2. Lookup(o, b) \/ Lookup(o, Caught(r))
    BY <1>11 DEF Begin
  <2> HIDE DEF b
  <2> QED
    BY <1>2, <2>1, <2>2, CaughtKept, LookupChanges
<1>12. ASSUME NEW o \in DOMAIN lookups, Invoke(o) PROVE ResearchInv'
  <2> DEFINE r == lookups[o]
             b == [r EXCEPT !.unresolved = TRUE, !.provider = "running"]
  <2>1. b \in ResearchOperation /\ LookupKept(b, o = Len(lookups), turn.now, turn.made)
    <3>1. b \in ResearchOperation
      BY <1>2 DEF ResearchOperation
    <3>2. r.live /\ r.exec # 0 /\ r.search
      BY <1>2, <1>12 DEF Invoke, ResearchOperation
    <3> QED
      BY <1>2, <1>3, <3>1, <3>2 DEF LookupKept, ResearchOperation
  <2>2. Lookup(o, b) \/ Lookup(o, Caught(r))
    BY <1>12 DEF Invoke
  <2> HIDE DEF b
  <2> QED
    BY <1>2, <2>1, <2>2, CaughtKept, LookupChanges
<1>13. ASSUME NEW o \in DOMAIN lookups, SearchEnds(o) PROVE ResearchInv'
  <2> DEFINE b == [lookups[o] EXCEPT !.provider = "ended"]
  <2>1. b \in ResearchOperation
    BY <1>2, LookupFields
  <2>2. LookupKept(b, o = Len(lookups), turn.now, turn.made)
    BY <1>2 DEF LookupKept, ResearchOperation
  <2>3. Lookup(o, b)
    BY <1>13 DEF SearchEnds
  <2> HIDE DEF b
  <2> QED
    BY <2>1, <2>2, <2>3, LookupChanges
<1>14. ASSUME NEW o \in DOMAIN lookups, SearchLost(o) PROVE ResearchInv'
  BY <1>2, <1>14, CaughtKept, LookupChanges DEF SearchLost
<1>15. ASSUME NEW o \in DOMAIN lookups, NEW found \in BOOLEAN, SearchSettles(o, found) PROVE ResearchInv'
  <2> DEFINE b == [lookups[o] EXCEPT !.unresolved = FALSE]
  <2>1. b \in ResearchOperation
    BY <1>2, LookupFields
  <2>2. LookupKept(b, o = Len(lookups), turn.now, turn.made) /\ ~b.unresolved
    BY <1>2, <1>15 DEF LookupKept, ResearchOperation, SearchSettles
  <2>3. Lookup(o, SettleSearch(b, found))
    BY <1>15 DEF SearchSettles
  <2> HIDE DEF b
  <2> QED
    BY <2>1, <2>2, <2>3, SettledKept, LookupChanges
<1>16. ASSUME NEW o \in DOMAIN lookups, NEW found \in BOOLEAN, PageArrives(o, found) PROVE ResearchInv'
  <2>1. ~lookups[o].unresolved
    BY <1>2, <1>16 DEF PageArrives, LookupKept
  <2> QED
    BY <1>2, <1>16, <2>1, SettledKept, LookupChanges DEF PageArrives
<1> QED
  BY <1>4, <1>5, <1>6, <1>7, <1>8, <1>9, <1>10, <1>11, <1>12, <1>13, <1>14, <1>15, <1>16 DEF ResearchNext
-----------------------------------------------------------------------------
(* Computers.                                                              *)

\* How the request, the browser and the execution of a session go together.
SessionKept(r) ==
    /\ r.sent <= 1 /\ (r.intent \in Undecided \cup {"denied", "cancelled"} => r.sent = 0)
    /\ r.intent = "completed" => r.hit
    /\ r.confirmed => ~r.browser
    /\ r.st \in {"none", "requested"} => ~r.exec

\* The one who is about to start a browser.
Starting(r) == r.exec /\ r.st = "ready"

\* Who is about to start a browser finds none, as executions come one at a time.
ComputersInv ==
    /\ ComputersTypeOK
    /\ \A s \in Sessions : SessionKept(session[s])
    /\ \A s, t \in Sessions : session[s].exec /\ session[t].exec => s = t
    /\ \A s, t \in Sessions : session[s].browser /\ session[t].browser => s = t
    /\ \A s, t \in Sessions : Starting(session[s]) => ~session[t].browser

\* No session was requested yet.
LEMMA ComputersStart == ComputersInit => ComputersInv
BY DEF ComputersInit, ComputersInv, ComputersTypeOK, ComputerSession, SessionKept, Starting, Undecided

\* A protected request is sent at most once, and one browser is open at most.
LEMMA ComputersPromise == ComputersInv => ProtectedOnce /\ OneBrowser
<1> SUFFICES ASSUME ComputersInv PROVE ProtectedOnce /\ OneBrowser
  OBVIOUS
<1>1. ProtectedOnce
  BY DEF ComputersInv, SessionKept, ProtectedOnce
<1>2. OneBrowser
  <2> DEFINE B == {s \in Sessions : session[s].browser}
  <2>1. CASE B = {}
    BY <2>1, FS_EmptySet DEF OneBrowser
  <2>2. ASSUME NEW s \in B PROVE Cardinality(B) = 1
    <3>1. B = {s}
      BY <2>2 DEF ComputersInv
    <3> QED
      BY <3>1, FS_Singleton
  <2>3. Cardinality(B) <= 1
    BY <2>1, <2>2, FS_EmptySet
  <2> QED
    BY <2>3 DEF OneBrowser
<1> QED
  BY <1>1, <1>2

\* What a step that changes one session has to show of its row.
LEMMA SessionChanges ==
  ASSUME ComputersInv, NEW s \in Sessions, NEW r \in ComputerSession, SessionRow(s, r), SessionKept(r),
         r.exec => session[s].exec \/ \A x \in Sessions : ~session[x].exec,
         r.browser => session[s].browser \/ Starting(session[s]),
         Starting(r) => ~r.browser /\ (Starting(session[s]) \/ \A x \in Sessions : ~session[x].browser)
  PROVE  ComputersInv'
<1>1. session \in [Sessions -> ComputerSession] /\ session' = [session EXCEPT ![s] = r]
  BY DEF ComputersInv, ComputersTypeOK, SessionRow
<1>2. \A x \in Sessions : session'[x] = IF x = s THEN r ELSE session[x]
  BY <1>1
<1>3. ComputersTypeOK'
  BY <1>1 DEF ComputersTypeOK
<1>4. \A x \in Sessions : SessionKept(session'[x])
  BY <1>2 DEF ComputersInv
<1>5. \A x, y \in Sessions : session'[x].exec /\ session'[y].exec => x = y
  BY <1>2 DEF ComputersInv
<1>6. \A x, y \in Sessions : session'[x].browser /\ session'[y].browser => x = y
  BY <1>2 DEF ComputersInv
<1>7. \A x, y \in Sessions : Starting(session'[x]) => ~session'[y].browser
  <2> SUFFICES ASSUME NEW x \in Sessions, NEW y \in Sessions, Starting(session'[x]), session'[y].browser PROVE FALSE
    OBVIOUS
  <2>1. CASE x = s
    BY <1>2, <2>1 DEF ComputersInv
  <2>2. CASE x # s
    BY <1>2, <2>2 DEF ComputersInv, Starting
  <2> QED
    BY <2>1, <2>2
<1> QED
  BY <1>3, <1>4, <1>5, <1>6, <1>7 DEF ComputersInv

\* A field of a row at a time.
LEMMA SessionFields ==
  ASSUME NEW r \in ComputerSession
  PROVE  /\ \A v \in {"none", "requested", "ready"} \cup LiveSession \cup Over : [r EXCEPT !.st = v] \in ComputerSession
         /\ \A v \in {"none", "given", "over"} : [r EXCEPT !.grant = v] \in ComputerSession
         /\ \A v \in {"none", "queued", "blocked", "working", "awaiting_approval"} \cup Done : [r EXCEPT !.task = v] \in ComputerSession
         /\ \A v \in BOOLEAN : [r EXCEPT !.exec = v] \in ComputerSession /\ [r EXCEPT !.confirmed = v] \in ComputerSession
         /\ \A v \in BOOLEAN : [r EXCEPT !.hit = v] \in ComputerSession /\ [r EXCEPT !.finishing = v] \in ComputerSession
         /\ \A v \in BOOLEAN : [r EXCEPT !.browser = v] \in ComputerSession
         /\ \A v \in {"none", "transmitting", "completed", "denied", "cancelled", "unknown"} \cup Undecided : [r EXCEPT !.intent = v] \in ComputerSession
         /\ \A v \in 0..2 : [r EXCEPT !.sent = v] \in ComputerSession
         /\ \A v \in {"none", "launching", "up", "closing"} : [r EXCEPT !.env = v] \in ComputerSession
         /\ \A v \in {"none", "action", "check", "sent", "finish"} : [r EXCEPT !.op = v] \in ComputerSession
<1>1. /\ \A v \in {"none", "requested", "ready"} \cup LiveSession \cup Over : [r EXCEPT !.st = v] \in ComputerSession
      /\ \A v \in {"none", "given", "over"} : [r EXCEPT !.grant = v] \in ComputerSession
      /\ \A v \in {"none", "queued", "blocked", "working", "awaiting_approval"} \cup Done : [r EXCEPT !.task = v] \in ComputerSession
  BY DEF ComputerSession
<1>2. /\ \A v \in BOOLEAN : [r EXCEPT !.exec = v] \in ComputerSession /\ [r EXCEPT !.confirmed = v] \in ComputerSession
      /\ \A v \in BOOLEAN : [r EXCEPT !.hit = v] \in ComputerSession /\ [r EXCEPT !.finishing = v] \in ComputerSession
      /\ \A v \in BOOLEAN : [r EXCEPT !.browser = v] \in ComputerSession
  BY DEF ComputerSession
<1>3. /\ \A v \in {"none", "transmitting", "completed", "denied", "cancelled", "unknown"} \cup Undecided : [r EXCEPT !.intent = v] \in ComputerSession
      /\ \A v \in 0..2 : [r EXCEPT !.sent = v] \in ComputerSession
      /\ \A v \in {"none", "launching", "up", "closing"} : [r EXCEPT !.env = v] \in ComputerSession
      /\ \A v \in {"none", "action", "check", "sent", "finish"} : [r EXCEPT !.op = v] \in ComputerSession
  BY DEF ComputerSession
<1> QED
  BY <1>1, <1>2, <1>3

\* What the fields of a row are.
LEMMA SessionTypes ==
  ASSUME NEW r \in ComputerSession
  PROVE  /\ r.st \in {"none", "requested", "ready"} \cup LiveSession \cup Over
         /\ r.task \in {"none", "queued", "blocked", "working", "awaiting_approval"} \cup Done
         /\ r.intent \in {"none", "transmitting", "completed", "denied", "cancelled", "unknown"} \cup Undecided
         /\ r.sent \in 0..2 /\ r.env \in {"none", "launching", "up", "closing"}
         /\ r.exec \in BOOLEAN /\ r.confirmed \in BOOLEAN /\ r.hit \in BOOLEAN /\ r.finishing \in BOOLEAN /\ r.browser \in BOOLEAN
         /\ r.op \in {"none", "action", "check", "sent", "finish"} /\ r.grant \in {"none", "given", "over"}
  BY DEF ComputerSession

\* A session that is over is not one that is about to start.
LEMMA OverStates == Over \subseteq {"none", "requested", "ready"} \cup LiveSession \cup Over /\ Over \cap {"none", "requested", "ready"} = {} /\ "unknown" \in Over
BY DEF Over

\* A stop leaves a session that is over, with its execution and its browser.
LEMMA StoppedKept ==
  ASSUME NEW r \in ComputerSession, SessionKept(r), NEW st \in Over, NEW finishing \in BOOLEAN
  PROVE  /\ Stopped(r, st, finishing) \in ComputerSession /\ SessionKept(Stopped(r, st, finishing))
         /\ Stopped(r, st, finishing).exec = r.exec /\ Stopped(r, st, finishing).browser = r.browser
         /\ Stopped(r, st, finishing).st \in Over
<1> DEFINE unknown == Unknown \/ r.intent = "unknown"
<1> USE SessionTypes, OverStates
<1>1. CASE r.st \in Over /\ r.env \in {"none", "closing"}
  <2> DEFINE v == IF unknown THEN "unknown" ELSE r.st
  <2>1. Stopped(r, st, finishing) = [r EXCEPT !.st = v]
    BY <1>1 DEF Stopped
  <2>2. v \in Over
    BY <1>1
  <2> HIDE DEF v
  <2>3. [r EXCEPT !.st = v] \in ComputerSession
    BY <2>2, SessionFields
  <2> QED
    BY <2>1, <2>2, <2>3 DEF SessionKept, ComputerSession
<1>2. CASE ~(r.st \in Over /\ r.env \in {"none", "closing"})
  <2> DEFINE v == IF unknown THEN "unknown" ELSE st
             i == IF r.intent \in Undecided THEN "cancelled" ELSE r.intent
             t == IF r.task \in {"working"} \cup Done THEN r.task ELSE "blocked"
             e == IF r.env \in {"launching", "up"} THEN "closing" ELSE r.env
             a == [r EXCEPT !.st = v]
             b == [a EXCEPT !.intent = i]
             c == [b EXCEPT !.task = t]
             d == [c EXCEPT !.env = e]
  <2>1. Stopped(r, st, finishing) = [r EXCEPT !.st = v, !.intent = i, !.task = t, !.env = e, !.finishing = finishing]
    BY <1>2 DEF Stopped
  <2>2. v \in Over /\ e \in {"none", "launching", "up", "closing"}
    OBVIOUS
  <2>3. i \in {"none", "transmitting", "completed", "denied", "cancelled", "unknown"} \cup Undecided
    OBVIOUS
  <2>4. t \in {"none", "queued", "blocked", "working", "awaiting_approval"} \cup Done
    OBVIOUS
  <2>5. i # r.intent => r.sent = 0 /\ i = "cancelled"
    BY DEF SessionKept
  <2> HIDE DEF v, i, t, e
  <2>6. Stopped(r, st, finishing) = [d EXCEPT !.finishing = finishing]
    BY <2>1 DEF ComputerSession
  <2>7. a \in ComputerSession
    BY <2>2, SessionFields
  <2> HIDE DEF a
  <2>8. b \in ComputerSession
    BY <2>3, <2>7, SessionFields
  <2> HIDE DEF b
  <2>9. c \in ComputerSession
    BY <2>4, <2>8, SessionFields
  <2> HIDE DEF c
  <2>10. d \in ComputerSession
    BY <2>2, <2>9, SessionFields
  <2> HIDE DEF d
  <2>17. \A w \in BOOLEAN : [d EXCEPT !.finishing = w] \in ComputerSession
    BY <2>10, SessionFields
  <2>11. Stopped(r, st, finishing) \in ComputerSession
    BY <2>6, <2>17
  <2>12. /\ Stopped(r, st, finishing).st = v /\ Stopped(r, st, finishing).intent = i
         /\ Stopped(r, st, finishing).exec = r.exec /\ Stopped(r, st, finishing).browser = r.browser
         /\ Stopped(r, st, finishing).sent = r.sent /\ Stopped(r, st, finishing).hit = r.hit
         /\ Stopped(r, st, finishing).confirmed = r.confirmed
    BY <2>1 DEF ComputerSession
  <2> DEFINE n == Stopped(r, st, finishing)
  <2> HIDE DEF n
  <2>13. n.st \notin {"none", "requested"}
    BY <2>2, <2>12 DEF n
  <2>14. n.sent <= 1 /\ (n.intent \in Undecided \cup {"denied", "cancelled"} => n.sent = 0)
    BY <2>5, <2>12 DEF SessionKept, n
  <2>15. (n.intent = "completed" => n.hit) /\ (n.confirmed => ~n.browser)
    BY <2>5, <2>12 DEF SessionKept, n
  <2>16. SessionKept(n)
    BY <2>13, <2>14, <2>15 DEF SessionKept
  <2> QED
    BY <2>2, <2>11, <2>12, <2>16 DEF n
<1> QED
  BY <1>1, <1>2

\* Every step of a session, of its browser and of the request it protects.
LEMMA ComputersStep ==
  ASSUME ComputersInv, ComputersNext
  PROVE  ComputersInv'
<1>1. session \in [Sessions -> ComputerSession]
  BY DEF ComputersInv, ComputersTypeOK
<1>2. \A s \in Sessions : session[s] \in ComputerSession /\ SessionKept(session[s])
  BY <1>1 DEF ComputersInv
\* A stop of a session that is changed otherwise only where no one looks.
<1>3. ASSUME NEW s \in Sessions, NEW r \in ComputerSession, SessionKept(r), NEW st \in Over, NEW finishing \in BOOLEAN,
             r.exec => session[s].exec, r.browser => session[s].browser, SessionRow(s, Stopped(r, st, finishing))
      PROVE  ComputersInv'
  <2> DEFINE n == Stopped(r, st, finishing)
  <2>1. n \in ComputerSession /\ SessionKept(n) /\ n.exec = r.exec /\ n.browser = r.browser /\ n.st # "ready"
    BY <1>3, StoppedKept, OverStates
  <2> HIDE DEF n
  <2>2. SessionRow(s, n)
    BY <1>3 DEF n
  <2> QED
    BY <1>3, <2>1, <2>2, SessionChanges DEF Starting
\* The same of a change without a stop.
<1>4. ASSUME NEW s \in Sessions, NEW r \in ComputerSession, SessionKept(r), SessionRow(s, r),
             r.exec => session[s].exec, r.browser => session[s].browser, r.st # "ready" \/ ~r.exec \/ r.st = session[s].st
      PROVE  ComputersInv'
  <2>1. Starting(r) => Starting(session[s])
    BY <1>4 DEF Starting
  <2>2. Starting(session[s]) => ~session[s].browser
    BY DEF ComputersInv
  <2> QED
    BY <1>4, <2>1, <2>2, SessionChanges DEF Starting
<1> USE OverStates
<1>5. ASSUME NEW s \in Sessions, RequestSession(s) PROVE ComputersInv'
  <2> DEFINE a == [session[s] EXCEPT !.st = "requested"]
             b == [a EXCEPT !.task = "blocked"]
  <2>1. SessionRow(s, b) /\ session[s].st = "none"
    BY <1>2, <1>5 DEF RequestSession, ComputerSession
  <2>2. a \in ComputerSession
    BY <1>2, SessionFields
  <2>3. b \in ComputerSession
    BY <2>2, SessionFields
  <2>4. SessionKept(b) /\ b.exec = session[s].exec /\ b.browser = session[s].browser /\ b.st = "requested"
    BY <1>2, <2>1 DEF SessionKept, ComputerSession
  <2> HIDE DEF b
  <2> QED
    BY <1>4, <2>1, <2>3, <2>4
<1>6. ASSUME NEW s \in Sessions, NEW approve \in BOOLEAN, AuthorizeSession(s, approve) PROVE ComputersInv'
  <2> DEFINE t == IF session[s].task = "blocked" THEN "queued" ELSE session[s].task
             a == [session[s] EXCEPT !.st = "ready"]
             b == [a EXCEPT !.grant = "given"]
             c == [b EXCEPT !.task = t]
             d == [session[s] EXCEPT !.st = "denied"]
             e == [d EXCEPT !.task = "cancelled"]
  <2>1. session[s].st = "requested" /\ ~session[s].exec
    BY <1>2, <1>6 DEF AuthorizeSession, SessionKept
  <2>2. a \in ComputerSession /\ d \in ComputerSession
    BY <1>2, SessionFields DEF Over
  <2>3. b \in ComputerSession
    BY <2>2, SessionFields
  <2>4. t \in {"none", "queued", "blocked", "working", "awaiting_approval"} \cup Done
    BY <1>2, SessionTypes
  <2>5. c \in ComputerSession /\ e \in ComputerSession
    <3> HIDE DEF t, b, d
    <3> QED
      BY <2>2, <2>3, <2>4, SessionFields DEF Done
  <2>6. SessionKept(c) /\ ~c.exec /\ c.browser = session[s].browser
    BY <1>2, <2>1 DEF SessionKept, ComputerSession
  <2>7. SessionKept(e) /\ ~e.exec /\ e.browser = session[s].browser
    BY <1>2, <2>1 DEF SessionKept, ComputerSession
  <2>8. SessionRow(s, c) \/ SessionRow(s, e)
    BY <1>2, <1>6 DEF AuthorizeSession, ComputerSession
  <2> HIDE DEF c, e
  <2> QED
    BY <1>4, <2>5, <2>6, <2>7, <2>8
<1>7. ASSUME NEW s \in Sessions, NEW approve \in BOOLEAN, DecideIntent(s, approve) PROVE ComputersInv'
  <2> DEFINE a == [session[s] EXCEPT !.intent = "approved"]
             b == [a EXCEPT !.task = "queued"]
             d == [session[s] EXCEPT !.intent = "denied"]
  <2>1. session[s].intent = "pending"
    BY <1>7 DEF DecideIntent
  <2>2. a \in ComputerSession /\ d \in ComputerSession
    BY <1>2, SessionFields DEF Undecided
  <2>3. b \in ComputerSession
    BY <2>2, SessionFields
  <2>4. SessionKept(b) /\ b.exec = session[s].exec /\ b.browser = session[s].browser /\ b.st = session[s].st
    BY <1>2, <2>1 DEF SessionKept, ComputerSession, Undecided
  <2>5. SessionKept(d) /\ d.exec = session[s].exec /\ d.browser = session[s].browser
    BY <1>2, <2>1 DEF SessionKept, ComputerSession, Undecided
  <2>6. SessionRow(s, b) \/ SessionRow(s, Stopped(d, "denied", FALSE))
    BY <1>2, <1>7 DEF DecideIntent, ComputerSession
  <2> HIDE DEF b, d
  <2>7. "denied" \in Over
    BY DEF Over
  <2> QED
    BY <1>3, <1>4, <2>2, <2>3, <2>4, <2>5, <2>6, <2>7
<1>8. ASSUME NEW s \in Sessions, NEW revoke \in BOOLEAN, ControlSession(s, revoke) PROVE ComputersInv'
  <2> DEFINE g == IF revoke /\ session[s].grant = "given" THEN "over" ELSE session[s].grant
             a == [session[s] EXCEPT !.grant = g]
  <2>1. g \in {"none", "given", "over"}
    BY <1>2, SessionTypes
  <2>2. SessionRow(s, Stopped(a, "interrupted", FALSE)) /\ "interrupted" \in Over
    BY <1>8 DEF ControlSession, Over
  <2> HIDE DEF g
  <2>3. a \in ComputerSession
    BY <1>2, <2>1, SessionFields
  <2>4. SessionKept(a) /\ a.exec = session[s].exec /\ a.browser = session[s].browser
    BY <1>2 DEF SessionKept, ComputerSession
  <2> HIDE DEF a
  <2> QED
    BY <1>3, <2>2, <2>3, <2>4
<1>9. ASSUME NEW s \in Sessions, CancelTask(s) PROVE ComputersInv'
  <2> DEFINE a == [session[s] EXCEPT !.task = "cancelled"]
  <2>1. SessionRow(s, Stopped(a, "interrupted", FALSE)) /\ "interrupted" \in Over
    BY <1>9 DEF CancelTask, Over
  <2>2. a \in ComputerSession
    BY <1>2, SessionFields DEF Done
  <2>3. SessionKept(a) /\ a.exec = session[s].exec /\ a.browser = session[s].browser
    BY <1>2 DEF SessionKept, ComputerSession
  <2> HIDE DEF a
  <2> QED
    BY <1>3, <2>1, <2>2, <2>3
<1>10. ASSUME NEW s \in Sessions, GrantExpires(s) PROVE ComputersInv'
  <2> DEFINE a == [session[s] EXCEPT !.grant = "over"]
  <2>1. SessionRow(s, a)
    BY <1>10 DEF GrantExpires
  <2>2. a \in ComputerSession
    BY <1>2, SessionFields
  <2>3. SessionKept(a) /\ a.exec = session[s].exec /\ a.browser = session[s].browser /\ a.st = session[s].st
    BY <1>2 DEF SessionKept, ComputerSession
  <2> HIDE DEF a
  <2> QED
    BY <1>4, <2>1, <2>2, <2>3
<1>11. ASSUME NEW s \in Sessions, ClaimSession(s) PROVE ComputersInv'
  <2> DEFINE a == [session[s] EXCEPT !.task = "working"]
             b == [a EXCEPT !.exec = TRUE]
  <2>1. SessionRow(s, b) /\ (\A x \in Sessions : ~session[x].exec) /\ Eligible(s)
    BY <1>2, <1>11 DEF ClaimSession, ComputerSession
  <2>2. a \in ComputerSession
    BY <1>2, SessionFields
  <2>3. b \in ComputerSession
    BY <2>2, SessionFields
  <2>4. session[s].st \in {"ready", "awaiting_approval"} /\ (session[s].st = "ready" => \A x \in Sessions : ~session[x].browser)
    BY <1>2, <2>1 DEF Eligible, Vacant, SessionKept
  <2>5. SessionKept(b) /\ b.browser = session[s].browser /\ b.st = session[s].st
    BY <1>2, <2>4 DEF SessionKept, ComputerSession
  <2> HIDE DEF b
  <2> QED
    BY <2>1, <2>3, <2>4, <2>5, SessionChanges DEF Starting
<1>12. ASSUME NEW s \in Sessions, Act(s) PROVE ComputersInv'
  <2> DEFINE a == [session[s] EXCEPT !.op = "action"]
             b == [a EXCEPT !.st = "provisioning"]
             c == [b EXCEPT !.confirmed = FALSE]
             d == [c EXCEPT !.env = "launching"]
             e == [d EXCEPT !.browser = TRUE]
  <2>1. session[s].exec /\ ((SessionRow(s, a) /\ session[s].st = "active") \/ (SessionRow(s, e) /\ session[s].st = "ready"))
    BY <1>2, <1>12 DEF Act, Calls, ComputerSession
  <2>2. a \in ComputerSession
    BY <1>2, SessionFields
  <2>3. SessionKept(a) /\ a.exec = session[s].exec /\ a.browser = session[s].browser /\ a.st = session[s].st
    BY <1>2 DEF SessionKept, ComputerSession
  <2>4. SessionKept(e) /\ e.exec = session[s].exec /\ e.browser /\ e.st = "provisioning"
    BY <1>2 DEF SessionKept, ComputerSession
  <2> HIDE DEF a
  <2>5. b \in ComputerSession
    BY <2>2, SessionFields DEF LiveSession
  <2> HIDE DEF b
  <2>6. c \in ComputerSession
    BY <2>5, SessionFields
  <2> HIDE DEF c
  <2>7. d \in ComputerSession
    BY <2>6, SessionFields
  <2> HIDE DEF d
  <2>8. e \in ComputerSession
    BY <2>7, SessionFields
  <2> HIDE DEF e
  <2>9. CASE SessionRow(s, a)
    BY <1>4, <2>2, <2>3, <2>9
  <2>10. CASE SessionRow(s, e) /\ session[s].st = "ready"
    BY <2>1, <2>4, <2>8, <2>10, SessionChanges DEF Starting
  <2> QED
    BY <2>1, <2>9, <2>10
<1>13. ASSUME NEW s \in Sessions, Launched(s) PROVE ComputersInv'
  <2> DEFINE a == [session[s] EXCEPT !.st = "active"]
             b == [a EXCEPT !.env = "up"]
  <2>1. SessionRow(s, b) \/ SessionRow(s, Stopped(session[s], "failed", FALSE))
    BY <1>2, <1>13 DEF Launched, ComputerSession
  <2>2. a \in ComputerSession
    BY <1>2, SessionFields DEF LiveSession
  <2>6. \A w \in {"none", "launching", "up", "closing"} : [a EXCEPT !.env = w] \in ComputerSession
    BY <2>2, SessionFields
  <2>3. b \in ComputerSession
    BY <2>6
  <2>4. SessionKept(b) /\ b.exec = session[s].exec /\ b.browser = session[s].browser /\ b.st = "active"
    BY <1>2 DEF SessionKept, ComputerSession
  <2>5. "failed" \in Over
    BY DEF Over
  <2> HIDE DEF b
  <2> QED
    BY <1>2, <1>3, <1>4, <2>1, <2>3, <2>4, <2>5
<1>14. ASSUME NEW s \in Sessions, CaptureRequest(s) PROVE ComputersInv'
  <2> DEFINE a == [session[s] EXCEPT !.intent = "captured"]
             b == [a EXCEPT !.sent = 0]
             c == [b EXCEPT !.hit = FALSE]
  <2>1. SessionRow(s, c)
    BY <1>2, <1>14 DEF CaptureRequest, ComputerSession
  <2>2. a \in ComputerSession
    BY <1>2, SessionFields DEF Undecided
  <2>6. \A w \in 0..2 : [a EXCEPT !.sent = w] \in ComputerSession
    BY <2>2, SessionFields
  <2>3. b \in ComputerSession
    BY <2>6
  <2>4. SessionKept(c) /\ c.exec = session[s].exec /\ c.browser = session[s].browser /\ c.st = session[s].st
    BY <1>2 DEF SessionKept, ComputerSession
  <2> HIDE DEF b
  <2>5. c \in ComputerSession
    BY <2>3, SessionFields
  <2> HIDE DEF c
  <2> QED
    BY <1>4, <2>1, <2>4, <2>5
<1>15. ASSUME NEW s \in Sessions, ActionEnds(s) PROVE ComputersInv'
  <2> DEFINE a == [session[s] EXCEPT !.op = "none"]
  <2>1. SessionRow(s, a)
    BY <1>15 DEF ActionEnds
  <2>2. a \in ComputerSession
    BY <1>2, SessionFields
  <2>3. SessionKept(a) /\ a.exec = session[s].exec /\ a.browser = session[s].browser /\ a.st = session[s].st
    BY <1>2 DEF SessionKept, ComputerSession
  <2> HIDE DEF a
  <2> QED
    BY <1>4, <2>1, <2>2, <2>3
<1>16. ASSUME NEW s \in Sessions, RequestProtected(s) PROVE ComputersInv'
  <2> DEFINE a == [session[s] EXCEPT !.intent = "pending"]
             b == [a EXCEPT !.st = "awaiting_approval"]
  <2>1. SessionRow(s, b) /\ session[s].intent = "captured"
    BY <1>2, <1>16 DEF RequestProtected, ComputerSession
  <2>2. a \in ComputerSession
    BY <1>2, SessionFields DEF Undecided
  <2>3. b \in ComputerSession
    BY <2>2, SessionFields DEF LiveSession
  <2>4. SessionKept(b) /\ b.exec = session[s].exec /\ b.browser = session[s].browser /\ b.st = "awaiting_approval"
    BY <1>2, <2>1 DEF SessionKept, ComputerSession, Undecided
  <2> HIDE DEF b
  <2> QED
    BY <1>4, <2>1, <2>3, <2>4
<1>17. ASSUME NEW s \in Sessions, ExecuteApproved(s) PROVE ComputersInv'
  <2> DEFINE a == [session[s] EXCEPT !.op = "check"]
  <2>1. SessionRow(s, a)
    BY <1>17 DEF ExecuteApproved
  <2>2. a \in ComputerSession
    BY <1>2, SessionFields
  <2>3. SessionKept(a) /\ a.exec = session[s].exec /\ a.browser = session[s].browser /\ a.st = session[s].st
    BY <1>2 DEF SessionKept, ComputerSession
  <2> HIDE DEF a
  <2> QED
    BY <1>4, <2>1, <2>2, <2>3
<1>18. ASSUME NEW s \in Sessions, Checked(s) PROVE ComputersInv'
  <2> DEFINE a == [session[s] EXCEPT !.intent = "transmitting"]
             b == [a EXCEPT !.op = "sent"]
             c == [b EXCEPT !.sent = 1]
             d == [session[s] EXCEPT !.op = "none"]
  <2>1. \/ session[s].intent = "approved" /\ SessionRow(s, [session[s] EXCEPT !.intent = "transmitting", !.op = "sent", !.sent = @ + 1])
        \/ SessionRow(s, Stopped(d, "failed", FALSE))
    BY <1>18 DEF Checked, Sendable
  <2>2. session[s].intent = "approved" => session[s].sent = 0
    BY <1>2 DEF SessionKept, Undecided
  <2>11. session[s] \in ComputerSession
    BY <1>2
  <2>12. session[s].sent = 0 => [session[s] EXCEPT !.intent = "transmitting", !.op = "sent", !.sent = @ + 1]
                               = [session[s] EXCEPT !.intent = "transmitting", !.op = "sent", !.sent = 1]
    OBVIOUS
  <2>13. [session[s] EXCEPT !.intent = "transmitting", !.op = "sent", !.sent = 1] = c
    BY <2>11 DEF ComputerSession
  <2>9. session[s].intent = "approved" => [session[s] EXCEPT !.intent = "transmitting", !.op = "sent", !.sent = @ + 1] = c
    BY <2>2, <2>12, <2>13
  <2>3. (SessionRow(s, c) /\ session[s].intent = "approved") \/ SessionRow(s, Stopped(d, "failed", FALSE))
    BY <2>1, <2>9
  <2>4. a \in ComputerSession /\ d \in ComputerSession /\ "failed" \in Over
    BY <1>2, SessionFields DEF Over
  <2>5. SessionKept(c) /\ c.exec = session[s].exec /\ c.browser = session[s].browser /\ c.st = session[s].st
    BY <1>2 DEF SessionKept, ComputerSession, Undecided
  <2>6. SessionKept(d) /\ d.exec = session[s].exec /\ d.browser = session[s].browser
    BY <1>2 DEF SessionKept, ComputerSession
  <2> HIDE DEF a, d
  <2>7. b \in ComputerSession
    BY <2>4, SessionFields
  <2> HIDE DEF b
  <2>10. \A w \in 0..2 : [b EXCEPT !.sent = w] \in ComputerSession
    BY <2>7, SessionFields
  <2>8. c \in ComputerSession
    BY <2>10
  <2> HIDE DEF c
  <2> QED
    BY <1>3, <1>4, <2>3, <2>4, <2>5, <2>6, <2>8
<1>19. ASSUME NEW s \in Sessions, Answered(s) PROVE ComputersInv'
  <2> DEFINE a == [session[s] EXCEPT !.intent = "completed"]
             b == [a EXCEPT !.hit = TRUE]
             c == [b EXCEPT !.st = "active"]
             d == [c EXCEPT !.op = "action"]
             e == [b EXCEPT !.op = "none"]
  <2>1. SessionRow(s, d) \/ SessionRow(s, Stopped(e, "failed", FALSE))
    BY <1>2, <1>19 DEF Answered, ComputerSession
  <2>2. a \in ComputerSession
    BY <1>2, SessionFields
  <2>3. b \in ComputerSession
    BY <2>2, SessionFields
  <2>4. SessionKept(d) /\ d.exec = session[s].exec /\ d.browser = session[s].browser /\ d.st = "active"
    BY <1>2 DEF SessionKept, ComputerSession, Undecided
  <2>5. SessionKept(e) /\ e.exec = session[s].exec /\ e.browser = session[s].browser
    BY <1>2 DEF SessionKept, ComputerSession, Undecided
  <2> HIDE DEF b
  <2>6. c \in ComputerSession /\ e \in ComputerSession /\ "failed" \in Over
    BY <2>3, SessionFields DEF LiveSession, Over
  <2> HIDE DEF c, e
  <2>7. d \in ComputerSession
    BY <2>6, SessionFields
  <2> HIDE DEF d
  <2> QED
    BY <1>3, <1>4, <2>1, <2>4, <2>5, <2>6, <2>7
<1>20. ASSUME NEW s \in Sessions, AnswerLost(s) PROVE ComputersInv'
  <2> DEFINE a == [session[s] EXCEPT !.intent = "unknown"]
             b == [a EXCEPT !.op = "none"]
  <2>1. SessionRow(s, Stopped(b, "unknown", FALSE))
    BY <1>2, <1>20 DEF AnswerLost, Unanswered, ComputerSession
  <2>2. a \in ComputerSession
    BY <1>2, SessionFields
  <2>3. b \in ComputerSession
    BY <2>2, SessionFields
  <2>4. SessionKept(b) /\ b.exec = session[s].exec /\ b.browser = session[s].browser
    BY <1>2 DEF SessionKept, ComputerSession, Undecided
  <2> HIDE DEF b
  <2> QED
    BY <1>3, <2>1, <2>3, <2>4
<1>21. ASSUME NEW s \in Sessions, Finish(s) PROVE ComputersInv'
  <2> DEFINE a == [session[s] EXCEPT !.op = "finish"]
  <2>1. SessionRow(s, Stopped(a, "interrupted", TRUE)) /\ "interrupted" \in Over
    BY <1>21 DEF Finish, Over
  <2>2. a \in ComputerSession
    BY <1>2, SessionFields
  <2>3. SessionKept(a) /\ a.exec = session[s].exec /\ a.browser = session[s].browser
    BY <1>2 DEF SessionKept, ComputerSession
  <2> HIDE DEF a
  <2> QED
    BY <1>3, <2>1, <2>2, <2>3
<1>22. ASSUME NEW s \in Sessions, NEW outcome \in {"completed", "failed", "interrupted"}, TurnEnds(s, outcome) PROVE ComputersInv'
  <2> DEFINE r == [session[s] EXCEPT !.exec = FALSE]
             t(v) == [r EXCEPT !.task = v]
  <2>1. \E v \in {"blocked", "failed", "awaiting_approval", "completed"} :
            SessionRow(s, t(v)) \/ SessionRow(s, Stopped(t(v), "failed", FALSE))
    BY <1>22 DEF TurnEnds
  <2>2. r \in ComputerSession
    BY <1>2, SessionFields
  <2>3. SessionKept(r) /\ ~r.exec /\ r.browser = session[s].browser
    BY <1>2 DEF SessionKept, ComputerSession
  <2> HIDE DEF r
  <2>4. ASSUME NEW v \in {"blocked", "failed", "awaiting_approval", "completed"}
        PROVE  t(v) \in ComputerSession /\ SessionKept(t(v)) /\ ~t(v).exec /\ t(v).browser = session[s].browser
    <3>1. t(v) \in ComputerSession
      BY <2>2, SessionFields DEF Done
    <3>2. SessionKept(t(v)) /\ t(v).exec = r.exec /\ t(v).browser = r.browser
      BY <2>2, <2>3 DEF SessionKept, ComputerSession
    <3> QED
      BY <2>3, <3>1, <3>2
  <2>5. "failed" \in Over
    BY DEF Over
  <2> HIDE DEF t
  <2> QED
    BY <1>3, <1>4, <2>1, <2>4, <2>5
<1>23. ASSUME NEW s \in Sessions, TimerStops(s) PROVE ComputersInv'
  <2>1. SessionRow(s, Stopped(session[s], "expired", FALSE)) /\ "expired" \in Over
    BY <1>23 DEF TimerStops, Over
  <2> QED
    BY <1>2, <1>3, <2>1
<1>24. ASSUME NEW s \in Sessions, BrowserDies(s) PROVE ComputersInv'
  <2> DEFINE a == [session[s] EXCEPT !.browser = FALSE]
  <2>1. (SessionRow(s, a) \/ SessionRow(s, Stopped(a, "failed", FALSE))) /\ "failed" \in Over
    BY <1>24 DEF BrowserDies, Over
  <2>2. a \in ComputerSession
    BY <1>2, SessionFields
  <2>3. SessionKept(a) /\ a.exec = session[s].exec /\ ~a.browser /\ a.st = session[s].st
    BY <1>2 DEF SessionKept, ComputerSession
  <2> HIDE DEF a
  <2> QED
    BY <1>3, <1>4, <2>1, <2>2, <2>3
<1>25. ASSUME NEW s \in Sessions, NEW confirmed \in BOOLEAN, ClosedSession(s, confirmed) PROVE ComputersInv'
  <2> DEFINE r == session[s]
             st == CASE r.intent = "unknown" -> "unknown"
                     [] r.intent # "unknown" /\ r.finishing -> IF confirmed THEN "completed" ELSE "failed"
                     [] OTHER -> r.st
             n == [r EXCEPT !.env = "none", !.confirmed = confirmed, !.browser = @ /\ ~confirmed, !.st = st, !.finishing = FALSE,
                            !.op = IF @ = "finish" THEN "none" ELSE @]
             op == IF r.op = "finish" THEN "none" ELSE r.op
             a == [r EXCEPT !.env = "none"]
             b == [a EXCEPT !.confirmed = confirmed]
             c == [b EXCEPT !.browser = r.browser /\ ~confirmed]
             d == [c EXCEPT !.st = st]
             e == [d EXCEPT !.finishing = FALSE]
  <2>1. SessionRow(s, n)
    BY <1>25 DEF ClosedSession
  <2>2. st \in {"unknown", "completed", "failed", r.st}
    OBVIOUS
  <2>3. st \in {"none", "requested", "ready"} \cup LiveSession \cup Over /\ (st = r.st \/ st \notin {"none", "requested", "ready"})
    BY <1>2, <2>2, SessionTypes DEF Over
  <2>4. op \in {"none", "action", "check", "sent", "finish"}
    BY <1>2, SessionTypes
  <2> HIDE DEF st
  <2>5. n = [e EXCEPT !.op = op]
    BY <1>2 DEF ComputerSession
  <2>6. /\ n.exec = r.exec /\ n.browser = (r.browser /\ ~confirmed) /\ n.st = st /\ n.sent = r.sent /\ n.intent = r.intent
        /\ n.hit = r.hit /\ n.confirmed = confirmed
    BY <1>2 DEF ComputerSession
  <2> HIDE DEF n, op
  <2>7. SessionKept(n)
    BY <1>2, <2>3, <2>6 DEF SessionKept
  <2>8. a \in ComputerSession
    BY <1>2, SessionFields
  <2> HIDE DEF a
  <2>9. b \in ComputerSession
    BY <2>8, SessionFields
  <2> HIDE DEF b
  <2>10. (r.browser /\ ~confirmed) \in BOOLEAN
    OBVIOUS
  <2>11. c \in ComputerSession
    BY <2>9, <2>10, SessionFields
  <2> HIDE DEF c
  <2>12. d \in ComputerSession
    BY <2>3, <2>11, SessionFields
  <2> HIDE DEF d
  <2>13. e \in ComputerSession
    BY <2>12, SessionFields
  <2> HIDE DEF e
  <2>14. n \in ComputerSession
    BY <2>4, <2>5, <2>13, SessionFields
  <2> QED
    BY <1>4, <2>1, <2>3, <2>6, <2>7, <2>14
<1>26. ASSUME NEW s \in Sessions, ServerActs(s) PROVE ComputersInv'
  <2> DEFINE a == [session[s] EXCEPT !.hit = TRUE]
  <2>1. SessionRow(s, a)
    BY <1>26 DEF ServerActs
  <2>2. a \in ComputerSession
    BY <1>2, SessionFields
  <2>3. SessionKept(a) /\ a.exec = session[s].exec /\ a.browser = session[s].browser /\ a.st = session[s].st
    BY <1>2 DEF SessionKept, ComputerSession
  <2> HIDE DEF a
  <2> QED
    BY <1>4, <2>1, <2>2, <2>3
\* Steps of all sessions that start nothing.
<1>27. ASSUME \A s \in Sessions : session'[s] \in ComputerSession /\ SessionKept(session'[s]), session' \in [Sessions -> ComputerSession],
              \A s \in Sessions : /\ session'[s].exec => session[s].exec
                                  /\ session'[s].browser = session[s].browser
                                  /\ Starting(session'[s]) => Starting(session[s])
       PROVE  ComputersInv'
  BY <1>27 DEF ComputersInv, ComputersTypeOK
<1>28. CASE CleanupConfirmed
  <2> DEFINE a(s) == IF session[s].st \in Over THEN [session[s] EXCEPT !.confirmed = TRUE] ELSE session[s]
  <2>1. session' = [s \in Sessions |-> a(s)] /\ \A s \in Sessions : ~session[s].browser
    BY <1>28 DEF CleanupConfirmed
  <2>2. ASSUME NEW s \in Sessions
        PROVE  /\ a(s) \in ComputerSession /\ SessionKept(a(s)) /\ a(s).exec = session[s].exec /\ a(s).browser = session[s].browser
               /\ a(s).st = session[s].st
    <3>1. [session[s] EXCEPT !.confirmed = TRUE] \in ComputerSession
      BY <1>2, SessionFields
    <3> QED
      BY <1>2, <2>1, <3>1 DEF SessionKept, ComputerSession
  <2> HIDE DEF a
  <2> QED
    BY <1>27, <2>1, <2>2 DEF Starting
<1>29. CASE ComputersRestart
  <2> DEFINE doubt(r) == [r EXCEPT !.intent = IF @ = "transmitting" THEN "unknown" ELSE @]
             unknown == \E s \in Sessions : doubt(session[s]).intent = "unknown"
             lost(r) == r.st \in LiveSession \/ ~r.confirmed \/ r.exec
             recovered(r) == [r EXCEPT !.intent = IF @ \in Undecided THEN "cancelled" ELSE @, !.st = IF unknown THEN "unknown" ELSE "failed",
                                       !.exec = FALSE, !.task = IF @ \in {"queued", "awaiting_approval", "working"} THEN "blocked" ELSE @]
             gone(r) == [r EXCEPT !.env = "none", !.op = "none", !.finishing = FALSE]
             g(s) == gone(doubt(session[s]))
             a(s) == IF lost(g(s)) THEN recovered(g(s)) ELSE g(s)
  <2>1. session' = [s \in Sessions |-> a(s)]
    BY <1>29 DEF ComputersRestart
  <2>2. ASSUME NEW s \in Sessions, NEW r \in ComputerSession, r = session[s]
        PROVE  /\ g(s) \in ComputerSession /\ SessionKept(g(s)) /\ g(s).exec = r.exec /\ g(s).browser = r.browser /\ g(s).st = r.st
    <3> DEFINE i == IF r.intent = "transmitting" THEN "unknown" ELSE r.intent
               b == [r EXCEPT !.intent = i]
               c == [b EXCEPT !.env = "none"]
               d == [c EXCEPT !.op = "none"]
               e == [d EXCEPT !.finishing = FALSE]
    <3>1. g(s) = e
      BY <2>2 DEF ComputerSession
    <3>2. i \in {"none", "transmitting", "completed", "denied", "cancelled", "unknown"} \cup Undecided
      BY SessionTypes
    <3>3. i = r.intent \/ i = "unknown"
      OBVIOUS
    <3> HIDE DEF i
    <3>4. SessionKept(e) /\ e.exec = r.exec /\ e.browser = r.browser /\ e.st = r.st
      BY <1>2, <2>2, <3>3 DEF SessionKept, ComputerSession, Undecided
    <3>5. b \in ComputerSession
      BY <3>2, SessionFields
    <3> HIDE DEF b
    <3>6. c \in ComputerSession
      BY <3>5, SessionFields
    <3> HIDE DEF c
    <3>7. d \in ComputerSession
      BY <3>6, SessionFields
    <3> HIDE DEF d
    <3>8. e \in ComputerSession
      BY <3>7, SessionFields
    <3> HIDE DEF e, g
    <3> QED
      BY <3>1, <3>4, <3>8
  <2>3. ASSUME NEW r \in ComputerSession, SessionKept(r)
        PROVE  recovered(r) \in ComputerSession /\ SessionKept(recovered(r)) /\ ~recovered(r).exec /\ recovered(r).browser = r.browser
    <3> DEFINE i == IF r.intent \in Undecided THEN "cancelled" ELSE r.intent
               v == IF unknown THEN "unknown" ELSE "failed"
               t == IF r.task \in {"queued", "awaiting_approval", "working"} THEN "blocked" ELSE r.task
               b == [r EXCEPT !.intent = i]
               c == [b EXCEPT !.st = v]
               d == [c EXCEPT !.exec = FALSE]
               e == [d EXCEPT !.task = t]
    <3> HIDE DEF unknown
    <3>1. recovered(r) = e
      BY DEF ComputerSession
    <3>2. i \in {"none", "transmitting", "completed", "denied", "cancelled", "unknown"} \cup Undecided
      BY SessionTypes
    <3>3. i = r.intent \/ (i = "cancelled" /\ r.sent = 0)
      BY <2>3 DEF SessionKept
    <3>4. v \in Over
      BY DEF Over
    <3>5. t \in {"none", "queued", "blocked", "working", "awaiting_approval"} \cup Done
      BY SessionTypes
    <3> HIDE DEF i, v, t
    <3>6. e.intent = i /\ e.st = v /\ e.sent = r.sent /\ e.hit = r.hit /\ e.confirmed = r.confirmed /\ ~e.exec /\ e.browser = r.browser
      BY DEF ComputerSession
    <3>7. SessionKept(e)
      BY <2>3, <3>3, <3>4, <3>6 DEF SessionKept
    <3>8. b \in ComputerSession
      BY <3>2, SessionFields
    <3> HIDE DEF b
    <3>9. c \in ComputerSession
      BY <3>4, <3>8, SessionFields
    <3> HIDE DEF c
    <3>10. d \in ComputerSession
      BY <3>9, SessionFields
    <3> HIDE DEF d
    <3>11. e \in ComputerSession
      BY <3>5, <3>10, SessionFields
    <3> HIDE DEF e, recovered
    <3> QED
      BY <3>1, <3>6, <3>7, <3>11
  <2> HIDE DEF g, recovered, unknown
  <2>4. ASSUME NEW s \in Sessions
        PROVE  /\ a(s) \in ComputerSession /\ SessionKept(a(s)) /\ a(s).browser = session[s].browser
               /\ a(s).exec => session[s].exec
               /\ Starting(a(s)) => Starting(session[s])
    BY <1>2, <2>2, <2>3 DEF Starting
  <2> HIDE DEF a
  <2> QED
    BY <1>27, <2>1, <2>4
<1> QED
  BY <1>5, <1>6, <1>7, <1>8, <1>9, <1>10, <1>11, <1>12, <1>13, <1>14, <1>15, <1>16, <1>17, <1>18, <1>19, <1>20, <1>21, <1>22,
     <1>23, <1>24, <1>25, <1>26, <1>28, <1>29 DEF ComputersNext

-----------------------------------------------------------------------------
(* Publications.                                                           *)

\* A publication continues the commit it was approved for, and is sent only
\* under an approval that was consumed.
PushKept(p) ==
    /\ IsPrefix(p.old, p.new) /\ Len(p.new) <= CommitBound
    /\ p.ap # "consumed" => ~p.sent

\* What HQ tells of it holds of the remote.
PushTold(p, remote) ==
    /\ p.st = "completed" => IsPrefix(p.new, remote)
    /\ p.st \in {"denied", "expired"} => ~p.sent

\* Of every publication, what HQ tells holds of the remote as it is.
RemoteInv ==
    /\ RemoteTypeOK
    /\ \A o \in DOMAIN pubs : PushKept(pubs[o]) /\ PushTold(pubs[o], upstream)

\* Prefixes of commits.
LEMMA PrefixItself ==
  ASSUME NEW s \in Commit
  PROVE  IsPrefix(s, s)
  BY DEF IsPrefix

\* A commit continues another when it has the same changes at its start.
LEMMA PrefixPoints ==
  ASSUME NEW s \in Commit, NEW t \in Commit
  PROVE  IsPrefix(s, t) <=> Len(s) <= Len(t) /\ \A i \in 1..Len(s) : s[i] = t[i]
<1>1. Len(s) \in Nat /\ Len(t) \in Nat
  BY LenProperties DEF Commit
<1>2. ASSUME Len(s) <= Len(t)
      PROVE  /\ SubSeq(s, 1, Len(s)) = s
             /\ SubSeq(t, 1, Len(s)) \in Commit /\ Len(SubSeq(t, 1, Len(s))) = Len(s)
             /\ \A i \in 1..Len(s) : SubSeq(t, 1, Len(s))[i] = t[i]
  BY <1>1, <1>2 DEF Commit
<1>3. CASE Len(s) <= Len(t)
  <2> DEFINE u == SubSeq(t, 1, Len(s))
  <2>1. u \in Commit /\ Len(u) = Len(s) /\ \A i \in 1..Len(s) : u[i] = t[i]
    BY <1>2, <1>3
  <2>2. IsPrefix(s, t) <=> s = u
    BY <1>2, <1>3 DEF IsPrefix
  <2> HIDE DEF u
  <2>3. s = u <=> \A i \in 1..Len(s) : s[i] = u[i]
    BY <1>1, <2>1, SeqEqual DEF Commit
  <2> QED
    BY <1>3, <2>1, <2>2, <2>3
<1>4. CASE ~(Len(s) <= Len(t))
  BY <1>4 DEF IsPrefix
<1> QED
  BY <1>3, <1>4

\* What continues a commit continues what that one continues.
LEMMA PrefixOfPrefix ==
  ASSUME NEW s \in Commit, NEW t \in Commit, NEW u \in Commit, IsPrefix(s, t), IsPrefix(t, u)
  PROVE  IsPrefix(s, u)
<1>1. Len(s) \in Nat /\ Len(t) \in Nat /\ Len(u) \in Nat
  BY LenProperties DEF Commit
<1> QED
  BY <1>1, PrefixPoints

\* A commit with one more change continues it.
LEMMA PrefixContinued ==
  ASSUME NEW s \in Commit, NEW x \in {"ours", "theirs"}
  PROVE  Append(s, x) \in Commit /\ Len(Append(s, x)) = Len(s) + 1 /\ IsPrefix(s, Append(s, x))
<1>1. Append(s, x) \in Commit /\ Len(Append(s, x)) = Len(s) + 1 /\ \A i \in 1..Len(s) : Append(s, x)[i] = s[i]
  BY AppendProperties DEF Commit
<1>2. Len(s) \in Nat
  BY LenProperties DEF Commit
<1> DEFINE t == Append(s, x)
<1>3. t \in Commit /\ Len(s) <= Len(t) /\ \A i \in 1..Len(s) : s[i] = t[i]
  BY <1>1, <1>2
<1> HIDE DEF t
<1>4. IsPrefix(s, t)
  BY <1>3, PrefixPoints
<1> QED
  BY <1>1, <1>4 DEF t

\* Nothing was published yet.
LEMMA RemoteStarts == RemoteInit => RemoteInv
<1> SUFFICES ASSUME RemoteInit PROVE RemoteInv
  OBVIOUS
<1>1. pubs \in Seq(PushOperation) /\ Len(pubs) = 0 /\ DOMAIN pubs = {}
  BY DEF RemoteInit
<1>2. <<>> \in Commit /\ Len(<<>>) = 0
  BY DEF Commit
<1>3. repo \in Repository /\ Len(repo.head) = 0 /\ upstream \in Commit /\ Len(upstream) = 0
  BY <1>2 DEF RemoteInit, Repository
<1> QED
  BY <1>1, <1>3, RemoteAssumption DEF RemoteInv, RemoteTypeOK

\* What HQ tells of a publication is true of the remote.
LEMMA RemotePromise == RemoteInv => PublicationTrue
BY DEF RemoteInv, PushTold, PublicationTrue

\* What a step of the remote and of a publication has to show: the branch only grows.
LEMMA PushRows ==
  ASSUME RemoteInv, pubs' \in [DOMAIN pubs -> PushOperation],
         \A o \in DOMAIN pubs : PushKept(pubs'[o]) /\ PushTold(pubs'[o], upstream'),
         repo' \in Repository, Len(repo'.head) <= CommitBound,
         upstream' \in Commit, Len(upstream') <= CommitBound
  PROVE  RemoteInv'
<1>1. pubs' \in Seq(PushOperation) /\ Len(pubs') = Len(pubs) /\ DOMAIN pubs' = DOMAIN pubs
  BY FunctionAsSequence DEF RemoteInv, RemoteTypeOK
<1> QED
  BY <1>1 DEF RemoteInv, RemoteTypeOK

\* What was told of the remote holds when the remote grew.
LEMMA ToldStays ==
  ASSUME NEW p \in PushOperation, NEW remote \in Commit, NEW grown \in Commit, IsPrefix(remote, grown), PushTold(p, remote)
  PROVE  PushTold(p, grown)
<1>1. p.new \in Commit
  BY DEF PushOperation
<1> QED
  BY <1>1, PrefixOfPrefix DEF PushTold

\* The rows are rewritten, one of them moves, and perhaps the remote.
LEMMA PushChanges ==
  ASSUME RemoteInv, NEW ps \in [DOMAIN pubs -> PushOperation],
         \A o \in DOMAIN pubs : PushKept(ps[o]) /\ PushTold(ps[o], upstream),
         NEW o \in DOMAIN pubs, NEW row \in PushOperation, PushKept(row), PushTold(row, upstream'),
         pubs' = Rewritten(ps, o, row),
         upstream' \in Commit, Len(upstream') <= CommitBound, IsPrefix(upstream, upstream'),
         repo' \in Repository, Len(repo'.head) <= CommitBound
  PROVE  RemoteInv'
<1>1. DOMAIN ps = DOMAIN pubs
  OBVIOUS
<1>2. pubs' = [k \in DOMAIN pubs |-> IF k = o THEN row ELSE ps[k]]
  BY <1>1 DEF Rewritten
<1>3. upstream \in Commit
  BY DEF RemoteInv, RemoteTypeOK
<1>4. \A k \in DOMAIN pubs : PushTold(ps[k], upstream')
  BY <1>3, ToldStays
<1> QED
  BY <1>2, <1>4, PushRows

\* The rows once what is due has expired.
LEMMA ExpiredRows ==
  ASSUME RemoteInv
  PROVE  /\ Expired \in [DOMAIN pubs -> PushOperation]
         /\ \A o \in DOMAIN pubs : /\ PushKept(Expired[o]) /\ PushTold(Expired[o], upstream)
                                   /\ Expired[o].old = pubs[o].old /\ Expired[o].new = pubs[o].new
<1>1. pubs \in [DOMAIN pubs -> PushOperation]
  BY SequenceAsFunction DEF RemoteInv, RemoteTypeOK
<1>2. ASSUME NEW o \in DOMAIN pubs
      PROVE  Expired[o] = pubs[o] \/ (Expired[o] = [pubs[o] EXCEPT !.ap = "expired", !.st = "expired"] /\ Expires(o))
  BY DEF Expired
<1>3. ASSUME NEW o \in DOMAIN pubs
      PROVE  /\ Expired[o] \in PushOperation /\ PushKept(Expired[o]) /\ PushTold(Expired[o], upstream)
             /\ Expired[o].old = pubs[o].old /\ Expired[o].new = pubs[o].new
  <2>1. pubs[o] \in PushOperation /\ PushKept(pubs[o]) /\ PushTold(pubs[o], upstream)
    BY <1>1 DEF RemoteInv
  <2> DEFINE e == [pubs[o] EXCEPT !.ap = "expired", !.st = "expired"]
  <2>2. e \in PushOperation
    BY <2>1 DEF PushOperation
  <2>3. e.old = pubs[o].old /\ e.new = pubs[o].new /\ e.sent = pubs[o].sent /\ e.ap = "expired" /\ e.st = "expired"
    BY <2>1 DEF PushOperation
  <2> HIDE DEF e
  <2>4. Expires(o) => PushKept(e) /\ PushTold(e, upstream)
    BY <2>1, <2>3 DEF Expires, PushKept, PushTold
  <2> QED
    BY <1>2, <2>1, <2>2, <2>3, <2>4 DEF e
<1>4. Expired \in [DOMAIN pubs -> PushOperation]
  BY <1>3 DEF Expired
<1> QED
  BY <1>3, <1>4

\* A field of a publication at a time.
LEMMA PushFields ==
  ASSUME NEW p \in PushOperation
  PROVE  /\ \A v \in {"pending", "running", "completed", "blocked", "denied", "expired"} : [p EXCEPT !.st = v] \in PushOperation
         /\ \A v \in {"pending", "approved", "consumed", "denied", "expired"} : [p EXCEPT !.ap = v] \in PushOperation
         /\ \A v \in BOOLEAN : /\ [p EXCEPT !.due = v] \in PushOperation /\ [p EXCEPT !.sent = v] \in PushOperation
                               /\ [p EXCEPT !.flying = v] \in PushOperation
  BY DEF PushOperation

\* A field of the clone at a time.
LEMMA RepositoryFields ==
  ASSUME NEW r \in Repository
  PROVE  /\ \A c \in Commit : /\ [r EXCEPT !.cur = c] \in Repository /\ [r EXCEPT !.head = c] \in Repository
                              /\ [r EXCEPT !.seen = c] \in Repository
         /\ \A v \in {"none", "fetch_only", "approved_push"} : [r EXCEPT !.policy = v] \in Repository
         /\ \A v \in {"unfetched", "configured", "in_sync", "local_ahead", "blocked"} : [r EXCEPT !.state = v] \in Repository
         /\ \A v \in BOOLEAN : [r EXCEPT !.busy = v] \in Repository /\ [r EXCEPT !.failed = v] \in Repository
  BY DEF Repository

\* Steps of the repository alone, and of the remote alone.
LEMMA RepositoryOnly ==
  ASSUME RemoteInv, UNCHANGED <<pubs, upstream>>, repo' \in Repository, Len(repo'.head) <= CommitBound
  PROVE  RemoteInv'
<1>1. pubs \in [DOMAIN pubs -> PushOperation]
  BY SequenceAsFunction DEF RemoteInv, RemoteTypeOK
<1> QED
  BY <1>1, PushRows DEF RemoteInv, RemoteTypeOK

\* Only the remote moves on, by what others push.
LEMMA RemoteOnly ==
  ASSUME RemoteInv, UNCHANGED <<repo, pubs>>, upstream' \in Commit, Len(upstream') <= CommitBound, IsPrefix(upstream, upstream')
  PROVE  RemoteInv'
<1>1. pubs \in [DOMAIN pubs -> PushOperation] /\ repo \in Repository /\ Len(repo.head) <= CommitBound /\ upstream \in Commit
  BY SequenceAsFunction DEF RemoteInv, RemoteTypeOK
<1>2. \A o \in DOMAIN pubs : PushTold(pubs[o], upstream')
  BY <1>1, ToldStays DEF RemoteInv
<1> QED
  BY <1>1, <1>2, PushRows DEF RemoteInv

\* Every step of a clone, of a publication and of the remote.
LEMMA RemoteStep ==
  ASSUME RemoteInv, RemoteNext
  PROVE  RemoteInv'
<1>1. /\ pubs \in Seq(PushOperation) /\ pubs \in [DOMAIN pubs -> PushOperation]
      /\ repo \in Repository /\ Len(repo.head) <= CommitBound
      /\ upstream \in Commit /\ Len(upstream) <= CommitBound
  BY SequenceAsFunction DEF RemoteInv, RemoteTypeOK
<1>2. repo.cur \in Commit /\ repo.head \in Commit /\ Len(repo.cur) \in Nat
  BY <1>1, LenProperties DEF Repository, Commit
<1>3. \A o \in DOMAIN pubs : /\ pubs[o] \in PushOperation /\ PushKept(pubs[o]) /\ PushTold(pubs[o], upstream)
                             /\ pubs[o].old \in Commit /\ pubs[o].new \in Commit
  BY <1>1 DEF RemoteInv, PushOperation
<1>4. IsPrefix(upstream, upstream)
  BY <1>1, PrefixItself
<1>5. Len(upstream) < CommitBound => /\ Append(upstream, "theirs") \in Commit /\ Len(Append(upstream, "theirs")) <= CommitBound
                                     /\ IsPrefix(upstream, Append(upstream, "theirs"))
  BY <1>1, PrefixContinued, RemoteAssumption, LenProperties DEF Commit
<1>6. ASSUME NEW policy \in {"none", "fetch_only", "approved_push"}, Attach(policy) PROVE RemoteInv'
  <2> DEFINE state == IF repo.seen = Unfetched THEN "unfetched" ELSE "configured"
             a == [repo EXCEPT !.policy = policy]
  <2>1. repo' = [a EXCEPT !.state = state] /\ UNCHANGED <<pubs, upstream>>
    BY <1>1, <1>6 DEF Attach, Repository
  <2>2. a \in Repository /\ state \in {"unfetched", "configured", "in_sync", "local_ahead", "blocked"}
    BY <1>1, RepositoryFields
  <2>3. a.head = repo.head
    BY <1>1 DEF Repository
  <2> HIDE DEF a, state
  <2>4. repo' \in Repository /\ repo'.head = a.head
    BY SMTT(30), <2>1, <2>2, RepositoryFields DEF Repository
  <2> QED
    BY <1>1, <2>1, <2>3, <2>4, RepositoryOnly
<1>7. ASSUME WorkOpens PROVE RemoteInv'
  <2>1. repo' = [repo EXCEPT !.busy = TRUE] /\ UNCHANGED <<pubs, upstream>>
    BY <1>7 DEF WorkOpens
  <2>2. repo' \in Repository
    BY <1>1, <2>1, RepositoryFields
  <2>3. repo'.head = repo.head
    BY <1>1, <2>1 DEF Repository
  <2> QED
    BY <1>1, <2>1, <2>2, <2>3, RepositoryOnly
<1>8. ASSUME NEW integrated \in BOOLEAN, NEW failed \in BOOLEAN, WorkEnds(integrated, failed) PROVE RemoteInv'
  <2> DEFINE cur == IF integrated THEN Append(repo.cur, "ours") ELSE repo.cur
             head == IF integrated THEN cur ELSE repo.head
             a == [repo EXCEPT !.cur = cur]
             b == [a EXCEPT !.head = head]
             c == [b EXCEPT !.busy = FALSE]
  <2>1. repo' = [repo EXCEPT !.cur = cur, !.head = head, !.busy = FALSE, !.failed = failed] /\ UNCHANGED <<pubs, upstream>>
    BY <1>8 DEF WorkEnds
  <2>2. cur \in Commit /\ head \in Commit /\ Len(head) <= CommitBound
    BY <1>1, <1>2, <1>8, PrefixContinued, RemoteAssumption DEF WorkEnds
  <2> HIDE DEF cur, head
  <2>3. repo' = [c EXCEPT !.failed = failed] /\ repo'.head = head
    BY <1>1, <2>1 DEF Repository
  <2>4. a \in Repository
    BY <1>1, <2>2, RepositoryFields
  <2> HIDE DEF a
  <2>5. b \in Repository
    BY <2>2, <2>4, RepositoryFields
  <2> HIDE DEF b
  <2>6. c \in Repository
    BY <2>5, RepositoryFields
  <2> HIDE DEF c
  <2>7. repo' \in Repository
    BY <2>3, <2>6, RepositoryFields
  <2> QED
    BY <2>1, <2>2, <2>3, <2>7, RepositoryOnly
<1>9. ASSUME Fetch PROVE RemoteInv'
  <2>1. ASSUME NEW cur \in Commit, Len(cur) <= CommitBound,
               NEW state \in {"in_sync", "local_ahead"},
               repo' = [repo EXCEPT !.cur = cur, !.head = cur, !.seen = upstream, !.state = state],
               UNCHANGED <<pubs, upstream>>
        PROVE  RemoteInv'
    <3> DEFINE a == [repo EXCEPT !.cur = cur]
               b == [a EXCEPT !.head = cur]
               c == [b EXCEPT !.seen = upstream]
    <3>1. repo' = [c EXCEPT !.state = state] /\ repo'.head = cur
      BY <1>1, <2>1 DEF Repository
    <3>2. a \in Repository
      BY <1>1, RepositoryFields
    <3> HIDE DEF a
    <3>3. b \in Repository
      BY <3>2, RepositoryFields
    <3> HIDE DEF b
    <3>4. c \in Repository
      BY <1>1, <3>3, RepositoryFields
    <3> HIDE DEF c
    <3>5. repo' \in Repository
      BY <3>1, <3>4, RepositoryFields
    <3> QED
      BY <2>1, <3>1, <3>5, RepositoryOnly
  <2>2. CASE repo' = [repo EXCEPT !.state = "blocked"]
    <3>1. repo' \in Repository
      BY <1>1, <2>2, RepositoryFields
    <3>2. repo'.head = repo.head
      BY <1>1, <2>2 DEF Repository
    <3> QED
      BY <1>1, <1>9, <3>1, <3>2, RepositoryOnly DEF Fetch
  <2>3. CASE repo' = [repo EXCEPT !.head = upstream]
    <3>1. repo' \in Repository
      BY <1>1, <2>3, RepositoryFields
    <3>2. repo'.head = upstream
      BY <1>1, <2>3 DEF Repository
    <3> QED
      BY <1>1, <1>9, <3>1, <3>2, RepositoryOnly DEF Fetch
  <2>4. Len(repo.cur) <= CommitBound
    BY <1>1, <1>9 DEF Fetch, Verified
  <2>5. UNCHANGED <<pubs, upstream>>
    BY <1>9 DEF Fetch
  <2>6. CASE \/ repo' = [repo EXCEPT !.cur = repo.cur, !.head = repo.cur, !.seen = upstream, !.state = "in_sync"]
             \/ repo' = [repo EXCEPT !.cur = repo.cur, !.head = repo.cur, !.seen = upstream, !.state = "local_ahead"]
    BY <1>2, <2>1, <2>4, <2>5, <2>6
  <2>7. CASE repo' = [repo EXCEPT !.cur = upstream, !.head = upstream, !.seen = upstream, !.state = "in_sync"]
    BY <1>1, <2>1, <2>5, <2>7
  <2> QED
    BY <1>9, <2>2, <2>3, <2>6, <2>7 DEF Fetch
<1>10. ASSUME RequestPush PROVE RemoteInv'
  <2> DEFINE p == [old |-> upstream, new |-> repo.cur, st |-> "pending", ap |-> "pending", due |-> FALSE,
                   sent |-> FALSE, flying |-> FALSE]
  <2>1. pubs' = Append(pubs, p) /\ Len(pubs) < PublicationBound /\ UNCHANGED <<repo, upstream>>
    BY <1>10 DEF RequestPush
  <2>2. p \in PushOperation
    BY <1>1, <1>2 DEF PushOperation
  <2>3. PushKept(p) /\ PushTold(p, upstream)
    BY <1>1, <1>10 DEF PushKept, PushTold, RequestPush, IsStrictPrefix, Verified
  <2> HIDE DEF p
  <2>4. /\ pubs' \in Seq(PushOperation) /\ Len(pubs') = Len(pubs) + 1
        /\ \A o \in 1..Len(pubs) : pubs'[o] = pubs[o]
        /\ pubs'[Len(pubs) + 1] = p
    BY <1>1, <2>1, <2>2, AppendProperties
  <2>5. Len(pubs) \in Nat /\ DOMAIN pubs = 1..Len(pubs) /\ DOMAIN pubs' = 1..Len(pubs) + 1
    BY <1>1, <2>4, LenProperties
  <2>6. \A o \in DOMAIN pubs' : PushKept(pubs'[o]) /\ PushTold(pubs'[o], upstream)
    BY <1>3, <2>3, <2>4, <2>5
  <2>7. Len(pubs') <= PublicationBound
    BY <2>1, <2>4, <2>5, RemoteAssumption
  <2> QED
    BY <2>1, <2>4, <2>6, <2>7, <1>1 DEF RemoteInv, RemoteTypeOK
<1>11. ASSUME ExpireApprovals PROVE RemoteInv'
  BY <1>1, <1>11, ExpiredRows, PushRows DEF ExpireApprovals
<1>12. ASSUME OthersPush PROVE RemoteInv'
  BY <1>5, <1>12, RemoteOnly DEF OthersPush
\* One row of the publications changes.
<1>13. ASSUME NEW o \in DOMAIN pubs, NEW row \in PushOperation, pubs' = [pubs EXCEPT ![o] = row],
              PushKept(row), PushTold(row, upstream'), UNCHANGED repo,
              upstream' \in Commit, Len(upstream') <= CommitBound, IsPrefix(upstream, upstream')
       PROVE  RemoteInv'
  <2>1. pubs' = Rewritten(pubs, o, row)
    BY <1>1, <1>13 DEF Rewritten
  <2> QED
    BY <1>1, <1>3, <1>13, <2>1, PushChanges
<1>14. ASSUME NEW o \in DOMAIN pubs, ApprovalExpires(o) PROVE RemoteInv'
  <2> DEFINE row == [pubs[o] EXCEPT !.due = TRUE]
  <2>1. pubs' = [pubs EXCEPT ![o] = row] /\ UNCHANGED <<repo, upstream>>
    BY <1>14 DEF ApprovalExpires
  <2>2. row \in PushOperation
    BY <1>3, PushFields
  <2>3. PushKept(row) /\ PushTold(row, upstream)
    BY <1>3 DEF PushKept, PushTold, PushOperation
  <2> QED
    BY <1>1, <1>4, <1>13, <2>1, <2>2, <2>3
<1>15. ASSUME NEW o \in DOMAIN pubs, LandsLate(o) PROVE RemoteInv'
  <2> DEFINE row == [pubs[o] EXCEPT !.flying = FALSE]
  <2>1. pubs' = [pubs EXCEPT ![o] = row] /\ UNCHANGED repo /\ upstream' = IF upstream = pubs[o].old THEN pubs[o].new ELSE upstream
    BY <1>15 DEF LandsLate
  <2>2. row \in PushOperation
    BY <1>3, PushFields
  <2>3. PushKept(row) /\ PushTold(row, upstream)
    BY <1>3 DEF PushKept, PushTold, PushOperation
  <2>4. upstream' \in Commit /\ Len(upstream') <= CommitBound /\ IsPrefix(upstream, upstream')
    BY <1>1, <1>3, <1>4, <2>1 DEF PushKept
  <2> HIDE DEF row
  <2>5. PushTold(row, upstream')
    BY <1>1, <2>2, <2>3, <2>4, ToldStays
  <2> QED
    BY <1>13, <2>1, <2>2, <2>3, <2>4, <2>5
\* The rows after expiry, of which one is decided, sent, or settled.
<1>16. ASSUME NEW o \in DOMAIN pubs, NEW row \in PushOperation, pubs' = Rewritten(Expired, o, row),
              PushKept(row), PushTold(row, upstream'),
              upstream' \in Commit, Len(upstream') <= CommitBound, IsPrefix(upstream, upstream'),
              repo' \in Repository, Len(repo'.head) <= CommitBound
       PROVE  RemoteInv'
  <2> DEFINE ps == Expired
  <2>1. ps \in [DOMAIN pubs -> PushOperation] /\ \A k \in DOMAIN pubs : PushKept(ps[k]) /\ PushTold(ps[k], upstream)
    BY ExpiredRows
  <2>2. pubs' = Rewritten(ps, o, row)
    BY <1>16
  <2> HIDE DEF ps
  <2> QED
    BY <1>16, <2>1, <2>2, PushChanges
<1>17. ASSUME NEW o \in DOMAIN pubs
       PROVE  /\ Expired[o] \in PushOperation /\ PushKept(Expired[o]) /\ PushTold(Expired[o], upstream)
              /\ Expired[o].old = pubs[o].old /\ Expired[o].new = pubs[o].new
  BY <1>17, ExpiredRows
<1>18. ASSUME NEW o \in DOMAIN pubs, NEW approved \in BOOLEAN, DecidePush(o, approved) PROVE RemoteInv'
  <2> DEFINE e == Expired[o]
             a == [e EXCEPT !.ap = "approved"]
             b == [e EXCEPT !.ap = "denied"]
             c == [b EXCEPT !.st = "denied"]
             row == IF approved THEN a ELSE c
  <2>1. e.ap = "pending" /\ UNCHANGED <<repo, upstream>>
        /\ pubs' = Rewritten(Expired, o, IF approved THEN [e EXCEPT !.ap = "approved"] ELSE [e EXCEPT !.ap = "denied", !.st = "denied"])
    BY <1>18 DEF DecidePush
  <2>2. e \in PushOperation /\ PushKept(e) /\ PushTold(e, upstream)
    BY <1>17
  <2> HIDE DEF e
  <2>3. [e EXCEPT !.ap = "denied", !.st = "denied"] = c
    BY <2>2 DEF PushOperation
  <2>4. a \in PushOperation /\ b \in PushOperation
    BY <2>2, PushFields
  <2>5. PushKept(a) /\ PushTold(a, upstream)
    BY <2>1, <2>2 DEF PushKept, PushTold, PushOperation
  <2>6. PushKept(c) /\ PushTold(c, upstream)
    BY <2>1, <2>2 DEF PushKept, PushTold, PushOperation
  <2> HIDE DEF a, b
  <2>7. c \in PushOperation
    BY <2>4, PushFields
  <2>8. pubs' = Rewritten(Expired, o, row)
    BY <2>1, <2>3 DEF a
  <2> HIDE DEF c
  <2>9. row \in PushOperation /\ PushKept(row) /\ PushTold(row, upstream)
    BY <2>4, <2>5, <2>6, <2>7
  <2> HIDE DEF row
  <2> QED
    BY <1>1, <1>4, <1>16, <2>1, <2>8, <2>9
\* What is settled of a publication that was or was not sent.
<1>19. ASSUME NEW o \in DOMAIN pubs, NEW row \in PushOperation, PushKept(row), row.st = "running",
              NEW ps, ps = Rewritten(Expired, o, row),
              upstream' \in Commit, Len(upstream') <= CommitBound, IsPrefix(upstream, upstream')
       PROVE  /\ ps[o] = row
              /\ Left(ps) => RemoteInv'
              /\ Blocked(ps, o) => RemoteInv'
              /\ Finished(ps, o) /\ IsPrefix(row.new, upstream') => RemoteInv'
  <2>1. DOMAIN Expired = DOMAIN pubs
    BY ExpiredRows
  <2>2. ps[o] = row
    BY <1>19, <2>1 DEF Rewritten
  <2>3. ASSUME NEW r \in PushOperation PROVE Rewritten(ps, o, r) = Rewritten(Expired, o, r)
    BY <1>19, <2>1 DEF Rewritten
  <2>4. ASSUME Left(ps) PROVE RemoteInv'
    BY <1>1, <1>16, <1>19, <2>4 DEF Left, PushTold
  <2>5. ASSUME Blocked(ps, o) PROVE RemoteInv'
    <3> DEFINE r == [row EXCEPT !.st = "blocked"]
    <3>1. r \in PushOperation
      BY PushFields
    <3>2. PushKept(r) /\ r.st = "blocked"
      BY <1>19 DEF PushKept, PushOperation
    <3>3. pubs' = Rewritten(ps, o, r) /\ repo' = [repo EXCEPT !.state = "blocked"]
      BY <2>2, <2>5 DEF Blocked
    <3> HIDE DEF r
    <3>4. repo' \in Repository
      BY <1>1, <3>3, RepositoryFields
    <3>5. repo'.head = repo.head
      BY <1>1, <3>3 DEF Repository
    <3> QED
      BY <1>1, <1>16, <1>19, <2>3, <3>1, <3>2, <3>3, <3>4, <3>5 DEF PushTold
  <2>6. ASSUME Finished(ps, o), IsPrefix(row.new, upstream') PROVE RemoteInv'
    <3> DEFINE r == [row EXCEPT !.st = "completed"]
               a == [repo EXCEPT !.seen = row.new]
    <3>1. r \in PushOperation
      BY PushFields
    <3>2. PushKept(r) /\ r.st = "completed" /\ r.new = row.new /\ row.new \in Commit
      BY <1>19 DEF PushKept, PushOperation
    <3>3. pubs' = Rewritten(ps, o, r) /\ repo' = [repo EXCEPT !.seen = row.new, !.state = "in_sync"]
      BY <2>2, <2>6 DEF Finished
    <3> HIDE DEF r
    <3>4. repo' = [a EXCEPT !.state = "in_sync"] /\ repo'.head = repo.head
      BY <1>1, <3>3 DEF Repository
    <3>5. a \in Repository
      BY <1>1, <3>2, RepositoryFields
    <3> HIDE DEF a
    <3>6. repo' \in Repository
      BY <3>4, <3>5, RepositoryFields
    <3> QED
      BY <1>1, <1>16, <1>19, <2>3, <2>6, <3>1, <3>2, <3>3, <3>4, <3>6 DEF PushTold
  <2> QED
    BY <2>2, <2>4, <2>5, <2>6
<1>20. ASSUME NEW o \in DOMAIN pubs, NEW inspectOnly \in BOOLEAN, Execute(o, inspectOnly) PROVE RemoteInv'
  <2> DEFINE e == Expired[o]
             a == [e EXCEPT !.st = "running"]
             row == [a EXCEPT !.ap = "consumed"]
             ps == Rewritten(Expired, o, row)
             sent == [row EXCEPT !.sent = TRUE]
             flown == [sent EXCEPT !.flying = TRUE]
             ss == Rewritten(Expired, o, sent)
             fs == Rewritten(Expired, o, flown)
  <2>1. e \in PushOperation /\ PushKept(e) /\ e.old = pubs[o].old /\ e.new = pubs[o].new
        /\ e.old \in Commit /\ e.new \in Commit
    BY <1>3, <1>17
  <2>2. [e EXCEPT !.st = "running", !.ap = "consumed"] = row
    BY <2>1, <1>17 DEF PushOperation
  <2>3. ps = Rewritten(Expired, o, [e EXCEPT !.st = "running", !.ap = "consumed"])
    BY <2>2
  <2>4. \/ Blocked(Expired, o) /\ UNCHANGED upstream
        \/ Left(ps) /\ UNCHANGED upstream
        \/ upstream = ps[o].new /\ Finished(ps, o) /\ UNCHANGED upstream
        \/ Blocked(ps, o) /\ UNCHANGED upstream
        \/ upstream = ps[o].old /\ Publish(ps, o)
    BY <1>20, <2>3 DEF Execute
  <2>5. a \in PushOperation
    BY <2>1, PushFields
  <2>6. row.st = "running" /\ row.ap = "consumed" /\ row.old = e.old /\ row.new = e.new
    BY <2>1 DEF PushOperation
  <2> HIDE DEF e, a
  <2>7. row \in PushOperation
    BY <2>5, PushFields
  <2> HIDE DEF row
  <2>8. sent \in PushOperation
    BY <2>7, PushFields
  <2>9. sent.st = "running" /\ sent.ap = "consumed" /\ sent.old = e.old /\ sent.new = e.new
    BY <2>6, <2>7 DEF PushOperation
  <2> HIDE DEF sent
  <2>10. flown \in PushOperation
    BY <2>8, PushFields
  <2>11. flown.st = "running" /\ flown.ap = "consumed" /\ flown.old = e.old /\ flown.new = e.new
    BY <2>8, <2>9 DEF PushOperation
  <2> HIDE DEF flown
  <2>12. PushKept(row) /\ PushKept(sent) /\ PushKept(flown)
    BY <2>1, <2>6, <2>9, <2>11 DEF PushKept
  <2>13. DOMAIN Expired = DOMAIN pubs
    BY ExpiredRows
  <2>14. ps[o] = row /\ Rewritten(ps, o, sent) = ss /\ ss[o] = sent /\ Rewritten(ss, o, flown) = fs
    BY <2>13 DEF Rewritten
  <2> HIDE DEF ps, ss, fs
  <2>15. CASE UNCHANGED upstream /\ (Left(ps) \/ Blocked(ps, o) \/ (upstream = ps[o].new /\ Finished(ps, o)))
    <3>1. row.new = upstream => IsPrefix(row.new, upstream')
      BY <1>4, <2>15
    <3>2. ps = Rewritten(Expired, o, row)
      BY DEF ps
    <3>3. upstream' \in Commit /\ Len(upstream') <= CommitBound /\ IsPrefix(upstream, upstream')
      BY <1>1, <1>4, <2>15
    <3> QED
      BY <1>19, <2>7, <2>12, <2>6, <2>14, <2>15, <3>1, <3>2, <3>3
  <2>16. CASE Blocked(Expired, o) /\ UNCHANGED upstream
    <3> DEFINE r == [e EXCEPT !.st = "blocked"]
    <3>1. r \in PushOperation
      BY <2>1, PushFields
    <3>2. PushKept(r) /\ r.st = "blocked"
      BY <2>1 DEF PushKept, PushOperation
    <3>3. pubs' = Rewritten(Expired, o, r) /\ repo' = [repo EXCEPT !.state = "blocked"]
      BY <2>16 DEF Blocked, e
    <3> HIDE DEF r
    <3>4. repo' \in Repository
      BY <1>1, <3>3, RepositoryFields
    <3>5. repo'.head = repo.head
      BY <1>1, <3>3 DEF Repository
    <3> QED
      BY <1>1, <1>4, <1>16, <2>16, <3>1, <3>2, <3>3, <3>4, <3>5 DEF PushTold
  <2>17. CASE upstream = ps[o].old /\ Publish(ps, o)
    <3>1. \/ upstream' = row.new /\ (Finished(ss, o) \/ Left(ss))
          \/ UNCHANGED upstream /\ (Left(ss) \/ Left(fs))
          \/ Len(upstream) < CommitBound /\ upstream' = Append(upstream, "theirs") /\ (Blocked(ss, o) \/ Left(ss))
      BY <2>14, <2>17 DEF Publish, sent, flown
    <3>2. upstream' \in Commit /\ Len(upstream') <= CommitBound /\ IsPrefix(upstream, upstream')
      BY <1>1, <1>4, <1>5, <2>1, <2>6, <2>14, <2>17, <3>1 DEF PushKept
    <3>3. upstream' = row.new => IsPrefix(sent.new, upstream')
      BY <2>1, <2>6, <2>9, PrefixItself
    <3>4. ss = Rewritten(Expired, o, sent) /\ fs = Rewritten(Expired, o, flown)
      BY DEF ss, fs
    <3>5. Left(ss) => RemoteInv'
      BY <1>19, <2>8, <2>9, <2>12, <3>2, <3>4
    <3>6. Left(fs) => RemoteInv'
      BY <1>19, <2>10, <2>11, <2>12, <3>2, <3>4
    <3>7. Blocked(ss, o) => RemoteInv'
      BY <1>19, <2>8, <2>9, <2>12, <3>2, <3>4
    <3>8. Finished(ss, o) /\ upstream' = row.new => RemoteInv'
      BY <1>19, <2>8, <2>9, <2>12, <3>2, <3>3, <3>4
    <3> QED
      BY <3>1, <3>5, <3>6, <3>7, <3>8
  <2> QED
    BY <2>4, <2>15, <2>16, <2>17
<1> QED
  BY <1>6, <1>7, <1>8, <1>9, <1>10, <1>11, <1>12, <1>14, <1>15, <1>18, <1>20 DEF RemoteNext

-----------------------------------------------------------------------------
(* Accounts on the host.                                                   *)

\* The operations on a worker that the host was asked for and has not answered.
Running(w) == {ops[o].type : o \in {k \in DOMAIN ops : ops[k].w = w /\ ops[k].st = "running"}}

\* HQ's row of a worker, what the host has of it, and what it is asked for.
\* The first three are HostIntent; a worker that is to be closed has no work.
StaffKept(r, acct, clone, running) ==
    /\ acct \in {"creating", "ready"} /\ r.ident = "unprovisioned" => Create \in running
    /\ acct = "disabled" /\ r.ident # "disabled" => Disable \in running \/ r.retire = "pending"
    /\ clone \in {"preparing", "ready"} /\ r.proj = "pending" => Prepare \in running
    /\ Create \in running => r.ident = "unprovisioned"
    /\ Disable \in running \/ r.retire = "pending" => ~r.on /\ r.ident # "unprovisioned"
    /\ acct = "disabled" => ~r.on
    /\ ~r.on => r.work \in {"none", "completed", "cancelled"}
    /\ r.work = "none" => r.proj = "none" /\ r.alloc = "none" /\ clone = "none" /\ {Prepare, Revoke} \cap running = {}

\* An operation belongs to a task that was enqueued, and is asked for once at a time.
OpsKept ==
    /\ \A o \in DOMAIN ops : ops[o].chore \in 0..Len(chores)
    /\ \A o, p \in DOMAIN ops :
          /\ ops[o].w = ops[p].w /\ ops[o].type = ops[p].type
          /\ {ops[o].st, ops[p].st} \subseteq {"pending", "running"}
          => o = p

\* A chore that waits for an operation has one: AnswerPending is part of it.
InfraInv ==
    /\ InfrastructureTypeOK
    /\ \A w \in Known : StaffKept(hr[w], host.acct[w], host.clone[w], Running(w))
    /\ OpsKept
    /\ AnswerPending

\* A field of the host at a time.
LEMMA HostFields ==
  ASSUME NEW h \in HostState, NEW w \in Known
  PROVE  /\ \A a \in {"none", "creating", "ready", "disabled"} : [h EXCEPT !.acct = [h.acct EXCEPT ![w] = a]] \in HostState
         /\ \A c \in {"none", "preparing", "ready", "revoking", "revoked"} : [h EXCEPT !.clone = [h.clone EXCEPT ![w] = c]] \in HostState
         /\ \A id \in Ids : /\ [h EXCEPT !.by = [h.by EXCEPT ![w] = id]] \in HostState
                            /\ [h EXCEPT !.cby = [h.cby EXCEPT ![w] = id]] \in HostState
                            /\ [h EXCEPT !.done = h.done \cup {id}] \in HostState
  BY DEF HostState

\* What a request may change: of its worker, the account or the clone.
HostMoves(type, a, a2, c, c2) ==
    /\ \/ a2 = a
       \/ type = Create /\ a2 \in {"creating", "ready"}
       \/ type = Disable /\ a2 = "disabled"
    /\ \/ c2 = c
       \/ type = Prepare /\ c2 \in {"preparing", "ready"}
       \/ type = Revoke /\ c2 \in {"revoking", "revoked"}
       \/ type = Disable /\ c # "none" /\ c2 = "revoked"

\* What a request leaves of the host: all other workers are as they were.
Handled(h, type, w) ==
    /\ h \in HostState
    /\ \A x \in Known \ {w} : h.acct[x] = host.acct[x] /\ h.clone[x] = host.clone[x]
    /\ HostMoves(type, host.acct[w], h.acct[w], host.clone[w], h.clone[w])

\* The host with an account written, closed, or a clone written.
AccountAs(w, a, id) == [host EXCEPT !.acct[w] = a, !.by[w] = id]
AccountShut(w, c) == [host EXCEPT !.acct[w] = "disabled", !.clone[w] = c]
CloneAs(w, c, id) == [host EXCEPT !.clone[w] = c, !.cby[w] = id]

\* What is so of a host where the worker's account is a and its clone is c.
Wrote(h, w, a, c) ==
    /\ h \in HostState /\ h.acct[w] = a /\ h.clone[w] = c
    /\ \A x \in Known \ {w} : h.acct[x] = host.acct[x] /\ h.clone[x] = host.clone[x]

\* An account is written.
LEMMA AccountWritten ==
  ASSUME host \in HostState, NEW w \in Known, NEW a \in {"none", "creating", "ready", "disabled"}, NEW id \in Ids
  PROVE  Wrote(AccountAs(w, a, id), w, a, host.clone[w])
<1> DEFINE h == [host EXCEPT !.acct = [host.acct EXCEPT ![w] = a]]
           g == [h EXCEPT !.by = [h.by EXCEPT ![w] = id]]
<1>1. h \in HostState /\ h.acct = [host.acct EXCEPT ![w] = a] /\ h.clone = host.clone
  BY HostFields DEF HostState
<1>2. AccountAs(w, a, id) = g
  BY DEF HostState, AccountAs
<1> HIDE DEF h
<1>3. g \in HostState
  BY <1>1, HostFields
<1>4. g.acct = h.acct /\ g.clone = h.clone
  BY <1>1 DEF HostState
<1> HIDE DEF g
<1>5. host.acct \in [Known -> {"none", "creating", "ready", "disabled"}]
  BY DEF HostState
<1> QED
  BY <1>1, <1>2, <1>3, <1>4, <1>5 DEF Wrote

\* An account is closed, and its clone with it.
LEMMA AccountClosed ==
  ASSUME host \in HostState, NEW w \in Known, NEW c \in {"none", "preparing", "ready", "revoking", "revoked"}
  PROVE  Wrote(AccountShut(w, c), w, "disabled", c) /\ Wrote([host EXCEPT !.acct[w] = "disabled"], w, "disabled", host.clone[w])
<1> DEFINE h == [host EXCEPT !.acct = [host.acct EXCEPT ![w] = "disabled"]]
           g == [h EXCEPT !.clone = [h.clone EXCEPT ![w] = c]]
<1>1. h \in HostState /\ h.acct = [host.acct EXCEPT ![w] = "disabled"] /\ h.clone = host.clone
  BY HostFields DEF HostState
<1>2. AccountShut(w, c) = g
  BY DEF HostState, AccountShut
<1>3. h = [host EXCEPT !.acct[w] = "disabled"]
  BY DEF HostState
<1> HIDE DEF h
<1>4. g \in HostState
  BY <1>1, HostFields
<1>5. g.acct = h.acct /\ g.clone = [h.clone EXCEPT ![w] = c]
  BY <1>1 DEF HostState
<1> HIDE DEF g
<1>6. /\ host.acct \in [Known -> {"none", "creating", "ready", "disabled"}]
      /\ host.clone \in [Known -> {"none", "preparing", "ready", "revoking", "revoked"}]
  BY DEF HostState
<1>7. Wrote(AccountShut(w, c), w, "disabled", c)
  BY <1>1, <1>2, <1>4, <1>5, <1>6 DEF Wrote
<1>8. Wrote(h, w, "disabled", host.clone[w])
  BY <1>1, <1>6 DEF Wrote
<1> QED
  BY <1>3, <1>7, <1>8

\* A clone is written.
LEMMA CloneWritten ==
  ASSUME host \in HostState, NEW w \in Known, NEW c \in {"none", "preparing", "ready", "revoking", "revoked"}, NEW id \in Ids
  PROVE  Wrote(CloneAs(w, c, id), w, host.acct[w], c)
<1> DEFINE h == [host EXCEPT !.clone = [host.clone EXCEPT ![w] = c]]
           g == [h EXCEPT !.cby = [h.cby EXCEPT ![w] = id]]
<1>1. h \in HostState /\ h.clone = [host.clone EXCEPT ![w] = c] /\ h.acct = host.acct
  BY HostFields DEF HostState
<1>2. CloneAs(w, c, id) = g
  BY DEF HostState, CloneAs
<1> HIDE DEF h
<1>3. g \in HostState
  BY <1>1, HostFields
<1>4. g.acct = h.acct /\ g.clone = h.clone
  BY <1>1 DEF HostState
<1> HIDE DEF g
<1>5. host.clone \in [Known -> {"none", "preparing", "ready", "revoking", "revoked"}]
  BY DEF HostState
<1> QED
  BY <1>1, <1>2, <1>3, <1>4, <1>5 DEF Wrote

\* What each operation leaves when it is cut off, and what it ends with.
LEMMA PerformedWell ==
  ASSUME host \in HostState, NEW id \in Ids, NEW type \in ProtectedType, NEW w \in Known
  PROVE  Handled(Perform(id, type, w).cut, type, w) /\ Handled(Perform(id, type, w).end, type, w)
<1> DEFINE op == Perform(id, type, w)
<1>1. /\ Create # Disable /\ Create # Prepare /\ Create # Revoke
      /\ Disable # Prepare /\ Disable # Revoke /\ Prepare # Revoke
  BY DEF Create, Disable, Prepare, Revoke
<1>2. host.acct[w] \in {"none", "creating", "ready", "disabled"} /\ host.clone[w] \in {"none", "preparing", "ready", "revoking", "revoked"}
  BY DEF HostState
<1>3. ASSUME NEW h, NEW a, NEW c, Wrote(h, w, a, c), HostMoves(type, host.acct[w], a, host.clone[w], c)
      PROVE  Handled(h, type, w)
  BY <1>3 DEF Handled, Wrote
<1>4. CASE type = Create
  <2> DEFINE a == IF host.acct[w] = "none" THEN "creating" ELSE host.acct[w]
  <2>1. op.end = AccountAs(w, "ready", id) /\ op.cut = AccountAs(w, a, id)
    BY <1>1, <1>4 DEF Perform, CreateIdentity, AccountAs
  <2>2. a \in {"none", "creating", "ready", "disabled"} /\ HostMoves(type, host.acct[w], a, host.clone[w], host.clone[w])
    BY <1>2, <1>4 DEF HostMoves
  <2>3. HostMoves(type, host.acct[w], "ready", host.clone[w], host.clone[w])
    BY <1>4 DEF HostMoves
  <2> HIDE DEF a, op
  <2>4. Wrote(AccountAs(w, "ready", id), w, "ready", host.clone[w])
    BY AccountWritten
  <2>5. Wrote(AccountAs(w, a, id), w, a, host.clone[w])
    BY <2>2, AccountWritten
  <2> QED
    BY <1>3, <2>1, <2>2, <2>3, <2>4, <2>5 DEF op
<1>5. CASE type = Disable
  <2> DEFINE c == IF host.clone[w] = "none" THEN host.clone[w] ELSE "revoked"
             g == [host EXCEPT !.acct[w] = "disabled"]
  <2>1. op.end = AccountShut(w, c) /\ op.cut = g
    BY <1>1, <1>5 DEF Perform, DisableIdentity, AccountShut
  <2>2. c \in {"none", "preparing", "ready", "revoking", "revoked"} /\ HostMoves(type, host.acct[w], "disabled", host.clone[w], c)
    BY <1>2, <1>5 DEF HostMoves
  <2>3. HostMoves(type, host.acct[w], "disabled", host.clone[w], host.clone[w])
    BY <1>5 DEF HostMoves
  <2>4. Wrote(g, w, "disabled", host.clone[w])
    BY <1>2, AccountClosed
  <2> HIDE DEF c, g, op
  <2>5. Wrote(AccountShut(w, c), w, "disabled", c)
    BY <2>2, AccountClosed
  <2> QED
    BY <1>3, <2>1, <2>2, <2>3, <2>4, <2>5 DEF op
<1>6. CASE type = Prepare
  <2> DEFINE c == IF host.clone[w] = "none" THEN "preparing" ELSE host.clone[w]
  <2>1. op.end = CloneAs(w, "ready", id) /\ op.cut = CloneAs(w, c, id)
    BY <1>1, <1>6 DEF Perform, PrepareClone, CloneAs
  <2>2. c \in {"none", "preparing", "ready", "revoking", "revoked"} /\ HostMoves(type, host.acct[w], host.acct[w], host.clone[w], c)
    BY <1>2, <1>6 DEF HostMoves
  <2>3. HostMoves(type, host.acct[w], host.acct[w], host.clone[w], "ready")
    BY <1>6 DEF HostMoves
  <2> HIDE DEF c, op
  <2>4. Wrote(CloneAs(w, "ready", id), w, host.acct[w], "ready")
    BY CloneWritten
  <2>5. Wrote(CloneAs(w, c, id), w, host.acct[w], c)
    BY <2>2, CloneWritten
  <2> QED
    BY <1>3, <2>1, <2>2, <2>3, <2>4, <2>5 DEF op
<1>7. CASE type = Revoke
  <2>1. op.end = CloneAs(w, "revoked", id) /\ op.cut = CloneAs(w, "revoking", id)
    BY <1>1, <1>7 DEF Perform, RevokeAccess, CloneAs
  <2>2. HostMoves(type, host.acct[w], host.acct[w], host.clone[w], "revoking")
        /\ HostMoves(type, host.acct[w], host.acct[w], host.clone[w], "revoked")
    BY <1>7 DEF HostMoves
  <2>3. Wrote(CloneAs(w, "revoking", id), w, host.acct[w], "revoking")
    BY CloneWritten
  <2>4. Wrote(CloneAs(w, "revoked", id), w, host.acct[w], "revoked")
    BY CloneWritten
  <2> HIDE DEF op
  <2> QED
    BY <1>3, <2>1, <2>2, <2>3, <2>4 DEF op
<1> QED
  BY <1>4, <1>5, <1>6, <1>7 DEF ProtectedType

\* Whatever a request leaves behind, it changed only the worker's account or clone.
LEMMA HandledWell ==
  ASSUME host \in HostState, NEW id \in Ids, NEW type \in ProtectedType, NEW w \in Known, NEW out \in Handle(id, type, w)
  PROVE  Handled(out[1], type, w)
<1> DEFINE op == Perform(id, type, w)
           e == [op.end EXCEPT !.done = @ \cup {id}]
<1>1. \/ out = <<host, FALSE>> \/ out = <<host, TRUE>> \/ out = <<op.cut, FALSE>>
      \/ out \in {e} \X BOOLEAN
  BY DEF Handle
<1>2. Handled(host, type, w)
  BY DEF Handled, HostMoves
<1>3. Handled(op.cut, type, w) /\ Handled(op.end, type, w)
  BY PerformedWell
<1> HIDE DEF op
<1>4. e \in HostState /\ e.acct = op.end.acct /\ e.clone = op.end.clone
  <2> DEFINE f == op.end
  <2>1. f \in HostState /\ e = [f EXCEPT !.done = f.done \cup {id}]
    BY <1>3 DEF Handled
  <2> HIDE DEF f
  <2>2. [f EXCEPT !.done = f.done \cup {id}] \in HostState
    BY <2>1, HostFields
  <2>3. [f EXCEPT !.done = f.done \cup {id}].acct = f.acct /\ [f EXCEPT !.done = f.done \cup {id}].clone = f.clone
    BY <2>1 DEF HostState
  <2> QED
    BY <2>1, <2>2, <2>3 DEF f
<1> HIDE DEF e
<1>5. Handled(e, type, w)
  BY <1>3, <1>4 DEF Handled
<1>6. CASE out \in {e} \X BOOLEAN
  BY <1>5, <1>6
<1>7. CASE out = <<host, FALSE>>
  <2>1. out[1] = host
    BY <1>7
  <2> QED
    BY <1>2, <2>1
<1>8. CASE out = <<host, TRUE>>
  <2>1. out[1] = host
    BY <1>8
  <2> QED
    BY <1>2, <2>1
<1>9. CASE out = <<op.cut, FALSE>>
  <2>1. out[1] = op.cut
    BY <1>9
  <2> QED
    BY <1>3, <2>1
<1> QED
  BY <1>1, <1>6, <1>7, <1>8, <1>9

\* What makes the request of an operation right, for the row of its worker as
\* it is written before the host is asked.
Proper(type, r) ==
    /\ type = Create => r.ident = "unprovisioned"
    /\ type = Disable => ~r.on /\ r.ident # "unprovisioned" /\ r.work \in {"none", "completed", "cancelled"}
    /\ type \in {Prepare, Revoke} => r.work # "none"

\* A proper request keeps what is so of a worker, whatever it leaves on the host.
LEMMA AskedKept ==
  ASSUME NEW r \in StaffRow, NEW a, NEW c, NEW a2, NEW c2, NEW running, NEW type \in ProtectedType,
         StaffKept(r, a, c, running), Proper(type, r), HostMoves(type, a, a2, c, c2)
  PROVE  StaffKept(r, a2, c2, running \cup {type})
<1>1. /\ Create # Disable /\ Create # Prepare /\ Create # Revoke
      /\ Disable # Prepare /\ Disable # Revoke /\ Prepare # Revoke
  BY DEF Create, Disable, Prepare, Revoke
<1>2. /\ r.ident \in {"unprovisioned", "ready", "disabled"} /\ r.on \in BOOLEAN
  BY DEF StaffRow, IdentState
<1>3. CASE type = Create
  BY <1>1, <1>2, <1>3 DEF StaffKept, Proper, HostMoves
<1>4. CASE type = Disable
  BY <1>1, <1>2, <1>4 DEF StaffKept, Proper, HostMoves
<1>5. CASE type = Prepare
  BY <1>1, <1>2, <1>5 DEF StaffKept, Proper, HostMoves
<1>6. CASE type = Revoke
  BY <1>1, <1>2, <1>6 DEF StaffKept, Proper, HostMoves
<1> QED
  BY <1>3, <1>4, <1>5, <1>6 DEF ProtectedType

\* A request of an operation that is being asked for was proper.
LEMMA RunningProper ==
  ASSUME NEW r \in StaffRow, NEW a, NEW c, NEW running, NEW type \in ProtectedType, StaffKept(r, a, c, running), type \in running
  PROVE  Proper(type, r)
<1>1. /\ Create # Disable /\ Create # Prepare /\ Create # Revoke
      /\ Disable # Prepare /\ Disable # Revoke /\ Prepare # Revoke
  BY DEF Create, Disable, Prepare, Revoke
<1> QED
  BY <1>1 DEF StaffKept, Proper

\* The row of a worker when the host has answered.
BoundRow(r, type) ==
    CASE type = Create -> [r EXCEPT !.ident = "ready"]
      [] type = Disable -> [r EXCEPT !.ident = "disabled", !.proj = IF r.proj = "none" THEN r.proj ELSE "revoked"]
      [] type = Prepare -> [r EXCEPT !.proj = "ready", !.alloc = IF r.alloc = "pending_infrastructure" THEN "active" ELSE r.alloc]
      [] type = Revoke -> [r EXCEPT !.proj = "revoked"]

\* Binding writes the row of its worker alone.
LEMMA BindRow ==
  ASSUME NEW rows \in [Known -> StaffRow], NEW type \in ProtectedType, NEW w \in Known
  PROVE  /\ Bind(rows, type, w) = [rows EXCEPT ![w] = BoundRow(rows[w], type)]
         /\ BoundRow(rows[w], type) \in StaffRow
<1>1. /\ Create # Disable /\ Create # Prepare /\ Create # Revoke
      /\ Disable # Prepare /\ Disable # Revoke /\ Prepare # Revoke
  BY DEF Create, Disable, Prepare, Revoke
<1>2. rows[w] \in StaffRow
  OBVIOUS
<1>3. CASE type = Create
  BY <1>1, <1>2, <1>3 DEF Bind, BoundRow, StaffRow, IdentState, AllocState, ProjState
<1>4. CASE type = Disable
  BY <1>1, <1>2, <1>4 DEF Bind, BoundRow, StaffRow, IdentState, AllocState, ProjState
<1>5. CASE type = Prepare
  BY <1>1, <1>2, <1>5 DEF Bind, BoundRow, StaffRow, IdentState, AllocState, ProjState
<1>6. CASE type = Revoke
  BY <1>1, <1>2, <1>6 DEF Bind, BoundRow, StaffRow, IdentState, AllocState, ProjState
<1> QED
  BY <1>3, <1>4, <1>5, <1>6 DEF ProtectedType

\* An answer keeps what is so of a worker when the operation is no longer asked for.
LEMMA AnsweredKept ==
  ASSUME NEW r \in StaffRow, NEW a \in {"none", "creating", "ready", "disabled"}, NEW c, NEW running, NEW type \in ProtectedType,
         StaffKept(r, a, c, running \cup {type})
  PROVE  StaffKept(BoundRow(r, type), a, c, running \ {type})
<1>1. /\ Create # Disable /\ Create # Prepare /\ Create # Revoke
      /\ Disable # Prepare /\ Disable # Revoke /\ Prepare # Revoke
  BY DEF Create, Disable, Prepare, Revoke
<1>2. type \in running \cup {type}
  OBVIOUS
<1> DEFINE b == BoundRow(r, type)
<1>3. CASE type = Create
  <2>1. b.ident = "ready" /\ b.on = r.on /\ b.retire = r.retire /\ b.work = r.work /\ b.proj = r.proj /\ b.alloc = r.alloc
    BY <1>1, <1>3 DEF BoundRow, StaffRow
  <2> HIDE DEF b
  <2>2. StaffKept(b, a, c, running \ {type})
    BY <1>1, <1>2, <1>3, <2>1 DEF StaffKept
  <2> QED
    BY <2>2 DEF b
<1>4. CASE type = Disable
  <2>1. /\ b.ident = "disabled" /\ b.on = r.on /\ b.retire = r.retire /\ b.work = r.work /\ b.alloc = r.alloc
        /\ b.proj = IF r.proj = "none" THEN "none" ELSE "revoked"
    BY <1>1, <1>4 DEF BoundRow, StaffRow
  <2> HIDE DEF b
  <2>2. StaffKept(b, a, c, running \ {type})
    BY <1>1, <1>2, <1>4, <2>1 DEF StaffKept
  <2> QED
    BY <2>2 DEF b
<1>5. CASE type = Prepare
  <2>1. b.proj = "ready" /\ b.on = r.on /\ b.retire = r.retire /\ b.work = r.work /\ b.ident = r.ident
    BY <1>1, <1>5 DEF BoundRow, StaffRow
  <2> HIDE DEF b
  <2>2. StaffKept(b, a, c, running \ {type})
    BY <1>1, <1>2, <1>5, <2>1 DEF StaffKept
  <2> QED
    BY <2>2 DEF b
<1>6. CASE type = Revoke
  <2>1. b.proj = "revoked" /\ b.on = r.on /\ b.retire = r.retire /\ b.work = r.work /\ b.ident = r.ident
    BY <1>1, <1>6 DEF BoundRow, StaffRow
  <2> HIDE DEF b
  <2>2. StaffKept(b, a, c, running \ {type})
    BY <1>1, <1>2, <1>6, <2>1 DEF StaffKept
  <2> QED
    BY <2>2 DEF b
<1> QED
  BY <1>3, <1>4, <1>5, <1>6 DEF ProtectedType

\* What a change of one operation does to what is asked for.
LEMMA OpChanges ==
  ASSUME InfraInv, NEW o \in DOMAIN ops, NEW p \in ProtectedOperation, ops' = [ops EXCEPT ![o] = p],
         p.w = ops[o].w, p.type = ops[o].type, p.chore = ops[o].chore,
         ops[o].st \in {"pending", "running"}, p.st # "running" => p.st # "pending" \/ ops[o].st = "pending",
         Len(chores') = Len(chores)
  PROVE  /\ ops' \in Seq(ProtectedOperation) /\ Len(ops') = Len(ops) /\ DOMAIN ops' = DOMAIN ops
         /\ \A k \in DOMAIN ops : ops'[k] = IF k = o THEN p ELSE ops[k]
         /\ OpsKept'
         /\ \A w \in Known \ {p.w} : Running(w)' = Running(w)
         /\ p.st = "running" => Running(p.w)' = Running(p.w) \cup {p.type}
         /\ p.st \notin {"pending", "running"} => Running(p.w)' = Running(p.w) \ {p.type}
         /\ p.st = "pending" => Running(p.w)' = Running(p.w)
<1>1. ops \in [DOMAIN ops -> ProtectedOperation] /\ ops \in Seq(ProtectedOperation)
  BY SequenceAsFunction DEF InfraInv, InfrastructureTypeOK
<1>2. ops' \in [DOMAIN ops -> ProtectedOperation]
  BY <1>1
<1>3. ops' \in Seq(ProtectedOperation) /\ Len(ops') = Len(ops) /\ DOMAIN ops' = DOMAIN ops
  BY <1>1, <1>2, FunctionAsSequence
<1>4. \A k \in DOMAIN ops : ops'[k] = IF k = o THEN p ELSE ops[k]
  BY <1>1
<1>5. OpsKept'
  <2>1. \A k \in DOMAIN ops : ops'[k].chore \in 0..Len(chores')
    BY <1>4 DEF InfraInv, OpsKept
  <2>2. \A k \in DOMAIN ops : /\ ops'[k].w = ops[k].w /\ ops'[k].type = ops[k].type
                              /\ ops'[k].st \in {"pending", "running"} => ops[k].st \in {"pending", "running"}
    BY <1>4
  <2>3. \A j, k \in DOMAIN ops :
          ops'[j].w = ops'[k].w /\ ops'[j].type = ops'[k].type /\ {ops'[j].st, ops'[k].st} \subseteq {"pending", "running"} => j = k
    <3> SUFFICES ASSUME NEW j \in DOMAIN ops, NEW k \in DOMAIN ops, ops'[j].w = ops'[k].w, ops'[j].type = ops'[k].type,
                        ops'[j].st \in {"pending", "running"}, ops'[k].st \in {"pending", "running"}
                 PROVE  j = k
      OBVIOUS
    <3>1. ops[j].w = ops[k].w /\ ops[j].type = ops[k].type /\ {ops[j].st, ops[k].st} \subseteq {"pending", "running"}
      BY <2>2
    <3> QED
      BY <3>1 DEF InfraInv, OpsKept
  <2> QED
    BY <1>3, <2>1, <2>3 DEF OpsKept
<1>6. ASSUME NEW w \in Known \ {p.w} PROVE Running(w)' = Running(w)
  BY <1>3, <1>4 DEF Running
<1>7. ASSUME p.st = "running" PROVE Running(p.w)' = Running(p.w) \cup {p.type}
  BY <1>3, <1>4, <1>7 DEF Running
<1>8. ASSUME p.st \notin {"pending", "running"} PROVE Running(p.w)' = Running(p.w) \ {p.type}
  <2>1. \A k \in DOMAIN ops : k # o /\ ops[k].w = p.w /\ ops[k].type = p.type => ops[k].st # "running"
    BY DEF InfraInv, OpsKept
  <2> QED
    BY <1>3, <1>4, <1>8, <2>1 DEF Running
<1>9. ASSUME p.st = "pending" PROVE Running(p.w)' = Running(p.w)
  BY <1>3, <1>4, <1>9 DEF Running
<1> QED
  BY <1>3, <1>4, <1>5, <1>6, <1>7, <1>8, <1>9

\* Nothing was asked of the host yet.
LEMMA InfraStarts == InfrastructureInit => InfraInv
<1> SUFFICES ASSUME InfrastructureInit PROVE InfraInv
  OBVIOUS
<1>1. PICK known \in BOOLEAN, temp \in BOOLEAN :
        /\ hr = [w \in Known |-> [on |-> TRUE, temp |-> temp /\ w # Nix, ident |-> IF known THEN "ready" ELSE "unprovisioned",
                                  alloc |-> "none", proj |-> "none", work |-> "none", release |-> "none", retire |-> "none"]]
        /\ host = [acct |-> [w \in Known |-> IF known THEN "ready" ELSE "none"], by |-> [w \in Known |-> <<>>],
                   clone |-> [w \in Known |-> "none"], cby |-> [w \in Known |-> <<>>], done |-> {}]
  BY DEF InfrastructureInit
<1>2. /\ ops \in Seq(ProtectedOperation) /\ Len(ops) = 0 /\ DOMAIN ops = {}
      /\ chores \in Seq(NixTask) /\ Len(chores) = 0 /\ DOMAIN chores = {} /\ shift = 0
  BY DEF InfrastructureInit
<1>3. \A w \in Known : hr[w] \in StaffRow
  BY <1>1 DEF StaffRow, IdentState, AllocState, ProjState
<1>4. hr \in [Known -> StaffRow]
  BY <1>1, <1>3
<1>5. host \in HostState
  BY <1>1 DEF HostState, Ids
<1>6. ASSUME NEW w \in Known PROVE StaffKept(hr[w], host.acct[w], host.clone[w], Running(w))
  <2>1. Running(w) = {}
    BY <1>2 DEF Running
  <2> QED
    BY <1>1, <2>1 DEF StaffKept
<1> QED
  BY <1>2, <1>4, <1>5, <1>6, InfrastructureAssumption DEF InfraInv, InfrastructureTypeOK, OpsKept, AnswerPending

\* The invariant holds what HostTold says.
LEMMA InfraPromise == InfraInv => HostIntent /\ AnswerPending /\ AtWorkWithAccount
<1> SUFFICES ASSUME InfraInv PROVE HostIntent /\ AnswerPending /\ AtWorkWithAccount
  OBVIOUS
<1>1. \A w \in Known : StaffKept(hr[w], host.acct[w], host.clone[w], Running(w)) /\ hr[w] \in StaffRow
  BY DEF InfraInv, InfrastructureTypeOK
<1>2. HostIntent
  BY <1>1 DEF HostIntent, StaffKept, Running
<1>3. AtWorkWithAccount
  BY <1>1 DEF AtWorkWithAccount, StaffKept, Known
<1> QED
  BY <1>2, <1>3 DEF InfraInv

\* What a step that leaves the operations alone has to show.
LEMMA SameOps ==
  ASSUME InfraInv, UNCHANGED ops,
         chores' \in Seq(NixTask), Len(chores) <= Len(chores'), Len(chores') <= ChoreBound, shift' \in 0..Len(chores'),
         \A c \in DOMAIN chores' : chores'[c].st = "awaiting_approval" /\ chores'[c].last = "completed" => OwnsOp(c, {"pending", "running"}),
         hr' \in [Known -> StaffRow], host' \in HostState,
         \A w \in Known : StaffKept(hr'[w], host'.acct[w], host'.clone[w], Running(w))
  PROVE  InfraInv'
<1>1. InfrastructureTypeOK'
  BY DEF InfraInv, InfrastructureTypeOK
<1>2. \A w \in Known : Running(w)' = Running(w)
  BY DEF Running
<1>3. OpsKept'
  <2>1. Len(chores) \in Nat /\ Len(chores') \in Nat
    BY LenProperties DEF InfraInv, InfrastructureTypeOK
  <2> QED
    BY <2>1 DEF InfraInv, OpsKept
<1>4. AnswerPending'
  BY DEF AnswerPending, OwnsOp
<1> QED
  BY <1>1, <1>2, <1>3, <1>4 DEF InfraInv

\* The row of one worker changes, and perhaps its account or clone.
LEMMA StaffChanges ==
  ASSUME InfraInv, NEW w \in Known, NEW r \in StaffRow, hr' = [hr EXCEPT ![w] = r], UNCHANGED <<ops, chores, shift>>,
         NEW type, Handled(host', type, w), StaffKept(r, host'.acct[w], host'.clone[w], Running(w))
  PROVE  InfraInv'
<1>1. hr \in [Known -> StaffRow] /\ chores \in Seq(NixTask) /\ Len(chores) <= ChoreBound /\ shift \in 0..Len(chores) /\ Len(chores) \in Nat
  BY LenProperties DEF InfraInv, InfrastructureTypeOK
<1>2. hr' \in [Known -> StaffRow] /\ hr'[w] = r /\ \A x \in Known \ {w} : hr'[x] = hr[x]
  BY <1>1
<1>3. \A x \in Known : StaffKept(hr'[x], host'.acct[x], host'.clone[x], Running(x))
  BY <1>2 DEF InfraInv, Handled
<1>4. host' \in HostState
  BY DEF Handled
<1>5. \A c \in DOMAIN chores' : chores'[c].st = "awaiting_approval" /\ chores'[c].last = "completed" => OwnsOp(c, {"pending", "running"})
  BY DEF InfraInv, AnswerPending
<1> QED
  BY <1>1, <1>2, <1>3, <1>4, <1>5, SameOps

\* One chore changes.
LEMMA ChoreChanges ==
  ASSUME InfraInv, NEW c \in DOMAIN chores, NEW k \in NixTask, chores' = [chores EXCEPT ![c] = k],
         UNCHANGED <<hr, ops, host>>, shift' \in 0..Len(chores),
         k.st = "awaiting_approval" /\ k.last = "completed" => OwnsOp(c, {"pending", "running"})
  PROVE  InfraInv'
<1>1. chores \in Seq(NixTask) /\ chores \in [DOMAIN chores -> NixTask] /\ Len(chores) \in Nat /\ Len(chores) <= ChoreBound
  BY SequenceAsFunction DEF InfraInv, InfrastructureTypeOK
<1>2. chores' \in [DOMAIN chores -> NixTask]
  BY <1>1
<1>3. chores' \in Seq(NixTask) /\ Len(chores') = Len(chores) /\ DOMAIN chores' = DOMAIN chores
  BY <1>1, <1>2, FunctionAsSequence
<1>4. \A j \in DOMAIN chores' : chores'[j].st = "awaiting_approval" /\ chores'[j].last = "completed" => OwnsOp(j, {"pending", "running"})
  <2> SUFFICES ASSUME NEW j \in DOMAIN chores, chores'[j].st = "awaiting_approval", chores'[j].last = "completed"
               PROVE  OwnsOp(j, {"pending", "running"})
    BY <1>3
  <2>1. CASE j = c
    BY <1>1, <2>1
  <2>2. CASE j # c
    <3>1. chores'[j] = chores[j]
      BY <1>1, <2>2
    <3> QED
      BY <3>1 DEF InfraInv, AnswerPending
  <2> QED
    BY <2>1, <2>2
<1>5. hr' \in [Known -> StaffRow] /\ host' \in HostState
  BY DEF InfraInv, InfrastructureTypeOK
<1>6. \A w \in Known : StaffKept(hr'[w], host'.acct[w], host'.clone[w], Running(w))
  BY DEF InfraInv
<1> QED
  BY <1>1, <1>3, <1>4, <1>5, <1>6, SameOps

\* A field of a chore at a time.
LEMMA ChoreFields ==
  ASSUME NEW k \in NixTask
  PROVE  /\ \A v \in {"queued", "working", "awaiting_approval", "blocked", "completed", "failed", "cancelled"} : [k EXCEPT !.st = v] \in NixTask
         /\ \A v \in {"none", "completed", "awaiting_approval", "interrupted", "failed"} : [k EXCEPT !.last = v] \in NixTask
         /\ \A v \in Nat : [k EXCEPT !.turns = v] \in NixTask
  BY DEF NixTask

\* What is enqueued comes after what is there.
LEMMA EnqueuedWell ==
  ASSUME NEW cs \in Seq(NixTask), NEW type \in ProtectedType, NEW w \in Staff
  PROVE  /\ cs \o Enqueued(type, w) \in Seq(NixTask) /\ Len(cs) <= Len(cs \o Enqueued(type, w))
         /\ \A c \in 1..Len(cs) : (cs \o Enqueued(type, w))[c] = cs[c]
         /\ \A c \in 1..Len(cs \o Enqueued(type, w)) : c > Len(cs) => (cs \o Enqueued(type, w))[c].st = "queued"
<1> DEFINE k == [w |-> w, type |-> type, turns |-> 0, last |-> "none", st |-> "queued"]
           e == Enqueued(type, w)
<1>1. k \in NixTask /\ k.st = "queued"
  BY DEF NixTask
<1>2. e = <<>> \/ e = <<k>>
  BY DEF Enqueued
<1>3. Len(cs) \in Nat
  BY LenProperties
<1> HIDE DEF e, k
<1>4. CASE e = <<>>
  <2>1. cs \o e = cs
    BY <1>4, ConcatEmptySeq
  <2> QED
    BY <1>3, <2>1 DEF e
<1>5. CASE e = <<k>>
  <2>1. cs \o e = Append(cs, k)
    BY <1>1, <1>5, AppendIsConcat
  <2> DEFINE a == Append(cs, k)
  <2>2. a \in Seq(NixTask) /\ Len(a) = Len(cs) + 1 /\ (\A c \in 1..Len(cs) : a[c] = cs[c]) /\ a[Len(cs) + 1] = k
    BY <1>1, AppendProperties
  <2> HIDE DEF a
  <2>3. \A c \in 1..Len(a) : c > Len(cs) => a[c].st = "queued"
    BY <1>1, <1>3, <2>2
  <2>4. a = cs \o Enqueued(type, w)
    BY <2>1 DEF a, e
  <2>5. Len(cs) <= Len(a)
    BY <1>3, <2>2
  <2> QED
    BY <2>2, <2>3, <2>4, <2>5
<1> QED
  BY <1>2, <1>4, <1>5

\* What an enqueued chore has to show.
LEMMA ChoresGrow ==
  ASSUME InfraInv, UNCHANGED <<ops, shift>>,
         chores' \in Seq(NixTask), Len(chores) <= Len(chores'), Len(chores') <= ChoreBound,
         \A c \in 1..Len(chores) : chores'[c] = chores[c],
         \A c \in 1..Len(chores') : c > Len(chores) => chores'[c].st = "queued",
         hr' \in [Known -> StaffRow], host' \in HostState,
         \A w \in Known : StaffKept(hr'[w], host'.acct[w], host'.clone[w], Running(w))
  PROVE  InfraInv'
<1>1. /\ DOMAIN chores = 1..Len(chores) /\ DOMAIN chores' = 1..Len(chores')
      /\ Len(chores) \in Nat /\ Len(chores') \in Nat /\ shift \in 0..Len(chores)
  BY LenProperties DEF InfraInv, InfrastructureTypeOK
<1>2. \A c \in DOMAIN chores' : chores'[c].st = "awaiting_approval" /\ chores'[c].last = "completed" => OwnsOp(c, {"pending", "running"})
  <2> SUFFICES ASSUME NEW c \in 1..Len(chores'), chores'[c].st = "awaiting_approval", chores'[c].last = "completed"
               PROVE  OwnsOp(c, {"pending", "running"})
    BY <1>1
  <2>1. c \in 1..Len(chores)
    BY <1>1
  <2> QED
    BY <1>1, <2>1 DEF InfraInv, AnswerPending
<1> QED
  BY <1>1, <1>2, SameOps

\* The chore that waited for an operation is told of its outcome.
LEMMA ResolveWell ==
  ASSUME NEW cs \in Seq(NixTask), NEW c \in Nat, NEW success \in BOOLEAN
  PROVE  /\ Resolve(cs, c, success) \in Seq(NixTask) /\ Len(Resolve(cs, c, success)) = Len(cs)
         /\ DOMAIN Resolve(cs, c, success) = DOMAIN cs
         /\ \A k \in DOMAIN cs \ {c} : Resolve(cs, c, success)[k] = cs[k]
         /\ c \in DOMAIN cs => Resolve(cs, c, success)[c].st # "awaiting_approval"
<1> DEFINE v == IF success THEN "queued" ELSE "blocked"
           a == [cs EXCEPT ![c].st = v]
<1>1. cs \in [DOMAIN cs -> NixTask] /\ DOMAIN cs = 1..Len(cs)
  BY SequenceAsFunction
<1>2. CASE c # 0 /\ cs[c].st = "awaiting_approval"
  <2>1. Resolve(cs, c, success) = a
    BY <1>2 DEF Resolve
  <2>2. v \in {"queued", "blocked"}
    OBVIOUS
  <2> HIDE DEF v
  <2>3. a = [k \in DOMAIN cs |-> IF k = c THEN [cs[c] EXCEPT !.st = v] ELSE cs[k]]
    BY <1>1
  <2>4. \A k \in DOMAIN cs : cs[k] \in NixTask /\ [cs[k] EXCEPT !.st = v] \in NixTask
    BY <1>1, <2>2, ChoreFields
  <2>5. a \in [DOMAIN cs -> NixTask]
    BY <2>3, <2>4
  <2>6. c \in DOMAIN cs => a[c].st = v
    BY <2>3, <2>4 DEF NixTask
  <2>7. \A k \in DOMAIN cs \ {c} : a[k] = cs[k]
    BY <2>3
  <2> HIDE DEF a
  <2> QED
    BY <2>1, <2>2, <2>5, <2>6, <2>7, FunctionAsSequence
<1>3. CASE ~(c # 0 /\ cs[c].st = "awaiting_approval")
  BY <1>1, <1>3 DEF Resolve
<1> QED
  BY <1>2, <1>3

\* One operation moves, and the row, the account and the clone of its worker with it.
LEMMA OpMoves ==
  ASSUME InfraInv, NEW o \in DOMAIN ops, NEW p \in ProtectedOperation, ops' = [ops EXCEPT ![o] = p],
         p.w = ops[o].w, p.type = ops[o].type, p.chore = ops[o].chore,
         ops[o].st \in {"pending", "running"}, p.st = "pending" => ops[o].st = "pending",
         \/ p.st \in {"pending", "running"} /\ UNCHANGED chores
         \/ p.st \notin {"pending", "running"} /\ \E success \in BOOLEAN : chores' = Resolve(chores, p.chore, success),
         UNCHANGED shift,
         NEW r \in StaffRow, hr' = [hr EXCEPT ![p.w] = r], Handled(host', p.type, p.w),
         StaffKept(r, host'.acct[p.w], host'.clone[p.w],
                   IF p.st = "running" THEN Running(p.w) \cup {p.type}
                   ELSE IF p.st = "pending" THEN Running(p.w) ELSE Running(p.w) \ {p.type})
  PROVE  InfraInv'
<1>1. /\ chores \in Seq(NixTask) /\ Len(chores) \in Nat /\ Len(chores) <= ChoreBound /\ shift \in 0..Len(chores)
      /\ hr \in [Known -> StaffRow] /\ Len(ops) <= OpBound /\ DOMAIN chores = 1..Len(chores)
  BY LenProperties DEF InfraInv, InfrastructureTypeOK
<1>2. p.w \in Known /\ p.chore \in Nat
  BY DEF ProtectedOperation
<1>3. chores' \in Seq(NixTask) /\ Len(chores') = Len(chores) /\ DOMAIN chores' = DOMAIN chores
  BY <1>1, <1>2, ResolveWell
<1>4. /\ ops' \in Seq(ProtectedOperation) /\ Len(ops') = Len(ops) /\ DOMAIN ops' = DOMAIN ops
      /\ \A k \in DOMAIN ops : ops'[k] = IF k = o THEN p ELSE ops[k]
      /\ OpsKept'
      /\ \A w \in Known \ {p.w} : Running(w)' = Running(w)
      /\ p.st = "running" => Running(p.w)' = Running(p.w) \cup {p.type}
      /\ p.st \notin {"pending", "running"} => Running(p.w)' = Running(p.w) \ {p.type}
      /\ p.st = "pending" => Running(p.w)' = Running(p.w)
  BY <1>3, OpChanges
<1>5. hr' \in [Known -> StaffRow] /\ hr'[p.w] = r /\ \A x \in Known \ {p.w} : hr'[x] = hr[x]
  BY <1>1, <1>2
<1>6. InfrastructureTypeOK'
  BY <1>1, <1>3, <1>4, <1>5 DEF InfrastructureTypeOK, Handled
<1>7. ASSUME NEW x \in Known PROVE StaffKept(hr'[x], host'.acct[x], host'.clone[x], Running(x)')
  <2>1. CASE x # p.w
    <3>1. StaffKept(hr[x], host.acct[x], host.clone[x], Running(x)) /\ hr'[x] = hr[x] /\ Running(x)' = Running(x)
      BY <1>4, <1>5, <2>1 DEF InfraInv
    <3> QED
      BY <2>1, <3>1 DEF Handled
  <2>2. CASE x = p.w
    <3>1. Running(x)' = IF p.st = "running" THEN Running(p.w) \cup {p.type}
                        ELSE IF p.st = "pending" THEN Running(p.w) ELSE Running(p.w) \ {p.type}
      BY <1>4, <2>2
    <3> QED
      BY <1>5, <2>2, <3>1
  <2> QED
    BY <2>1, <2>2
<1>8. AnswerPending'
  <2> SUFFICES ASSUME NEW c \in DOMAIN chores, chores'[c].st = "awaiting_approval", chores'[c].last = "completed"
               PROVE  OwnsOp(c, {"pending", "running"})'
    BY <1>3 DEF AnswerPending
  <2>1. CASE p.st \in {"pending", "running"}
    <3>1. OwnsOp(c, {"pending", "running"})
      BY <2>1 DEF InfraInv, AnswerPending
    <3> QED
      BY <1>4, <2>1, <3>1 DEF OwnsOp
  <2>2. CASE p.st \notin {"pending", "running"}
    <3>1. c # p.chore /\ chores'[c] = chores[c]
      BY <1>1, <1>2, <2>2, ResolveWell
    <3>2. PICK k \in DOMAIN ops : ops[k].chore = c /\ ops[k].st \in {"pending", "running"}
      BY <3>1 DEF InfraInv, AnswerPending, OwnsOp
    <3>3. k # o
      BY <3>1, <3>2
    <3> QED
      BY <1>4, <3>2, <3>3 DEF OwnsOp
  <2> QED
    BY <2>1, <2>2
<1> QED
  BY <1>4, <1>6, <1>7, <1>8 DEF InfraInv

\* A field of an operation at a time, and where its parts are from.
LEMMA OperationFields ==
  ASSUME NEW p \in ProtectedOperation
  PROVE  /\ \A v \in {"pending", "running", "completed", "denied", "expired"} :
               /\ [p EXCEPT !.st = v] \in ProtectedOperation /\ [p EXCEPT !.st = v].st = v
               /\ [p EXCEPT !.st = v].w = p.w /\ [p EXCEPT !.st = v].type = p.type /\ [p EXCEPT !.st = v].chore = p.chore
         /\ p.w \in Known /\ p.type \in ProtectedType /\ p.chore \in Nat
  BY DEF ProtectedOperation

\* apply() of a proper operation.
LEMMA OperationApplied ==
  ASSUME InfraInv, NEW o \in DOMAIN ops, ops[o].st \in {"pending", "running"},
         NEW r \in StaffRow, Proper(ops[o].type, r),
         StaffKept(r, host.acct[ops[o].w], host.clone[ops[o].w], Running(ops[o].w)),
         Apply(o, [hr EXCEPT ![ops[o].w] = r], [ops EXCEPT ![o] = [ops[o] EXCEPT !.st = "running"]])
  PROVE  InfraInv'
<1> DEFINE w == ops[o].w
           type == ops[o].type
           rows == [hr EXCEPT ![w] = r]
           run == [ops[o] EXCEPT !.st = "running"]
           done == [ops[o] EXCEPT !.st = "completed"]
           asked == [ops EXCEPT ![o] = run]
<1>1. ops \in [DOMAIN ops -> ProtectedOperation] /\ host \in HostState /\ hr \in [Known -> StaffRow]
  BY SequenceAsFunction DEF InfraInv, InfrastructureTypeOK
<1>2. ops[o] \in ProtectedOperation /\ w \in Known /\ type \in ProtectedType
  BY <1>1, OperationFields
<1>3. run \in ProtectedOperation /\ run.st = "running" /\ run.w = w /\ run.type = type /\ run.chore = ops[o].chore
  BY <1>2, OperationFields
<1>4. done \in ProtectedOperation /\ done.st = "completed" /\ done.w = w /\ done.type = type /\ done.chore = ops[o].chore
  BY <1>2, OperationFields
<1>5. <<"op", o>> \in Ids
  <2>1. o \in 1..OpBound
    BY LenProperties, InfrastructureAssumption DEF InfraInv, InfrastructureTypeOK
  <2> QED
    BY <2>1 DEF Ids
<1>6. asked[o] = run /\ rows \in [Known -> StaffRow] /\ rows[w] = r /\ [asked EXCEPT ![o].st = "completed"] = [ops EXCEPT ![o] = done]
  BY <1>1, <1>2
<1>14. asked[o].type = type /\ asked[o].w = w /\ asked[o].chore = ops[o].chore
  BY <1>3, <1>6
<1>15. Apply(o, rows, asked)
  OBVIOUS
<1> HIDE DEF run, asked, rows
<1>7. PICK out \in Handle(<<"op", o>>, type, w) :
        /\ host' = out[1]
        /\ IF out[2]
           THEN hr' = Bind(rows, type, w) /\ ops' = [asked EXCEPT ![o].st = "completed"] /\ chores' = Resolve(chores, ops[o].chore, TRUE)
           ELSE hr' = rows /\ ops' = asked /\ UNCHANGED chores
        /\ UNCHANGED shift
  BY <1>14, <1>15 DEF Apply
<1>8. Handled(host', type, w)
  BY <1>1, <1>2, <1>5, <1>7, HandledWell
<1>9. HostMoves(type, host.acct[w], host'.acct[w], host.clone[w], host'.clone[w])
  BY <1>8 DEF Handled
<1>10. host'.acct[w] \in {"none", "creating", "ready", "disabled"}
  BY <1>2, <1>8 DEF Handled, HostState
<1> HIDE DEF done
<1>11. StaffKept(r, host'.acct[w], host'.clone[w], Running(w) \cup {type})
  BY <1>2, <1>9, AskedKept
<1>12. CASE ~out[2]
  <2>1. hr' = [hr EXCEPT ![run.w] = r] /\ ops' = [ops EXCEPT ![o] = run] /\ UNCHANGED <<chores, shift>>
    BY <1>3, <1>7, <1>12 DEF rows, asked
  <2>2. StaffKept(r, host'.acct[run.w], host'.clone[run.w],
                  IF run.st = "running" THEN Running(run.w) \cup {run.type}
                  ELSE IF run.st = "pending" THEN Running(run.w) ELSE Running(run.w) \ {run.type})
    BY <1>3, <1>11
  <2>3. Handled(host', run.type, run.w)
    BY <1>3, <1>8
  <2> QED
    BY <1>3, <2>1, <2>2, <2>3, OpMoves
<1>13. CASE out[2]
  <2> DEFINE b == BoundRow(r, type)
  <2>1. hr' = [rows EXCEPT ![w] = b] /\ b \in StaffRow
    BY <1>2, <1>6, <1>7, <1>13, BindRow
  <2>2. StaffKept(b, host'.acct[w], host'.clone[w], Running(w) \ {type})
    BY <1>2, <1>10, <1>11, AnsweredKept
  <2> HIDE DEF b
  <2>3. hr' = [hr EXCEPT ![done.w] = b]
    BY <1>1, <1>2, <1>4, <2>1 DEF rows
  <2>4. ops' = [ops EXCEPT ![o] = done] /\ chores' = Resolve(chores, done.chore, TRUE) /\ UNCHANGED shift
    BY <1>4, <1>6, <1>7, <1>13
  <2>5. StaffKept(b, host'.acct[done.w], host'.clone[done.w],
                  IF done.st = "running" THEN Running(done.w) \cup {done.type}
                  ELSE IF done.st = "pending" THEN Running(done.w) ELSE Running(done.w) \ {done.type})
    BY <1>4, <2>2
  <2>6. Handled(host', done.type, done.w)
    BY <1>4, <1>8
  <2> QED
    BY <1>4, <2>1, <2>3, <2>4, <2>5, <2>6, OpMoves
<1> QED
  BY <1>12, <1>13

\* A request that is enqueued waits for its answer, and holds its place.
LEMMA Requested ==
  ASSUME InfraInv, NEW type \in ProtectedType, NEW w \in Known, NEW c \in 0..Len(chores), NEW n \in Nat,
         Len(ops) < OpBound, ~\E o \in DOMAIN ops : Same(o, type, w),
         ops' = NewOp(type, w, c, n), UNCHANGED <<hr, chores, shift, host>>
  PROVE  InfraInv'
<1> DEFINE p == [type |-> type, w |-> w, chore |-> c, turn |-> n, due |-> FALSE, st |-> "pending", pre |-> Snapshot(w)]
<1>1. ops \in Seq(ProtectedOperation) /\ hr[w] \in StaffRow /\ Len(chores) \in Nat /\ Len(ops) \in Nat /\ DOMAIN ops = 1..Len(ops)
  BY LenProperties DEF InfraInv, InfrastructureTypeOK
<1>2. p \in ProtectedOperation
  <2>1. hr[w].on \in BOOLEAN /\ hr[w].ident \in IdentState /\ hr[w].alloc \in AllocState /\ hr[w].proj \in ProjState
    BY <1>1 DEF StaffRow
  <2>2. Snapshot(w) \in [on : BOOLEAN, ident : IdentState, alloc : AllocState, proj : ProjState]
    BY <2>1 DEF Snapshot
  <2> HIDE DEF p
  <2>3. c \in Nat
    BY <1>1
  <2> QED
    BY <2>2, <2>3 DEF ProtectedOperation, p
<1>3. ops' = Append(ops, p) /\ p.w = w /\ p.type = type /\ p.chore = c /\ p.st = "pending"
  BY DEF NewOp
<1> HIDE DEF p
<1>4. ops' \in Seq(ProtectedOperation) /\ Len(ops') = Len(ops) + 1 /\ (\A o \in 1..Len(ops) : ops'[o] = ops[o]) /\ ops'[Len(ops) + 1] = p
  BY <1>1, <1>2, <1>3, AppendProperties
<1>5. DOMAIN ops' = 1..(Len(ops) + 1) /\ Len(ops') <= OpBound
  BY <1>1, <1>4, LenProperties, InfrastructureAssumption
<1>6. \A o \in DOMAIN ops : o \in DOMAIN ops' /\ ops'[o] = ops[o]
  BY <1>1, <1>4, <1>5
<1>7. \A o \in DOMAIN ops' : o \in DOMAIN ops \/ (o = Len(ops) + 1 /\ ops'[o] = p)
  BY <1>1, <1>4, <1>5
<1>8. \A x \in Known : Running(x)' = Running(x)
  BY <1>3, <1>6, <1>7 DEF Running
<1>9. OpsKept'
  <2>1. \A o \in DOMAIN ops' : ops'[o].chore \in 0..Len(chores')
    BY <1>3, <1>6, <1>7 DEF InfraInv, OpsKept
  <2>2. \A o, k \in DOMAIN ops' :
          ops'[o].w = ops'[k].w /\ ops'[o].type = ops'[k].type /\ {ops'[o].st, ops'[k].st} \subseteq {"pending", "running"} => o = k
    <3> SUFFICES ASSUME NEW o \in DOMAIN ops', NEW k \in DOMAIN ops', ops'[o].w = ops'[k].w, ops'[o].type = ops'[k].type,
                        ops'[o].st \in {"pending", "running"}, ops'[k].st \in {"pending", "running"}
                 PROVE  o = k
      OBVIOUS
    <3>1. CASE o \in DOMAIN ops /\ k \in DOMAIN ops
      <4>1. ops[o].w = ops[k].w /\ ops[o].type = ops[k].type /\ {ops[o].st, ops[k].st} \subseteq {"pending", "running"}
        BY <1>6, <3>1
      <4> QED
        BY <3>1, <4>1 DEF InfraInv, OpsKept
    <3>2. CASE o \in DOMAIN ops /\ k \notin DOMAIN ops
      BY <1>3, <1>6, <1>7, <3>2 DEF Same
    <3>3. CASE o \notin DOMAIN ops /\ k \in DOMAIN ops
      BY <1>3, <1>6, <1>7, <3>3 DEF Same
    <3>4. CASE o \notin DOMAIN ops /\ k \notin DOMAIN ops
      BY <1>7, <3>4
    <3> QED
      BY <3>1, <3>2, <3>3, <3>4
  <2> QED
    BY <2>1, <2>2 DEF OpsKept
<1>10. AnswerPending'
  BY <1>6 DEF InfraInv, AnswerPending, OwnsOp
<1>11. InfrastructureTypeOK'
  BY <1>4, <1>5 DEF InfraInv, InfrastructureTypeOK
<1>12. \A x \in Known : StaffKept(hr'[x], host'.acct[x], host'.clone[x], Running(x)')
  BY <1>8 DEF InfraInv
<1> QED
  BY <1>9, <1>10, <1>11, <1>12 DEF InfraInv

\* A field of a row at a time.
LEMMA StaffFields ==
  ASSUME NEW r \in StaffRow
  PROVE  /\ \A v \in BOOLEAN : [r EXCEPT !.on = v] \in StaffRow
         /\ \A v \in {"none", "queued", "working", "blocked", "completed", "cancelled"} : [r EXCEPT !.work = v] \in StaffRow
         /\ \A v \in AllocState : [r EXCEPT !.alloc = v] \in StaffRow
         /\ \A v \in ProjState : [r EXCEPT !.proj = v] \in StaffRow
         /\ \A v \in {"none", "pending", "completed"} : [r EXCEPT !.release = v] \in StaffRow /\ [r EXCEPT !.retire = v] \in StaffRow
  BY DEF StaffRow

\* A temporary worker is retired when its work is over.
LEMMA RetiredKept ==
  ASSUME NEW r \in StaffRow, NEW a, NEW c, NEW running, StaffKept(r, a, c, running), r.work \in {"completed", "cancelled"}
  PROVE  \A w \in Known : Retired(w, r) \in StaffRow /\ StaffKept(Retired(w, r), a, c, running)
<1> SUFFICES ASSUME NEW w \in Known PROVE Retired(w, r) \in StaffRow /\ StaffKept(Retired(w, r), a, c, running)
  OBVIOUS
<1> DEFINE v == IF r.ident = "ready" /\ r.retire = "none" THEN "pending" ELSE r.retire
           s == [r EXCEPT !.on = FALSE]
           t == [s EXCEPT !.retire = v]
<1>1. CASE ~r.temp
  BY <1>1 DEF Retired
<1>2. CASE r.temp
  <2>1. Retired(w, r) = t
    BY <1>2 DEF Retired, StaffRow
  <2>2. v \in {"none", "pending", "completed"} /\ (v = "pending" => r.retire = "pending" \/ r.ident = "ready")
    /\ (r.retire = "pending" => v = "pending")
    BY DEF StaffRow
  <2> HIDE DEF v
  <2>3. s \in StaffRow
    BY StaffFields
  <2>4. /\ t.on = FALSE /\ t.retire = v /\ t.ident = r.ident /\ t.proj = r.proj /\ t.alloc = r.alloc /\ t.work = r.work
    BY DEF StaffRow
  <2> HIDE DEF s
  <2>5. t \in StaffRow
    BY <2>2, <2>3, StaffFields
  <2> HIDE DEF t
  <2>6. StaffKept(t, a, c, running)
    BY <2>2, <2>4 DEF StaffKept
  <2> QED
    BY <2>1, <2>5, <2>6
<1> QED
  BY <1>1, <1>2

\* Every step of Nix, of the owner, of the provisioner and of a worker's task.
LEMMA InfraStep ==
  ASSUME InfraInv, InfrastructureNext
  PROVE  InfraInv'
<1>1. /\ hr \in [Known -> StaffRow] /\ host \in HostState
      /\ chores \in Seq(NixTask) /\ chores \in [DOMAIN chores -> NixTask] /\ DOMAIN chores = 1..Len(chores) /\ Len(chores) \in Nat
      /\ Len(chores) <= ChoreBound /\ shift \in 0..Len(chores)
      /\ ops \in Seq(ProtectedOperation) /\ ops \in [DOMAIN ops -> ProtectedOperation]
  BY SequenceAsFunction DEF InfraInv, InfrastructureTypeOK
<1>2. /\ \A c \in DOMAIN chores : chores[c] \in NixTask
      /\ \A w \in Known : hr[w] \in StaffRow /\ StaffKept(hr[w], host.acct[w], host.clone[w], Running(w))
      /\ \A o \in DOMAIN ops : ops[o] \in ProtectedOperation /\ ops[o].w \in Known /\ ops[o].type \in ProtectedType
  BY <1>1, OperationFields DEF InfraInv
<1>3. Staff \subseteq Known /\ Nix \in Known /\ {Create, Disable, Prepare, Revoke} \subseteq ProtectedType
  BY DEF Known, ProtectedType
<1>4. \A w \in Known : Handled(host, Revoke, w)
  BY <1>1 DEF Handled, HostMoves
<1>5. /\ Create # Disable /\ Create # Prepare /\ Create # Revoke
      /\ Disable # Prepare /\ Disable # Revoke /\ Prepare # Revoke
  BY DEF Create, Disable, Prepare, Revoke
<1>6. ASSUME InitializeNix PROVE InfraInv'
  BY <1>1, <1>3, <1>6, Requested DEF InitializeNix
<1>7. ASSUME Request PROVE InfraInv'
  <2>1. shift \in DOMAIN chores /\ chores[shift].w \in Known /\ chores[shift].type \in ProtectedType /\ chores[shift].turns \in Nat
    BY <1>1, <1>3, <1>7 DEF Request, NixTask
  <2> QED
    BY <1>1, <1>7, <2>1, Requested DEF Request
<1>8. ASSUME NEW type \in ProtectedType, NEW w \in Staff, OwnerEnqueues(type, w) PROVE InfraInv'
  <2>1. chores' = chores \o Enqueued(type, w) /\ Len(chores') <= ChoreBound /\ UNCHANGED <<hr, ops, shift, host>>
    BY <1>8 DEF OwnerEnqueues
  <2>2. /\ chores' \in Seq(NixTask) /\ Len(chores) <= Len(chores')
        /\ \A c \in 1..Len(chores) : chores'[c] = chores[c]
        /\ \A c \in 1..Len(chores') : c > Len(chores) => chores'[c].st = "queued"
    BY <1>1, <2>1, EnqueuedWell
  <2> QED
    BY <1>1, <1>2, <2>1, <2>2, ChoresGrow
<1>9. ASSUME NEW c \in DOMAIN chores, ShiftStarts(c) PROVE InfraInv'
  <2> DEFINE a == [chores[c] EXCEPT !.st = "working"]
             b == [a EXCEPT !.turns = chores[c].turns + 1]
  <2>1. chores[c].turns \in Nat
    BY <1>2 DEF NixTask
  <2>2. chores' = [chores EXCEPT ![c] = b] /\ shift' = c /\ UNCHANGED <<hr, ops, host>>
    BY <1>1, <1>2, <1>9 DEF ShiftStarts, NixTask
  <2>3. a \in NixTask
    BY <1>2, ChoreFields
  <2>4. b.st = "working"
    BY <1>2 DEF NixTask
  <2> HIDE DEF a
  <2>6. \A v \in Nat : [a EXCEPT !.turns = v] \in NixTask
    BY <2>3, ChoreFields
  <2>5. b \in NixTask
    BY <2>1, <2>6
  <2> HIDE DEF b
  <2>7. c \in 0..Len(chores)
    BY <1>1
  <2>8. shift' \in 0..Len(chores) /\ UNCHANGED <<hr, ops, host>> /\ chores' = [chores EXCEPT ![c] = b]
    BY <2>2, <2>7
  <2> QED
    BY <2>4, <2>5, <2>8, ChoreChanges
<1>10. ASSUME NEW c \in DOMAIN chores, CancelChore(c) PROVE InfraInv'
  <2> DEFINE a == [chores[c] EXCEPT !.st = "cancelled"]
  <2>1. chores' = [chores EXCEPT ![c] = a] /\ UNCHANGED <<hr, ops, shift, host>>
    BY <1>10 DEF CancelChore
  <2>2. a \in NixTask
    BY <1>2, ChoreFields
  <2>3. a.st = "cancelled"
    BY <1>2 DEF NixTask
  <2> HIDE DEF a
  <2> QED
    BY <1>1, <2>1, <2>2, <2>3, ChoreChanges
<1>11. ASSUME NEW outcome \in {"completed", "awaiting_approval", "interrupted", "failed"}, ShiftEnds(outcome) PROVE InfraInv'
  <2> DEFINE st == CASE outcome = "completed" -> FinishTask(shift)
                     [] outcome = "awaiting_approval" -> "awaiting_approval"
                     [] outcome = "interrupted" -> "blocked"
                     [] outcome = "failed" -> "failed"
             last == IF outcome = "completed" /\ st = "failed" THEN "failed" ELSE outcome
             a == [chores[shift] EXCEPT !.st = st]
             b == [a EXCEPT !.last = last]
  <2>1. shift # 0 /\ shift' = 0 /\ chores' = [chores EXCEPT ![shift].st = st, ![shift].last = last] /\ UNCHANGED <<hr, ops, host>>
    BY <1>11 DEF ShiftEnds
  <2>2. shift \in DOMAIN chores
    BY <1>1, <2>1
  <2>3. /\ st \in {"queued", "working", "awaiting_approval", "blocked", "completed", "failed", "cancelled"}
        /\ last \in {"none", "completed", "awaiting_approval", "interrupted", "failed"}
        /\ st = "awaiting_approval" /\ last = "completed" => OwnsOp(shift, {"pending", "running"})
    <3>1. CASE outcome = "completed"
      BY <3>1 DEF FinishTask
    <3>2. CASE outcome = "awaiting_approval"
      BY <3>2
    <3>3. CASE outcome \in {"interrupted", "failed"}
      BY <3>3
    <3> QED
      BY <3>1, <3>2, <3>3
  <2> HIDE DEF st, last
  <2>4. chores' = [chores EXCEPT ![shift] = b]
    BY <1>1, <1>2, <2>1, <2>2 DEF NixTask
  <2>5. a \in NixTask
    BY <1>2, <2>2, <2>3, ChoreFields
  <2>6. b.st = st /\ b.last = last
    BY <1>2, <2>2 DEF NixTask
  <2> HIDE DEF a
  <2>7. b \in NixTask
    BY <2>3, <2>5, ChoreFields
  <2> HIDE DEF b
  <2>8. shift' \in 0..Len(chores)
    BY <1>1, <2>1
  <2>9. b.st = "awaiting_approval" /\ b.last = "completed" => OwnsOp(shift, {"pending", "running"})
    BY <2>3, <2>6
  <2> QED
    BY <2>1, <2>2, <2>4, <2>7, <2>8, <2>9, ChoreChanges
\* An operation that is asked for no more, or whose approval is due.
<1>12. ASSUME NEW o \in DOMAIN ops, NEW p \in ProtectedOperation, ops' = [ops EXCEPT ![o] = p],
              p.w = ops[o].w, p.type = ops[o].type, p.chore = ops[o].chore, ops[o].st = "pending",
              \/ p.st = "pending" /\ UNCHANGED chores
              \/ p.st \in {"denied", "expired"} /\ chores' = Resolve(chores, p.chore, FALSE),
              UNCHANGED <<hr, shift, host>>
       PROVE  InfraInv'
  <2>1. p.w \in Known
    BY <1>2, <1>12
  <2>2. p.type \notin Running(p.w)
    BY <1>12 DEF Running, InfraInv, OpsKept
  <2>3. Running(p.w) \ {p.type} = Running(p.w)
    BY <2>2
  <2>4. Handled(host', p.type, p.w)
    BY <1>1, <1>12 DEF Handled, HostMoves
  <2>5. hr' = [hr EXCEPT ![p.w] = hr[p.w]] /\ hr[p.w] \in StaffRow
    BY <1>1, <1>2, <1>12, <2>1
  <2>6. StaffKept(hr[p.w], host'.acct[p.w], host'.clone[p.w],
                  IF p.st = "running" THEN Running(p.w) \cup {p.type}
                  ELSE IF p.st = "pending" THEN Running(p.w) ELSE Running(p.w) \ {p.type})
    BY <1>2, <1>12, <2>1, <2>3
  <2> QED
    BY <1>12, <2>4, <2>5, <2>6, OpMoves
<1>13. ASSUME NEW o \in DOMAIN ops, ApprovalDue(o) PROVE InfraInv'
  <2> DEFINE p == [ops[o] EXCEPT !.due = TRUE]
  <2>1. ops' = [ops EXCEPT ![o] = p] /\ ops[o].st = "pending" /\ UNCHANGED <<hr, chores, shift, host>>
    BY <1>13 DEF ApprovalDue
  <2>2. p \in ProtectedOperation /\ p.w = ops[o].w /\ p.type = ops[o].type /\ p.chore = ops[o].chore /\ p.st = ops[o].st
    BY <1>2 DEF ProtectedOperation
  <2> HIDE DEF p
  <2> QED
    BY <1>12, <2>1, <2>2
<1>14. ASSUME NEW o \in DOMAIN ops, NEW st \in {"denied", "expired"}, ops[o].st = "pending", Drop(o, st) PROVE InfraInv'
  <2> DEFINE p == [ops[o] EXCEPT !.st = st]
  <2>1. ops' = [ops EXCEPT ![o] = p] /\ chores' = Resolve(chores, ops[o].chore, FALSE) /\ UNCHANGED <<hr, shift, host>>
    BY <1>14 DEF Drop
  <2>3. st \in {"pending", "running", "completed", "denied", "expired"} /\ ops[o] \in ProtectedOperation
    BY <1>2
  <2>2. p \in ProtectedOperation /\ p.w = ops[o].w /\ p.type = ops[o].type /\ p.chore = ops[o].chore /\ p.st = st
    BY <2>3 DEF ProtectedOperation
  <2> HIDE DEF p
  <2> QED
    BY <1>12, <1>14, <2>1, <2>2
<1>15. ASSUME NEW o \in DOMAIN ops, ExpireApproval(o) \/ Deny(o) PROVE InfraInv'
  BY <1>14, <1>15 DEF ExpireApproval, Deny, Expirable
<1>16. ASSUME NEW o \in DOMAIN ops, Approve(o) PROVE InfraInv'
  <2> DEFINE w == ops[o].w
             type == ops[o].type
             r == IF type = Disable THEN [hr[w] EXCEPT !.on = FALSE] ELSE hr[w]
             rows == IF type = Disable THEN [hr EXCEPT ![w].on = FALSE] ELSE hr
             asked == [ops EXCEPT ![o].st = "running"]
  <2>1. ops[o].st = "pending" /\ Preconditions(type, w) /\ Apply(o, rows, asked)
    BY <1>16 DEF Approve, Validate
  <2>2. w \in Known /\ type \in ProtectedType /\ hr[w] \in StaffRow /\ StaffKept(hr[w], host.acct[w], host.clone[w], Running(w))
    BY <1>2
  <2>3. rows = [hr EXCEPT ![w] = r] /\ asked = [ops EXCEPT ![o] = [ops[o] EXCEPT !.st = "running"]]
    BY <1>1, <2>2
  <2>4. r \in StaffRow
    BY <2>2, StaffFields
  <2>5. Proper(type, r) /\ StaffKept(r, host.acct[w], host.clone[w], Running(w))
    <3>1. CASE type = Disable
      <4>1. hr[w].ident = "ready" /\ hr[w].work \in {"none", "completed", "cancelled"}
        BY <1>5, <2>1, <3>1 DEF Preconditions, Retirable
      <4>2. /\ r.on = FALSE /\ r.ident = hr[w].ident /\ r.work = hr[w].work /\ r.proj = hr[w].proj
            /\ r.alloc = hr[w].alloc /\ r.retire = hr[w].retire
        BY <2>2, <3>1 DEF StaffRow
      <4> HIDE DEF r
      <4>3. StaffKept(r, host.acct[w], host.clone[w], Running(w))
        BY <2>2, <4>1, <4>2 DEF StaffKept
      <4>4. Proper(type, r)
        BY <1>5, <3>1, <4>1, <4>2 DEF Proper
      <4> QED
        BY <4>3, <4>4
    <3>2. CASE type # Disable
      <4>1. r = hr[w]
        BY <3>2
      <4>2. type = Create => hr[w].ident = "unprovisioned"
        BY <2>1 DEF Preconditions
      <4>3. type = Prepare \/ type = Revoke => hr[w].proj # "none"
        BY <1>5, <2>1 DEF Preconditions
      <4>4. Proper(type, hr[w])
        BY <1>5, <2>2, <3>2, <4>2, <4>3 DEF Proper, StaffKept
      <4> QED
        BY <2>2, <4>1, <4>4
    <3> QED
      BY <3>1, <3>2
  <2> HIDE DEF r, rows, asked
  <2>6. Apply(o, [hr EXCEPT ![w] = r], [ops EXCEPT ![o] = [ops[o] EXCEPT !.st = "running"]])
    BY <2>1, <2>3
  <2> QED
    BY <2>1, <2>4, <2>5, <2>6, OperationApplied
<1>17. ASSUME NEW o \in DOMAIN ops, Reconcile(o) PROVE InfraInv'
  <2> DEFINE w == ops[o].w
             type == ops[o].type
  <2>1. ops[o].st = "running" /\ Apply(o, hr, ops)
    BY <1>17 DEF Reconcile
  <2>2. w \in Known /\ type \in ProtectedType /\ hr[w] \in StaffRow /\ StaffKept(hr[w], host.acct[w], host.clone[w], Running(w))
    BY <1>2
  <2>3. type \in Running(w)
    BY <2>1 DEF Running
  <2>4. Proper(type, hr[w])
    BY <2>2, <2>3, RunningProper
  <2>5. hr = [hr EXCEPT ![w] = hr[w]]
    BY <1>1
  <2>6. [ops[o] EXCEPT !.st = "running"] = ops[o]
    BY <1>2, <2>1 DEF ProtectedOperation
  <2>7. ops = [ops EXCEPT ![o] = [ops[o] EXCEPT !.st = "running"]]
    BY <1>1, <2>6
  <2>8. Apply(o, [hr EXCEPT ![w] = hr[w]], [ops EXCEPT ![o] = [ops[o] EXCEPT !.st = "running"]])
    BY <2>1, <2>5, <2>7
  <2> QED
    BY <2>1, <2>2, <2>4, <2>8, OperationApplied
<1>18. ASSUME NEW w \in Staff, Allocate(w) PROVE InfraInv'
  <2> DEFINE r1 == [hr[w] EXCEPT !.alloc = "pending_infrastructure"]
             r2 == [r1 EXCEPT !.proj = "pending"]
             r == [r2 EXCEPT !.work = "queued"]
             one == chores \o Enqueued(Create, w)
  <2>1. /\ hr[w].on /\ hr[w].work = "none" /\ hr' = [hr EXCEPT ![w] = r]
        /\ chores' = one \o Enqueued(Prepare, w) /\ Len(chores') <= ChoreBound /\ UNCHANGED <<ops, shift, host>>
    BY <1>18 DEF Allocate, Row
  <2>2. w \in Known /\ hr[w] \in StaffRow /\ StaffKept(hr[w], host.acct[w], host.clone[w], Running(w))
    BY <1>2, <1>3
  <2>3. /\ r.on = hr[w].on /\ r.ident = hr[w].ident /\ r.retire = hr[w].retire
        /\ r.alloc = "pending_infrastructure" /\ r.proj = "pending" /\ r.work = "queued"
    BY <2>2 DEF StaffRow
  <2>4. r1 \in StaffRow
    BY <2>2, StaffFields DEF AllocState
  <2> HIDE DEF r1
  <2>5. r2 \in StaffRow
    BY <2>4, StaffFields DEF ProjState
  <2> HIDE DEF r2
  <2>6. r \in StaffRow
    BY <2>5, StaffFields
  <2> HIDE DEF r
  <2>7. StaffKept(r, host.acct[w], host.clone[w], Running(w))
    BY <2>1, <2>2, <2>3 DEF StaffKept
  <2>8. /\ one \in Seq(NixTask) /\ Len(chores) <= Len(one)
        /\ \A c \in 1..Len(chores) : one[c] = chores[c]
        /\ \A c \in 1..Len(one) : c > Len(chores) => one[c].st = "queued"
    BY <1>1, <1>3, EnqueuedWell
  <2> HIDE DEF one
  <2>9. /\ chores' \in Seq(NixTask) /\ Len(one) <= Len(chores')
        /\ \A c \in 1..Len(one) : chores'[c] = one[c]
        /\ \A c \in 1..Len(chores') : c > Len(one) => chores'[c].st = "queued"
    BY <1>3, <2>1, <2>8, EnqueuedWell
  <2>10. Len(one) \in Nat /\ Len(chores') \in Nat
    BY <2>8, <2>9, LenProperties
  <2>11. /\ Len(chores) <= Len(chores')
         /\ \A c \in 1..Len(chores) : chores'[c] = chores[c]
    BY <1>1, <2>8, <2>9, <2>10
  <2>12. \A c \in 1..Len(chores') : c > Len(chores) => chores'[c].st = "queued"
    <3> SUFFICES ASSUME NEW c \in 1..Len(chores'), c > Len(chores) PROVE chores'[c].st = "queued"
      OBVIOUS
    <3>1. CASE c > Len(one)
      BY <2>9, <3>1
    <3>2. CASE c <= Len(one)
      BY <1>1, <2>8, <2>9, <2>10, <3>2
    <3> QED
      BY <2>10, <3>1, <3>2
  <2>13. hr' \in [Known -> StaffRow] /\ \A x \in Known : StaffKept(hr'[x], host'.acct[x], host'.clone[x], Running(x))
    BY <1>1, <1>2, <2>1, <2>2, <2>6, <2>7
  <2> QED
    BY <1>1, <2>1, <2>9, <2>11, <2>12, <2>13, ChoresGrow
\* A step of a worker's own task.
<1>19. ASSUME NEW w \in Staff, NEW r \in StaffRow, StaffKept(r, host.acct[w], host.clone[w], Running(w)),
              Row(w, r), UNCHANGED <<ops, chores, shift, host>>
       PROVE  InfraInv'
  <2>1. hr' = [hr EXCEPT ![w] = r] /\ host' = host /\ w \in Known
    BY <1>3, <1>19 DEF Row
  <2>2. Handled(host', Revoke, w)
    BY <1>4, <2>1
  <2>3. StaffKept(r, host'.acct[w], host'.clone[w], Running(w))
    BY <1>19, <2>1
  <2> QED
    BY <1>19, <2>1, <2>2, <2>3, StaffChanges
<1>20. ASSUME NEW w \in Staff, StaffWorks(w) PROVE InfraInv'
  <2> DEFINE r == hr[w]
             As(v) == [r EXCEPT !.work = v]
  <2>1. w \in Known /\ r \in StaffRow /\ StaffKept(r, host.acct[w], host.clone[w], Running(w))
    BY <1>2, <1>3
  <2>2. \A v \in {"none", "queued", "working", "blocked", "completed", "cancelled"} :
          /\ As(v) \in StaffRow /\ As(v).work = v
          /\ As(v).on = r.on /\ As(v).ident = r.ident /\ As(v).proj = r.proj
          /\ As(v).alloc = r.alloc /\ As(v).retire = r.retire
    <3> TAKE v \in {"none", "queued", "working", "blocked", "completed", "cancelled"}
    <3>1. As(v) \in StaffRow
      BY <2>1, StaffFields
    <3>2. /\ As(v).work = v /\ As(v).on = r.on /\ As(v).ident = r.ident /\ As(v).proj = r.proj
          /\ As(v).alloc = r.alloc /\ As(v).retire = r.retire
      BY <2>1 DEF StaffRow
    <3> QED
      BY <3>1, <3>2
  <2>3. UNCHANGED <<ops, chores, shift, host>>
    BY <1>20 DEF StaffWorks
  <2>4. \/ r.work = "queued" /\ r.on /\ Row(w, As("working"))
        \/ r.work = "working" /\ Row(w, Retired(w, As("completed")))
        \/ r.work \in {"queued", "blocked"} /\ Row(w, Retired(w, As("cancelled")))
        \/ r.work = "blocked" /\ r.on /\ Row(w, As("queued"))
        \/ r.work = "completed" /\ Row(w, [r EXCEPT !.alloc = "integrated"])
    BY <1>20 DEF StaffWorks
  <2>5. ASSUME NEW v \in {"queued", "working", "completed", "cancelled"}, r.work # "none",
               v \in {"queued", "working"} => r.on
        PROVE  As(v) \in StaffRow /\ As(v).work = v /\ StaffKept(As(v), host.acct[w], host.clone[w], Running(w))
    <3> DEFINE s == As(v)
    <3>1. /\ s \in StaffRow /\ s.work = v /\ s.on = r.on /\ s.ident = r.ident /\ s.proj = r.proj
          /\ s.alloc = r.alloc /\ s.retire = r.retire
      BY <2>2
    <3> HIDE DEF As
    <3>2. StaffKept(s, host.acct[w], host.clone[w], Running(w))
      BY <2>1, <2>5, <3>1 DEF StaffKept
    <3> QED
      BY <3>1, <3>2
  <2> HIDE DEF As
  <2>6. CASE r.work = "queued" /\ r.on /\ Row(w, As("working"))
    BY <1>19, <2>3, <2>5, <2>6
  <2>7. CASE r.work = "working" /\ Row(w, Retired(w, As("completed")))
    <3>1. As("completed") \in StaffRow /\ As("completed").work = "completed" /\ StaffKept(As("completed"), host.acct[w], host.clone[w], Running(w))
      BY <2>5, <2>7
    <3>2. Retired(w, As("completed")) \in StaffRow /\ StaffKept(Retired(w, As("completed")), host.acct[w], host.clone[w], Running(w))
      BY <2>1, <3>1, RetiredKept
    <3> QED
      BY <1>19, <2>3, <2>7, <3>2
  <2>8. CASE r.work \in {"queued", "blocked"} /\ Row(w, Retired(w, As("cancelled")))
    <3>1. As("cancelled") \in StaffRow /\ As("cancelled").work = "cancelled" /\ StaffKept(As("cancelled"), host.acct[w], host.clone[w], Running(w))
      BY <2>5, <2>8
    <3>2. Retired(w, As("cancelled")) \in StaffRow /\ StaffKept(Retired(w, As("cancelled")), host.acct[w], host.clone[w], Running(w))
      BY <2>1, <3>1, RetiredKept
    <3> QED
      BY <1>19, <2>3, <2>8, <3>2
  <2>9. CASE r.work = "blocked" /\ r.on /\ Row(w, As("queued"))
    BY <1>19, <2>3, <2>5, <2>9
  <2>10. CASE r.work = "completed" /\ Row(w, [r EXCEPT !.alloc = "integrated"])
    <3> DEFINE s == [r EXCEPT !.alloc = "integrated"]
    <3>1. s \in StaffRow
      BY <2>1, StaffFields DEF AllocState
    <3>2. s.on = r.on /\ s.ident = r.ident /\ s.proj = r.proj /\ s.work = r.work /\ s.retire = r.retire
      BY <2>1 DEF StaffRow
    <3>3. Row(w, s)
      BY <2>10
    <3> HIDE DEF s
    <3>4. StaffKept(s, host.acct[w], host.clone[w], Running(w))
      BY <2>1, <2>10, <3>2 DEF StaffKept
    <3> QED
      BY <1>19, <2>3, <3>1, <3>3, <3>4
  <2> QED
    BY <2>4, <2>6, <2>7, <2>8, <2>9, <2>10
<1>21. \A w \in Known : <<"release", w>> \in Ids /\ <<"retire", w>> \in Ids
  BY DEF Ids
<1>22. ASSUME NEW w \in Staff, Release(w) PROVE InfraInv'
  <2> DEFINE r == hr[w]
             d1 == [r EXCEPT !.alloc = "released"]
             d2 == [d1 EXCEPT !.release = "completed"]
             done == [d2 EXCEPT !.proj = "revoked"]
             wait == [r EXCEPT !.release = "pending"]
  <2>1. w \in Known /\ r \in StaffRow /\ StaffKept(r, host.acct[w], host.clone[w], Running(w))
    BY <1>2, <1>3
  <2>2. /\ r.work \in {"completed", "cancelled"} /\ UNCHANGED <<ops, chores, shift>>
        /\ \/ \E out \in Handle(<<"release", w>>, Revoke, w) : host' = out[1] /\ Row(w, IF out[2] THEN done ELSE wait)
           \/ Row(w, done) /\ UNCHANGED host
    BY <1>22, <2>1 DEF Release, StaffRow
  <2>3. /\ done.on = r.on /\ done.ident = r.ident /\ done.retire = r.retire /\ done.work = r.work /\ done.proj = "revoked"
        /\ wait.on = r.on /\ wait.ident = r.ident /\ wait.retire = r.retire /\ wait.work = r.work /\ wait.proj = r.proj /\ wait.alloc = r.alloc
    BY <2>1 DEF StaffRow
  <2>4. d1 \in StaffRow /\ wait \in StaffRow
    BY <2>1, StaffFields DEF AllocState
  <2> HIDE DEF d1
  <2>5. d2 \in StaffRow
    BY <2>4, StaffFields
  <2> HIDE DEF d2
  <2>6. done \in StaffRow
    BY <2>5, StaffFields DEF ProjState
  <2> HIDE DEF done, wait
  <2>7. Handled(host', Revoke, w)
    <3>1. CASE UNCHANGED host
      <4>1. host' = host
        BY <3>1
      <4> QED
        BY <1>4, <2>1, <4>1
    <3>2. CASE \E out \in Handle(<<"release", w>>, Revoke, w) : host' = out[1] /\ Row(w, IF out[2] THEN done ELSE wait)
      BY <1>1, <1>3, <1>21, <2>1, <3>2, HandledWell
    <3> QED
      BY <2>2, <3>1, <3>2
  <2>8. HostMoves(Revoke, host.acct[w], host'.acct[w], host.clone[w], host'.clone[w])
    BY <2>7 DEF Handled
  <2>9. StaffKept(r, host'.acct[w], host'.clone[w], Running(w))
    <3>1. Revoke \in ProtectedType
      BY <1>3
    <3> QED
      BY <1>5, <2>1, <2>2, <2>8 DEF StaffKept, HostMoves
  <2>10. StaffKept(done, host'.acct[w], host'.clone[w], Running(w)) /\ StaffKept(wait, host'.acct[w], host'.clone[w], Running(w))
    BY <2>2, <2>3, <2>9 DEF StaffKept
  <2>11. hr' = [hr EXCEPT ![w] = done] \/ hr' = [hr EXCEPT ![w] = wait]
    BY <2>2 DEF Row
  <2>12. CASE hr' = [hr EXCEPT ![w] = done]
    BY <2>1, <2>2, <2>6, <2>7, <2>10, <2>12, StaffChanges
  <2>13. CASE hr' = [hr EXCEPT ![w] = wait]
    BY <2>1, <2>2, <2>4, <2>7, <2>10, <2>13, StaffChanges
  <2> QED
    BY <2>11, <2>12, <2>13
<1>23. ASSUME NEW w \in Staff, ProcessRevocation(w) PROVE InfraInv'
  <2> DEFINE r == hr[w]
             b == BoundRow(r, Disable)
             closed == [b EXCEPT !.retire = "completed"]
  <2>1. w \in Known /\ r \in StaffRow /\ StaffKept(r, host.acct[w], host.clone[w], Running(w)) /\ Disable \in ProtectedType
    BY <1>2, <1>3
  <2>2. PICK out \in Handle(<<"retire", w>>, Disable, w) :
          /\ r.retire = "pending" /\ host' = out[1] /\ UNCHANGED <<ops, chores, shift>>
          /\ hr' = IF out[2] THEN [Bind(hr, Disable, w) EXCEPT ![w].retire = "completed"] ELSE hr
    BY <1>23 DEF ProcessRevocation
  <2>3. Handled(host', Disable, w)
    BY <1>1, <1>21, <2>1, <2>2, HandledWell
  <2>4. /\ HostMoves(Disable, host.acct[w], host'.acct[w], host.clone[w], host'.clone[w])
        /\ host'.acct[w] \in {"none", "creating", "ready", "disabled"}
    BY <2>1, <2>3 DEF Handled, HostState
  <2>5. StaffKept(r, host'.acct[w], host'.clone[w], Running(w))
    BY <1>5, <2>1, <2>2, <2>4 DEF StaffKept, HostMoves
  <2>6. CASE ~out[2]
    <3>1. hr' = [hr EXCEPT ![w] = r]
      BY <1>1, <2>2, <2>6
    <3> QED
      BY <2>1, <2>2, <2>3, <2>5, <3>1, StaffChanges
  <2>7. CASE out[2]
    <3>1. Bind(hr, Disable, w) = [hr EXCEPT ![w] = b] /\ b \in StaffRow
      BY <1>1, <2>1, BindRow
    <3>2. b.ident = "disabled" /\ b.on = r.on /\ b.work = r.work /\ b.alloc = r.alloc /\ (b.proj = "none" <=> r.proj = "none") /\ (b.proj = "pending" => FALSE)
      BY <1>5, <2>1 DEF BoundRow, StaffRow
    <3> HIDE DEF b
    <3>3. /\ closed.retire = "completed" /\ closed.ident = b.ident /\ closed.on = b.on
          /\ closed.work = b.work /\ closed.alloc = b.alloc /\ closed.proj = b.proj
      BY <3>1 DEF StaffRow
    <3>7. closed \in StaffRow
      BY <3>1, StaffFields
    <3>4. hr' = [hr EXCEPT ![w] = closed]
      BY <1>1, <2>1, <2>2, <2>7, <3>1
    <3> HIDE DEF closed
    <3>5. Create \notin Running(w)
      BY <2>1, <2>2 DEF StaffKept
    <3>6. StaffKept(closed, host'.acct[w], host'.clone[w], Running(w))
      BY <1>5, <2>1, <2>2, <2>5, <3>2, <3>3, <3>5 DEF StaffKept
    <3> QED
      BY <2>1, <2>2, <2>3, <3>4, <3>6, <3>7, StaffChanges
  <2> QED
    BY <2>6, <2>7
<1>24. ASSUME InfraRestart PROVE InfraInv'
  <2> DEFINE a == [chores[shift] EXCEPT !.st = "blocked"]
             b == [a EXCEPT !.last = "interrupted"]
  <2>1. /\ shift' = 0 /\ UNCHANGED <<ops, host>>
        /\ chores' = IF shift = 0 THEN chores ELSE [chores EXCEPT ![shift].st = "blocked", ![shift].last = "interrupted"]
        /\ hr' = [w \in Known |-> IF hr[w].work = "working" THEN [hr[w] EXCEPT !.work = "blocked"] ELSE hr[w]]
    BY <1>24 DEF InfraRestart
  <2>2. ASSUME NEW w \in Known PROVE hr'[w] \in StaffRow /\ StaffKept(hr'[w], host'.acct[w], host'.clone[w], Running(w))
    <3> DEFINE s == [hr[w] EXCEPT !.work = "blocked"]
    <3>1. hr[w] \in StaffRow /\ StaffKept(hr[w], host.acct[w], host.clone[w], Running(w))
      BY <1>2
    <3>2. /\ s.work = "blocked" /\ s.on = hr[w].on /\ s.ident = hr[w].ident /\ s.proj = hr[w].proj
          /\ s.alloc = hr[w].alloc /\ s.retire = hr[w].retire
      BY <3>1 DEF StaffRow
    <3>5. s \in StaffRow
      BY <3>1, StaffFields
    <3>3. hr'[w] = IF hr[w].work = "working" THEN s ELSE hr[w]
      BY <2>1
    <3> HIDE DEF s
    <3>4. ASSUME hr[w].work = "working" PROVE StaffKept(s, host.acct[w], host.clone[w], Running(w))
      BY <3>1, <3>2, <3>4 DEF StaffKept
    <3> QED
      BY <2>1, <3>1, <3>3, <3>4, <3>5
  <2>3. hr' \in [Known -> StaffRow] /\ host' \in HostState
    BY <1>1, <2>1, <2>2
  <2>4. /\ chores' \in Seq(NixTask) /\ Len(chores') = Len(chores)
        /\ \A c \in DOMAIN chores' : chores'[c].st = "awaiting_approval" /\ chores'[c].last = "completed" => OwnsOp(c, {"pending", "running"})
    <3>1. CASE shift = 0
      <4>1. chores' = chores
        BY <2>1, <3>1
      <4> QED
        BY <1>1, <4>1 DEF InfraInv, AnswerPending
    <3>2. CASE shift # 0
      <4>1. shift \in DOMAIN chores /\ chores[shift] \in NixTask
        BY <1>1, <1>2, <3>2
      <4>2. chores' = [chores EXCEPT ![shift] = b]
        BY <1>1, <2>1, <3>2, <4>1 DEF NixTask
      <4>3. a \in NixTask
        BY <4>1, ChoreFields
      <4>4. b.st = "blocked"
        BY <4>1 DEF NixTask
      <4> HIDE DEF a
      <4>5. b \in NixTask
        BY <4>3, ChoreFields
      <4> HIDE DEF b
      <4>6. chores' \in [DOMAIN chores -> NixTask]
        BY <1>1, <4>2, <4>5
      <4>7. chores' \in Seq(NixTask) /\ Len(chores') = Len(chores) /\ DOMAIN chores' = DOMAIN chores
        BY <1>1, <4>6, FunctionAsSequence
      <4>8. ASSUME NEW c \in DOMAIN chores, chores'[c].st = "awaiting_approval", chores'[c].last = "completed"
            PROVE  OwnsOp(c, {"pending", "running"})
        <5>1. c # shift
          BY <1>1, <4>1, <4>2, <4>4, <4>8
        <5>2. chores'[c] = chores[c]
          BY <1>1, <4>2, <5>1
        <5> QED
          BY <4>8, <5>2 DEF InfraInv, AnswerPending
      <4> QED
        BY <4>7, <4>8
    <3> QED
      BY <3>1, <3>2
  <2>5. shift' \in 0..Len(chores') /\ Len(chores) <= Len(chores') /\ Len(chores') <= ChoreBound
    BY <1>1, <2>1, <2>4
  <2> QED
    BY <2>1, <2>2, <2>3, <2>4, <2>5, SameOps
<1> QED
  BY <1>6, <1>7, <1>8, <1>9, <1>10, <1>11, <1>13, <1>15, <1>16, <1>17, <1>18, <1>20, <1>22, <1>23, <1>24
  DEF InfrastructureNext

-----------------------------------------------------------------------------
(* The provisioner.                                                        *)

\* What the operation wrote is in the history.
Committed(o) == \E i \in DOMAIN project.commits : project.commits[i] = o

\* What has been done when the receipt of an operation is written: DoneAsReceipted,
\* with the operation that took the clone away.
Achieved(o) ==
    /\ o \in CreateOps => account.by = o /\ account.made = 3
    /\ o \in DisableOps => account.st = "disabled" /\ account.locked /\ project.st \in {"none", "revoked"}
    /\ o \in PrepareOps => project.by = o /\ project.cloned
    /\ o \in RevokeOps => project.closed /\ project.st = "revoked" /\ project.revoker = o
    /\ o \in CommitOps => Committed(o)

\* What is known at a step of the request being served.
Served(o, s) ==
    /\ o \in CreateOps /\ s = "host" => account.st \in {"creating", "ready"} /\ account.by = o
    /\ o \in DisableOps /\ s \in {"host", "project"} => account.st = "disabled"
    /\ o \in DisableOps /\ s = "project" => account.locked
    /\ o \in PrepareOps /\ s \in {"child", "project"} =>
          account.st = "ready" /\ project.by = o /\ project.st \in {"preparing", "ready"}
    /\ o \in PrepareOps /\ s = "project" => project.cloned
    /\ o \in RevokeOps /\ s \in {"host", "project"} =>
          account.st = "ready" /\ project.st = "revoking" /\ project.revoker = o
    /\ o \in RevokeOps /\ s = "project" => project.closed
    /\ o \in WriteOps \cup CommitOps /\ s = "child" => account.st = "ready" /\ project.st = "ready"
    /\ s = "mark" => o \in WriteOps \cup CommitOps /\ (o \in CommitOps => Committed(o))
    /\ s = "receipt" => Achieved(o)

\* The records of account and project: a closed one is never open.
RecordsKept ==
    /\ account.st = "none" => account.made = 0
    /\ account.st = "none" <=> account.by = NoOne
    /\ project.st = "none" <=> project.by = NoOne
    /\ project.revoker # NoOne => project.by # NoOne
    /\ account.locked => account.st = "disabled"
    /\ project.closed => project.st \in {"revoking", "revoked"} \/ account.st = "disabled"

\* Each receipt and marker has its deed, and the request being served what its step needs.
ProvisionerInv ==
    /\ ProvisionerTypeOK
    /\ RecordsKept
    /\ \A i \in DOMAIN project.commits : receipts[project.commits[i]].head = i - 1
    /\ serving # IdleDaemon =>
          /\ receipts[serving.op].st = "started" /\ Served(serving.op, serving.step)
          /\ (serving.op \in CommitOps => receipts[serving.op].head # -1)
    /\ \A o \in Operations :
          /\ receipts[o].mark => o \in WriteOps \cup CommitOps /\ (o \in CommitOps => Committed(o))
          /\ receipts[o].st = "completed" => Achieved(o)

\* An operation id is of one kind.
LEMMA KindsDiffer ==
  /\ CreateOps \cap DisableOps = {} /\ CreateOps \cap PrepareOps = {} /\ CreateOps \cap RevokeOps = {}
  /\ CreateOps \cap WriteOps = {} /\ CreateOps \cap CommitOps = {} /\ DisableOps \cap PrepareOps = {}
  /\ DisableOps \cap RevokeOps = {} /\ DisableOps \cap WriteOps = {} /\ DisableOps \cap CommitOps = {}
  /\ PrepareOps \cap RevokeOps = {} /\ PrepareOps \cap WriteOps = {} /\ PrepareOps \cap CommitOps = {}
  /\ RevokeOps \cap WriteOps = {} /\ RevokeOps \cap CommitOps = {} /\ WriteOps \cap CommitOps = {}
<1> DEFINE kinds == <<CreateOps, DisableOps, PrepareOps, RevokeOps, WriteOps, CommitOps>>
<1>1. \A i, j \in 1..6 : i # j => kinds[i] \cap kinds[j] = {}
  BY ProvisionerAssumption
<1> QED
  BY <1>1

\* Nothing was asked for yet.
LEMMA ProvisionerStarts == ProvisionerInit => ProvisionerInv
BY ProvisionerAssumption DEF ProvisionerInit, ProvisionerInv, ProvisionerTypeOK, RecordsKept, Receipt, Identity, ProjectRecord, Operations

\* The invariant holds what DoneAsReceipted says.
LEMMA ProvisionerPromise == ProvisionerInv => DoneAsReceipted
<1> SUFFICES ASSUME ProvisionerInv PROVE DoneAsReceipted
  OBVIOUS
<1>1. \A i, j \in DOMAIN project.commits : project.commits[i] = project.commits[j] => i = j
  <2>1. \A i \in DOMAIN project.commits : receipts[project.commits[i]].head = i - 1 /\ i \in Nat
    BY SequenceAsFunction DEF ProvisionerInv, ProvisionerTypeOK, ProjectRecord
  <2> QED
    BY <2>1
<1>2. \A o \in Operations : receipts[o].st = "completed" => Achieved(o)
  BY DEF ProvisionerInv
<1> QED
  BY <1>1, <1>2 DEF DoneAsReceipted, Achieved, Committed

\* A field of a record at a time.
LEMMA IdentityFields ==
  ASSUME NEW a \in Identity
  PROVE  /\ \A v \in {"none", "creating", "ready", "disabled"} : [a EXCEPT !.st = v] \in Identity
         /\ \A v \in CreateOps \cup {NoOne} : [a EXCEPT !.by = v] \in Identity
         /\ \A v \in 0..3 : [a EXCEPT !.made = v] \in Identity
         /\ [a EXCEPT !.locked = TRUE] \in Identity
  BY DEF Identity

\* A field of the project record at a time.
LEMMA ProjectFields ==
  ASSUME NEW p \in ProjectRecord
  PROVE  /\ \A v \in {"none", "preparing", "ready", "revoking", "revoked"} : [p EXCEPT !.st = v] \in ProjectRecord
         /\ \A v \in PrepareOps \cup {NoOne} : [p EXCEPT !.by = v] \in ProjectRecord
         /\ \A v \in RevokeOps \cup {NoOne} : [p EXCEPT !.revoker = v] \in ProjectRecord
         /\ \A v \in BOOLEAN : [p EXCEPT !.cloned = v] \in ProjectRecord /\ [p EXCEPT !.dirty = v] \in ProjectRecord /\ [p EXCEPT !.closed = v] \in ProjectRecord
         /\ \A v \in Seq(CommitOps) : [p EXCEPT !.commits = v] \in ProjectRecord
  BY DEF ProjectRecord

\* What is done stays done while the records move as they may.
Stays ==
    /\ account.by # NoOne => account'.by = account.by /\ account'.st # "none"
    /\ account.made = 3 => account'.made = 3
    /\ account.st = "disabled" => account'.st = "disabled"
    /\ account.locked => account'.locked
    /\ project.by # NoOne => project'.by = project.by
    /\ project.cloned => project'.cloned
    /\ project.closed => project'.closed
    /\ account.st = "disabled" /\ project.st \in {"none", "revoked"} => project'.st \in {"none", "revoked"}
    /\ project.st = "revoked" => project'.st = "revoked" /\ project'.revoker = project.revoker
    /\ Len(project.commits) <= Len(project'.commits)
    /\ \A i \in DOMAIN project.commits : i \in DOMAIN project'.commits /\ project'.commits[i] = project.commits[i]

\* A move that only goes on keeps what was done.
LEMMA AchievedStays ==
  ASSUME ProvisionerInv, Stays, NEW o \in Operations
  PROVE  /\ Achieved(o) => Achieved(o)'
         /\ Committed(o) => Committed(o)'
<1>1. Committed(o) => Committed(o)'
  BY DEF Stays, Committed
<1> QED
  BY <1>1, ProvisionerAssumption DEF Achieved, Stays, Operations

\* What a step of the request being served has to show.
LEMMA StepServed ==
  ASSUME ProvisionerInv, serving # IdleDaemon, UNCHANGED receipts,
         \A q \in Operations : (q # serving.op /\ Achieved(q) => Achieved(q)') /\ (Committed(q) => Committed(q)'),
         account' \in Identity, project' \in ProjectRecord, RecordsKept',
         \A i \in DOMAIN project'.commits : receipts[project'.commits[i]].head = i - 1,
         NEW s \in {"perform", "host", "child", "mark", "project", "receipt"},
         serving' = [serving EXCEPT !.step = s],
         Served(serving.op, s)'
  PROVE  ProvisionerInv'
<1>1. serving \in [op : Operations, step : {"perform", "host", "child", "mark", "project", "receipt"}]
  BY DEF ProvisionerInv, ProvisionerTypeOK
<1>2. serving' \in [op : Operations, step : {"perform", "host", "child", "mark", "project", "receipt"}] /\ serving'.op = serving.op /\ serving'.step = s
  BY <1>1
<1>3. ProvisionerTypeOK'
  BY <1>2 DEF ProvisionerInv, ProvisionerTypeOK
<1>4. serving.op \in Operations
  BY <1>1
<1>5. serving'.op \in Operations /\ receipts'[serving'.op].st = "started" /\ Served(serving.op, serving.step)'
     /\ (serving'.op \in CommitOps => receipts'[serving'.op].head # -1)
  BY <1>2, <1>4 DEF ProvisionerInv
<1>6. \A o \in Operations :
        /\ receipts'[o].mark => o \in WriteOps \cup CommitOps /\ (o \in CommitOps => Committed(o)')
        /\ receipts'[o].st = "completed" => Achieved(o)'
  BY DEF ProvisionerInv
<1> QED
  BY <1>3, <1>5, <1>6 DEF ProvisionerInv

\* Every step of the daemon, of the host and of a worker's child.
LEMMA ProvisionerStep ==
  ASSUME ProvisionerInv, ProvisionerNext
  PROVE  ProvisionerInv'
<1> DEFINE Step == {"perform", "host", "child", "mark", "project", "receipt"}
<1>1. /\ account \in Identity /\ project \in ProjectRecord /\ receipts \in [Operations -> Receipt] /\ RecordsKept
      /\ NoOne \notin Operations
  BY ProvisionerAssumption DEF ProvisionerInv, ProvisionerTypeOK
<1>2. /\ account.st \in {"none", "creating", "ready", "disabled"} /\ account.made \in 0..3 /\ account.locked \in BOOLEAN
      /\ project.st \in {"none", "preparing", "ready", "revoking", "revoked"} /\ project.closed \in BOOLEAN /\ project.cloned \in BOOLEAN
  BY <1>1 DEF Identity, ProjectRecord
<1>3. ASSUME NEW o \in Operations, NEW s \in Step, ServingAt(o, s)
      PROVE  serving # IdleDaemon /\ serving.op = o /\ serving.step = s /\ Served(o, s) /\ receipts[o].st = "started"
  <2>1. serving # IdleDaemon /\ serving.op = o /\ serving.step = s
    BY <1>1, <1>3 DEF ServingAt, IdleDaemon
  <2> QED
    BY <2>1 DEF ProvisionerInv
\* A step that goes on, and appends no commit.
<1>4. ASSUME NEW o \in Operations, NEW s \in Step, NEW t \in Step, ServingAt(o, s), Goes(t) \/ (t = s /\ UNCHANGED serving), UNCHANGED receipts,
             account' \in Identity, project' \in ProjectRecord, project'.commits = project.commits,
             Stays, RecordsKept', Served(o, t)'
      PROVE  ProvisionerInv'
  <2>1. serving # IdleDaemon /\ serving.op = o /\ serving.step = s
    BY <1>3, <1>4
  <2>2. serving' = [serving EXCEPT !.step = t]
    BY <1>4 DEF Goes, ServingAt
  <2>3. \A i \in DOMAIN project'.commits : receipts[project'.commits[i]].head = i - 1
    BY <1>4 DEF ProvisionerInv
  <2>4. Served(serving.op, t)'
    BY <1>4, <2>1, <2>2
  <2>5. \A q \in Operations : (q # serving.op /\ Achieved(q) => Achieved(q)') /\ (Committed(q) => Committed(q)')
    BY <1>4, AchievedStays
  <2> QED
    BY <1>4, <2>1, <2>2, <2>3, <2>4, <2>5, StepServed
<1>5. ASSUME NEW o \in Operations, ReserveAccount(o) PROVE ProvisionerInv'
  <2>1. /\ ServingAt(o, "perform") /\ Goes("host") /\ UNCHANGED receipts /\ o \in CreateOps /\ o # NoOne
        /\ account' = (IF account.st = "none" THEN [account EXCEPT !.st = "creating", !.by = o] ELSE account) /\ project' = (project)
    BY <1>1, <1>5 DEF ReserveAccount
  <2>2. Served(o, "perform")
    BY <1>3, <2>1
  <2>3. account' \in Identity /\ project' \in ProjectRecord
    BY <1>1, <1>2, <2>1 DEF Identity, ProjectRecord
  <2>4. Stays /\ project'.commits = project.commits
    BY <1>1, <1>2, <1>5, <2>1, <2>2 DEF ReserveAccount, Stays, Identity, ProjectRecord, RecordsKept, Served, MayCreate, KnownIdentity
  <2>5. RecordsKept'
    BY <1>1, <1>2, <1>5, <2>1, <2>2 DEF ReserveAccount, Identity, ProjectRecord, RecordsKept, Served, MayCreate, KnownIdentity
  <2>6. Served(o, "host")'
    BY <1>1, <1>2, <1>5, <2>1, <2>2, KindsDiffer DEF ReserveAccount, Identity, ProjectRecord, RecordsKept, Served, Achieved, MayCreate, KnownIdentity
  <2> QED
    BY <1>4, <2>1, <2>3, <2>4, <2>5, <2>6
<1>6. ASSUME NEW o \in Operations, Bar(o) PROVE ProvisionerInv'
  <2>1. /\ ServingAt(o, "perform") /\ Goes("host") /\ UNCHANGED receipts /\ o \in DisableOps /\ o # NoOne
        /\ account' = ([account EXCEPT !.st = "disabled"]) /\ project' = (project)
    BY <1>1, <1>6 DEF Bar, Barred
  <2>2. Served(o, "perform")
    BY <1>3, <2>1
  <2>3. account' \in Identity /\ project' \in ProjectRecord
    BY <1>1, <1>2, <2>1 DEF Identity, ProjectRecord
  <2>4. Stays /\ project'.commits = project.commits
    BY <1>1, <1>2, <1>6, <2>1, <2>2 DEF Bar, Stays, Identity, ProjectRecord, RecordsKept, Served, MayCreate, KnownIdentity
  <2>5. RecordsKept'
    BY <1>1, <1>2, <1>6, <2>1, <2>2 DEF Bar, Identity, ProjectRecord, RecordsKept, Served, MayCreate, KnownIdentity
  <2>6. Served(o, "host")'
    BY <1>1, <1>2, <1>6, <2>1, <2>2, KindsDiffer DEF Bar, Identity, ProjectRecord, RecordsKept, Served, Achieved, MayCreate, KnownIdentity
  <2> QED
    BY <1>4, <2>1, <2>3, <2>4, <2>5, <2>6
<1>7. ASSUME NEW o \in Operations, CloseAccount(o) PROVE ProvisionerInv'
  <2>1. /\ ServingAt(o, "host") /\ Goes("project") /\ UNCHANGED receipts /\ o \in DisableOps /\ o # NoOne
        /\ account' = ([account EXCEPT !.locked = TRUE]) /\ project' = ([project EXCEPT !.closed = project.closed \/ project.cloned])
    BY <1>1, <1>7 DEF CloseAccount
  <2>2. Served(o, "host")
    BY <1>3, <2>1
  <2>3. account' \in Identity /\ project' \in ProjectRecord
    BY <1>1, <1>2, <2>1 DEF Identity, ProjectRecord
  <2>4. Stays /\ project'.commits = project.commits
    BY <1>1, <1>2, <1>7, <2>1, <2>2 DEF CloseAccount, Stays, Identity, ProjectRecord, RecordsKept, Served, MayCreate, KnownIdentity
  <2>5. RecordsKept'
    BY <1>1, <1>2, <1>7, <2>1, <2>2 DEF CloseAccount, Identity, ProjectRecord, RecordsKept, Served, MayCreate, KnownIdentity
  <2>6. Served(o, "project")'
    BY <1>1, <1>2, <1>7, <2>1, <2>2, KindsDiffer DEF CloseAccount, Identity, ProjectRecord, RecordsKept, Served, Achieved, MayCreate, KnownIdentity
  <2> QED
    BY <1>4, <2>1, <2>3, <2>4, <2>5, <2>6
<1>8. ASSUME NEW o \in Operations, RevokeAll(o) PROVE ProvisionerInv'
  <2>1. /\ ServingAt(o, "project") /\ Goes("receipt") /\ UNCHANGED receipts /\ o \in DisableOps /\ o # NoOne
        /\ account' = ([account EXCEPT !.st = "disabled"]) /\ project' = ([project EXCEPT !.st = IF project.st = "none" THEN project.st ELSE "revoked"])
    BY <1>1, <1>8 DEF RevokeAll
  <2>2. Served(o, "project")
    BY <1>3, <2>1
  <2>3. account' \in Identity /\ project' \in ProjectRecord
    BY <1>1, <1>2, <2>1 DEF Identity, ProjectRecord
  <2>4. Stays /\ project'.commits = project.commits
    BY <1>1, <1>2, <1>8, <2>1, <2>2 DEF RevokeAll, Stays, Identity, ProjectRecord, RecordsKept, Served, MayCreate, KnownIdentity
  <2>5. RecordsKept'
    BY <1>1, <1>2, <1>8, <2>1, <2>2 DEF RevokeAll, Identity, ProjectRecord, RecordsKept, Served, MayCreate, KnownIdentity
  <2>6. Served(o, "receipt")'
    BY <1>1, <1>2, <1>8, <2>1, <2>2, KindsDiffer DEF RevokeAll, Identity, ProjectRecord, RecordsKept, Served, Achieved, MayCreate, KnownIdentity
  <2> QED
    BY <1>4, <2>1, <2>3, <2>4, <2>5, <2>6
<1>9. ASSUME NEW o \in Operations, AllocateProject(o) PROVE ProvisionerInv'
  <2>1. /\ ServingAt(o, "perform") /\ Goes("child") /\ UNCHANGED receipts /\ o \in PrepareOps /\ o # NoOne
        /\ account' = (account) /\ project' = (IF project.st = "none" THEN [project EXCEPT !.st = "preparing", !.by = o] ELSE project)
    BY <1>1, <1>9 DEF AllocateProject
  <2>2. Served(o, "perform")
    BY <1>3, <2>1
  <2>3. account' \in Identity /\ project' \in ProjectRecord
    BY <1>1, <1>2, <2>1 DEF Identity, ProjectRecord
  <2>4. Stays /\ project'.commits = project.commits
    BY <1>1, <1>2, <1>9, <2>1, <2>2 DEF AllocateProject, Stays, Identity, ProjectRecord, RecordsKept, Served, MayCreate, KnownIdentity
  <2>5. RecordsKept'
    BY <1>1, <1>2, <1>9, <2>1, <2>2 DEF AllocateProject, Identity, ProjectRecord, RecordsKept, Served, MayCreate, KnownIdentity
  <2>6. Served(o, "child")'
    BY <1>1, <1>2, <1>9, <2>1, <2>2, KindsDiffer DEF AllocateProject, Identity, ProjectRecord, RecordsKept, Served, Achieved, MayCreate, KnownIdentity
  <2> QED
    BY <1>4, <2>1, <2>3, <2>4, <2>5, <2>6
<1>10. ASSUME NEW o \in Operations, CloneProject(o) PROVE ProvisionerInv'
  <2>1. /\ ServingAt(o, "child") /\ Goes("project") /\ UNCHANGED receipts /\ o \in PrepareOps /\ o # NoOne
        /\ account' = (account) /\ project' = ([project EXCEPT !.cloned = TRUE])
    BY <1>1, <1>10 DEF CloneProject
  <2>2. Served(o, "child")
    BY <1>3, <2>1
  <2>3. account' \in Identity /\ project' \in ProjectRecord
    BY <1>1, <1>2, <2>1 DEF Identity, ProjectRecord
  <2>4. Stays /\ project'.commits = project.commits
    BY <1>1, <1>2, <1>10, <2>1, <2>2 DEF CloneProject, Stays, Identity, ProjectRecord, RecordsKept, Served, MayCreate, KnownIdentity
  <2>5. RecordsKept'
    BY <1>1, <1>2, <1>10, <2>1, <2>2 DEF CloneProject, Identity, ProjectRecord, RecordsKept, Served, MayCreate, KnownIdentity
  <2>6. Served(o, "project")'
    BY <1>1, <1>2, <1>10, <2>1, <2>2, KindsDiffer DEF CloneProject, Identity, ProjectRecord, RecordsKept, Served, Achieved, MayCreate, KnownIdentity
  <2> QED
    BY <1>4, <2>1, <2>3, <2>4, <2>5, <2>6
<1>11. ASSUME NEW o \in Operations, PreparedClone(o) PROVE ProvisionerInv'
  <2>1. /\ ServingAt(o, "project") /\ Goes("receipt") /\ UNCHANGED receipts /\ o \in PrepareOps /\ o # NoOne
        /\ account' = (account) /\ project' = ([project EXCEPT !.st = "ready"])
    BY <1>1, <1>11 DEF PreparedClone
  <2>2. Served(o, "project")
    BY <1>3, <2>1
  <2>3. account' \in Identity /\ project' \in ProjectRecord
    BY <1>1, <1>2, <2>1 DEF Identity, ProjectRecord
  <2>4. Stays /\ project'.commits = project.commits
    BY <1>1, <1>2, <1>11, <2>1, <2>2 DEF PreparedClone, Stays, Identity, ProjectRecord, RecordsKept, Served, MayCreate, KnownIdentity
  <2>5. RecordsKept'
    BY <1>1, <1>2, <1>11, <2>1, <2>2 DEF PreparedClone, Identity, ProjectRecord, RecordsKept, Served, MayCreate, KnownIdentity
  <2>6. Served(o, "receipt")'
    BY <1>1, <1>2, <1>11, <2>1, <2>2, KindsDiffer DEF PreparedClone, Identity, ProjectRecord, RecordsKept, Served, Achieved, MayCreate, KnownIdentity
  <2> QED
    BY <1>4, <2>1, <2>3, <2>4, <2>5, <2>6
<1>12. ASSUME NEW o \in Operations, Revoking(o) PROVE ProvisionerInv'
  <2>1. /\ ServingAt(o, "perform") /\ Goes("host") /\ UNCHANGED receipts /\ o \in RevokeOps /\ o # NoOne
        /\ account' = (account) /\ project' = ([project EXCEPT !.st = "revoking", !.revoker = o])
    BY <1>1, <1>12 DEF Revoking
  <2>2. Served(o, "perform")
    BY <1>3, <2>1
  <2>3. account' \in Identity /\ project' \in ProjectRecord
    BY <1>1, <1>2, <2>1 DEF Identity, ProjectRecord
  <2>4. \A q \in Operations : (q # serving.op /\ Achieved(q) => Achieved(q)') /\ (Committed(q) => Committed(q)')
    <3>1. serving.op = o /\ serving # IdleDaemon /\ serving' = [serving EXCEPT !.step = "host"]
      BY <1>3, <2>1 DEF Goes
    <3>2. account.st = "ready" /\ (project.st = "ready" \/ project.revoker = o)
      BY <1>12 DEF Revoking, KnownIdentity
    <3>3. /\ project'.st = "revoking" /\ project'.revoker = o /\ project'.commits = project.commits /\ project'.by = project.by
          /\ project'.cloned = project.cloned /\ project'.closed = project.closed
      BY <1>1, <2>1 DEF ProjectRecord
    <3>4. ASSUME NEW q \in Operations PROVE Committed(q) => Committed(q)'
      BY <3>3 DEF Committed
    <3>5. ASSUME NEW q \in Operations, q # o, Achieved(q) PROVE Achieved(q)'
      BY <2>1, <3>2, <3>3, <3>4, <3>5, KindsDiffer DEF Achieved
    <3> QED
      BY <3>1, <3>4, <3>5
  <2>5. RecordsKept'
    BY <1>1, <1>2, <1>12, <2>1, <2>2 DEF Revoking, Identity, ProjectRecord, RecordsKept, Served, KnownIdentity
  <2>6. Served(o, "host")'
    BY <1>1, <1>2, <1>12, <2>1, <2>2, KindsDiffer DEF Revoking, Identity, ProjectRecord, RecordsKept, Served, KnownIdentity
  <2>7. \A j \in DOMAIN project'.commits : receipts[project'.commits[j]].head = j - 1
    BY <1>1, <2>1 DEF ProjectRecord, ProvisionerInv
  <2> QED
    <3>1. serving.op = o /\ serving # IdleDaemon /\ serving' = [serving EXCEPT !.step = "host"]
      BY <1>3, <2>1 DEF Goes
    <3> QED
      BY <2>1, <2>3, <2>4, <2>5, <2>6, <2>7, <3>1, StepServed
<1>13. ASSUME NEW o \in Operations, TakeClone(o) PROVE ProvisionerInv'
  <2>1. /\ ServingAt(o, "host") /\ Goes("project") /\ UNCHANGED receipts /\ o \in RevokeOps /\ o # NoOne
        /\ account' = (account) /\ project' = ([project EXCEPT !.closed = TRUE])
    BY <1>1, <1>13 DEF TakeClone
  <2>2. Served(o, "host")
    BY <1>3, <2>1
  <2>3. account' \in Identity /\ project' \in ProjectRecord
    BY <1>1, <1>2, <2>1 DEF Identity, ProjectRecord
  <2>4. Stays /\ project'.commits = project.commits
    BY <1>1, <1>2, <1>13, <2>1, <2>2 DEF TakeClone, Stays, Identity, ProjectRecord, RecordsKept, Served, MayCreate, KnownIdentity
  <2>5. RecordsKept'
    BY <1>1, <1>2, <1>13, <2>1, <2>2 DEF TakeClone, Identity, ProjectRecord, RecordsKept, Served, MayCreate, KnownIdentity
  <2>6. Served(o, "project")'
    BY <1>1, <1>2, <1>13, <2>1, <2>2, KindsDiffer DEF TakeClone, Identity, ProjectRecord, RecordsKept, Served, Achieved, MayCreate, KnownIdentity
  <2> QED
    BY <1>4, <2>1, <2>3, <2>4, <2>5, <2>6
<1>14. ASSUME NEW o \in Operations, Revoked(o) PROVE ProvisionerInv'
  <2>1. /\ ServingAt(o, "project") /\ Goes("receipt") /\ UNCHANGED receipts /\ o \in RevokeOps /\ o # NoOne
        /\ account' = (account) /\ project' = ([project EXCEPT !.st = "revoked"])
    BY <1>1, <1>14 DEF Revoked
  <2>2. Served(o, "project")
    BY <1>3, <2>1
  <2>3. account' \in Identity /\ project' \in ProjectRecord
    BY <1>1, <1>2, <2>1 DEF Identity, ProjectRecord
  <2>4. Stays /\ project'.commits = project.commits
    BY <1>1, <1>2, <1>14, <2>1, <2>2 DEF Revoked, Stays, Identity, ProjectRecord, RecordsKept, Served, MayCreate, KnownIdentity
  <2>5. RecordsKept'
    BY <1>1, <1>2, <1>14, <2>1, <2>2 DEF Revoked, Identity, ProjectRecord, RecordsKept, Served, MayCreate, KnownIdentity
  <2>6. Served(o, "receipt")'
    BY <1>1, <1>2, <1>14, <2>1, <2>2, KindsDiffer DEF Revoked, Identity, ProjectRecord, RecordsKept, Served, Achieved, MayCreate, KnownIdentity
  <2> QED
    BY <1>4, <2>1, <2>3, <2>4, <2>5, <2>6
<1>15. ASSUME NEW o \in Operations, WriteSource(o) PROVE ProvisionerInv'
  <2>1. /\ ServingAt(o, "child") /\ Goes("mark") /\ UNCHANGED receipts /\ o \in WriteOps /\ o # NoOne
        /\ account' = (account) /\ project' = ([project EXCEPT !.dirty = TRUE])
    BY <1>1, <1>15 DEF WriteSource
  <2>2. Served(o, "child")
    BY <1>3, <2>1
  <2>3. account' \in Identity /\ project' \in ProjectRecord
    BY <1>1, <1>2, <2>1 DEF Identity, ProjectRecord
  <2>4. Stays /\ project'.commits = project.commits
    BY <1>1, <1>2, <1>15, <2>1, <2>2 DEF WriteSource, Stays, Identity, ProjectRecord, RecordsKept, Served, MayCreate, KnownIdentity
  <2>5. RecordsKept'
    BY <1>1, <1>2, <1>15, <2>1, <2>2 DEF WriteSource, Identity, ProjectRecord, RecordsKept, Served, MayCreate, KnownIdentity
  <2>6. Served(o, "mark")'
    BY <1>1, <1>2, <1>15, <2>1, <2>2, KindsDiffer DEF WriteSource, Identity, ProjectRecord, RecordsKept, Served, Achieved, MayCreate, KnownIdentity
  <2> QED
    BY <1>4, <2>1, <2>3, <2>4, <2>5, <2>6
<1>16. ASSUME NEW o \in Operations, MakeAccount(o) PROVE ProvisionerInv'
  <2>1. /\ ServingAt(o, "host") /\ UNCHANGED receipts /\ o \in CreateOps /\ o # NoOne /\ UNCHANGED project
        /\ project' \in ProjectRecord /\ project'.commits = project.commits
    BY <1>1, <1>16 DEF MakeAccount
  <2>2. account.st \in {"creating", "ready"} /\ account.by = o
    BY <1>3, <2>1 DEF Served
  <2>3. CASE account.made < 3
    <3>1. account' = [account EXCEPT !.made = account.made + 1] /\ UNCHANGED serving
      BY <1>16, <2>3 DEF MakeAccount
    <3>2. account' \in Identity /\ Stays /\ RecordsKept' /\ Served(o, "host")'
      BY <1>1, <1>2, <2>1, <2>2, <2>3, <3>1, KindsDiffer DEF Stays, RecordsKept, Served, Identity, ProjectRecord
    <3> QED
      BY <1>4, <2>1, <3>1, <3>2
  <2>4. CASE ~ (account.made < 3)
    <3>1. account' = [account EXCEPT !.st = "ready"] /\ Goes("receipt") /\ account.made = 3
      BY <1>2, <1>16, <2>4 DEF MakeAccount
    <3>2. account' \in Identity /\ Stays /\ RecordsKept' /\ Served(o, "receipt")'
      BY <1>1, <1>2, <2>1, <2>2, <3>1, KindsDiffer DEF Stays, RecordsKept, Served, Achieved, Identity, ProjectRecord
    <3> QED
      BY <1>4, <2>1, <3>1, <3>2
  <2> QED
    BY <2>3, <2>4
<1>17. ASSUME NEW o \in Operations, LaunchWorker(o) PROVE ProvisionerInv'
  <2>1. /\ ServingAt(o, "perform") /\ UNCHANGED <<receipts, account, project>> /\ o \in WriteOps \cup CommitOps
        /\ account.st = "ready" /\ project.st = "ready" /\ Goes(IF receipts[o].mark THEN "receipt" ELSE "child")
    BY <1>17 DEF LaunchWorker, KnownIdentity
  <2>2. account' \in Identity /\ project' \in ProjectRecord /\ project'.commits = project.commits /\ Stays /\ RecordsKept'
    BY <1>1, <2>1 DEF Stays, RecordsKept
  <2>3. CASE receipts[o].mark
    <3>1. Goes("receipt")
      BY <2>1, <2>3
    <3>2. o \in CommitOps => Committed(o)
      BY <2>3 DEF ProvisionerInv
    <3>3. Served(o, "receipt")'
      <4>1. Committed(o)' = Committed(o)
        BY <2>1 DEF Committed
      <4> QED
        BY <2>1, <3>2, <4>1, KindsDiffer DEF Served, Achieved
    <3> QED
      BY <1>4, <2>1, <2>2, <3>1, <3>3
  <2>4. CASE ~ receipts[o].mark
    <3>1. Goes("child")
      BY <2>1, <2>4
    <3>2. Served(o, "child")'
      BY <2>1, KindsDiffer DEF Served
    <3> QED
      BY <1>4, <2>1, <2>2, <3>1, <3>2
  <2> QED
    BY <2>3, <2>4
\* A commit: a new one follows the head its operation expects.
<1>18. ASSUME NEW o \in Operations, CommitProject(o) PROVE ProvisionerInv'
  <2>1. ServingAt(o, "child") /\ Goes("mark") /\ UNCHANGED <<receipts, account>> /\ o \in CommitOps
    BY <1>18 DEF CommitProject
  <2>2. account.st = "ready" /\ project.st = "ready"
    BY <1>3, <2>1 DEF Served
  <2>3. project.commits \in Seq(CommitOps) /\ Len(project.commits) \in Nat /\ DOMAIN project.commits = 1..Len(project.commits)
    BY <1>1, SequenceAsFunction DEF ProjectRecord
  <2>4. CASE Fresh(o)
    <3> DEFINE commits == Append(project.commits, o)
    <3>1. project' = [project EXCEPT !.dirty = FALSE, !.commits = commits] /\ receipts[o].head = Len(project.commits)
      BY <1>18, <2>4 DEF CommitProject, Fresh, Head0
    <3>2. commits \in Seq(CommitOps) /\ Len(commits) = Len(project.commits) + 1 /\ DOMAIN commits = 1..Len(commits)
      BY <2>1, <2>3, AppendProperties, SequenceAsFunction
    <3>3. commits[Len(commits)] = o /\ \A i \in DOMAIN project.commits : commits[i] = project.commits[i] /\ i \in DOMAIN commits
      BY <2>1, <2>3, <3>2, AppendProperties
    <3>4. /\ project' \in ProjectRecord /\ project'.commits = commits /\ project'.st = project.st /\ project'.by = project.by
          /\ project'.revoker = project.revoker /\ project'.cloned = project.cloned /\ project'.closed = project.closed
      <4> HIDE DEF commits
      <4> QED
        BY <1>1, <3>1, <3>2 DEF ProjectRecord
    <3>5. \A i \in DOMAIN commits : receipts[commits[i]].head = i - 1
      <4>1. SUFFICES ASSUME NEW i \in DOMAIN commits PROVE receipts[commits[i]].head = i - 1
        OBVIOUS
      <4>2. CASE i = Len(commits)
        BY <2>3, <3>1, <3>2, <3>3, <4>2
      <4>3. CASE i # Len(commits)
        <5>1. i \in DOMAIN project.commits /\ commits[i] = project.commits[i]
          BY <2>3, <3>2, <3>3, <4>1, <4>3
        <5> QED
          BY <5>1 DEF ProvisionerInv
      <4> QED
        BY <4>2, <4>3
    <3>6. Stays /\ RecordsKept' /\ Committed(o)'
      <4> HIDE DEF commits
      <4>1. Committed(o)'
        BY <2>3, <3>2, <3>3, <3>4 DEF Committed
      <4>2. Stays
        BY <1>1, <1>2, <2>1, <2>2, <2>3, <3>2, <3>3, <3>4 DEF Stays, RecordsKept
      <4>3. RecordsKept'
        BY <1>1, <2>1, <3>4 DEF RecordsKept
      <4> QED
        BY <4>1, <4>2, <4>3
    <3>7. Served(o, "mark")'
      BY <2>1, <3>6, KindsDiffer DEF Served
    <3>8. \A q \in Operations : (q # serving.op /\ Achieved(q) => Achieved(q)') /\ (Committed(q) => Committed(q)')
      BY <3>6, AchievedStays
    <3>9. serving # IdleDaemon /\ serving.op = o /\ serving' = [serving EXCEPT !.step = "mark"]
      BY <1>3, <2>1 DEF Goes
    <3>10. \A i \in DOMAIN project'.commits : receipts[project'.commits[i]].head = i - 1
      BY <3>4, <3>5
    <3> HIDE DEF commits
    <3> QED
      BY <1>1, <2>1, <3>4, <3>6, <3>7, <3>8, <3>9, <3>10, StepServed
  <2>5. CASE ~ Fresh(o)
    <3>1. UNCHANGED project /\ Len(project.commits) = receipts[o].head + 1 /\ project.commits[Len(project.commits)] = o
      BY <1>18, <2>5 DEF CommitProject, Fresh, Head0
    <3>2. Len(project.commits) \in DOMAIN project.commits
      <4>1. receipts[o].head \in Nat \cup {-1} /\ receipts[o].head # -1
        <5>1. receipts[o] \in Receipt
          BY <1>1
        <5>2. receipts[o].head # -1
          BY <1>3, <2>1 DEF ProvisionerInv
        <5> QED
          BY <5>1, <5>2 DEF Receipt
      <4> QED
        BY <2>3, <3>1, <4>1
    <3>3. Committed(o)'
      BY <3>1, <3>2 DEF Committed
    <3>4. account' \in Identity /\ project' \in ProjectRecord /\ project'.commits = project.commits /\ Stays /\ RecordsKept'
      BY <1>1, <2>1, <3>1 DEF Stays, RecordsKept
    <3>5. Served(o, "mark")'
      BY <2>1, <3>3, KindsDiffer DEF Served
    <3> QED
      BY <1>4, <2>1, <3>4, <3>5
  <2> QED
    BY <2>4, <2>5
\* What leaves the records of the host alone.
<1>19. ASSUME UNCHANGED <<account, project>>
       PROVE  /\ RecordsKept' /\ \A o \in Operations : (Achieved(o)' <=> Achieved(o)) /\ (Committed(o)' <=> Committed(o))
              /\ \A o, s : Served(o, s)' <=> Served(o, s)
  <2>1. \A o : Committed(o)' <=> Committed(o)
    BY <1>19 DEF Committed
  <2>2. \A o : Achieved(o)' <=> Achieved(o)
    BY <1>19, <2>1 DEF Achieved
  <2> QED
    BY <1>1, <1>19, <2>1, <2>2 DEF RecordsKept, Served
<1>20. ASSUME NEW o \in Operations, MarkDone(o) PROVE ProvisionerInv'
  <2>1. ServingAt(o, "mark") /\ Goes("receipt") /\ receipts' = [receipts EXCEPT ![o].mark = TRUE] /\ UNCHANGED <<account, project>>
    BY <1>20 DEF MarkDone
  <2>2. /\ serving # IdleDaemon /\ serving.op = o /\ serving' = [serving EXCEPT !.step = "receipt"] /\ Served(o, "mark")
        /\ serving \in [op : Operations, step : Step] /\ receipts[o].st = "started"
    BY <1>3, <2>1 DEF Goes, ProvisionerInv, ProvisionerTypeOK
  <2>3. receipts' \in [Operations -> Receipt] /\ \A q \in Operations : /\ receipts'[q].st = receipts[q].st /\ receipts'[q].head = receipts[q].head
                                                                        /\ (q # o => receipts'[q] = receipts[q])
    BY <1>1, <2>1 DEF Receipt
  <2>4. o \in WriteOps \cup CommitOps /\ (o \in CommitOps => Committed(o))
    BY <2>2 DEF Served
  <2>5. Served(o, "receipt")
    BY <2>4, KindsDiffer DEF Served, Achieved
  <2>6. serving' \in [op : Operations, step : Step] /\ serving'.op = o /\ serving'.step = "receipt"
    BY <2>2
  <2>7. ProvisionerTypeOK'
    BY <1>1, <2>1, <2>3, <2>6 DEF ProvisionerTypeOK
  <2>8. \A i \in DOMAIN project'.commits : receipts'[project'.commits[i]].head = i - 1
    <3>1. \A i \in DOMAIN project.commits : project.commits[i] \in Operations
      BY <1>1, SequenceAsFunction DEF ProjectRecord, Operations
    <3> QED
      BY <2>1, <2>3, <3>1 DEF ProvisionerInv
  <2>9. \A q \in Operations : /\ receipts'[q].mark => q \in WriteOps \cup CommitOps /\ (q \in CommitOps => Committed(q))
                              /\ receipts'[q].st = "completed" => Achieved(q)
    BY <2>3, <2>4 DEF ProvisionerInv
  <2> QED
    BY <1>19, <2>1, <2>2, <2>3, <2>5, <2>6, <2>7, <2>8, <2>9 DEF ProvisionerInv
<1>21. ASSUME NEW o \in Operations, Complete(o) PROVE ProvisionerInv'
  <2>1. ServingAt(o, "receipt") /\ serving' = IdleDaemon /\ receipts' = [receipts EXCEPT ![o].st = "completed"] /\ UNCHANGED <<account, project>>
    BY <1>21 DEF Complete
  <2>2. Achieved(o)
    BY <1>3, <2>1 DEF Served
  <2>3. receipts' \in [Operations -> Receipt] /\ \A q \in Operations : /\ receipts'[q].mark = receipts[q].mark /\ receipts'[q].head = receipts[q].head
                                                                        /\ (q # o => receipts'[q] = receipts[q])
    BY <1>1, <2>1 DEF Receipt
  <2>4. ProvisionerTypeOK'
    BY <1>1, <2>1, <2>3 DEF ProvisionerTypeOK
  <2>5. \A i \in DOMAIN project'.commits : receipts'[project'.commits[i]].head = i - 1
    <3>1. \A i \in DOMAIN project.commits : project.commits[i] \in Operations
      BY <1>1, SequenceAsFunction DEF ProjectRecord, Operations
    <3> QED
      BY <2>1, <2>3, <3>1 DEF ProvisionerInv
  <2>6. \A q \in Operations : /\ receipts'[q].mark => q \in WriteOps \cup CommitOps /\ (q \in CommitOps => Committed(q))
                              /\ receipts'[q].st = "completed" => Achieved(q)
    BY <2>2, <2>3 DEF ProvisionerInv
  <2> QED
    BY <1>19, <2>1, <2>4, <2>5, <2>6 DEF ProvisionerInv
<1>22. ASSUME NEW o \in Operations, Accept(o) PROVE ProvisionerInv'
  <2>1. /\ serving = IdleDaemon /\ serving' = [op |-> o, step |-> "perform"] /\ receipts[o].st # "completed"
        /\ receipts' = [receipts EXCEPT ![o].st = "started"] /\ UNCHANGED <<account, project>>
        /\ o \in CommitOps => receipts[o].head # -1
    BY <1>22 DEF Accept
  <2>3. receipts' \in [Operations -> Receipt] /\ \A q \in Operations : /\ receipts'[q].mark = receipts[q].mark /\ receipts'[q].head = receipts[q].head
                                                                        /\ (q # o => receipts'[q] = receipts[q])
    BY <1>1, <2>1 DEF Receipt
  <2>4. receipts'[o].st = "started" /\ serving'.op = o /\ serving'.step = "perform" /\ serving' \in [op : Operations, step : Step]
    BY <1>1, <2>1 DEF Receipt
  <2>5. ProvisionerTypeOK'
    BY <1>1, <2>1, <2>3, <2>4 DEF ProvisionerTypeOK
  <2>6. \A i \in DOMAIN project'.commits : receipts'[project'.commits[i]].head = i - 1
    <3>1. \A i \in DOMAIN project.commits : project.commits[i] \in Operations
      BY <1>1, SequenceAsFunction DEF ProjectRecord, Operations
    <3> QED
      BY <2>1, <2>3, <3>1 DEF ProvisionerInv
  <2>7. \A q \in Operations : /\ receipts'[q].mark => q \in WriteOps \cup CommitOps /\ (q \in CommitOps => Committed(q))
                              /\ receipts'[q].st = "completed" => Achieved(q)
    BY <2>3, <2>4 DEF ProvisionerInv
  <2>8. Served(o, "perform") /\ (o \in CommitOps => receipts'[o].head # -1)
    BY <2>1, <2>3 DEF Served
  <2> QED
    BY <1>19, <2>1, <2>4, <2>5, <2>6, <2>7, <2>8 DEF ProvisionerInv
<1>23. ASSUME NEW o \in Operations, SendCommit(o) PROVE ProvisionerInv'
  <2>1. /\ o \in CommitOps /\ receipts[o].head = -1 /\ receipts' = [receipts EXCEPT ![o].head = Len(project.commits)]
        /\ UNCHANGED <<serving, account, project>>
    BY <1>23 DEF SendCommit, Head0
  <2>2. Len(project.commits) \in Nat /\ DOMAIN project.commits = 1..Len(project.commits)
    BY <1>1, SequenceAsFunction DEF ProjectRecord
  <2>3. receipts' \in [Operations -> Receipt] /\ \A q \in Operations : /\ receipts'[q].mark = receipts[q].mark /\ receipts'[q].st = receipts[q].st
                                                                        /\ (q # o => receipts'[q] = receipts[q])
    BY <1>1, <2>1, <2>2 DEF Receipt
  <2>4. ProvisionerTypeOK'
    BY <1>1, <2>1, <2>3 DEF ProvisionerInv, ProvisionerTypeOK
  <2>5. \A i \in DOMAIN project'.commits : receipts'[project'.commits[i]].head = i - 1
    <3>1. \A i \in DOMAIN project.commits : project.commits[i] \in Operations /\ receipts[project.commits[i]].head = i - 1 /\ i - 1 # -1
      BY <1>1, <2>2, SequenceAsFunction DEF ProjectRecord, Operations, ProvisionerInv
    <3> QED
      BY <2>1, <2>3, <3>1
  <2>6. \A q \in Operations : /\ receipts'[q].mark => q \in WriteOps \cup CommitOps /\ (q \in CommitOps => Committed(q))
                              /\ receipts'[q].st = "completed" => Achieved(q)
    BY <2>3 DEF ProvisionerInv
  <2>7. serving # IdleDaemon => /\ receipts'[serving.op].st = "started" /\ Served(serving.op, serving.step)
                                /\ (serving.op \in CommitOps => receipts'[serving.op].head # -1)
    <3>1. serving # IdleDaemon => serving.op \in Operations
      BY DEF ProvisionerInv, ProvisionerTypeOK
    <3>2. serving # IdleDaemon => serving.op # o
      BY <2>1 DEF ProvisionerInv
    <3> QED
      BY <2>3, <3>1, <3>2 DEF ProvisionerInv
  <2> QED
    BY <1>19, <2>1, <2>4, <2>5, <2>6, <2>7 DEF ProvisionerInv
<1>24. ASSUME Stops \/ ChildFails PROVE ProvisionerInv'
  <2>1. serving' = IdleDaemon /\ UNCHANGED <<receipts, account, project>>
    BY <1>24 DEF Stops, ChildFails, Rejects
  <2>2. ProvisionerTypeOK'
    BY <2>1 DEF ProvisionerInv, ProvisionerTypeOK
  <2> QED
    BY <1>19, <2>1, <2>2 DEF ProvisionerInv
<1> QED
  BY <1>5, <1>6, <1>7, <1>8, <1>9, <1>10, <1>11, <1>12, <1>13, <1>14, <1>15, <1>16, <1>17, <1>18, <1>20, <1>21, <1>22, <1>23, <1>24
  DEF ProvisionerNext

\* Closed is closed, through every step.
LEMMA ProvisionerCloses ==
  ASSUME ProvisionerInv, ProvisionerNext \/ UNCHANGED provisionerVars
  PROVE  ClosedForGood
<1> DEFINE Step == {"perform", "host", "child", "mark", "project", "receipt"}
<1>1. account \in Identity /\ project \in ProjectRecord /\ RecordsKept /\ NoOne \notin Operations
  BY ProvisionerAssumption DEF ProvisionerInv, ProvisionerTypeOK
<1>2. /\ account.st \in {"none", "creating", "ready", "disabled"} /\ account.locked \in BOOLEAN
      /\ project.st \in {"none", "preparing", "ready", "revoking", "revoked"} /\ project.closed \in BOOLEAN
  BY <1>1 DEF Identity, ProjectRecord
<1>3. ASSUME NEW o \in Operations, NEW s \in Step, ServingAt(o, s) PROVE Served(o, s)
  <2>1. serving # IdleDaemon /\ serving.op = o /\ serving.step = s
    BY <1>1, <1>3 DEF ServingAt, IdleDaemon
  <2> QED
    BY <2>1 DEF ProvisionerInv
\* No work, the account as it was or not closed, and the clone not given back.
<1>4. ASSUME project'.commits = project.commits, project'.dirty = project.dirty,
             account.locked => account'.st # "ready" /\ account'.made = account.made,
             project.st = "revoking" => project'.st \in {"revoking", "revoked"}
      PROVE  ClosedForGood
  BY <1>4 DEF ClosedForGood
\* At work: nothing is being closed.
<1>5. ASSUME account.st = "ready", project.st = "ready" PROVE ClosedForGood
  BY <1>1, <1>5 DEF ClosedForGood, RecordsKept
<1>6. ASSUME UNCHANGED <<account, project>> PROVE ClosedForGood
  BY <1>1, <1>4, <1>6 DEF RecordsKept
<1>7. CASE UNCHANGED provisionerVars
  BY <1>6, <1>7 DEF provisionerVars
<1>8. CASE Stops \/ ChildFails
  BY <1>6, <1>8 DEF Stops, ChildFails, Rejects
<1>9. ASSUME NEW o \in Operations, SendCommit(o) \/ Accept(o) \/ Complete(o) \/ LaunchWorker(o) \/ MarkDone(o) PROVE ClosedForGood
  BY <1>6, <1>9 DEF SendCommit, Accept, Complete, LaunchWorker, MarkDone
<1>10. ASSUME NEW o \in Operations, ReserveAccount(o) PROVE ClosedForGood
  <2>1. project' = project /\ (account.st # "none" => account' = account)
    BY <1>10 DEF ReserveAccount
  <2> QED
    BY <1>1, <1>2, <1>4, <2>1 DEF RecordsKept
<1>11. ASSUME NEW o \in Operations, MakeAccount(o) PROVE ClosedForGood
  <2>1. project' = project /\ account.st # "disabled"
    BY <1>3, <1>11, KindsDiffer DEF MakeAccount, Served
  <2> QED
    BY <1>1, <1>2, <1>4, <2>1 DEF RecordsKept
<1>12. ASSUME NEW o \in Operations, Bar(o) \/ CloseAccount(o) \/ RevokeAll(o) PROVE ClosedForGood
  <2>1. /\ account' = [account EXCEPT !.st = "disabled"] \/ account' = [account EXCEPT !.locked = TRUE]
        /\ \/ project' = project \/ project' = [project EXCEPT !.closed = project.closed \/ project.cloned]
           \/ project' = [project EXCEPT !.st = IF project.st = "none" THEN project.st ELSE "revoked"]
    BY <1>12 DEF Bar, Barred, CloseAccount, RevokeAll
  <2>2. account.locked => account'.st = "disabled" /\ account'.made = account.made
    BY <1>1, <2>1 DEF RecordsKept, Identity
  <2>3. project'.commits = project.commits /\ project'.dirty = project.dirty /\ (project.st = "revoking" => project'.st \in {"revoking", "revoked"})
    BY <1>1, <2>1 DEF ProjectRecord
  <2> QED
    BY <1>4, <2>2, <2>3
<1>13. ASSUME NEW o \in Operations, AllocateProject(o) PROVE ClosedForGood
  <2>1. account' = account /\ (project.st # "none" => project' = project) /\ project.st # "revoking"
    BY <1>13 DEF AllocateProject
  <2>2. project'.commits = project.commits /\ project'.dirty = project.dirty
    BY <1>1, <1>13 DEF AllocateProject, ProjectRecord
  <2> QED
    BY <1>1, <1>4, <2>1, <2>2 DEF RecordsKept
<1>14. ASSUME NEW o \in Operations, CloneProject(o) \/ PreparedClone(o) PROVE ClosedForGood
  <2>1. account' = account /\ project.st # "revoking" /\ account.st = "ready"
    BY <1>3, <1>14, KindsDiffer DEF CloneProject, PreparedClone, Served
  <2>2. project'.commits = project.commits /\ project'.dirty = project.dirty
    BY <1>1, <1>14 DEF CloneProject, PreparedClone, ProjectRecord
  <2> QED
    BY <1>1, <1>4, <2>1, <2>2 DEF RecordsKept
<1>15. ASSUME NEW o \in Operations, Revoking(o) \/ TakeClone(o) \/ Revoked(o) PROVE ClosedForGood
  <2>1. account' = account
    BY <1>15 DEF Revoking, TakeClone, Revoked
  <2>2. project'.commits = project.commits /\ project'.dirty = project.dirty /\ (project.st = "revoking" => project'.st \in {"revoking", "revoked"})
    BY <1>1, <1>15 DEF Revoking, TakeClone, Revoked, ProjectRecord
  <2>3. account.locked => account.st = "disabled"
    BY <1>1 DEF RecordsKept
  <2> QED
    BY <1>4, <2>1, <2>2, <2>3
<1>16. ASSUME NEW o \in Operations, WriteSource(o) \/ CommitProject(o) PROVE ClosedForGood
  <2>1. account.st = "ready" /\ project.st = "ready"
    BY <1>3, <1>16 DEF WriteSource, CommitProject, Served
  <2> QED
    BY <1>5, <2>1
<1> QED
  BY <1>7, <1>8, <1>9, <1>10, <1>11, <1>12, <1>13, <1>14, <1>15, <1>16 DEF ProvisionerNext

-----------------------------------------------------------------------------
(* The components together: the one that moves keeps its invariant, and    *)
(* the others are absent.                                                  *)

\* The invariant of the component that moves.
EffectsInv ==
    /\ part = "accounts" => InfraInv
    /\ part = "actions" => BusinessInv
    /\ part = "remote" => RemoteInv
    /\ part = "browser" => ComputersInv
    /\ part = "searches" => ResearchInv
    /\ part = "host" => ProvisionerInv

\* It holds at the start, whichever component it is.
LEMMA EffectsStart == EffectsInit => EffectsInv
BY InfraStarts, BusinessStarts, RemoteStarts, ComputersStart, ResearchStarts, ProvisionerStarts DEF EffectsInit, EffectsInv

\* Every step keeps it, as no component touches another's state.
LEMMA EffectsStep == EffectsInv /\ [EffectsNext]_EffectsVars => EffectsInv'
<1> SUFFICES ASSUME EffectsInv, [EffectsNext]_EffectsVars PROVE EffectsInv'
  OBVIOUS
<1>1. part' = part
  BY DEF EffectsNext, EffectsVars
<1>2. CASE part = "accounts"
  <2>1. CASE InfrastructureNext
    BY <1>1, <1>2, <2>1, InfraStep DEF EffectsInv
  <2>2. CASE UNCHANGED infraVars
    <3>1. UNCHANGED <<hr, ops, chores, shift, host>>
      BY <2>2 DEF infraVars
    <3>2. InfraInv'
      <4>1. InfrastructureTypeOK' /\ OpsKept' /\ AnswerPending'
        BY <1>2, <3>1 DEF EffectsInv, InfraInv, InfrastructureTypeOK, OpsKept, AnswerPending, OwnsOp
      <4>2. \A w \in Known : Running(w)' = Running(w)
        BY <3>1 DEF Running
      <4> QED
        BY <1>2, <3>1, <4>1, <4>2 DEF EffectsInv, InfraInv
    <3> QED
      BY <1>1, <1>2, <3>2 DEF EffectsInv
  <2> QED
    BY <1>2, <2>1, <2>2 DEF EffectsNext, EffectsVars
<1>3. CASE part = "actions"
  <2>1. CASE BusinessNext
    BY <1>1, <1>3, <2>1, BusinessStep DEF EffectsInv
  <2>2. CASE UNCHANGED businessVars
    <3>1. UNCHANGED <<acts, scope, sending>>
      BY <2>2 DEF businessVars
    <3>2. BusinessInv'
      BY <1>3, <3>1 DEF EffectsInv, BusinessInv, BusinessTypeOK, UnknownFenced
    <3> QED
      BY <1>1, <1>3, <3>2 DEF EffectsInv
  <2> QED
    BY <1>3, <2>1, <2>2 DEF EffectsNext, EffectsVars
<1>4. CASE part = "remote"
  <2>1. CASE RemoteNext
    BY <1>1, <1>4, <2>1, RemoteStep DEF EffectsInv
  <2>2. CASE UNCHANGED remoteVars
    <3>1. UNCHANGED <<repo, pubs, upstream>>
      BY <2>2 DEF remoteVars
    <3>2. RemoteInv'
      BY <1>4, <3>1 DEF EffectsInv, RemoteInv, RemoteTypeOK, PublicationTrue
    <3> QED
      BY <1>1, <1>4, <3>2 DEF EffectsInv
  <2> QED
    BY <1>4, <2>1, <2>2 DEF EffectsNext, EffectsVars
<1>5. CASE part = "browser"
  <2>1. CASE ComputersNext
    BY <1>1, <1>5, <2>1, ComputersStep DEF EffectsInv
  <2>2. CASE UNCHANGED session
    <3>1. ComputersInv'
      BY <1>5, <2>2 DEF EffectsInv, ComputersInv, ComputersTypeOK
    <3> QED
      BY <1>1, <1>5, <3>1 DEF EffectsInv
  <2> QED
    BY <1>5, <2>1, <2>2 DEF EffectsNext, EffectsVars
<1>6. CASE part = "searches"
  <2>1. CASE ResearchNext
    BY <1>1, <1>6, <2>1, ResearchStep DEF EffectsInv
  <2>2. CASE UNCHANGED researchVars
    <3>1. UNCHANGED <<lookups, standing, turn>>
      BY <2>2 DEF researchVars
    <3>2. ResearchInv'
      BY <1>6, <3>1 DEF EffectsInv, ResearchInv, ResearchTypeOK
    <3> QED
      BY <1>1, <1>6, <3>2 DEF EffectsInv
  <2> QED
    BY <1>6, <2>1, <2>2 DEF EffectsNext, EffectsVars
<1>7. CASE part = "host"
  <2>1. CASE ProvisionerNext
    BY <1>1, <1>7, <2>1, ProvisionerStep DEF EffectsInv
  <2>2. CASE UNCHANGED provisionerVars
    <3>1. UNCHANGED <<serving, receipts, account, project>>
      BY <2>2 DEF provisionerVars
    <3>2. ProvisionerInv'
      <4>1. ProvisionerTypeOK' /\ RecordsKept'
        BY <1>7, <3>1 DEF EffectsInv, ProvisionerInv, ProvisionerTypeOK, RecordsKept
      <4>2. \A o : Committed(o)' <=> Committed(o)
        BY <3>1 DEF Committed
      <4>3. \A o : Achieved(o)' <=> Achieved(o)
        BY <3>1, <4>2 DEF Achieved
      <4>4. \A o, s : Served(o, s)' <=> Served(o, s)
        BY <3>1, <4>2, <4>3 DEF Served
      <4> QED
        BY <1>7, <3>1, <4>1, <4>2, <4>3, <4>4 DEF EffectsInv, ProvisionerInv
    <3> QED
      BY <1>1, <1>7, <3>2 DEF EffectsInv
  <2> QED
    BY <1>7, <2>1, <2>2 DEF EffectsNext, EffectsVars
<1> QED
  BY <1>1, <1>2, <1>3, <1>4, <1>5, <1>6, <1>7 DEF EffectsInv

\* Whatever answer is lost, cut off or denied, HQ keeps the intent of all that
\* the provisioner did or may have done, no chore waits for an operation that
\* nobody will answer, and nobody is at work in a closed account.
THEOREM AccountsAccounted == EffectsSpec => []HostTold
<1>1. EffectsInv => HostTold
  BY InfraPromise DEF EffectsInv, HostTold
<1> QED
  BY <1>1, EffectsStart, EffectsStep, PTL DEF EffectsSpec

\* What HQ records of external actions, publications and protected requests is
\* what happened, through lost and late answers, restarts and reconciliations.
THEOREM OutcomesRecorded == EffectsSpec => []OutcomesTrue
<1>1. EffectsInv => OutcomesTrue
  BY BusinessPromise, RemotePromise, ComputersPromise DEF EffectsInv, OutcomesTrue
<1> QED
  BY <1>1, EffectsStart, EffectsStep, PTL DEF EffectsSpec

\* What may still be under way keeps its document, its worker and every other
\* browser to itself until it is known how it ended.
THEOREM UnknownsHold == EffectsSpec => []UnknownFences
<1>1. EffectsInv => UnknownFences
  BY BusinessPromise, ResearchPromise, ComputersPromise DEF EffectsInv, UnknownFences
<1> QED
  BY <1>1, EffectsStart, EffectsStep, PTL DEF EffectsSpec

\* A receipt of the provisioner is of something done, no operation commits twice,
\* and what is closed or being closed is never worked in or opened again.
THEOREM HostOperationsKept == EffectsSpec => HostKept
<1>1. EffectsInv => (part = "host" => DoneAsReceipted)
  BY ProvisionerPromise DEF EffectsInv
<1>2. EffectsInv /\ [EffectsNext]_EffectsVars => [part = "host" => ClosedForGood]_EffectsVars
  <2>1. SUFFICES ASSUME EffectsInv, EffectsNext, part = "host" PROVE ClosedForGood
    BY DEF EffectsVars
  <2>2. ProvisionerInv /\ ProvisionerNext
    BY <2>1 DEF EffectsInv, EffectsNext
  <2> QED
    BY <2>2, ProvisionerCloses
<1> QED
  BY <1>1, <1>2, EffectsStart, EffectsStep, PTL DEF EffectsSpec, HostKept
=============================================================================
