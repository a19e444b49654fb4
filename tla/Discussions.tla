---------------------------- MODULE Discussions ----------------------------
(***************************************************************************)
(* One working group: the owner's controls, the bounded turns its members  *)
(* take, and progress(), which turns a settled batch of turns into the     *)
(* next one.  Source: src/control/discussions.ts; a turn runs as a request *)
(* of src/control/conversations.ts, kept here as its status.  The group is *)
(* the owner's or a mandate's, and its members also run turns of other     *)
(* work, which progress() takes for unresolved while they are open.        *)
(*                                                                         *)
(* The transcript and evidence revisions are one counter, rev: the code    *)
(* compares both and both only grow.  Abstracted: bodies, citations,       *)
(* questions, size budgets, receipts, and the hooks of investment groups.  *)
(* For the properties, the row of the group also says whether a turn was   *)
(* ever left undone (failed), the revision of the last contribution that   *)
(* was not a final synthesis (said), and what the last final synthesis had *)
(* read (final).                                                           *)
(***************************************************************************)
EXTENDS Integers, Sequences, FiniteSets

CONSTANTS
    Circle,           \* the workers the charter makes eligible
    Facilitator, Synthesizers,      \* the synthesizers the owner may name
    GroupTurns, GroupRounds,        \* DISCUSSION_LIMITS turns, rounds
    Extensions, ExtensionTurns,     \* extensions, extensionTurns
    SynthesisTurns, ReservedTurns,  \* synthesisTurns, reservedTurns
    HardTurns, HardRounds,          \* hardTurns, hardRounds
    InterventionBound               \* bound on the owner's interventions and the exports of evidence

ASSUME DiscussionsAssumption ==
    /\ {Facilitator} \cup Synthesizers \subseteq Circle /\ IsFiniteSet(Circle)
    /\ {GroupTurns, GroupRounds, Extensions, ExtensionTurns, SynthesisTurns, ReservedTurns, HardTurns, HardRounds,
        InterventionBound} \subseteq Nat

VARIABLES
    group,   \* the row of working_groups
    dturn,   \* discussion_turns still open or not advanced, with the status of the request
    drun,    \* the turn each worker is running, 0 for none
    dunres,  \* workers whose provider outcome is unresolved
    busy,    \* workers with an open turn of other work
    mandate, \* the status of the mandate the group works for
    cycle,   \* whether the cycle it works in is open
    acted    \* interventions and exports so far (for InterventionBound)

groupVars == <<group, dturn, drun, dunres, acted>>
outsideVars == <<busy, mandate, cycle>>
discVars == <<groupVars, outsideVars>>
NoOutput == [act |-> "none", who |-> {}, lead |-> Facilitator]

\* The control columns of the rows.
WorkingGroup ==
    [state : {"none", "draft", "active", "paused", "blocked", "stopped", "completed", "archived"},
     on : SUBSET Circle, atlas : BOOLEAN, incomplete : BOOLEAN, synthesizer : Circle,
     scope : Nat, rev : Nat, round : Nat, used : Nat, limit : Nat, rounds : Nat, ext : Nat,
     synths : Nat, late : BOOLEAN, barred : BOOLEAN, failed : BOOLEAN, said : Nat, final : Nat]
Output == [act : {"none", "done", "discuss"}, who : SUBSET Circle, lead : Circle]
DiscussionTurn ==
    [w : Circle, st : {"queued", "replying", "completed", "cancelled", "undone"},
     kind : {"organize", "opening", "facilitate", "response", "synthesis", "review", "finalize"},
     out : Output, adv : BOOLEAN, seen : Nat, scope : Nat]

GroupTypeOK ==
    /\ group \in WorkingGroup /\ dturn \in Seq(DiscussionTurn)
    /\ drun \in [Circle -> Nat] /\ dunres \subseteq Circle /\ acted \in 0..InterventionBound
DiscussionsTypeOK ==
    /\ GroupTypeOK /\ busy \subseteq Circle
    /\ mandate \in {"none", "active", "paused", "stopped"} /\ cycle \in {"open", "over"}

-----------------------------------------------------------------------------
Synth(kind) == kind \in {"synthesis", "finalize"}
Running == {w \in Circle : drun[w] # 0}
Uncertain == dunres \cup busy   \* providerUnresolved()

\* authorize(): what every tool call and every claim reads again.
Authorize(t) ==
    /\ group.state = "active" \/ (group.state = "paused" /\ dturn[t].st # "queued")
    /\ group.scope = dturn[t].scope /\ ~group.late /\ ~group.barred
    /\ mandate # "stopped" /\ cycle = "open"   \* authorizeInternal()

\* enqueue() of turns of one kind for the workers in W, all of them or none.
Fits(g, W, kind) ==
    /\ W \subseteq g.on /\ ~g.late
    /\ IF Synth(kind) THEN g.used < g.limit /\ g.synths < SynthesisTurns
                      ELSE g.used + Cardinality(W) <= g.limit - ReservedTurns
Charged(g, W, kind) == [g EXCEPT !.used = @ + Cardinality(W), !.synths = @ + (IF Synth(kind) THEN 1 ELSE 0)]

NewTurn(w, kind, scope) == [w |-> w, st |-> "queued", kind |-> kind, out |-> NoOutput, adv |-> FALSE,
                            seen |-> 0, scope |-> scope]
\* The workers in W, each once, in some order.
Ordered(W) == CHOOSE f \in [1..Cardinality(W) -> W] : \A i, j \in DOMAIN f : f[i] = f[j] => i = j
Queue(ts, W, kind, scope) == ts \o [k \in 1..Cardinality(W) |-> NewTurn(Ordered(W)[k], kind, scope)]

\* Nothing reads an advanced turn again, so they are forgotten once all have ended.
AdvanceAll(ts) == IF \E t \in DOMAIN ts : ts[t].st \in {"queued", "replying"}
                  THEN [t \in DOMAIN ts |-> [ts[t] EXCEPT !.adv = TRUE]] ELSE <<>>
\* Mutant: the queued turns stay queued.
KeepQueued(ts) == ts
CancelQueued(ts) == [t \in DOMAIN ts |-> IF ts[t].st = "queued" THEN [ts[t] EXCEPT !.st = "cancelled"] ELSE ts[t]]

-----------------------------------------------------------------------------
(* The owner.                                                              *)

Intervention == acted < InterventionBound /\ acted' = acted + 1

DiscussionsInit ==
    /\ group = [state |-> "none", on |-> {}, atlas |-> FALSE, incomplete |-> FALSE, synthesizer |-> Facilitator,
                scope |-> 0, rev |-> 0, round |-> 0, used |-> 0, limit |-> 0, rounds |-> 0, ext |-> 0, synths |-> 0,
                late |-> TRUE, barred |-> FALSE, failed |-> FALSE, said |-> 0, final |-> 0]
    /\ dturn = <<>> /\ drun = [w \in Circle |-> 0] /\ dunres = {} /\ acted = 0
    /\ busy = {} /\ mandate = "none" /\ cycle = "open"

CreateGroup(atlas, incomplete, synthesizer) ==
    /\ group.state = "none"
    /\ IF atlas THEN synthesizer = Facilitator ELSE synthesizer \in Synthesizers
    /\ group' = [group EXCEPT !.state = "draft", !.on = IF atlas THEN {Facilitator} ELSE Circle, !.atlas = atlas,
                              !.incomplete = incomplete, !.synthesizer = synthesizer, !.scope = 1, !.rev = 1,
                              !.limit = GroupTurns, !.rounds = GroupRounds]
    /\ UNCHANGED <<dturn, drun, dunres, acted>>

\* Put the group to work on turns of one kind; a turn that does not fit undoes it all.
Schedule(g, ts, W, kind) ==
    /\ Fits(g, W, kind)
    /\ group' = Charged(g, W, kind) /\ dturn' = Queue(ts, W, kind, g.scope)
    /\ UNCHANGED <<drun, dunres>>

Settled == Running = {} /\ ~group.barred

\* createForMandate(): the group starts at once, and may end incomplete.
CreateForMandate(synthesizer) ==
    /\ group.state = "none" /\ mandate' = "active" /\ UNCHANGED acted
    /\ Schedule([group EXCEPT !.state = "active", !.on = Circle, !.incomplete = TRUE, !.synthesizer = synthesizer,
                              !.scope = 1, !.rev = 1, !.limit = GroupTurns, !.rounds = GroupRounds, !.late = FALSE],
                <<>>, Circle, "opening")

StartGroup ==
    LET g == [group EXCEPT !.state = "active", !.late = FALSE]
    IN /\ group.state = "draft" /\ ~group.barred /\ UNCHANGED acted
       /\ IF group.atlas THEN Schedule(g, dturn, {Facilitator}, "organize") ELSE Schedule(g, dturn, group.on, "opening")

PauseGroup ==
    /\ group.state = "active" /\ Intervention
    /\ group' = [group EXCEPT !.state = "paused"] /\ UNCHANGED <<dturn, drun, dunres>>

ResumeGroup ==
    /\ group.state \in {"paused", "blocked"} /\ Settled /\ ~group.late
    /\ Uncertain \cap group.on = {} /\ ~group.failed
    /\ group' = [group EXCEPT !.state = "active"]
    /\ UNCHANGED <<dturn, drun, dunres, acted>>

StopGroup ==
    /\ group.state \notin {"none", "archived", "stopped"}
    /\ Intervention
    /\ group' = [group EXCEPT !.state = "stopped"] /\ dturn' = CancelQueued(dturn)
    /\ UNCHANGED <<drun, dunres>>

ArchiveGroup ==
    /\ group.state \in {"completed", "stopped", "blocked", "draft"} /\ Running = {}
    /\ group' = [group EXCEPT !.state = "archived"] /\ dturn' = CancelQueued(dturn)
    /\ UNCHANGED <<drun, dunres, acted>>

Extend ==
    /\ group.state \notin {"none", "draft", "archived"} /\ mandate = "none" /\ Settled /\ Uncertain \cap group.on = {}
    /\ Intervention /\ group.used > 0   \* it was started: the deadline is extended
    /\ group.ext < Extensions /\ group.limit + ExtensionTurns <= HardTurns /\ group.rounds + 1 <= HardRounds
    /\ Schedule([group EXCEPT !.state = "active", !.limit = @ + ExtensionTurns, !.rounds = @ + 1, !.ext = @ + 1,
                              !.round = @ + 1, !.late = FALSE],
                AdvanceAll(CancelQueued(dturn)), {Facilitator}, "facilitate")

FinishGroup(target) ==
    /\ group.state \notin {"none", "draft", "archived", "completed"} /\ Settled /\ ~group.late
    /\ Intervention /\ target \in group.on /\ target \notin Uncertain
    /\ target = group.synthesizer \/ (group.state = "blocked" /\ group.incomplete)
    /\ group.incomplete \/ ~group.failed
    /\ Schedule([group EXCEPT !.state = "active", !.synthesizer = target], AdvanceAll(CancelQueued(dturn)),
                {target}, "finalize")

\* note() and share(): one more revision, and nothing is started.
Interject ==
    /\ group.state \notin {"none", "archived"} /\ Intervention
    /\ group' = [group EXCEPT !.rev = @ + 1]
    /\ UNCHANGED <<dturn, drun, dunres>>

\* revokeMember() through the trigger on participants, and withdrawEvidence().
Withdraw ==
    /\ group.state # "none" /\ IF group.barred THEN Intervention ELSE UNCHANGED acted
    /\ group' = [group EXCEPT !.state = "blocked", !.scope = @ + 1, !.barred = TRUE]
    /\ UNCHANGED <<dturn, drun, dunres>>

DeadlinePasses ==
    /\ group.used > 0 /\ ~group.late
    /\ group' = [group EXCEPT !.late = TRUE] /\ UNCHANGED <<dturn, drun, dunres, acted>>

-----------------------------------------------------------------------------
(* A worker's turn, as the execution of its request.                       *)

\* candidate(), beforeClaim(): only an active group that is not held is looked at.
ClaimTurn(t) ==
    LET w == dturn[t].w IN
    /\ group.state = "active" /\ mandate # "paused" /\ dturn[t].st = "queued" /\ drun[w] = 0 /\ w \notin busy
    /\ IF Authorize(t) /\ w \notin dunres
       THEN /\ dturn' = [dturn EXCEPT ![t].st = "replying", ![t].seen = group.rev]
            /\ drun' = [drun EXCEPT ![w] = t]
            /\ UNCHANGED group
       ELSE /\ dturn' = [dturn EXCEPT ![t].st = "undone"] /\ group' = [group EXCEPT !.failed = TRUE]
            /\ UNCHANGED drun
    /\ UNCHANGED <<dunres, acted>>

Speaking(w) == drun[w] # 0 /\ dturn[drun[w]].out = NoOutput /\ Authorize(drun[w])

\* read_discussion
ReadContext(w) ==
    /\ Speaking(w) /\ dturn[drun[w]].seen # group.rev
    /\ dturn' = [dturn EXCEPT ![drun[w]].seen = group.rev]
    /\ UNCHANGED <<group, drun, dunres, acted>>

RequireCurrent(t) == dturn[t].seen = group.rev

\* commitTurn(): the output, the answered request and the new revision together.
CommitTurn(w, output) ==
    /\ dturn' = [dturn EXCEPT ![drun[w]].out = output, ![drun[w]].st = "completed"]
    /\ group' = IF dturn[drun[w]].kind = "finalize" THEN [group EXCEPT !.rev = @ + 1, !.final = dturn[drun[w]].seen]
                ELSE [group EXCEPT !.rev = @ + 1, !.said = group.rev + 1]
    /\ UNCHANGED <<drun, dunres, acted>>

Contribute(w) ==
    /\ Speaking(w)
    /\ dturn[drun[w]].kind \in {"opening", "response", "review"}
    /\ CommitTurn(w, [NoOutput EXCEPT !.act = "done"])

\* share_public_evidence, offered with the research tools: the export is new to the turn too.
ShareEvidence(w) ==
    /\ Speaking(w) /\ dturn[drun[w]].kind \in {"opening", "facilitate", "response"} /\ Intervention
    /\ group' = [group EXCEPT !.rev = @ + 1] /\ UNCHANGED <<dturn, drun, dunres>>

Organize(w) ==
    /\ Speaking(w) /\ dturn[drun[w]].kind = "organize" /\ w = Facilitator /\ RequireCurrent(drun[w])
    /\ \E who \in SUBSET Circle, lead \in Circle :
          /\ Cardinality(who) >= 2 /\ {Facilitator, lead} \subseteq who
          /\ CommitTurn(w, [act |-> "done", who |-> who, lead |-> lead])

Facilitate(w) ==
    /\ Speaking(w) /\ dturn[drun[w]].kind = "facilitate" /\ w = Facilitator /\ RequireCurrent(drun[w])
    /\ \/ CommitTurn(w, [NoOutput EXCEPT !.act = "done"])
       \/ \E who \in SUBSET group.on :
             Cardinality(who) \in 1..2 /\ CommitTurn(w, [NoOutput EXCEPT !.act = "discuss", !.who = who])

SubmitSynthesis(w) ==
    /\ Speaking(w) /\ Synth(dturn[drun[w]].kind) /\ w = group.synthesizer /\ RequireCurrent(drun[w])
    /\ CommitTurn(w, [NoOutput EXCEPT !.act = "done"])

\* The end of the execution; without a committed output the turn is undone
\* (failed, interrupted or blocked: the group tells them apart no more).
EndTurn(w, known) ==
    LET t == drun[w] IN
    /\ t # 0
    /\ dturn' = IF dturn[t].out # NoOutput THEN dturn
                ELSE [dturn EXCEPT ![t].st = "undone"]
    /\ drun' = [drun EXCEPT ![w] = 0]
    /\ group' = [group EXCEPT !.failed = @ \/ dturn[t].out = NoOutput]
    /\ dunres' = IF known THEN dunres ELSE dunres \cup {w}
    /\ UNCHANGED acted

-----------------------------------------------------------------------------
(* Other work of the members, and the mandate.                             *)

OtherTurn(w) ==
    /\ drun[w] = 0 /\ w \notin Uncertain /\ busy' = busy \cup {w}
    /\ UNCHANGED <<groupVars, mandate, cycle>>

OtherTurnEnds(w, known) ==
    /\ w \in busy /\ busy' = busy \ {w} /\ dunres' = IF known THEN dunres ELSE dunres \cup {w}
    /\ UNCHANGED <<group, dturn, drun, acted, mandate, cycle>>

\* control() of mandates.ts: pause and resume leave the group as it is.
MandateHeld ==
    /\ mandate \in {"active", "paused"} /\ mandate' = IF mandate = "active" THEN "paused" ELSE "active"
    /\ UNCHANGED <<groupVars, busy, cycle>>

\* stop() of mandates.ts.
MandateStopped ==
    /\ mandate \in {"active", "paused"} /\ mandate' = "stopped" /\ dturn' = CancelQueued(dturn)
    /\ group' = IF group.state \in {"active", "paused", "blocked"} THEN [group EXCEPT !.state = "stopped"] ELSE group
    /\ UNCHANGED <<drun, dunres, acted, busy, cycle>>

\* The cycle is blocked, or closed when its work is over: the group stays, its turns are refused.
CycleEnds ==
    /\ mandate \in {"active", "paused"} /\ cycle = "open" /\ cycle' = "over"
    /\ UNCHANGED <<groupVars, busy, mandate>>

-----------------------------------------------------------------------------
(* progress()                                                              *)

Block == group' = [group EXCEPT !.state = "blocked"] /\ UNCHANGED <<drun, dunres, acted>>

Expire ==
    /\ group.state \in {"active", "paused"} /\ group.late
    /\ Block /\ dturn' = CancelQueued(dturn)

Batch == {t \in DOMAIN dturn : ~dturn[t].adv}
LastOf(T) == CHOOSE t \in T : \A k \in T : k <= t

\* What may follow the settled batch: the group, its next turns and their kind.
Successors ==
    LET last == dturn[LastOf(Batch)]
        round == [group EXCEPT !.round = @ + 1]
        spent == group.used >= group.limit - ReservedTurns - 1 \/ group.round >= group.rounds
        room == group.round < group.rounds /\ group.used + 3 < group.limit - ReservedTurns
        next(g, W, kind) == [g |-> g, W |-> W, kind |-> kind]
    IN CASE last.kind = "organize" ->
              {next([group EXCEPT !.on = @ \cup last.out.who, !.synthesizer = last.out.lead, !.scope = @ + 1],
                    group.on \cup last.out.who, "opening")}
         [] last.kind = "synthesis" ->   \* a member with the role of reviewer first
              {next(group, {w}, "review") : w \in group.on \ {group.synthesizer}}
         [] last.kind = "review" -> {next(group, {group.synthesizer}, "finalize")}
         [] last.kind = "facilitate" /\ last.out.act = "discuss" /\ room -> {next(round, last.out.who, "response")}
         [] last.kind \in {"opening", "response"} /\ ~spent -> {next(group, {Facilitator}, "facilitate")}
         [] OTHER -> {next(group, {group.synthesizer}, "synthesis")}

\* The savepoint is kept, or rolled back and the group blocked.
Advance ==
    LET fitting == {s \in Successors : s.W # {} /\ Fits(s.g, s.W, s.kind)}
    IN \/ /\ fitting = {}
          /\ Block /\ UNCHANGED dturn
       \/ \E s \in fitting : UNCHANGED acted /\ Schedule(s.g, AdvanceAll(dturn), s.W, s.kind)

Conclude ==
    /\ group' = [group EXCEPT !.state = "completed"] /\ dturn' = AdvanceAll(dturn)
    /\ UNCHANGED <<drun, dunres, acted>>

Progress ==
    LET sole == group.incomplete /\ Cardinality(Batch) = 1 /\ \E t \in Batch : dturn[t].kind = "finalize"
        fenced == IF sole THEN group.synthesizer \in Uncertain ELSE Uncertain \cap group.on # {}
    IN /\ group.state = "active" /\ ~group.late /\ Running = {}
       /\ \/ /\ group.barred \/ fenced
             /\ Block /\ UNCHANGED dturn
          \/ /\ ~group.barred /\ ~fenced /\ Batch # {} /\ \A t \in Batch : dturn[t].st # "queued"
             /\ \/ /\ \E t \in Batch : dturn[t].st # "completed"
                   /\ Block /\ UNCHANGED dturn
                \/ /\ \A t \in Batch : dturn[t].st = "completed"
                   /\ IF dturn[LastOf(Batch)].kind = "finalize" THEN Conclude ELSE Advance

\* The steps of the group itself.
GroupStep ==
    \/ \E atlas, incomplete \in BOOLEAN, s \in Synthesizers \cup {Facilitator} : CreateGroup(atlas, incomplete, s)
    \/ StartGroup \/ PauseGroup \/ ResumeGroup \/ StopGroup \/ ArchiveGroup \/ Extend
    \/ \E target \in Circle : FinishGroup(target)
    \/ Interject \/ Withdraw \/ DeadlinePasses
    \/ \E t \in DOMAIN dturn : ClaimTurn(t)
    \/ \E w \in Circle : ReadContext(w) \/ Contribute(w) \/ ShareEvidence(w)
    \/ \E w \in Circle : Organize(w) \/ Facilitate(w) \/ SubmitSynthesis(w)
    \/ \E w \in Circle, known \in BOOLEAN : EndTurn(w, known)
    \/ Expire \/ Progress

DiscussionsNext ==
    \/ GroupStep /\ UNCHANGED outsideVars
    \/ \E s \in Synthesizers : CreateForMandate(s) /\ UNCHANGED <<busy, cycle>>
    \/ \E w \in Circle : OtherTurn(w) \/ \E known \in BOOLEAN : OtherTurnEnds(w, known)
    \/ MandateHeld \/ MandateStopped \/ CycleEnds

DiscussionsSpec == DiscussionsInit /\ [][DiscussionsNext]_discVars

-----------------------------------------------------------------------------
(* Properties.                                                             *)

\* A completed group ends with a final synthesis that had read every
\* contribution of every member, whatever was stopped, extended, resumed or
\* finished early on the way: no turn is left that could still speak beside it.
FinalSynthesis == group.state = "completed" => group.final >= group.said

\* An active group always has a turn that is still to be answered or advanced:
\* it never waits for its deadline with nothing to do.
NeverIdle == group.state = "active" => Batch # {}
=============================================================================
