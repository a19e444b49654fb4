------------------------------- MODULE MCTalk -------------------------------
(***************************************************************************)
(* What workers and the owner say to each other: direct conversations,     *)
(* working groups, mandate reviews, the remote clients of the owner, and   *)
(* a turn of the provider that speaks for a worker.  Each is explored on   *)
(* its own (part), as they share no state in their models.                 *)
(***************************************************************************)
EXTENDS Conversations, Discussions, Mandates, Clients, CodexTurn, TLC

VARIABLE part   \* the component that moves in this behaviour

TalkVars == <<convVars, discVars, mndVars, clientVars, turnVars, part>>
TalkerSymmetry == Permutations(Talkers) \cup Permutations(Handlers)

Silent == 0   \* a turn may begin in several ways: there is none in the other parts
TalkInit ==
    /\ part \in {"conversations", "discussions", "mandates", "clients", "turn"}
    /\ ConversationsInit /\ DiscussionsInit /\ MandatesInit /\ ClientsInit
    /\ IF part = "turn" THEN CodexTurnInit ELSE cx = Silent /\ pv = Silent /\ wire = Silent

TalkNext ==
    \/ part = "conversations" /\ ConversationsNext /\ UNCHANGED <<discVars, mndVars, clientVars, turnVars, part>>
    \/ part = "discussions" /\ DiscussionsNext /\ UNCHANGED <<convVars, mndVars, clientVars, turnVars, part>>
    \/ part = "mandates" /\ MandatesNext /\ UNCHANGED <<convVars, discVars, clientVars, turnVars, part>>
    \/ part = "clients" /\ ClientsNext /\ UNCHANGED <<convVars, discVars, mndVars, turnVars, part>>
    \/ part = "turn" /\ CodexTurnNext /\ UNCHANGED <<convVars, discVars, mndVars, clientVars, part>>

\* What is not followed: a change by the owner after a rollover or before one, as
\* either gives the next request of the worker a fresh session, and a third
\* request once the owner has changed anything; and of a mandate, more than one of
\* internal work, an external action and a retry in one behaviour; and of a working
\* group, other turns of its members with a mandate or a change by the owner.
TalkFollowed ==
    /\ part = "conversations" => changes = 0 \/ (Len(req) <= 2 /\ \A s \in DOMAIN ses : ~ses[s].roll)
    /\ part = "mandates" => Len(mnd.works) + Cardinality({c \in DOMAIN mnd.cycles : mnd.cycles[c].action # "none"})
                            + Cardinality({c \in DOMAIN mnd.cycles : mnd.cycles[c].fails # 0}) <= 1
    /\ part = "discussions" => busy = {} \/ (acted = 0 /\ mandate = "none")

TalkSpec == TalkInit /\ [][TalkNext]_TalkVars

\* The types of the five components.
TalkTypeOK ==
    /\ ConversationsTypeOK /\ DiscussionsTypeOK /\ MandatesTypeOK /\ ClientsTypeOK
    /\ part = "turn" => CodexTurnTypeOK

-----------------------------------------------------------------------------
(* Properties: those of the components, joined where they say one thing.   *)

\* The contexts of a worker are its own and one at a time (conversations.ts:
\* claim, prepareBinding, activateBinding), through lost turns and rollovers.
PrivateContext == WorkerFenced /\ OneGeneration

\* A working group always has a next turn, and what it concludes is a
\* synthesis of everything that was said (discussions.ts: schedule, progress).
GroupsConclude == NeverIdle /\ FinalSynthesis

\* Every due instant has its one review, and no cycle ends over work that was
\* not reviewed (mandates.ts: tick, close).
ReviewsKept == DueOnce /\ ClosedReviewed

\* A turn completes after its tool calls (handleRequest() of codex.ts), and
\* HQ believes it over only when it is.
TurnTold == part = "turn" => ToolsBeforeCompletion /\ SettledTruly

\* What a client sends under one key happens once, while its device is trusted,
\* and what it is sent has no gap it is not told of (client-api.ts: handle, pump).
ClientsTold == [][OnceByKey' /\ NothingMissed /\ EffectTrusted]_clientVars
=============================================================================
