----------------------------- MODULE MCEffects ------------------------------
(***************************************************************************)
(* What HQ does beyond its own rows: accounts on the host and the daemon   *)
(* that provides them, external actions, publications to a remote,         *)
(* browsers, searches, and public questions with their grants, requests    *)
(* and withdrawals.  The ten components share no state in their models, so *)
(* each is explored on its own (part) while the others are absent.         *)
(***************************************************************************)
EXTENDS Infrastructure, Business, Remote, Computers, Research, Ask, Provisioner,
        AskGrants, AskWire, AskControls, TLC

VARIABLE part   \* the component that moves in this behaviour

publicVars == <<grantVars, wireVars, controlVars>>
EffectsVars ==
    <<part, infraVars, businessVars, remoteVars, session, researchVars, askVars, provisionerVars,
      publicVars>>

Absent == 0
EffectsInit ==
    /\ part \in {"accounts", "actions", "remote", "browser", "searches", "public", "host", "grants", "requests", "withdrawals"}
    /\ IF part = "accounts" THEN InfrastructureInit ELSE hr = Absent /\ ops = Absent /\ chores = Absent /\ shift = Absent /\ host = Absent
    /\ IF part = "actions" THEN BusinessInit ELSE acts = Absent /\ scope = Absent /\ sending = Absent
    /\ IF part = "remote" THEN RemoteInit ELSE repo = Absent /\ pubs = Absent /\ upstream = Absent
    /\ IF part = "browser" THEN ComputersInit ELSE session = Absent
    /\ IF part = "searches" THEN ResearchInit ELSE lookups = Absent /\ standing = Absent /\ turn = Absent
    /\ IF part = "public" THEN AskInit ELSE ask = Absent /\ site = Absent
    /\ IF part = "host" THEN ProvisionerInit ELSE serving = Absent /\ receipts = Absent /\ account = Absent /\ project = Absent
    /\ IF part = "grants" THEN AskGrantsInit ELSE permit = Absent /\ office = Absent /\ today = Absent
    /\ IF part = "requests" THEN AskWireInit ELSE dealings = Absent /\ attempts = Absent /\ line = Absent /\ far = Absent
    /\ IF part = "withdrawals" THEN AskControlsInit ELSE book = Absent /\ safe = Absent /\ web = Absent /\ clock = Absent

EffectsNext ==
    \/ part = "accounts" /\ InfrastructureNext /\ UNCHANGED <<part, businessVars, remoteVars, session, researchVars, askVars, provisionerVars, publicVars>>
    \/ part = "actions" /\ BusinessNext /\ UNCHANGED <<part, infraVars, remoteVars, session, researchVars, askVars, provisionerVars, publicVars>>
    \/ part = "remote" /\ RemoteNext /\ UNCHANGED <<part, infraVars, businessVars, session, researchVars, askVars, provisionerVars, publicVars>>
    \/ part = "browser" /\ ComputersNext /\ UNCHANGED <<part, infraVars, businessVars, remoteVars, researchVars, askVars, provisionerVars, publicVars>>
    \/ part = "searches" /\ ResearchNext /\ UNCHANGED <<part, infraVars, businessVars, remoteVars, session, askVars, provisionerVars, publicVars>>
    \/ part = "public" /\ AskNext /\ UNCHANGED <<part, infraVars, businessVars, remoteVars, session, researchVars, provisionerVars, publicVars>>
    \/ part = "host" /\ ProvisionerNext /\ UNCHANGED <<part, infraVars, businessVars, remoteVars, session, researchVars, askVars, publicVars>>
    \/ part = "grants" /\ AskGrantsNext /\ UNCHANGED <<part, infraVars, businessVars, remoteVars, session, researchVars, askVars, provisionerVars, wireVars, controlVars>>
    \/ part = "requests" /\ AskWireNext /\ UNCHANGED <<part, infraVars, businessVars, remoteVars, session, researchVars, askVars, provisionerVars, grantVars, controlVars>>
    \/ part = "withdrawals" /\ AskControlsNext /\ UNCHANGED <<part, infraVars, businessVars, remoteVars, session, researchVars, askVars, provisionerVars, grantVars, wireVars>>

EffectsSpec == EffectsInit /\ [][EffectsNext]_EffectsVars

\* Questions are alike, and so are their withdrawals, browser sessions, and
\* requests for an account.
EffectsSymmetry == UNION {Permutations(Questions), Permutations(Controls), Permutations(Sessions), Permutations(CreateOps)}

\* What is not followed: a public service that is held, as nothing releases it,
\* or whose questions are all withdrawn, and a journal that was torn.
Followed ==
    /\ part = "public" => ~ask.held /\ site.withdrawn # Questions
    /\ part = "grants" => ~office.torn

-----------------------------------------------------------------------------
(* Properties: those of the components, joined where they say one thing.   *)

\* The types of the ten components, each where it moves.
EffectsTypeOK ==
    /\ part = "accounts" => InfrastructureTypeOK
    /\ part = "actions" => BusinessTypeOK
    /\ part = "remote" => RemoteTypeOK
    /\ part = "browser" => ComputersTypeOK
    /\ part = "searches" => ResearchTypeOK
    /\ part = "public" => AskTypeOK
    /\ part = "host" => ProvisionerTypeOK
    /\ part = "grants" => AskGrantsTypeOK
    /\ part = "requests" => AskWireTypeOK
    /\ part = "withdrawals" => AskControlsTypeOK

\* HQ never forgets what the provisioner did or may have done for a worker,
\* whose task waits for an answer only while one can still come, and who is
\* not at work once the host has closed the account (infrastructure.ts).
HostTold == part = "accounts" => HostIntent /\ AnswerPending /\ AtWorkWithAccount

\* What HQ records of an external action (business.ts), a publication
\* (remote-git.ts) or a protected web request (computers.ts) is what happened,
\* whatever answer was lost, late or inspected again, and none is sent twice.
OutcomesTrue ==
    /\ part = "actions" => OutcomeTrue
    /\ part = "remote" => PublicationTrue
    /\ part = "browser" => ProtectedOnce

\* What is unknown holds its place: nothing else is sent to the document
\* (business.ts:65), no other lookup or execution of the worker starts
\* (research.ts:182-197), and a browser that may still be open keeps every
\* other session waiting (computers.ts:70-75), through failures and restarts.
UnknownFences ==
    /\ part = "actions" => UnknownFenced
    /\ part = "searches" => AbandonedSearchLast
    /\ part = "browser" => OneBrowser

\* A public answer is of a turn that ended and was counted, is called
\* delivered only when the website took it, and leaves HQ only while its
\* question is not withdrawn.  Turns are charged to the grants in full and the
\* journal always has room for their outcome (authority-journal.ts); of the
\* website HQ concludes only what it did (coordinator.ts); and what is
\* withdrawn never comes back into the private store (private-content.ts).
AskTrue ==
    /\ [](part = "public" => OnePublicTurn /\ AnswerAccounted)
    /\ [](part = "grants" => ChargedTruly /\ RoomForOutcomes)
    /\ [](part = "requests" => WireTrue)
    /\ [](part = "withdrawals" => WithdrawnForGood)
    /\ [][part = "public" => SentBeforeWithdrawal]_EffectsVars

\* The provisioner does what it is asked once, through crashes and repeated
\* requests, and what it closes stays closed.
HostKept == [](part = "host" => DoneAsReceipted) /\ [][part = "host" => ClosedForGood]_EffectsVars
=============================================================================
