# BotSquad HQ: a verification project

BotSquad HQ is one Node process that runs a small company of AI workers. The
owner gives objectives; workers execute tasks through provider turns (Codex),
delegate, wait for their children, are reviewed and retired. SQLite holds every
fact that must survive; a dispatcher in memory decides what runs now. Around it
stand Git repositories, a root provisioner on the host, external documents, a
browser, a public website, a gateway to financial data and a paper portfolio.

The modules here model the source under `src/src` (and the provisioner and
watchdog, which are Python). `PROJECT.json` maps every definition to the lines
it stands for, lists the runs, the mutant of the code each property must catch,
the hazards of the code at their lines, and the theorems.

## 1. Inventory

| Part | State it keeps | Operations | What makes it correct | Module |
|---|---|---|---|---|
| Company (`control/company.ts`, `domain/model.ts`) | tasks, executions, attempts, workers, wake events, pause (SQLite) | assign, claim, finish, retry, cancel, pause, recover, tool calls | one running execution per worker and task; parents wake; handed-back results stay; final is final | `Company` |
| Dispatcher (`control/dispatcher.ts`) | `running` map, `scheduled`, `stopped` (memory) | kick, drain, runner, interrupt, start, stop | no lost kick; memory and database agree; every execution ends | `Company` |
| Codex adapter (`runtime/codex.ts`) | thread, turn, timers, tool callbacks of one run | bind, record the attempt, transmit, complete, interrupt, deadline | one truthful result per turn; never two turns that may both run on one worker | `Company`, `CodexTurn` |
| Engineering (`control/engineering.ts`) | repositories, allocations, submissions, review rounds, integrations; worktrees | allocate, submit, review, revise, queue and process integrations, release, recover | only reviewed, latest commits integrate; one integration per repository; merge and record agree after a crash | `Engineering` |
| Conversations (`control/conversations.ts`) | conversations, requests, sessions, peer deliveries, continuations | send, claim, bind, reply, peer message, finish, cancel, recover | one reply per request, a private session per generation, no stuck delivery | `Conversations` |
| Discussions (`control/discussions.ts`) | groups, turns, rounds, holds | start, speak, progress, intervene, extend, synthesize, recover | a group always has a next turn; its conclusion has read everything said | `Discussions` |
| Mandates and clock (`control/mandates.ts`, `company-clock.ts`) | mandate, cycles, tasks, occurrences, deadlines | pass, coalesce, expire, pause, finish, back off | one due review at a time, none lost, no work after the end | `Mandates` |
| Infrastructure (`control/infrastructure.ts`) and the provisioner (`deploy/provisioner`) | approvals, operations, chores; accounts, clones, receipts | request, decide, apply, reconcile, expire, revoke; create, prepare, write, commit, close | an approved operation is done once; HQ never forgets what may have been done | `Infrastructure`, `Provisioner` |
| Business actions (`control/business.ts`) | grant, actions, attempts | propose, decide, transmit, expire, reconcile, recover | what is recorded is what happened; what is unknown blocks its document | `Business` |
| Remote Git (`control/remote-git.ts`, `projects.ts`) | repository row, clone, publications with approvals | fetch, request, decide, execute, recover | a push is the approved one and is never repeated blindly | `Remote` |
| Computers (`control/computers.ts`, `computer/broker.ts`) | sessions, intents, browser | request, start, capture, decide, stop, recover | one browser; a protected request is sent once | `Computers` |
| Research (`control/research.ts`) | grants, lookups, unresolved searches | call, settle, recover | an abandoned search is the last of its worker | `Research` |
| Public Ask (`control/ask/*`) | authority and control journals, requests to the website, private content | claim, admit, answer, withdraw, prune, recover | public work never exceeds its grant; withdrawn content is gone; nothing false is concluded of the website | `Ask`, `AskGrants`, `AskWire`, `AskControls` |
| Publication (`control/publication/*`) | outbox, sequence numbers, handoff | stage, deliver, reconcile, restart | no gap and no false claim at the receiver | `Publication` |
| Usage and finite journal (`control/usage/*`) | reservations, append-only journal, custody file | reserve, admit, transmit, settle, recover | spending never exceeds the authority | `Finite` |
| Credit pilot (`control/usage/pilot-*.ts`, `scripts/credit-pilot`) | a durable lineage of three stages, a disposable company for each | authorize, prepare, preflight, bind, supervise, release, admit, settle, stop, recover | one turn of each stage, never two at a time, the next only after the last is known to have ended | `Pilot` |
| Investment loop and ledger (`control/investment-loop`, `domain/investment`) | sessions, occurrences, orders; books, entitlements, valuations | tick, research, place, fill, correct, value | missed windows stay missed; accounting identities hold after every event | `PaperLoop`, `Simulator` |
| Market data (`control/market/*`, `scripts/yahoo-history.ts`) | gateway rows and attempts; capsules and permission | request, collect, back off, recover | no call too many, none forgotten | `Gateway`, `Custody` |
| Remote clients (`control/remote-clients.ts`, `http/client-api.ts`) | devices, tokens, keyed requests, event feed | pair, challenge, call, revoke, stream | an operation once per key, no silent gap | `Clients` |

How they interact: every part calls `Company` and shares its SQLite store; a
store transaction is atomic and a handler runs to its next `await`, so
concurrency is between handlers. `company.changed()` is the only callback into
the dispatcher, which is why a forgotten one loses work. The drain of the
dispatcher calls the `progress` of the other services first and claims
executions after. The provider, the provisioner, Git and the public receivers
are outside: they can be slow, silent, or have done the work whose answer was
lost.

The hard behaviours are the crash between two commits, the answer that never
comes, the kick that is dropped, the late effect of a request given up, the row
read before an `await` and used after it, and the result that arrives after
somebody acted on its absence. `PROJECT.json` lists them under "hazards".

## 2. Modules

**Core.** `Company.tla` has the company operations on research, product, spec and
delivery tasks, the dispatcher and a runner of the Codex adapter.

* SQLite tables are functions from ids (`tstatus`, `treason`, `tparent`, ...,
  `estatus`, `etask`, `ebound`, `attempt`) and survive `Crash`. Dispatcher and
  adapter memory (`dispatch`, `scheduled`, `phase`, `aborted`, `outcome`,
  `settled`) is reset by it. `turn` is the provider's side: "sent" until the
  provider has confirmed the end of the turn.
* One action is one handler, with everything it does in its transaction:
  `Finish` is `Company.finish` with its second call for a rejected completion,
  `recordWake`, `settleParents`, `refreshWorker` and `retireTemporary`.
* `audit()` emits `changed`, so every audited operation kicks (`Kick`). The
  event is delivered by a microtask, before any other handler.
* The drain loop commits once per claim. It is modelled claim by claim
  (`BeginDrain`, `Claim`, `EndDrain`) with all other handlers held off
  (`HQFree`), so that a crash can fall between two claims. `DrainFails` is the
  catch block that pauses the company.
* A runner goes admitted, bound, intent (the attempt row), turn, closing.
  `RunnerGivesUp` stands for start-up errors, the deadline, the interrupt timer
  and a closed transport. It never resolves the attempt.
* `treason` keeps only the roles `blocking_reason` has in the control flow. The
  integration queue is abstracted to its wake-up: `BeginDrain(W)` requeues the
  deliveries whose integration has settled. `Deliverable` has an `evidence`
  input for what lies in other modules.

`TaskLedger.tla` is the abstract specification: who may hold a task, when a task
may be closed over its children, when a returned result may be reopened. It
knows no execution, provider or process. `Company!Ledger` instantiates it with a
refinement mapping on task statuses; `LedgerSpec` says that Company implements it.

**Engineering.** `Engineering.tla` models one managed repository:
`control/engineering.ts` with the parts of the company and the dispatcher it
relies on.

* A delivery task, one engineering task per allocation and one review task per
  round are tuples (`Delivery(d)`, `Work(a)`, `Review(r)`); their rows are
  `tstatus`, `reason`, `dispatch` (deliveries only) and `fresh` (the children a
  delivery's latest execution created, which it has to wait for).
* One action is one commit to SQLite or one effect on Git. A handler that makes
  several is a chain of actions, and `step` and `on` say where it is:
  `AssignEngineering` then `AddWorktrees`; `BeginCommit` then `RecordCommit` or
  `CommitFails`; `StartIntegration`, `BuildCandidate`, `MergeCandidate`,
  `CompleteIntegration` (or `RefuseIntegration`, `FailIntegration`,
  `FailAfterMerge`, `BlockRepository`) and `WakeDelivery`. The handlers are
  synchronous, so every other one waits (`Free`), but `Crash` can fall between
  any two actions.
* A commit of the default branch is the sequence of rounds merged into it.
  `head` is what Git has, `current` what the database has recorded; whether they
  agree is what recovery has to find out. A worktree is "clean" (its last
  submission or base), "dirty" or "committed".
* `FinishReview` is `Company.finish` with `afterFinish`; `StoreTasks` is the
  trailing `settleParents`; `Start` is `Company.recover` followed by
  `Engineering.recover`. `FinishThrows` is the end of an execution whose task
  was moved under it: the second `finish`, in the catch block of the runner,
  throws too, and the unhandled rejection ends the process.
* Test recipes, path scopes, diff bounds and cherry-picks are outcomes.

`TrustedBranch.tla` is the abstract specification of it: a change is proposed,
approved, then merged or abandoned, once, and the branch only grows by approved
changes. `Engineering!Trusted` maps the branch to `head` and each round to its
`Fate`. A merge whose record failed counts as merged, though its integration is
"blocked": the branch has it.

How the two meet. Company abstracts the integration queue to the wake-up of a
delivery; Engineering abstracts the runner to `Claim` and the end of an
execution, and the product task above a delivery to its assignment. Both model
`claimNext`, `finish`, `settleParents`, `retry` and `cancel` for their own tasks.

**What is said** (composed by `MCTalk`). `Conversations`: direct requests, peer
questions with the continuation that waits for their answer, private sessions
with their generations and rollover. `Discussions`: a working group, the owner's
or a mandate's, from its launch to its final synthesis, with the owner's
interventions and exports of evidence, the round in parallel, and members busy
with a turn of other work. `Mandates`: cycles and their envelope, the internal
work and the external action of a cycle, occurrences of a schedule, the pass of
the dispatcher, the owner's controls. The rows are one record, and the handlers
are operators from rows to rows, which the pass composes in the order of the
code. `Clients`: a paired device, its keyed requests and its event feed, handled
in steps with an `await` between them. `CodexTurn`: one `runTurn()` with
notifications before the answer that names the turn, late tool callbacks,
deadlines and aborts; the stretch between two awaits is one action. What was
buffered until the turn's id is known is replayed by two recursive functions
(`HandleRequests`, `HandleEvents`).

**What is done outside** (composed by `MCEffects`). `Infrastructure` and
`Provisioner` are the two sides of a protected operation: HQ's call blocks, so it
is one step there, with every point at which the answer may be lost (`Handle`);
the daemon is followed write by write in the other. `Business`, `Remote`,
`Computers` and `Research` have a request that is recorded before it is sent, an
effect that may come late, and a recovery that may only ask or fence. `Ask` has
three stores that commit one after the other; `AskGrants`, `AskWire` and
`AskControls` follow its authority journal, its requests to the website and its
withdrawals.

**What is invested** (composed by `MCMarket`). `Finite` is the journal of a
bounded authority with its custody file; `Pilot` the three turns paid from
credits, with any number of the owner's commands at work on the lineage and the
company of a stage, the two committing one after the other; `Custody` the owner's command that
collects prices under a watchdog; `Gateway` the attempts of the data gateway;
`PaperLoop` the schedule of a paper run, `Simulator` its ledger over late,
corrected and contradicting evidence; `Publication` the delivery of a run's
journal to a receiver.

The header comment of each module says which files it is from and what it
abstracts. The components of `MCTalk`, `MCEffects` and `MCMarket` share no state in
their models (what one needs of another is an input or an outcome), so each is
explored on its own: `part` says which one moves and the variables of the others
hold `Absent`. Exploring them together would multiply their states and show
nothing more.

## 3. Runs

| Run | Instance | Shows |
|---|---|---|
| `company` | CEO and researcher, two tasks, four executions, one disturbance; or CEO, temporary PM and CTO on the whole product pipeline | types, fence, wake-ups, frozen results, agreement of memory and database, kicks, fresh status, stages, finality, the ledger |
| `company_liveness` | CEO and researcher, 2 tasks, 2 executions, 1 slot, no constraint | executions end, queued work starts |
| `engineering` | 1 delivery, 2 engineers, 2 rounds, 2 slots, any number of faults | types, branch and record, frozen packets, wake-ups over revisions, the trusted branch, queued integrations settle |
| `deliveries` | 2 deliveries, 2 engineers, one each, 1 round, 2 slots, one spoiled task | delivered work, one live allocation per engineer, a stale base |
| `talk` | two workers, a group of two, one mandate, one device, one provider turn | no orphan continuation, private contexts, groups conclude, reviews kept, turns told, answers once, clients told |
| `effects` | one worker and Nix, one document, two sessions, lookups, publications and questions | outcomes true, unknown effects fence, host told, Ask, the provisioner |
| `market` | two jobs, three finite turns, two commands on the three stages of the pilot, two capsules, two gateway requests, two trading days | channel, spending and credit turns, collection, paper loop and ledger |
| `lost_integration_wake`, `temporary_engineer`, `blocked_publication`, `stale_reservation`, `late_split` | as small as each needs | five disagreements between code and documents, below |

Why the bounds are enough. Each bound lets the hazards happen and one step more:
two of everything that competes (tasks, requests, a document's actions, sessions,
publications, questions, orders), one retry or round after the first, and a crash
in every state. Where faults are bounded, a predicate on states does it
(`OneCompany` with `MaxFaults`, `FewFaults`), so that every behaviour up to the
bound is complete; liveness is checked without a constraint. For Company two
tasks make a parent and a child, and four executions let the parent run, wait,
review and be retried, or the child fail and be retried while the parent
reviews; three tasks are the whole product pipeline and five executions its
shortest path with one more review. For Engineering two engineers let one be
sent back while the other's work stands; two rounds let a review be refused,
revised and approved, or meet the limit; two deliveries are what a stale base, a
second use of an engineer and a full writer ceiling need. In `talk`, `effects`
and `market` the ticks of a clock are counted up to one past the last deadline.

Constraints, where an instance is cut: the states they cut are still checked,
only their successors are not generated. `Followed` of `MCEffects` does not
follow a public service that is held (nothing releases it), whose questions are
all withdrawn, or a journal that was torn. `TalkFollowed` follows a conversation
whose owner has changed it with two requests at most and no session rolled over,
a mandate with one piece of work, one action or one retried failure between its
cycles, and a member busy with other work only in a group of the owner without
interventions. (A mandate of the instance may run three turns in two cycles of
two ticks; one task and one group are its envelope.)
`Followed` of `MCMarket` does not follow a paper loop that is stopped, finished or
unclear, follows the ledger along three lines (two orders, the benchmark, a run
that is stopped: `LedgerFollowed`), and lets the processes of one capsule run fail
at a time. The theorems know none of these bounds, constraints or symmetries.

Symmetry is used where only safety is checked and the members are alike:
engineers in `deliveries`, workers and the calls under way in `talk`, questions,
controls, sessions and creations in `effects`, capsule runs and the pilot's commands in `market`. Workers
of Company differ in role, lifecycle and priority, so it is not used there.

Deadlock is checked in the Engineering runs. It is off elsewhere because ids
and clocks run out: a company whose tasks and executions are all used, or a
mandate at the end of the clock, has nothing left to do.

Fairness of Company (`Fairness`). A pending `setImmediate` runs and the drain loop ends
(weak fairness of `DrainStep`); systemd restarts HQ (weak fairness of `Start`);
a runner whose callback stays possible is served, because the event loop is fair
and the adapter's deadline closes every turn (strong fairness of `RunnerStep(e)`,
since drains disable it again and again). Nothing is assumed of the provider or
the owner: `RunnerGivesUp` can always take the place of `ProviderReports`.

Fairness of Engineering. A handler that has begun goes on unless the process dies
(weak fairness of `AddWorktrees` and of the end of a commit), the service manager
starts HQ again (weak fairness of `Start`), and the queue, which every drain runs
first, is not kept from a step by endless restarts (strong fairness of
`QueueStep(r)`). Nothing is assumed of owner, workers, Git or recipes.

What the violation runs show.

* `lost_integration_wake`: HQ dies after an integration has settled and before
  `wakeIntegration`. Recovery looks at running integrations only, so the delivery
  stays blocked on `waiting_integration`. The owner can see and retry it.
* `temporary_engineer`: a temporary engineer is retired by its first completion;
  a revision requeues a task that no worker will be started for.
* `blocked_publication`: a blocked publication whose approval then expires makes
  `expire()` abort, and every later call with it.
* `stale_reservation`: an order is pending over a close that is not valued yet; a split
  or dividend of that time, announced later, cancels it and posts. `reduce()` dates the
  state to the action and not to the command, so the close may still be valued, and its
  valuation saves the reservations of now. `LedgerTrue` (`ReservedTruly`) says that this is
  the only way a first valuation differs from its close.
* `late_split`: a split dated before a dividend that was announced first is applied, and
  the dividend stays owed on the count before the split. `LedgerTrue` (`EntitledTruly`)
  says that nothing else makes an entitlement wrong.

## 4. Theorems

TLC checks one instance of each run; the theorems hold for every value of the
constants that satisfies the assumptions. These are `CompanyAssumption`,
`EngineeringAssumption`, `ConversationsAssumption`, `DiscussionsAssumption`,
`MandatesAssumption`, `CodexTurnAssumption`, `FiniteAssumption`, `PaperAssumption`, `PublicationAssumption` and their like, one per module that needs any, as weak as the
code justifies (bounds are numbers, the human is not a worker, a question can be
answered no longer than its control is remembered), and TLC evaluates them on
every run. No property is inductive as it stands; below is what each proof adds,
and why. A proof has one lemma per handler and a step per conjunct that the
handler can disturb.

**Company** (`CompanyProofs`). `IInv` is the type invariant
and what the tables say of one another (`TasksOK`, `ParentsOK`, `ExecsOK`,
`WorkOK`, `TurnsOK`). `Fenced` needs that a turn that may be running has an
unresolved row, that a worker with such a row has no other one and runs nothing
else, and that a runner that closes as settled has seen its turn end.

* `TypeCorrect`, `Fenced`, `WorkOwned`: consequences of `[]IInv` (`Inductive`).
* `KicksKept`, `WakeupsKept`, `ResultsKept`, `StagesKeptInOrder`: each property is
  inductive once `IInv` is known. A wake-up cannot be lost because whoever closes the
  last child runs `settleParents` in the same transaction; a kick cannot be lost
  because every handler either kicks the dispatcher or leaves what can start as it
  was.
* `StatusKept` needs in addition that a worker not hired yet is recorded as idle
  (`Unhired`).
* `FinalKept`, a property of steps: only a claim starts an execution (`OnlyClaimStarts`).
* `ImplementsLedger`: every step of Company maps to a step of `TaskLedger` or to a
  stutter under the refinement mapping.

**Engineering** (`EngineeringProofs`).

* `TypeCorrect` and `WakeupsKept`.
* `BranchKept`. `BranchInv` adds what the queue's step says of the branch
  (`Position`: one integration runs; a built candidate sits on the recorded commit,
  which is the branch), that the intents are different queued integrations
  (`Queued`), and that a branch ahead of the record is so by one attempt that is
  blocked or about to be recorded (`Ahead`). At recovery, `StartCases` shows that a
  merge that recovery completes is that attempt: it cannot be in the record yet,
  so the branch is ahead, and appending is injective.
* `KeepsTrust`, the refinement of `TrustedBranch`. Beside `BranchInv` it needs that
  an integration exists for an approved round only (`ApprovedFirst`) and that no
  step undoes an approval (`HandlersReview`, `QueueReview`): `TrustedInv`.
* `ReviewFrozen`, `DeliveryKept`, `WritersKept`. `ReviewInv` adds to `TrustedInv` the
  history of an allocation's rounds (`RoundsInv`: what was written, one round after
  the other, under review or held by its engineer, judged once) and that a round is
  taken up before it is reviewed (`Taken`). `WritersInv` counts the allocations that
  may still write.

**What is said** (`TalkProofs`, `MandatesProofs`).

* `NoneOrphaned`, `ContextsPrivate`, `RepliesForGood`. `ConversationsInv` relates
  requests, replies and deliveries (`RepliesInv`: linked, placed, reserved and
  answered), fences a worker with an unaccounted turn (`WorkerFenced`), and has one
  generation of a session (`OneGeneration`).
* `GroupsKept`. `GroupInv` says which turns were spoken, that a batch is one round,
  who has the last word, and that the final synthesis comes after it.
* `ReviewsDone`. `MandateKept` says that a version of the schedule has one occurrence
  to come, which is why a due instant is added to one and none is lost (`Counted`: the
  instants of the occurrences are those that were consumed), that a review which
  commits to end its cycle had decided and was shown all its work (`EndsWell`), and
  so had a cycle that was closed (`ClosedWell`). Most operators only let the rows
  move forward (`MandateFollows`), so a pass, which composes them, needs one lemma for
  each. That all work is *done* is claimed of tasks only: the owner may reopen a
  group that was blocked (`discussions.ts:139`) after its cycle has closed.
* `TurnsTold`. `TurnInv` says that a report of the end of a turn is true wherever it
  is (on the wire, buffered, handled: `EndTrue`) and comes after all its requests
  (`EndLast`), that a call which is counted, buffered or unread was sent
  (`CallsSent`), and that a turn runs only once its start was transmitted. The two
  recursive functions are shown to have a value on every buffer by their smallest
  counterexample (`RequestsRun`, `RequestsSound` and their like for events), as
  induction itself is not available.
* `ClientsKept`. `ClientsInv` holds the rows of devices, calls and events, that what
  a call has read is still remembered, and that events are in order.
* `TalkTyped`, and `MandatesTyped` for a mandate by itself: the types of all five.

**What is done outside** (`EffectsProofs`). `EffectsInv` is the invariant of the part
that moves; that of another is kept because nothing touches its state.

* `AccountsAccounted`. `StaffKept` relates a worker's row, its account and its
  clone, `OpsKept` the operations. The hard part is that the host's answer may be
  lost at any point: `StaffKept` is kept by any request that is `Proper`, whatever
  it leaves behind (`HandledWell`), and by its answer, whenever that comes
  (`AnsweredKept`).
* `OutcomesRecorded`, `UnknownsHold`: one predicate per row (`ActionKept`,
  `LookupKept`, `SessionKept`, `PushKept` with `PushTold`) and what relates the rows:
  one action is sent at a time, only the last lookup may run, one browser.
* `HostOperationsKept`. `ProvisionerInv` says what is known at each step of a
  request (`Served`), which request has done what (`Achieved`, which later ones do
  not undo), and that commits follow their heads. That what is closed is never
  opened again is a property of steps and follows from it.

**Public questions** (`AskProofs`).

* `AnswersTrue` has four inductive invariants. `AskInv` (a question through the three
  stores) speaks of any commit: `AskKept(s, t)` is about a state `s` of HQ's stores
  and `t` of the outside, a handler keeps it if each of its commits does, and so a
  crash after any of them does (`RunsOne` to `RunsFive`, `RunsApplied`); between
  handlers `TurnCounted` holds as well. `GrantsInv` (the journal) ties the room that
  is left to the turns that are not settled, and a grant's charges to the turns of
  its day. `WireInv` (requests to the website) says what is known at each stage of an
  exchange while requests given up may still arrive: a late arrival only adds to
  what the website took, and all that may arrive is marked. `ControlsInv`
  (withdrawals) says how far HQ has read the website's list without a gap (`Seen`),
  through cursor, request, page and barrier; `StoresKept` holds at every commit, and
  after those of `clean()` nothing withdrawn is stored (`CleanedKept`), which is
  why forgetting a control cannot bring its question back. That an answer leaves
  HQ only while its question is not withdrawn is a property of steps: only
  `SendAnswer` puts one on its way (`OnlySendFlies`), and it cleans first.
* `EffectsTyped`: the types of all ten components.

**Money and data** (`MarketProofs`). `MarketKept` is the invariant of the part that moves.

* `SpendingAllowed`. `Spending` relates the journal of the finite authority, the books
  of HQ and what is beyond both: whatever is outside was counted, at most one effect
  has no known end (`OneOpen`), turns are taken in order (`InOrder`), and what the
  journal settles has ended. A step that commits to several stores keeps it if it
  does both when all is done and when only the journal was written
  (`CommitsKept`), which is every place a crash can fall.
  For the credit pilot (`PilotKept`) each stage has a predicate over its lineage row,
  its company, the provider and what was sent (`StageTrue`), and each command what
  it relies on (`CommandTrue`): who runs a turn holds its reservation alone
  (`OneRunner`). A step touches one stage (`StageMoves`), so its proof is about that
  row. The stops of a failed preparation and of the first stage's preflight ask
  for no claim in the code, so `ClaimRespected` speaks of the later stages only,
  and not of the former.
* `CustodyOnce`, for the gateway: `GatewayKept` says that the attempt which may be sent
  is the last one and is not sent yet (`Counting`), when an inquiry's last call was
  made (`Spacing`), and that an attempt of unknown outcome is the last one of the
  inquiry under way or of a request that is never settled (`Knowing`). That nothing is
  repeated before its outcome is known is a property of steps (`GatewaySends`).
* `CustodyOnce`, for the owner's command: `CustodyKept` has for each run what its data
  process, the unread messages, the supervisor's answer and the watchdog say of one
  another (`Talks`), and what it has on disk and on the ledger (`Holding`). A data
  process on the wire has no unread message and no answer on its way, which is why
  the watchdog can only have been told of this request; and a recovery finds the
  process that spent the approval gone, which is why it takes no capsule in use
  (`RunStepKept`).

**Investment** (`InvestmentProofs`).

* `LoopHeld`. A tick runs the agenda of a day on a copy of the state and commits it in
  one transaction, so the operations are predicates of copies: `Held` is kept by each
  of them, and `Stays` (an occurrence or an order that ended is not touched again) is
  transitive. The agenda is a fold over its items; that it keeps both is shown by the
  smallest item at which it would not. `Held` has to say which turns may still run: one
  whose loop has been held can report late, and must find nothing to write to.
* `ChannelContinues`. A batch is identified by its number and its content, and
  `ChannelKept` says of each store that may come back (the rows, a backup of them,
  the permit of a clean stop) how it relates to the receiver: two that share a batch
  share all before it (`Agree`), and what is held of any came in its order
  (`Continued`). A request of a dead HQ fits all of them or is held already (`Fits`);
  whoever may deliver again does so under a generation that the request does not have,
  or with a permit that was written after it was answered (`LateKept`, `PermitKept`).
  The watermark of a reconciliation then shows that the rows are the receiver's whole
  history (`Told`).

**Only model-checked.**

* Liveness (`ExecutionsEnd`, `QueuedWorkStarts`, `QueuedIntegrationSettles`), ENABLED
  and induction over data are out of the prover's reach.
* `LedgerTrue`: cash and shares are sums over the events of a session, and that a
  correction leaves the sum it should needs such sums to be reasoned about by
  induction over the events.
* `MarketTypeOK` joins the types of the ledger to those of the other components of
  the run, whose invariants imply them.

## 5. Not modelled, and why

* The business of a worker's turn: prompts, evidence, reports, the AI profile, reading
  tools. They change no state that another part depends on.
* Engineering: the legacy fixture (a regression adapter that processes the queue inside
  the tool call), `create_repository`, Linux clones that wait for an approval (the
  approval is in `Infrastructure`), the content of commits, scopes and validation.
* The receipts of tool calls (one effect per execution and call id,
  `company.ts:522`): a tool call is one action that happens once.
* Mandates: the owner's read-outs, what a review reads and cites (a decision is a flag),
  daily recurrence and its time zones, a second schedule. Discussions: bodies,
  citations and the content of evidence, the hooks of investment groups.
  Conversations: listing, size and rate bounds, attachments.
* Projects: drafts, activation, recipes, register(). Infrastructure: parsing, sandbox rules.
* Credit pilot: the content of archives and digests, which an action takes as what they
  must show of the stage before; clocks and an unreadable lineage are refusals.
* Finite journal: renewals, recovery releases and the continuation of a retired
  authority; Investment: the arithmetic of prices, limits and ratios, amendments of an
  observed run; Market data: provider protocols and parsing, the connectivity probe.
* Ask: signatures, digests, budgets of tokens, routing and visibility of evidence.
* HTTP routing, the browser client (`public/app.js`), generated contracts, tables of
  field names: pure I/O or data. Migrations: they run once, before anything else.

## 6. What the models show beside the properties

Behaviours of the code that the models have and no run checks, because nothing in the
repository clearly promises otherwise, or the promise is about wording; the first two
contradict it (`SYSTEM_ARCHITECTURE.md:199`, `COMPANY_OPERATING_LOOP.md:160`).

* Engineering. With two slots a review can end at the round limit while the CTO executes
  the delivery. `afterFinish` (`engineering.ts:408`) blocks the delivery's task under the
  running execution, whose end `assertTransition` (`model.ts:83`) refuses twice, which ends
  HQ (`FinishThrows`).
* Mandates. A mandate that ends while a review is queued but not dispatched cancels the
  cycle and leaves the occurrence queued for ever (`mandates.ts:82`), and `nextWake()`
  returns its past time on every pass.
* Engineering. A failed review can neither be assigned again (`assignReview` returns
  the earlier task) nor be retried once its result was handed back. A revision that
  submits nothing new leaves its allocation blocked. An allocation that is submitted
  or reviewed cannot be released after its delivery has failed, unless its task was
  cancelled, so it keeps its engineer. After a crash between blocking an integration
  and blocking its repository the repository stays "ready" ahead of its record, and
  every later guard refuses to act on it.
* Projects. `release()` of a cancelled allocation whose prepare operation is running sets
  its binding to "revoked" without asking the host; a later `reconcile()` sets it
  "ready" again (`infrastructure.ts:214` is unconditional). `processRevocations` (262)
  skips released allocations, so such a temporary worker's revocation stays pending
  for ever, while `assertRetirable` accepts "released".
* Discussions. `revokeMember` and `withdrawEvidence` put an archived group into
  "blocked", though `docs/architecture/WORKING_GROUPS.md:110` calls it read-only.
* Remote Git. `fetch` merges the clone before it writes the row (`remote-git.ts:105`): a
  crash between leaves HEAD unlike `current_commit`, and `verified()` refuses everything.
* Publication. `reconcile()` of a restored copy whose untried first batch is already held
  leaves it "queued" without need of a receipt, so it is written again (the receiver
  absorbs it), although the comment at `publication/service.ts:217` says that a pending
  batch is reconciled before it is sent again.
* Ask. `prepareSync` drops the barrier (`control-journal.ts:100`) 15 s before it ends,
  and until the page is accepted every `authorize()` of a running public turn fails, so
  `maintenance()` (`ask/service.ts:312`) interrupts it or `finish()` (223) suppresses its
  complete answer. An owner's pause and a repeated revocation have no reserved room in
  the authority journal. A grant's total limits never bind above its daily ones, as it
  lasts a day at most. An HQ that is down for longer than suppressions are retained,
  with an abandoned request or an unacknowledged control, holds for ever (`horizon()`).
* Provisioner. A failed prepare cannot be revoked; a revocation interrupted and
  followed by a disable can never complete under its id; a prepare whose receipt was
  lost before a revocation is rejected for ever, so HQ's operation stays "running".
* Custody. A crash between the capsule's mkdir and `capsule.json` leaves an empty capsule
  that recovery refuses to remove. Gateway: the spacing of actual calls is kept within
  an operation; across operations only the start times of rows are spaced.
* Simulator. Ids of rejected operations are journalled and used up. A benchmark dividend
  recorded after the next opening window expired leaves `benchmarkNextOpen` on a session
  that can never be executed, and one paid after the last opening stays a lot without a
  session, which no opening may spend.

## 7. What could follow

1. The paper ledger with its sums over sets instead of recursion, and the theorem of its
   conservation.
2. The receipts of tool calls in `Company`, renewals in `Finite`, Linux clones in
   `Engineering` composed with `Infrastructure`.
