----------------------------- MODULE Computers ------------------------------
(***************************************************************************)
(* Computer sessions: one browser at a time under a policy the owner       *)
(* authorized, and protected requests of a page that are captured, decided *)
(* by the owner and sent at most once.                                     *)
(* Source: src/control/computers.ts, computer/broker.ts, and claim, finish *)
(* and recovery of their tasks in control/company.ts.                      *)
(*                                                                         *)
(* The steps between two awaits are one action; stop() runs in the step    *)
(* that calls it.  All sessions belong to one operator.  Abstracted: URLs, *)
(* pages and their hashes, the network that only reads, budgets and timers *)
(* (a stop that may come at any time), screenshots and evidence.           *)
(***************************************************************************)
EXTENDS Integers, FiniteSets

CONSTANT Sessions

VARIABLE session   \* per session: its rows, its environment, its tool call, the broker's browser

computerVars == session
Over == {"completed", "denied", "interrupted", "expired", "failed", "unknown"}
LiveSession == {"provisioning", "active", "awaiting_approval"}
Undecided == {"captured", "pending", "approved"}
Done == {"completed", "failed", "cancelled"}

ComputerSession == \* the control columns of a session with its grant, task and intent, and what the broker has of it
    [st : {"none", "requested", "ready"} \cup LiveSession \cup Over, grant : {"none", "given", "over"},
     task : {"none", "queued", "blocked", "working", "awaiting_approval"} \cup Done,
     exec : BOOLEAN, confirmed : BOOLEAN,
     intent : {"none", "transmitting", "completed", "denied", "cancelled", "unknown"} \cup Undecided,
     sent : 0..2, hit : BOOLEAN,              \* transmissions of the intent, and its effect
     env : {"none", "launching", "up", "closing"}, finishing : BOOLEAN, browser : BOOLEAN,
     op : {"none", "action", "check", "sent", "finish"}]

ComputersTypeOK == session \in [Sessions -> ComputerSession]

ComputersInit ==
    session = [s \in Sessions |->
        [st |-> "none", grant |-> "none", task |-> "none", exec |-> FALSE, confirmed |-> TRUE, intent |-> "none", sent |-> 0,
         hit |-> FALSE, env |-> "none", finishing |-> FALSE, browser |-> FALSE, op |-> "none"]]

Unknown == \E s \in Sessions : session[s].intent = "unknown"
Authority(s) == session[s].grant = "given" /\ ~Unknown
SessionRow(s, r) == session' = [session EXCEPT ![s] = r]

\* performStop() up to its await; r is the session, already changed by the caller.
Stopped(r, st, finishing) ==
    LET unknown == Unknown \/ r.intent = "unknown" IN
    IF r.st \in Over /\ r.env \in {"none", "closing"} THEN [r EXCEPT !.st = IF unknown THEN "unknown" ELSE @]
    ELSE [r EXCEPT !.st = IF unknown THEN "unknown" ELSE st,
                   !.intent = IF @ \in Undecided THEN "cancelled" ELSE @,
                   !.task = IF @ \in {"working"} \cup Done THEN @ ELSE "blocked",
                   !.env = IF @ \in {"launching", "up"} THEN "closing" ELSE @,
                   !.finishing = finishing]

-----------------------------------------------------------------------------
(* The owner.                                                              *)

RequestSession(s) ==
    session[s].st = "none" /\ ~Unknown /\ SessionRow(s, [session[s] EXCEPT !.st = "requested", !.task = "blocked"])

AuthorizeSession(s, approve) ==
    LET r == session[s] IN
    /\ r.st = "requested" /\ ~Unknown
    /\ SessionRow(s, IF approve THEN [r EXCEPT !.st = "ready", !.grant = "given", !.task = IF @ = "blocked" THEN "queued" ELSE @]
              ELSE [r EXCEPT !.st = "denied", !.task = "cancelled"])

DecideIntent(s, approve) ==
    LET r == session[s] IN
    /\ Authority(s) /\ r.intent = "pending" /\ r.st = "awaiting_approval" /\ r.task = "awaiting_approval"
    /\ SessionRow(s, IF approve THEN [r EXCEPT !.intent = "approved", !.task = "queued"]
              ELSE Stopped([r EXCEPT !.intent = "denied"], "denied", FALSE))

ControlSession(s, revoke) ==
    LET r == session[s] IN
    /\ r.st # "none" /\ (r.st \notin Over \/ (revoke /\ r.grant = "given"))
    /\ SessionRow(s, Stopped([r EXCEPT !.grant = IF revoke /\ @ = "given" THEN "over" ELSE @], "interrupted", FALSE))

CancelTask(s) ==
    LET r == session[s] IN
    r.task \in {"queued", "blocked", "awaiting_approval"} /\ SessionRow(s, Stopped([r EXCEPT !.task = "cancelled"], "interrupted", FALSE))

GrantExpires(s) == session[s].grant = "given" /\ SessionRow(s, [session[s] EXCEPT !.grant = "over"])

-----------------------------------------------------------------------------
(* The worker's execution.                                                 *)

Vacant == \A s \in Sessions : session[s].st \notin LiveSession /\ session[s].confirmed /\ ~session[s].exec

Eligible(s) ==
    /\ Authority(s)
    /\ \/ session[s].st = "ready" /\ Vacant
       \/ session[s].st = "awaiting_approval" /\ session[s].env = "up" /\ session[s].intent = "approved"

\* claimNext() and prepare(), no await between; one execution of the operator at a time.
ClaimSession(s) ==
    /\ session[s].task = "queued" /\ Eligible(s) /\ \A x \in Sessions : ~session[x].exec
    /\ SessionRow(s, [session[s] EXCEPT !.task = "working", !.exec = TRUE])

Calls(s) == session[s].exec /\ session[s].op = "none" /\ Authority(s)

Act(s) ==
    LET r == session[s] IN
    /\ Calls(s)
    /\ \/ r.st = "active" /\ r.env = "up" /\ SessionRow(s, [r EXCEPT !.op = "action"])
       \/ /\ r.st = "ready"
          /\ SessionRow(s, [r EXCEPT !.op = "action", !.st = "provisioning", !.confirmed = FALSE, !.env = "launching", !.browser = TRUE])

Launched(s) ==
    LET r == session[s] IN
    /\ r.env = "launching"
    /\ SessionRow(s, IF Authority(s) THEN [r EXCEPT !.st = "active", !.env = "up"] ELSE Stopped(r, "failed", FALSE))

\* A protected request of the page during an action: recorded, not sent.
CaptureRequest(s) ==
    LET r == session[s] IN
    /\ r.op = "action" /\ r.env = "up" /\ r.st = "active" /\ Authority(s)
    /\ r.intent \notin Undecided \cup {"transmitting", "unknown"}
    /\ SessionRow(s, [r EXCEPT !.intent = "captured", !.sent = 0, !.hit = FALSE])

ActionEnds(s) == session[s].op = "action" /\ session[s].env # "launching" /\ SessionRow(s, [session[s] EXCEPT !.op = "none"])

RequestProtected(s) ==
    /\ Calls(s) /\ session[s].intent = "captured"
    /\ SessionRow(s, [session[s] EXCEPT !.intent = "pending", !.st = "awaiting_approval"])

\* computer_execute_approved: the frozen page is checked, then HQ itself sends the request.
ExecuteApproved(s) ==
    LET r == session[s] IN
    Calls(s) /\ r.st = "awaiting_approval" /\ r.intent = "approved" /\ r.env = "up" /\ SessionRow(s, [r EXCEPT !.op = "check"])

Sendable(s) == session[s].intent = "approved" /\ session[s].st = "awaiting_approval" /\ Authority(s)

Checked(s) ==
    LET r == session[s] IN
    /\ r.op = "check"
    /\ \/ Sendable(s) /\ SessionRow(s, [r EXCEPT !.intent = "transmitting", !.op = "sent", !.sent = @ + 1])
       \/ SessionRow(s, Stopped([r EXCEPT !.op = "none"], "failed", FALSE))

\* The trusted answer is kept whatever authority is left; the page resumes only under authority.
Answered(s) ==
    LET r == [session[s] EXCEPT !.intent = "completed", !.hit = TRUE] IN
    /\ session[s].op = "sent" /\ session[s].env = "up"
    /\ SessionRow(s, IF Authority(s) THEN [r EXCEPT !.st = "active", !.op = "action"] ELSE Stopped([r EXCEPT !.op = "none"], "failed", FALSE))

\* A mutant of Unanswered: the lost request may be decided again.
UnansweredRetry(r) == [r EXCEPT !.intent = "cancelled", !.op = "none"]
Unanswered(r) == [r EXCEPT !.intent = "unknown", !.op = "none"]
AnswerLost(s) == session[s].op = "sent" /\ SessionRow(s, Stopped(Unanswered(session[s]), "unknown", FALSE))

Finish(s) ==
    LET r == session[s] IN
    /\ Calls(s) /\ r.st = "active" /\ r.env = "up" /\ r.intent \notin {"approved", "transmitting", "unknown"}
    /\ SessionRow(s, Stopped([r EXCEPT !.op = "finish"], "interrupted", TRUE))

\* finish() of the execution, after its tool calls were drained.
TurnEnds(s, outcome) ==
    LET r == [session[s] EXCEPT !.exec = FALSE] IN
    /\ session[s].exec /\ session[s].op = "none"
    /\ SessionRow(s, IF outcome # "completed"
              THEN Stopped([r EXCEPT !.task = IF outcome = "interrupted" THEN "blocked" ELSE "failed"], "failed", FALSE)
              ELSE IF r.st = "awaiting_approval" THEN [r EXCEPT !.task = "awaiting_approval"]
              ELSE IF r.st = "completed" /\ r.confirmed /\ ~Unknown THEN [r EXCEPT !.task = "completed"]
              ELSE Stopped([r EXCEPT !.task = "failed"], "failed", FALSE))

-----------------------------------------------------------------------------
(* The browser, its timers and its server.                                 *)

\* Deadlines, idleness and exhausted budgets.
TimerStops(s) == session[s].env \in {"launching", "up"} /\ SessionRow(s, Stopped(session[s], "expired", FALSE))

BrowserDies(s) ==
    LET r == [session[s] EXCEPT !.browser = FALSE] IN
    session[s].browser /\ SessionRow(s, IF r.env \in {"launching", "up"} THEN Stopped(r, "failed", FALSE) ELSE r)

\* browser.close() ends, confirmed or not.
ClosedSession(s, confirmed) ==
    LET r == session[s]
        st == CASE r.intent = "unknown" -> "unknown"
                [] r.intent # "unknown" /\ r.finishing -> IF confirmed THEN "completed" ELSE "failed"
                [] OTHER -> r.st
    IN /\ r.env = "closing"
       /\ SessionRow(s, [r EXCEPT !.env = "none", !.confirmed = confirmed, !.browser = @ /\ ~confirmed, !.st = st, !.finishing = FALSE,
                           !.op = IF @ = "finish" THEN "none" ELSE @])

\* recheckCleanup(): the broker says that it is idle.
CleanupConfirmed ==
    /\ \A s \in Sessions : session[s].env \in {"none", "closing"} /\ ~session[s].browser
    /\ \E s \in Sessions : ~session[s].confirmed
    /\ session' = [s \in Sessions |-> IF session[s].st \in Over THEN [session[s] EXCEPT !.confirmed = TRUE] ELSE session[s]]

ServerActs(s) ==
    LET r == session[s] IN
    r.intent \in {"transmitting", "unknown"} /\ r.sent > 0 /\ ~r.hit /\ SessionRow(s, [r EXCEPT !.hit = TRUE])

\* HQ dies and recovers; the broker's browser may outlive it for a while.
ComputersRestart ==
    LET doubt(r) == [r EXCEPT !.intent = IF @ = "transmitting" THEN "unknown" ELSE @]
        unknown == \E s \in Sessions : doubt(session[s]).intent = "unknown"
        lost(r) == r.st \in LiveSession \/ ~r.confirmed \/ r.exec
        recovered(r) == [r EXCEPT !.intent = IF @ \in Undecided THEN "cancelled" ELSE @, !.st = IF unknown THEN "unknown" ELSE "failed",
                                  !.exec = FALSE, !.task = IF @ \in {"queued", "awaiting_approval", "working"} THEN "blocked" ELSE @]
        gone(r) == [r EXCEPT !.env = "none", !.op = "none", !.finishing = FALSE]
    IN session' = [s \in Sessions |-> LET r == gone(doubt(session[s])) IN IF lost(r) THEN recovered(r) ELSE r]

ComputersNext ==
    \/ \E s \in Sessions :
          \/ RequestSession(s) \/ CancelTask(s) \/ GrantExpires(s) \/ ClaimSession(s) \/ Act(s) \/ Launched(s) \/ CaptureRequest(s)
          \/ ActionEnds(s) \/ RequestProtected(s) \/ ExecuteApproved(s) \/ Checked(s) \/ Answered(s) \/ AnswerLost(s)
          \/ Finish(s) \/ TimerStops(s) \/ BrowserDies(s) \/ ServerActs(s)
          \/ \E yes \in BOOLEAN : AuthorizeSession(s, yes) \/ DecideIntent(s, yes) \/ ControlSession(s, yes) \/ ClosedSession(s, yes)
          \/ \E outcome \in {"completed", "failed", "interrupted"} : TurnEnds(s, outcome)
    \/ CleanupConfirmed \/ ComputersRestart

ComputersSpec == ComputersInit /\ [][ComputersNext]_computerVars

-----------------------------------------------------------------------------
(* Properties.                                                             *)

\* There is one browser: a session starts another only when the last one is
\* known to be gone, after stops, failed closings and restarts.
OneBrowser == Cardinality({s \in Sessions : session[s].browser}) <= 1

\* A protected request is sent at most once, and only HQ's record of it is
\* true: what was denied, cancelled or is not decided was not sent, what is
\* completed took effect.
ProtectedOnce ==
    \A s \in Sessions :
        /\ session[s].sent <= 1
        /\ session[s].intent \in Undecided \cup {"denied", "cancelled"} => session[s].sent = 0
        /\ session[s].intent = "completed" => session[s].hit
=============================================================================
