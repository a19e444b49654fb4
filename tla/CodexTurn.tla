----------------------------- MODULE CodexTurn ------------------------------
(***************************************************************************)
(* One turn of the Codex runtime adapter, runTurn(): the requests and      *)
(* notifications of the provider process on one side, tool callbacks,      *)
(* timers, aborts and account events on the other, and one result.         *)
(* Source: src/runtime/codex.ts.                                           *)
(*                                                                         *)
(* The steps between two awaits are one action.  The wire keeps its order, *)
(* but the turn's id is known to the adapter only after the answer to      *)
(* turn/start was read and its continuation ran.  Abstracted: catalog,     *)
(* configuration and thread checks (a setup that succeeds or fails), usage *)
(* events, output text, and the Ask admission proof (the bounded mode's    *)
(* admission stands for it).                                               *)
(***************************************************************************)
EXTENDS Integers, Sequences, FiniteSets

CONSTANTS
    CallBudget,    \* tool calls a turn may make
    Corrections,   \* correctable tool inputs answered as such (2 in the code)
    RequestBound   \* bound on the provider's requests

ASSUME CodexTurnAssumption == CallBudget \in Nat /\ Corrections \in Nat /\ RequestBound \in Nat

VARIABLES
    cx,     \* the adapter's locals, see TurnLocals
    pv,     \* the provider process
    wire    \* its messages, in order, not read yet

turnVars == <<cx, pv, wire>>
Ends == {"completed", "failed", "interrupted", "awaiting_approval"}
Asking == {"tool", "approval"} \X {"this", "old"}
Ending == {"done"} \X {"this", "old"}
Message == Asking \cup Ending \cup {<<"response", "this">>}

TurnLocals == [bounded : BOOLEAN, step : {"setup", "bound", "intent", "sent"}, aborted : BOOLEAN, stopping : BOOLEAN,
               timer : BOOLEAN, out : Ends \cup {"none", "thrown"}, settled : BOOLEAN, completing : Ends \cup {"none"},
               denied : BOOLEAN, toolFailure : BOOLEAN, read : BOOLEAN, turnId : BOOLEAN, starting : BOOLEAN,
               reqs : Seq(Asking), evs : Seq(Ending), open : Nat, calls : Nat, fixes : 0..Corrections,
               verified : BOOLEAN, late : BOOLEAN]

CodexTurnTypeOK ==
    /\ cx \in TurnLocals /\ cx.open <= cx.calls /\ cx.calls <= RequestBound
    /\ pv \in [turn : {"none", "running", "completed", "failed", "interrupted"}, sent : 0..RequestBound, stale : BOOLEAN,
               answered : BOOLEAN]
    /\ wire \in Seq(Message)

\* An unbounded turn needs no account: it counts as verified.
CodexTurnInit ==
    /\ \E bounded \in BOOLEAN :
          cx = [bounded |-> bounded, step |-> "setup", aborted |-> FALSE, stopping |-> FALSE, timer |-> FALSE, out |-> "none",
                settled |-> FALSE, completing |-> "none", denied |-> FALSE, toolFailure |-> FALSE, read |-> FALSE,
                turnId |-> FALSE, starting |-> FALSE, reqs |-> <<>>, evs |-> <<>>, open |-> 0, calls |-> 0, fixes |-> 0,
                verified |-> ~bounded, late |-> FALSE]
    /\ pv = [turn |-> "none", sent |-> 0, stale |-> FALSE, answered |-> FALSE]
    /\ wire = <<>>

-----------------------------------------------------------------------------
(* finish(), finalize() and interrupt() of the turn, on its locals c.      *)

Finalize(c, status) ==
    IF c.out # "none" THEN c
    ELSE [c EXCEPT !.out = IF c.bounded /\ c.stopping /\ status = "completed" THEN "interrupted" ELSE status, !.completing = "none"]

\* A mutant of FinishSettled: a settled turn does not wait for its tools.
FinishAtOnce(c, status) == Finalize([c EXCEPT !.settled = TRUE], status)

\* finish() with a settled provider turn waits for the tool callbacks still open.
FinishSettled(c, status) ==
    LET s == [c EXCEPT !.settled = TRUE] IN
    IF c.out # "none" THEN s
    ELSE IF c.open > 0 THEN [s EXCEPT !.completing = status] ELSE Finalize(s, status)

Interrupt(c) == IF c.out # "none" THEN c ELSE [c EXCEPT !.stopping = TRUE, !.timer = TRUE]
Live(c) == c.out = "none" /\ ~c.stopping /\ ~c.aborted

Reject(c) == IF c.bounded THEN Interrupt([c EXCEPT !.toolFailure = TRUE]) ELSE c

\* handleRequest() up to its first await.
HandleRequest(c, m) ==
    LET called == [c EXCEPT !.calls = @ + 1]
        late == [c EXCEPT !.late = @ \/ (m[2] = "this" /\ c.settled)]
    IN IF c.starting /\ ~c.turnId /\ c.out = "none" THEN [c EXCEPT !.reqs = Append(@, m)]
       ELSE IF ~Live(c) \/ c.completing # "none" \/ m[2] # "this" \/ ~c.turnId THEN Reject(late)
       ELSE IF m[1] = "approval" THEN Interrupt([c EXCEPT !.denied = TRUE])
       ELSE IF called.calls > CallBudget THEN Finalize(called, "failed")
       ELSE [called EXCEPT !.open = @ + 1]

\* A mutant of OfThisTurn: an earlier turn of the thread is not told apart.
OfAnyTurn(c, m) == c.turnId
OfThisTurn(c, m) == c.turnId /\ m[2] = "this"

\* The notification turn/completed; status is the provider's.
HandleEvent(c, m, status) ==
    IF c.out # "none" THEN c
    ELSE IF c.starting /\ ~c.turnId THEN [c EXCEPT !.evs = Append(@, m)]
    ELSE IF ~OfThisTurn(c, m) THEN c
    ELSE FinishSettled(c, CASE c.denied -> "awaiting_approval"
                            [] ~c.denied /\ c.toolFailure -> "failed"
                            [] ~c.denied /\ ~c.toolFailure /\ c.bounded /\ c.stopping -> "interrupted"
                            [] OTHER -> status)

\* What was buffered while the turn was starting: requests, then notifications.
HandleRequests(c, ms) ==
    LET after[k \in 0..Len(ms)] == IF k = 0 THEN c ELSE HandleRequest(after[k - 1], ms[k])
    IN after[Len(ms)]
HandleEvents(c, ms, status) ==
    LET after[k \in 0..Len(ms)] == IF k = 0 THEN c ELSE HandleEvent(after[k - 1], ms[k], status)
    IN after[Len(ms)]
Replay(c, status) == HandleEvents(HandleRequests(c, c.reqs), c.evs, status)

-----------------------------------------------------------------------------
(* The adapter.                                                            *)

Local(c) == cx' = c /\ UNCHANGED <<pv, wire>>
Reported == IF pv.turn \in Ends THEN pv.turn ELSE "completed"

\* initialize(), the thread read or started, prepareBinding, its name, configured and bind.
SetUp == cx.step = "setup" /\ Live(cx) /\ Local([cx EXCEPT !.step = "bound"])

\* A setup request fails, because of the provider or of a check.
SetUpFails ==
    /\ cx.step \in {"setup", "bound", "intent"} /\ cx.out = "none" /\ ~(cx.bounded /\ cx.stopping)
    /\ Local([cx EXCEPT !.out = IF cx.aborted THEN "interrupted" ELSE "thrown"])

Transmitted(c) == [c EXCEPT !.step = "sent", !.starting = TRUE]
Transmits ==
    /\ cx' = Transmitted(cx)
    /\ pv' = [pv EXCEPT !.turn = "running"] /\ UNCHANGED wire

\* The event runtime_turn_starting; an unbounded turn is transmitted in the same step.
AnnounceTurn ==
    /\ cx.step = "bound" /\ cx.out = "none"
    /\ IF cx.aborted THEN Local([cx EXCEPT !.out = "interrupted"])
       ELSE IF cx.bounded THEN Local([cx EXCEPT !.step = "intent"]) ELSE Transmits

\* The account was verified again and is current: admission and transmission, no await between.
AdmitAndTransmit == cx.step = "intent" /\ Live(cx) /\ cx.verified /\ Transmits

\* invalidated() of the account verifier, and its verification later.
AccountChanges ==
    /\ cx.bounded /\ cx.out = "none" /\ ~cx.stopping /\ ~cx.aborted
    /\ LET c == [cx EXCEPT !.verified = FALSE] IN Local(IF cx.starting \/ cx.turnId THEN Interrupt(c) ELSE c)
AccountVerified == cx.bounded /\ cx.out = "none" /\ ~cx.verified /\ Local([cx EXCEPT !.verified = TRUE])

\* The adapter reads the next message of the wire.
Receive ==
    /\ wire # <<>>
    /\ wire' = Tail(wire)
    /\ LET m == Head(wire) IN
       cx' = CASE m[1] = "response" -> [cx EXCEPT !.read = TRUE]
               [] m[1] = "done" -> HandleEvent(cx, m, Reported)
               [] OTHER -> HandleRequest(cx, m)
    /\ UNCHANGED pv

\* The continuation of turn/start.
TurnKnown ==
    /\ cx.read /\ ~cx.turnId
    /\ LET c == Replay([cx EXCEPT !.turnId = TRUE, !.starting = FALSE], Reported)
           d == [c EXCEPT !.reqs = <<>>, !.evs = <<>>]
       IN Local(IF d.stopping \/ d.aborted THEN Interrupt(d) ELSE d)

\* A mutant of Correctable: corrections are not counted.
CorrectableAlways(c) == Live(c) /\ c.completing = "none"
Correctable(c) == c.fixes < Corrections /\ Live(c) /\ c.completing = "none"

\* A tool callback ends; the last one lets a settled turn finish.
Callback(c, how) ==
    CASE how = "revoked" -> Finalize(c, "failed")
      [] how = "correctable" /\ Correctable(c) -> [c EXCEPT !.fixes = @ + 1]
      [] how = "answered" /\ Live(c) -> c
      [] OTHER -> Reject(c)
ToolEnds(how) ==
    /\ cx.open > 0
    /\ LET c == Callback([cx EXCEPT !.open = @ - 1], how)
       IN Local(IF c.completing # "none" /\ c.open = 0 THEN Finalize(c, c.completing) ELSE c)

Abort == ~cx.aborted /\ cx.out = "none" /\ Local(Interrupt([cx EXCEPT !.aborted = TRUE]))

InterruptTimer ==
    /\ cx.timer /\ cx.out = "none"
    /\ Local(Finalize(cx, IF cx.denied THEN "awaiting_approval" ELSE IF cx.toolFailure THEN "failed" ELSE "interrupted"))

Deadline == cx.out = "none" /\ Local(IF cx.bounded THEN Interrupt(cx) ELSE Finalize(cx, "failed"))

\* Built-in tool activity, an output bound or a full buffer ends an unbounded turn at once.
Quarantined == cx.turnId /\ cx.out = "none" /\ Local(IF cx.bounded THEN Interrupt(cx) ELSE Finalize(cx, "failed"))

ProcessCloses == cx.out = "none" /\ Local(Finalize(cx, IF cx.aborted THEN "interrupted" ELSE "failed"))

-----------------------------------------------------------------------------
(* The provider: it never waits for an answer, and may report an earlier   *)
(* turn of the thread late.                                                *)

Says(p, m) == pv' = p /\ wire' = Append(wire, m) /\ UNCHANGED cx
ProviderAnswers == pv.turn # "none" /\ ~pv.answered /\ Says([pv EXCEPT !.answered = TRUE], <<"response", "this">>)
ProviderRequests(kind) ==
    pv.turn = "running" /\ pv.sent < RequestBound /\ Says([pv EXCEPT !.sent = @ + 1], <<kind, "this">>)
ProviderEnds(status) == pv.turn = "running" /\ Says([pv EXCEPT !.turn = status], <<"done", "this">>)
ProviderReportsOld == cx.step # "setup" /\ ~pv.stale /\ Says([pv EXCEPT !.stale = TRUE], <<"done", "old">>)

CodexTurnNext ==
    \/ SetUp \/ SetUpFails \/ AnnounceTurn \/ AdmitAndTransmit \/ AccountChanges \/ AccountVerified
    \/ Receive \/ TurnKnown \/ Abort \/ InterruptTimer \/ Deadline \/ Quarantined \/ ProcessCloses
    \/ \E how \in {"answered", "rejected", "correctable", "revoked"} : ToolEnds(how)
    \/ ProviderAnswers \/ ProviderReportsOld
    \/ \E kind \in {"tool", "approval"} : ProviderRequests(kind)
    \/ \E status \in {"completed", "failed", "interrupted"} : ProviderEnds(status)

CodexTurnSpec == CodexTurnInit /\ [][CodexTurnNext]_turnVars

-----------------------------------------------------------------------------
(* Properties.                                                             *)

\* A completed turn has run every tool call the provider made in it: none is
\* still open, and none was turned away because the completion overtook it
\* while the turn's id was not known yet.
ToolsBeforeCompletion == cx.out = "completed" => cx.open = 0 /\ ~cx.late

\* HQ calls a turn settled only when the provider's own turn is over: neither
\* a stop, a timer, a lost process nor an earlier turn's report settles it.
SettledTruly == cx.settled => pv.turn \in Ends
=============================================================================
