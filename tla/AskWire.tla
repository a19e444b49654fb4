------------------------------ MODULE AskWire -------------------------------
(***************************************************************************)
(* Requests to the public website and what HQ may conclude of them: the    *)
(* operations and attempts in HQ's database (control/ask/coordinator.ts),  *)
(* the markers in the authority journal (wire events of                    *)
(* authority-journal.ts), and one exchange at a time on the line           *)
(* (transport.ts).  HQ asks for claims; with one it sends its answer, and  *)
(* as long as the fate of the answer is unknown it asks for the receipt.   *)
(*                                                                         *)
(* Renewals and states of questions go the way of claims, configurations   *)
(* and controls are read without consequence for the others (AskControls   *)
(* follows the latter); what authorises an exchange can lapse at any time, *)
(* so every check may fail.  Waiting times are left out.                   *)
(***************************************************************************)
EXTENDS Naturals, Sequences, FiniteSetsExt

CONSTANTS MaxOps,     \* operations followed
          MaxTries    \* attempts of one operation (three in exchange())

ASSUME AskWireAssumption == MaxOps \in Nat \ {0} /\ MaxTries \in Nat \ {0}

VARIABLES
    dealings,   \* ask_wire_operations
    attempts,   \* ask_wire_attempts, each with its entry in the journal
    line,       \* the exchange in progress
    far         \* what is under way to the website, and what it has done

wireVars == <<dealings, attempts, line, far>>

Wire == [op : 1..MaxOps, row : {"prepared", "transmitted", "not_sent", "unknown", "response"},
         mark : {"none", "unknown", "reconciled"}]

AskWireTypeOK ==
    /\ dealings \in Seq([kind : {"claim", "answer", "receipt"}, st : {"pending", "applied"}, tries : 0..MaxTries,
                         problem : {"none", "not_found", "other"}])
    /\ attempts \in Seq(Wire)
    /\ line.stage \in {"idle", "dialling", "marked", "sent", "told", "answered", "entered"}
    /\ line.held \in BOOLEAN /\ far.flying \subseteq DOMAIN attempts /\ far.took \subseteq 0..MaxOps

Quiet(held) == [stage |-> "idle", reply |-> "none", held |-> held]
AskWireInit ==
    /\ dealings = <<>> /\ attempts = <<>>
    /\ line = Quiet(FALSE)
    /\ far = [flying |-> {}, took |-> {}]

KindOf(a) == dealings[attempts[a].op].kind
\* Operations by kind, and attempts nobody knows the effect of.
PendingOf(kinds) == {o \in DOMAIN dealings : dealings[o].st = "pending" /\ dealings[o].kind \in kinds}
Uncertain(kind) == {a \in DOMAIN attempts : attempts[a].mark = "unknown" /\ KindOf(a) = kind}
This == Len(attempts)
TheOp == attempts[This].op
AttemptRow(st) == attempts' = [attempts EXCEPT ![This].row = st]
LineOver == line' = [line EXCEPT !.stage = "idle", !.reply = "none"]

-----------------------------------------------------------------------------
(* Choosing and preparing (choose(), create(), the start of exchange()).   *)

\* What comes next: the receipt of an answer whose fate is unknown, or that
\* answer again when the website did not know it; otherwise what is pending in
\* its order, or something new.
Chosen(kind) ==
    LET receipts == PendingOf({"receipt"})
        again == /\ receipts # {} /\ dealings[Min(receipts)].problem = "not_found" /\ ~line.held
                 /\ \E o \in PendingOf({"answer"}) : dealings[o].tries < MaxTries
    IN  IF Uncertain("answer") # {} THEN kind = (IF again THEN "answer" ELSE "receipt")
        ELSE /\ ~line.held
             /\ LET open == PendingOf({"claim", "answer"})
                IN  IF open # {} THEN kind = dealings[Min(open)].kind
                    ELSE \/ kind = "claim"
                         \/ /\ kind = "answer" /\ \A o \in DOMAIN dealings : dealings[o].kind # "answer"
                            /\ \E o \in DOMAIN dealings : dealings[o].kind = "claim"

\* create(): the operation is written before anything else.
CreateDealing(kind) ==
    /\ line.stage = "idle" /\ Chosen(kind) /\ PendingOf({kind}) = {} /\ Len(dealings) < MaxOps
    /\ dealings' = Append(dealings, [kind |-> kind, st |-> "pending", tries |-> 0, problem |-> "none"])
    /\ UNCHANGED <<attempts, line, far>>

\* exchange() up to the transport: the attempt is counted before it is made; an
\* answer that is sent again makes the receipt worth asking for again.
PrepareAttempt(kind) ==
    LET o == Min(PendingOf({kind})) IN
    /\ line.stage = "idle" /\ Chosen(kind) /\ PendingOf({kind}) # {} /\ dealings[o].tries < MaxTries
    /\ dealings' = [d \in DOMAIN dealings |->
          IF d = o THEN [dealings[d] EXCEPT !.tries = @ + 1]
          ELSE IF kind = "answer" /\ d \in PendingOf({"receipt"}) THEN [dealings[d] EXCEPT !.problem = "none"] ELSE dealings[d]]
    /\ attempts' = Append(attempts, [op |-> o, row |-> "prepared", mark |-> "none"])
    /\ line' = [line EXCEPT !.stage = "dialling"] /\ UNCHANGED far

\* After the last attempt, and whenever something does not fit, the service is
\* held for good (hold()).
Exhausted(kind) ==
    /\ line.stage = "idle" /\ ~line.held /\ Chosen(kind) /\ PendingOf({kind}) # {}
    /\ dealings[Min(PendingOf({kind}))].tries >= MaxTries
    /\ line' = [line EXCEPT !.held = TRUE] /\ UNCHANGED <<dealings, attempts, far>>

-----------------------------------------------------------------------------
(* The exchange (client() of transport.ts, beforeWire()).                  *)

\* No connection, or a check before the marker failed.
NotConnected == line.stage = "dialling" /\ AttemptRow("not_sent") /\ LineOver /\ UNCHANGED <<dealings, far>>

\* The hook refused: nothing was sent, but the transport no longer says so.
HookRefused == line.stage = "dialling" /\ AttemptRow("unknown") /\ LineOver /\ UNCHANGED <<dealings, far>>

\* The journal takes the marker unless another intent of the kind is unknown.
MarkAttempt ==
    /\ line.stage = "dialling"
    /\ KindOf(This) = "receipt" \/ \A a \in Uncertain(KindOf(This)) : attempts[a].op = TheOp
    /\ attempts' = [attempts EXCEPT ![This].mark = "unknown"]
    /\ line' = [line EXCEPT !.stage = "marked"] /\ UNCHANGED <<dealings, far>>
SendMarked ==
    /\ line.stage = "marked" /\ AttemptRow("transmitted") /\ far' = [far EXCEPT !.flying = @ \cup {This}]
    /\ line' = [line EXCEPT !.stage = "sent"] /\ UNCHANGED dealings

\* A check after the marker failed, the connection broke, or time ran out.
Lost == line.stage \in {"marked", "sent"} /\ AttemptRow("unknown") /\ LineOver /\ UNCHANGED <<dealings, far>>

-----------------------------------------------------------------------------
(* The answer (the rest of exchange(), accept()).                          *)

Response == line.stage = "told" /\ AttemptRow("response") /\ line' = [line EXCEPT !.stage = "answered"] /\ UNCHANGED <<dealings, far>>

\* A problem says nothing of the effect.
ProblemNoted ==
    /\ line.stage = "answered" /\ line.reply # "data"
    /\ dealings' = [dealings EXCEPT ![TheOp].problem = line.reply] /\ LineOver /\ UNCHANGED <<attempts, far>>

\* What data settles: every marked attempt of the operation or, for the answer
\* and its receipt, every attempt of either whose effect is unknown.
Settled ==
    {a \in DOMAIN attempts : /\ attempts[a].mark = "unknown"
                             /\ IF KindOf(This) = "claim" THEN attempts[a].op = TheOp ELSE KindOf(a) \in {"answer", "receipt"}}

\* First the journal, then the rows; the operations of what was settled come
\* before that of the answer, at which a crash matters (Reopen).
Enter ==
    /\ line.stage = "answered" /\ line.reply = "data"
    /\ attempts' = [a \in DOMAIN attempts |-> IF a \in Settled THEN [attempts[a] EXCEPT !.mark = "reconciled"] ELSE attempts[a]]
    /\ line' = [line EXCEPT !.stage = "entered"] /\ UNCHANGED <<dealings, far>>
ApplyRows ==
    /\ line.stage = "entered"
    /\ dealings' = [d \in DOMAIN dealings |->
          IF d = TheOp \/ \E a \in DOMAIN attempts : attempts[a].op = d /\ attempts[a].mark = "reconciled"
          THEN [dealings[d] EXCEPT !.st = "applied"] ELSE dealings[d]]
    /\ LineOver /\ UNCHANGED <<attempts, far>>

-----------------------------------------------------------------------------
(* The website and crashes.                                                *)

\* A request may arrive long after HQ gave up on it; the same one has its
\* effect once (0 is the answer).
Effect(a) == IF KindOf(a) = "claim" THEN {attempts[a].op} ELSE IF KindOf(a) = "answer" THEN {0} ELSE {}
SiteReceives(a) ==
    /\ a \in far.flying /\ far' = [flying |-> far.flying \ {a}, took |-> far.took \cup Effect(a)]
    /\ UNCHANGED <<dealings, attempts, line>>
SiteReplies(reply) ==
    /\ line.stage = "sent" /\ This \notin far.flying
    /\ KindOf(This) = "receipt" => reply \in {IF 0 \in far.took THEN "data" ELSE "not_found", "other"}
    /\ KindOf(This) # "receipt" => reply # "not_found"
    /\ line' = [line EXCEPT !.stage = "told", !.reply = reply] /\ UNCHANGED <<dealings, attempts, far>>

\* The process dies, and the next one compares its rows with the journal
\* (recover()).
Reopen ==
    LET after(a) == [attempts[a] EXCEPT
                        !.row = IF @ # "prepared" THEN @ ELSE IF attempts[a].mark = "none" THEN "not_sent" ELSE "unknown"]
    IN  /\ line.stage # "idle"
        /\ attempts' = [a \in DOMAIN attempts |-> after(a)]
        /\ line' = Quiet(line.held \/ \E a \in DOMAIN attempts :
              (attempts[a].mark = "reconciled") # (dealings[attempts[a].op].st = "applied") /\ attempts[a].mark # "none")
        /\ UNCHANGED <<dealings, far>>

AskWireNext ==
    \/ \E kind \in {"claim", "answer", "receipt"} : CreateDealing(kind) \/ PrepareAttempt(kind) \/ Exhausted(kind)
    \/ NotConnected \/ HookRefused \/ MarkAttempt \/ SendMarked \/ Lost \/ Response \/ ProblemNoted \/ Enter \/ ApplyRows
    \/ \E a \in far.flying : SiteReceives(a)
    \/ \E reply \in {"data", "not_found", "other"} : SiteReplies(reply)
    \/ Reopen

AskWireSpec == AskWireInit /\ [][AskWireNext]_wireVars

-----------------------------------------------------------------------------
(* Properties.                                                             *)

\* What HQ calls applied or reconciled the website did; what it calls not sent
\* never left, whatever came late; whatever may yet arrive is marked; and of each
\* kind only one intent is unknown at a time.
WireTrue ==
    LET done(a) == KindOf(a) = "claim" => attempts[a].op \in far.took
        answered == \E a \in DOMAIN attempts : KindOf(a) \in {"answer", "receipt"} /\ attempts[a].mark = "reconciled"
    IN  /\ \A a \in DOMAIN attempts : attempts[a].mark = "reconciled" => done(a)
        /\ (answered \/ \E o \in DOMAIN dealings : dealings[o].kind = "answer" /\ dealings[o].st = "applied") => 0 \in far.took
        /\ \A a \in DOMAIN attempts : attempts[a].row = "not_sent" => attempts[a].mark = "none"
        /\ \A a \in far.flying : attempts[a].mark # "none"
        /\ \A kind \in {"claim", "answer"} : Cardinality({attempts[a].op : a \in Uncertain(kind)}) <= 1
=============================================================================
