--------------------------------- MODULE Ask ---------------------------------
(***************************************************************************)
(* Public questions: a visitor's question is claimed from the website, put *)
(* to the provider once by an employee, and its answer is staged and sent  *)
(* back until the website's receipt is known.                              *)
(* Source: src/control/ask (service, coordinator, private-content,         *)
(* control-journal, authority-journal, transport), persistence of its      *)
(* content store, and recover of company.ts.                               *)
(*                                                                         *)
(* Three stores commit one after the other: the company's rows, the        *)
(* authority journal with its checkpoint file, and the private content     *)
(* store; HQ may die between any two commits.  Abstracted: signatures,     *)
(* digests, budgets, routing and visibility of evidence, the signed        *)
(* configuration, lease renewals, the intermediate status reports, and the *)
(* pause of the owner, which stops the same steps as a missing barrier.    *)
(***************************************************************************)
EXTENDS Integers, FiniteSets, Sequences

CONSTANTS Questions, Attempts      \* the visitors' questions, the deliveries tried of one answer
ASSUME AskAssumption == Attempts \in Nat

VARIABLES
    ask,       \* HQ: rows, authority journal, content store, and what a process keeps in memory
    site       \* the website and the provider: what they really hold, and what is on the way

askVars == <<ask, site>>

Idle == [kind |-> "none", q |-> "none"]
Wires == {Idle, [kind |-> "sync", q |-> "none"]} \cup [kind : {"answer", "receipt"}, q : Questions]
Gone == {"suppressed", "expired", "held"}
Imports == {"none", "content_pending", "available", "answer_reserved", "answer_staged", "delivered"} \cup Gone
Dispatches == {"none", "running", "completed", "suppressed", "failed", "unknown"}
Models == {"none", "reserved", "admitted", "transmitted", "unsent", "settled", "unknown"}

\* What the authority journal replays to; torn: its last line was never completed.
AuthorityState == [model : [Questions -> Models], answer : [Questions -> {"none", "unknown", "reconciled"}],
                   claims : SUBSET Questions, controls : SUBSET Questions, torn : BOOLEAN]

AskTypeOK ==
    /\ ask.up \in BOOLEAN /\ ask.held \in BOOLEAN /\ ask.barrier \in BOOLEAN
    /\ ask.known \subseteq Questions /\ ask.wire \in Wires
    /\ ask.imports \in [Questions -> Imports] /\ ask.dispatch \in [Questions -> Dispatches]
    /\ ask.claimed \subseteq Questions /\ ask.queue \subseteq Questions /\ ask.answers \subseteq Questions
    /\ ask.receipt \in [Questions -> {"none", "accepted", "discarded"}] /\ ask.tries \in [Questions -> 0..Attempts]
    /\ ask.notFound \in BOOLEAN /\ ask.vault \in [Questions -> {"none", "question", "answered"}]
    /\ ask.auth \in AuthorityState /\ ask.lag \in BOOLEAN
    /\ site \in [withdrawn : SUBSET Questions, flying : SUBSET Questions,
                 model : [Questions -> {"none", "running", "ended"}], got : [Questions -> {"none", "accepted", "discarded"}]]

AskInit ==
    /\ ask = [up |-> TRUE, held |-> FALSE, barrier |-> FALSE, known |-> {}, wire |-> Idle,
              imports |-> [q \in Questions |-> "none"], dispatch |-> [q \in Questions |-> "none"],
              claimed |-> {}, queue |-> {}, answers |-> {}, receipt |-> [q \in Questions |-> "none"],
              tries |-> [q \in Questions |-> 0], notFound |-> FALSE, vault |-> [q \in Questions |-> "none"], lag |-> FALSE,
              auth |-> [model |-> [q \in Questions |-> "none"], answer |-> [q \in Questions |-> "none"],
                        claims |-> {}, controls |-> {}, torn |-> FALSE]]
    /\ site = [withdrawn |-> {}, flying |-> {}, model |-> [q \in Questions |-> "none"],
               got |-> [q \in Questions |-> "none"]]

-----------------------------------------------------------------------------
(* Commits of one handler, and what each store says.                       *)

Dead(s) == [s EXCEPT !.up = FALSE, !.wire = Idle, !.queue = {}, !.answers = {}]

\* The commits ss of a handler, then its effect outside: HQ may die after any
\* of them, and after one of the journal before its checkpoint is renewed.
Runs(ss, outside) ==
    LET before(n) == IF n = 1 THEN ask ELSE ss[n - 1]
    IN  /\ ask.up /\ ~ask.auth.torn
        /\ \/ ask' = ss[Len(ss)] /\ site' = outside
           \/ /\ UNCHANGED site
              /\ \E n \in 1..Len(ss) : \/ ask' = Dead(ss[n])
                                       \/ ss[n].auth # before(n).auth /\ ask' = Dead([ss[n] EXCEPT !.auth.torn = TRUE])

\* An effect of the wire is journalled as applied before its operation's row.
Applied(s) == <<[s EXCEPT !.lag = TRUE], s>>

\* A mutant of Withdrawn: a control does not reach an answer already staged.
WithdrawnUnanswered(s, q) == q \in s.known /\ s.imports[q] # "answer_staged"
Withdrawn(s, q) == q \in s.known

\* clean(): recorded privacy controls, refused receipts and expiry are applied
\* to the rows and to the content store before anything is read.
Clean(s) ==
    LET swept(q) == IF s.imports[q] = "none" THEN "none"
                    ELSE IF Withdrawn(s, q) THEN IF s.imports[q] \in {"held", "answer_reserved"} THEN "held" ELSE "suppressed"
                    ELSE IF s.receipt[q] = "discarded" /\ s.imports[q] # "held" THEN "suppressed"
                    ELSE s.imports[q]
        rows == [q \in Questions |-> swept(q)]
    IN  [s EXCEPT !.imports = rows, !.vault = [q \in Questions |-> IF rows[q] \in Gone THEN "none" ELSE s.vault[q]]]

\* reconcileRow() after a restart: the row follows what the content store holds.
Reconciled(s) ==
    LET c == Clean(s)
        row(q) == IF c.imports[q] \in Gone \cup {"none"} \/ c.vault[q] = "none" THEN c.imports[q]
                  ELSE IF c.vault[q] = "answered" THEN IF c.receipt[q] = "accepted" THEN "delivered" ELSE "answer_staged"
                  ELSE IF c.imports[q] = "answer_reserved" THEN "answer_reserved" ELSE "available"
    IN  [c EXCEPT !.imports = [q \in Questions |-> row(q)]]

AskOpen(s) == s.up /\ ~s.held /\ s.barrier /\ ~s.auth.torn
NoUnknownTurn(s) == \A q \in Questions : s.auth.model[q] # "unknown"
SettledTurns(s) == \A q \in Questions : s.auth.model[q] \in {"none", "unsent", "settled"}

\* authorize(): every step of a running turn is checked against all three.
Allowed(s, q) ==
    /\ AskOpen(s) /\ NoUnknownTurn(s) /\ s.dispatch[q] = "running" /\ q \in s.queue
    /\ s.imports[q] \notin Gone

-----------------------------------------------------------------------------
(* The visitor and time.                                                   *)

Withdraw(q) == /\ q \notin site.withdrawn /\ q \in ask.claimed
               /\ site' = [site EXCEPT !.withdrawn = @ \cup {q}] /\ UNCHANGED ask

\* clean() of a question whose time is over before its answer was received.
ExpireQuestion(q) ==
    /\ ask.up /\ ask.imports[q] \notin Gone \cup {"none"} /\ ask.receipt[q] = "none" /\ UNCHANGED site
    /\ ask' = Clean([ask EXCEPT !.imports[q] = IF @ = "answer_reserved" THEN "held" ELSE "expired"])

\* maintenance(): also while the service is held.
Maintain == ask.up /\ UNCHANGED site /\ LET c == Clean(ask) IN
    ask' = [c EXCEPT !.queue = {q \in @ : ~ask.held /\ c.imports[q] \notin Gone \cup {"delivered"}}]

-----------------------------------------------------------------------------
(* Privacy controls: no fresh barrier, no work.                            *)

\* The barrier is dropped with the request that renews it.
PrepareSync ==
    /\ ask.up /\ ~ask.auth.torn /\ ask.wire = Idle
    /\ ask' = [ask EXCEPT !.barrier = FALSE, !.wire = [kind |-> "sync", q |-> "none"]] /\ UNCHANGED site

\* A page records its controls; the next request acknowledges them, and only
\* an empty page, which leaves nothing to acknowledge, is a barrier.
AcceptPage ==
    LET new == site.withdrawn \ ask.known
        page == [ask EXCEPT !.known = @ \cup new, !.barrier = new = {}, !.wire = Idle]
        swept == Clean(page)
    IN  /\ ask.wire.kind = "sync"
        /\ Runs(<<page, swept>> \o Applied([swept EXCEPT !.auth.controls = page.known]), site)

\* Any exchange may be lost on its way: the operation stays pending.
LoseExchange == ask.up /\ ask.wire # Idle /\ ask' = [ask EXCEPT !.wire = Idle] /\ UNCHANGED site

-----------------------------------------------------------------------------
(* Claiming a question and giving it to the provider.                      *)

ClaimQuestion(q) ==
    LET c == Clean(ask)
        row == [c EXCEPT !.imports[q] = IF @ = "none" THEN "content_pending" ELSE @]
        stored == [row EXCEPT !.vault[q] = IF @ = "none" THEN "question" ELSE @]
        mine == [stored EXCEPT !.imports[q] = IF @ = "content_pending" THEN "available" ELSE @]
        held == [mine EXCEPT !.claimed = @ \cup {q}]
        done == [held EXCEPT !.auth.claims = @ \cup {q}, !.queue = @ \cup {q}]
    IN  /\ AskOpen(ask) /\ ask.wire = Idle /\ NoUnknownTurn(ask) /\ \A p \in Questions : ask.auth.answer[p] # "unknown"
        /\ q \notin ask.auth.claims /\ q \notin ask.known \cup site.withdrawn
        /\ c.imports[q] \notin Gone
        /\ {p \in Questions \ {q} : c.imports[p] \in {"content_pending", "available", "answer_reserved", "answer_staged"}} = {}
        /\ Runs(<<row, stored, mine, held>> \o Applied(done), site)

\* A claim whose turn has not begun is offered again after a restart.
Requeue(q) ==
    /\ AskOpen(ask) /\ ask.wire = Idle /\ q \in ask.claimed \ ask.queue /\ ask.dispatch[q] = "none"
    /\ Clean(ask).imports[q] = "available"
    /\ ask' = [Clean(ask) EXCEPT !.queue = @ \cup {q}] /\ UNCHANGED site

\* The journal counts the execution before the company knows it.
ClaimNext(q) ==
    LET c == Clean(ask)
        reserved == [c EXCEPT !.auth.model[q] = "reserved"]
    IN  /\ AskOpen(ask) /\ SettledTurns(ask) /\ \A p \in Questions : ask.dispatch[p] \notin {"running", "unknown"}
        /\ q \in ask.queue /\ ask.dispatch[q] = "none" /\ c.imports[q] = "available"
        /\ ask.auth.model[q] = "none"
        /\ Runs(<<reserved, [reserved EXCEPT !.dispatch[q] = "running"]>>, site)

Admit(q) ==
    /\ Allowed(Clean(ask), q) /\ ask.auth.model[q] = "reserved"
    /\ Runs(<<[Clean(ask) EXCEPT !.auth.model[q] = "admitted"]>>, site)
Transmit(q) ==
    /\ Allowed(Clean(ask), q) /\ ask.auth.model[q] = "admitted"
    /\ Runs(<<[Clean(ask) EXCEPT !.auth.model[q] = "transmitted"]>>, [site EXCEPT !.model[q] = "running"])
SubmitAnswer(q) ==
    /\ Allowed(Clean(ask), q) /\ site.model[q] = "running" /\ q \notin ask.answers
    /\ ask' = [Clean(ask) EXCEPT !.answers = @ \cup {q}] /\ UNCHANGED site
ModelEnds(q) == site.model[q] = "running" /\ site' = [site EXCEPT !.model[q] = "ended"] /\ UNCHANGED ask

\* finish(): the turn's outcome is journalled first, then a complete answer
\* that is still allowed is reserved, stored and staged, and the row is last.
FinishTurn(q, seen, completed) ==
    LET out == CASE ask.auth.model[q] \in {"reserved", "admitted"} -> "unsent"
                 [] ask.auth.model[q] = "transmitted" /\ seen -> "settled"
                 [] OTHER -> "unknown"
        told == [ask EXCEPT !.auth.model[q] = out]
        good == out = "settled" /\ completed /\ q \in ask.answers
        end(s, state) == [s EXCEPT !.dispatch[q] = state, !.queue = @ \ {q}, !.answers = @ \ {q}]
        c == Clean(told)
        reserved == [c EXCEPT !.imports[q] = "answer_reserved"]
        stored == [reserved EXCEPT !.vault[q] = "answered"]
        staged == [stored EXCEPT !.imports[q] = "answer_staged"]
    IN  /\ ask.dispatch[q] = "running" /\ (seen => site.model[q] = "ended")
        /\ IF good /\ Allowed(c, q)
           THEN \/ Runs(<<told, reserved, stored, staged, end(staged, "completed")>>, site)
                \/ Runs(<<told, reserved, end([reserved EXCEPT !.held = TRUE], "failed")>>, site)
           ELSE Runs(<<told, end(told, IF good THEN "suppressed" ELSE IF out = "unknown" THEN "unknown" ELSE "failed")>>, site)

-----------------------------------------------------------------------------
(* Delivering the answer.                                                  *)

Deliverable(s, q) == AskOpen(s) /\ NoUnknownTurn(s) /\ s.dispatch[q] = "completed" /\ s.imports[q] = "answer_staged"

\* While the receipt of an answer is uncertain only the same answer may be
\* sent again, and only when the website says that it has none.  A lost
\* request stays on its way.
SendAnswer(q) ==
    LET c == Clean(ask)
    IN  /\ ask.wire = Idle /\ Deliverable(c, q) /\ ask.tries[q] < Attempts
        /\ \A p \in Questions : ask.auth.answer[p] = "unknown" => p = q /\ ask.notFound
        /\ Runs(<<[c EXCEPT !.tries[q] = @ + 1, !.notFound = FALSE],
                  [c EXCEPT !.tries[q] = @ + 1, !.notFound = FALSE, !.auth.answer[q] = "unknown",
                            !.wire = [kind |-> "answer", q |-> q]]>>,
                [site EXCEPT !.flying = @ \cup {q}])

SiteTakes(q) ==
    /\ q \in site.flying /\ UNCHANGED ask
    /\ \E taken \in {"accepted", "discarded"} :
          /\ q \in site.withdrawn => taken = "discarded"
          /\ site' = [site EXCEPT !.flying = @ \ {q}, !.got[q] = IF @ = "none" THEN taken ELSE @]

\* A receipt may be asked for at any time: only the website's word settles it.
AskReceipt(q) ==
    /\ ask.up /\ ~ask.auth.torn /\ ask.wire = Idle /\ ask.barrier /\ ask.auth.answer[q] = "unknown"
    /\ ask' = [ask EXCEPT !.wire = [kind |-> "receipt", q |-> q]] /\ UNCHANGED site
ReceiptNotFound(q) ==
    /\ ask.up /\ ask.wire = [kind |-> "receipt", q |-> q] /\ site.got[q] = "none"
    /\ ask' = [ask EXCEPT !.notFound = TRUE, !.wire = Idle] /\ UNCHANGED site

AcceptReceipt(q) ==
    LET row == [Clean(ask) EXCEPT !.receipt[q] = site.got[q], !.wire = Idle]
        mine == Reconciled(row)
    IN  /\ ask.wire.q = q /\ site.got[q] # "none"
        /\ Runs(<<row, mine>> \o Applied([mine EXCEPT !.auth.answer[q] = "reconciled", !.notFound = FALSE]), site)

-----------------------------------------------------------------------------
(* Crashes.                                                                *)

Crash == ask.up /\ ask' = Dead(ask) /\ UNCHANGED site

\* A mutant of Outcome: a turn that HQ did not see end was not sent.
OutcomeForgotten(m) == IF m \in {"none", "settled", "unsent"} THEN m ELSE "unsent"
Outcome(m) == IF m \in {"none", "settled", "unsent"} THEN m ELSE "unknown"

\* recover() of the coordinator and of the service.  Any disagreement of the
\* rows with the journal holds both for ever; a turn that is not settled is
\* unknown, and a settled one is completed only by its staged answer.
HQStarts ==
    LET wires == ask.auth.torn \/ ask.lag \/ ask.auth.controls \notin {{}, ask.known} \/ ~(ask.auth.claims \subseteq ask.claimed)
        rows == ask.auth.torn \/ \E q \in Questions : (ask.auth.model[q] = "none") # (ask.dispatch[q] = "none")
        up == [ask EXCEPT !.up = TRUE, !.barrier = FALSE, !.held = @ \/ wires \/ rows]
        c == IF rows THEN up ELSE Reconciled(up)
        dispatch(q) == IF ask.dispatch[q] = "none" THEN "none"
                       ELSE IF rows THEN IF ask.dispatch[q] = "running" THEN "unknown" ELSE ask.dispatch[q]
                       ELSE IF Outcome(ask.auth.model[q]) = "unknown" THEN "unknown"
                       ELSE IF ask.dispatch[q] # "running" THEN ask.dispatch[q]
                       ELSE IF ask.auth.model[q] = "settled" /\ c.imports[q] \in {"answer_staged", "delivered"} THEN "completed"
                       ELSE "failed"
    IN  /\ ~ask.up /\ UNCHANGED site
        /\ ask' = [c EXCEPT !.dispatch = [q \in Questions |-> dispatch(q)],
                            !.auth.model = IF rows THEN @ ELSE [q \in Questions |-> Outcome(ask.auth.model[q])]]

AskNext ==
    \/ \E q \in Questions :
          \/ Withdraw(q) \/ ExpireQuestion(q) \/ ClaimQuestion(q) \/ Requeue(q) \/ ClaimNext(q) \/ Admit(q) \/ Transmit(q)
          \/ SubmitAnswer(q) \/ ModelEnds(q) \/ SendAnswer(q) \/ SiteTakes(q)
          \/ AskReceipt(q) \/ ReceiptNotFound(q) \/ AcceptReceipt(q)
          \/ \E seen, completed \in BOOLEAN : FinishTurn(q, seen, completed)
    \/ Maintain \/ PrepareSync \/ AcceptPage \/ LoseExchange \/ Crash \/ HQStarts

AskSpec == AskInit /\ [][AskNext]_askVars

-----------------------------------------------------------------------------
(* Properties.                                                             *)

\* Whatever store HQ dies between, at most one public turn runs at the
\* provider, and every one that ever ran is counted in the journal.
OnePublicTurn ==
    /\ Cardinality({q \in Questions : site.model[q] = "running"}) <= 1
    /\ \A q \in Questions : site.model[q] # "none" => ask.auth.model[q] \in {"transmitted", "settled", "unknown"}

\* The website only ever holds the answer of a turn known to have ended, HQ
\* calls delivered only what the website accepted, and nothing of a question
\* whose withdrawal HQ has applied stays in the content store.
AnswerAccounted ==
    \A q \in Questions :
        /\ site.got[q] # "none" => site.model[q] = "ended" /\ ask.auth.model[q] = "settled" /\ ask.auth.answer[q] # "none"
        /\ ask.imports[q] = "delivered" => site.got[q] = "accepted"
        /\ q \in ask.auth.controls => ask.vault[q] = "none"

\* An answer leaves HQ only when no withdrawal of its question was recorded,
\* whatever turn, delivery or crash was under way when it was.
SentBeforeWithdrawal == \A q \in Questions : q \in site'.flying /\ q \notin site.flying => q \notin ask.known
WithdrawnSilent == [][SentBeforeWithdrawal]_askVars
=============================================================================
