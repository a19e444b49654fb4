------------------------------ MODULE Gateway -------------------------------
(***************************************************************************)
(* The financial data gateway (src/control/market/financial-gateway.ts)    *)
(* over its store (financial-store.ts): a request is recorded before the   *)
(* adapter runs, an attempt before the provider is called, and what became *)
(* of each after.  A request whose outcome is unknown, or that HQ forgot   *)
(* when it stopped, keeps the provider closed.  A provider answer, a       *)
(* deadline, a revocation or a stop of HQ may come at every step.          *)
(***************************************************************************)
EXTENDS Naturals, Sequences, FiniteSets

CONSTANTS FinancialRequests,   \* identities of the requests, which ask for the same content
          MaxCalls,      \* min(scope.maxRequests, policy.maxRequests)
          Retries,       \* scope.maxRetries
          Interval,      \* max(scope.minIntervalMs, policy.minIntervalMs), in ticks
          CacheTicks,    \* min(policy.cacheMs, the time the class of data is good for)
          ScopeEnd       \* scope.expiresAt, the last tick

ASSUME GatewayAssumption == {MaxCalls, Retries, Interval, CacheTicks, ScopeEnd} \subseteq Nat

VARIABLES desk,     \* financial_requests and _results, _attempts and _attempt_results, _observations, _revocations
          inquiry,  \* the collect() under way, in memory
          sent      \* the calls that left: which attempt, and when

gatewayVars == <<desk, inquiry, sent>>

Results == {"none", "blocked", "cached", "ok", "failed", "unknown"}
Outcomes == {"none", "unknown", "known"}
Try == [req : FinancialRequests, at : 0..ScopeEnd, outcome : Outcomes, retry : 0..ScopeEnd + 1]
NoInquiry == [req |-> "none", st |-> "none", terminal |-> FALSE, raw |-> FALSE, retry |-> 0, called |-> FALSE, last |-> 0]

GatewayInit ==
    /\ desk = [asked |-> {}, result |-> [q \in FinancialRequests |-> "none"], tries |-> <<>>, seen |-> 0, revoked |-> FALSE, clock |-> 1]
    /\ inquiry = NoInquiry
    /\ sent = <<>>

GatewayTypeOK ==
    /\ desk \in [asked : SUBSET FinancialRequests, result : [FinancialRequests -> Results], tries : Seq(Try), seen : 0..ScopeEnd,
                 revoked : BOOLEAN, clock : 1..ScopeEnd]
    /\ inquiry \in [req : FinancialRequests \cup {"none"}, st : {"none", "adapter", "spacing", "marked", "calling"}, terminal : BOOLEAN,
                    raw : BOOLEAN, retry : 0..Retries, called : BOOLEAN, last : 0..ScopeEnd]
    /\ sent \in Seq([try : 1..MaxCalls, at : 1..ScopeEnd])

-----------------------------------------------------------------------------
(* The store.                                                              *)

\* current(): the scope is neither expired nor revoked.
ScopeCurrent == desk.clock < ScopeEnd /\ ~desk.revoked

\* Another request without a result, or with an unknown one.
Uncertain(q) == \E o \in desk.asked \ {q} : desk.result[o] \in {"none", "unknown"}

\* latest(): the content was retrieved, and is still good.
Cached == desk.seen > 0 /\ desk.clock - desk.seen < CacheTicks

\* A mutant of UnsettledBy: an outcome recorded as unknown counts as one.
UnsettledNull(q) == \E n \in DOMAIN desk.tries : desk.tries[n].req = q /\ desk.tries[n].outcome = "none"

\* A request with an attempt that never got an answer it may rely on.
UnsettledBy(q) == \E n \in DOMAIN desk.tries : desk.tries[n].req = q /\ desk.tries[n].outcome # "known"

\* finish(): the result is written once, and the inquiry is over.
FinishInquiry(result) ==
    /\ desk' = [desk EXCEPT !.result[inquiry.req] = result]
    /\ inquiry' = NoInquiry
    /\ UNCHANGED sent

-----------------------------------------------------------------------------
(* collect().                                                              *)

\* The request is recorded; it is refused while another is uncertain, answered
\* from the last observation, or handed to the adapter.  Under the same identity
\* it is only answered, and outside the scope it is not even recorded.
Collect(q) ==
    /\ q \notin desk.asked /\ ScopeCurrent
    /\ LET asked == [desk EXCEPT !.asked = @ \cup {q}] IN
       CASE Uncertain(q) -> desk' = [asked EXCEPT !.result[q] = "blocked"] /\ UNCHANGED inquiry
         [] ~Uncertain(q) /\ Cached -> desk' = [asked EXCEPT !.result[q] = "cached"] /\ UNCHANGED inquiry
         [] OTHER -> desk' = asked /\ inquiry' = [NoInquiry EXCEPT !.req = q, !.st = "adapter"]
    /\ UNCHANGED sent

\* The adapter asks for one exchange at a time, and none after a terminal one.
Exchange ==
    /\ inquiry.st = "adapter" /\ ~inquiry.terminal
    /\ inquiry' = [inquiry EXCEPT !.st = "spacing", !.retry = 0]
    /\ UNCHANGED <<desk, sent>>

\* budgetCheck(): nothing is unsettled, the attempts are not used up, and no
\* advertised delay is running.
BudgetAllows ==
    /\ \A n \in DOMAIN desk.tries : desk.tries[n].outcome # "none" /\ desk.tries[n].retry <= desk.clock
    /\ Len(desk.tries) < MaxCalls
SpacedRows == desk.tries # <<>> => desk.clock >= desk.tries[Len(desk.tries)].at + Interval

\* The attempt is recorded when its time has come.
MarkAttempt ==
    /\ inquiry.st = "spacing" /\ SpacedRows
    /\ IF ScopeCurrent /\ BudgetAllows
       THEN /\ desk' = [desk EXCEPT !.tries = Append(@, [req |-> inquiry.req, at |-> desk.clock, outcome |-> "none", retry |-> 0])]
            /\ inquiry' = [inquiry EXCEPT !.st = "marked"]
       ELSE inquiry' = [inquiry EXCEPT !.st = "adapter", !.terminal = TRUE] /\ UNCHANGED desk
    /\ UNCHANGED sent

\* The provider is called, a full interval after the last call of the inquiry
\* however long the record took; outside the scope the call is not made, and
\* its attempt stays without an outcome.
CallProvider ==
    /\ inquiry.st = "marked"
    /\ inquiry.called => desk.clock >= inquiry.last + Interval
    /\ IF ScopeCurrent
       THEN /\ sent' = Append(sent, [try |-> Len(desk.tries), at |-> desk.clock])
            /\ inquiry' = [inquiry EXCEPT !.st = "calling", !.called = TRUE, !.last = desk.clock]
       ELSE inquiry' = [inquiry EXCEPT !.st = "adapter", !.terminal = TRUE] /\ UNCHANGED sent
    /\ UNCHANGED desk

OutcomeIs(outcome, retry) == desk' = [desk EXCEPT !.tries[Len(desk.tries)].outcome = outcome, !.tries[Len(desk.tries)].retry = retry]
Back(terminal, raw) == inquiry' = [inquiry EXCEPT !.st = "adapter", !.terminal = @ \/ terminal, !.raw = @ \/ raw]

\* A complete answer within the scope: content, an opening exchange, or content
\* that is not what it has to be.
Accepted ==
    /\ inquiry.st = "calling" /\ ScopeCurrent
    /\ OutcomeIs("known", 0) /\ (Back(TRUE, FALSE) \/ \E raw \in BOOLEAN : Back(FALSE, raw))
    /\ UNCHANGED sent

\* A mutant of MayRetry: one retry too many.
MayRetryOnceMore == inquiry.retry <= Retries

\* call(): the retries of an exchange are counted.
MayRetry == inquiry.retry < Retries

\* A passing failure without advice is tried again, as often as the scope lets.
Transient ==
    /\ inquiry.st = "calling" /\ ScopeCurrent
    /\ IF MayRetry
       THEN OutcomeIs("known", 0) /\ inquiry' = [inquiry EXCEPT !.st = "spacing", !.retry = @ + 1]
       ELSE OutcomeIs("known", desk.clock + 1) /\ Back(TRUE, FALSE)
    /\ UNCHANGED sent

\* The provider asks for a delay, or the answer closes it for a minute or for
\* the rest of the scope: nothing else is sent before.  With a delay that
\* cannot be read the attempt keeps no outcome.
Refused ==
    /\ inquiry.st = "calling" /\ ScopeCurrent
    /\ UNCHANGED desk \/ \E until \in desk.clock + 1..ScopeEnd : OutcomeIs("known", until)
    /\ Back(TRUE, FALSE)
    /\ UNCHANGED sent

\* No answer in time, a broken one, or one that came after the authority ended.
NoAnswer ==
    /\ inquiry.st = "calling"
    /\ OutcomeIs("unknown", 0) /\ Back(TRUE, FALSE)
    /\ UNCHANGED sent

\* The adapter ends.  Only an inquiry without a terminal failure, and with the
\* original content, within the scope, becomes an observation; one with gaps is
\* not answered from later.
AdapterEnds ==
    /\ inquiry.st = "adapter"
    /\ \/ /\ ~inquiry.terminal /\ inquiry.raw /\ ScopeCurrent
          /\ \E whole \in BOOLEAN : desk' = [desk EXCEPT !.result[inquiry.req] = "ok", !.seen = IF whole THEN desk.clock ELSE 0]
          /\ inquiry' = NoInquiry /\ UNCHANGED sent
       \/ FinishInquiry(IF UnsettledBy(inquiry.req) THEN "unknown" ELSE "failed")

\* The deadline of the operation, or a cancellation, at any moment.
GiveUp ==
    /\ inquiry.st # "none"
    /\ IF inquiry.st = "calling"
       THEN /\ desk' = [desk EXCEPT !.tries[Len(desk.tries)].outcome = "unknown", !.result[inquiry.req] = "unknown"]
            /\ inquiry' = NoInquiry /\ UNCHANGED sent
       ELSE FinishInquiry(IF UnsettledBy(inquiry.req) THEN "unknown" ELSE "failed")

-----------------------------------------------------------------------------
(* The rest.                                                               *)

\* revoke().
RevokeScope ==
    /\ ~desk.revoked /\ desk' = [desk EXCEPT !.revoked = TRUE]
    /\ UNCHANGED <<inquiry, sent>>

\* HQ stops: what is in memory is lost.
StopGateway ==
    /\ inquiry.st # "none" /\ inquiry' = NoInquiry
    /\ UNCHANGED <<desk, sent>>

TickGateway ==
    /\ desk.clock < ScopeEnd /\ desk' = [desk EXCEPT !.clock = @ + 1]
    /\ UNCHANGED <<inquiry, sent>>

GatewayNext ==
    \/ \E q \in FinancialRequests : Collect(q)
    \/ Exchange \/ MarkAttempt \/ CallProvider \/ Accepted \/ Transient \/ Refused \/ NoAnswer
    \/ AdapterEnds \/ GiveUp \/ RevokeScope \/ StopGateway \/ TickGateway

GatewaySpec == GatewayInit /\ [][GatewayNext]_gatewayVars

-----------------------------------------------------------------------------
(* Properties.                                                             *)

\* Nothing is sent beyond the allowance, twice for one attempt, or closer than
\* the interval to the last call of the same request (collect()).
SentSparingly ==
    /\ Len(sent) <= MaxCalls
    /\ \A m, n \in DOMAIN sent : m < n =>
        /\ sent[m].try < sent[n].try
        /\ desk.tries[sent[m].try].req = desk.tries[sent[n].try].req => sent[n].at >= sent[m].at + Interval

\* A request is called settled only when the outcome of each of its calls is
\* known, and its content is one it was sent.
SettledKnown ==
    \A q \in FinancialRequests : desk.result[q] \in {"ok", "failed"} =>
        /\ ~UnsettledBy(q)
        /\ desk.result[q] = "ok" => \E n \in DOMAIN sent : desk.tries[sent[n].try].req = q

\* After a call whose outcome nobody knows, or during a delay the provider asked
\* for, the provider is not called again, by this request or a later one,
\* through a stop of HQ.
NotRefunded ==
    sent' # sent =>
        \A n \in DOMAIN desk.tries : n < Len(desk.tries) => desk.tries[n].outcome = "known" /\ desk.tries[n].retry <= desk.clock
=============================================================================
