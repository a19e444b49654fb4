----------------------------- MODULE AskControls -----------------------------
(***************************************************************************)
(* Withdrawals of public questions: the website's privacy controls, read   *)
(* page by page into HQ's journal (control/ask/control-journal.ts), and    *)
(* the private store of questions they are applied to (private-content.ts, *)
(* persistence/ask-content-store.ts).  A control withdraws one question,   *)
(* which goes by its name here, and must be remembered for a while.        *)
(*                                                                         *)
(* HQ may die after any commit (Commits).  A page holds one control; time  *)
(* is counted in hours, and every question was received in the first.      *)
(* Answers, receipts, capacities and the check of restored copies are left *)
(* out; of requests that were completed nothing but the barrier is read.   *)
(***************************************************************************)
EXTENDS Integers, SequencesExt

CONSTANTS
    Controls,        \* privacy controls, each with its question
    LastHour,        \* the end of time
    QuestionHours,   \* how long a question can be answered
    Retention,       \* suppressionRetentionSeconds
    Freshness        \* controlFreshnessSeconds

ASSUME AskControlsAssumption ==
    /\ {LastHour, QuestionHours, Retention, Freshness} \subseteq Nat \ {0}
    /\ QuestionHours <= Retention
    /\ "none" \notin Controls

VARIABLES
    book,   \* HQ's database: the control journal and the questions imported
    safe,   \* the private content store
    web,    \* the website, and the page on its way to HQ
    clock

controlVars == <<book, safe, web, clock>>

NoSync == [after |-> 0, acks |-> {}, until |-> 0]
NoPage == [control |-> "none", next |-> 0, checked |-> -1, seen |-> 0]
NoBarrier == [checked |-> -1, seen |-> 0]

\* rows: ask_privacy_controls; lost: when the first of the abandoned requests is
\* over (each is asked whether it is, and all are settled together);
\* imports: ask_imports; applied: ask_content_controls.
AskControlsTypeOK ==
    /\ book.rows \in [Controls -> {"none", "recorded", "acked", "forgotten"}]
    /\ book.imports \in [Controls -> {"none", "content_pending", "available", "suppressed", "expired"}]
    /\ book.applied \in [Controls -> {"none", "pending", "applied"}]
    /\ book.lost \in Nat /\ book.pending.acks \subseteq Controls
    /\ safe \in [raw : SUBSET Controls, tombs : SUBSET Controls]
    /\ web.issued \in Seq(Controls) /\ web.acked \subseteq Controls /\ clock \in 0..LastHour

AskControlsInit ==
    /\ book = [rows |-> [c \in Controls |-> "none"], pending |-> NoSync, cursor |-> 0, barrier |-> NoBarrier, lost |-> 0,
               imports |-> [c \in Controls |-> "none"], applied |-> [c \in Controls |-> "none"]]
    /\ safe = [raw |-> {}, tombs |-> {}]
    /\ web = [issued |-> <<>>, at |-> [c \in Controls |-> 0], acked |-> {}, page |-> NoPage]
    /\ clock = 0

-----------------------------------------------------------------------------
(* A process and its commits.                                              *)

\* The constructor of the next process: an unanswered request is abandoned, and
\* the controls are read from the beginning.
Restarted(b) ==
    [b EXCEPT !.lost = IF @ # 0 THEN @ ELSE b.pending.until,
              !.pending = NoSync, !.cursor = 0, !.barrier = NoBarrier]
Restart(b, s) == book' = Restarted(b) /\ safe' = s /\ web' = [web EXCEPT !.page = NoPage] /\ UNCHANGED clock

\* The commits of a handler in order, or HQ dies after one of them.
Commits(ss) ==
    \/ book' = ss[Len(ss)].b /\ safe' = ss[Len(ss)].s /\ UNCHANGED <<web, clock>>
    \/ \E n \in DOMAIN ss : Restart(ss[n].b, ss[n].s)

Retained(b) == {c \in Controls : b.rows[c] \in {"recorded", "acked"}}
OverAt(c) == web.at[c] + Retention
Horizon ==
    /\ \A t \in {book.lost, book.pending.until} \ {0} : t > clock
    /\ \A c \in Controls : book.rows[c] = "recorded" => OverAt(c) > clock

\* barrier().
Barrier == /\ Horizon /\ book.barrier # NoBarrier /\ book.pending = NoSync /\ clock < book.barrier.checked + Freshness
           /\ \A c \in Controls : book.rows[c] # "recorded"

-----------------------------------------------------------------------------
(* Reading the controls.                                                   *)

\* prepareSync(): one request until it is answered; there is no barrier meanwhile.
PrepareControls ==
    /\ Horizon /\ book.pending = NoSync
    /\ book' = [book EXCEPT !.barrier = NoBarrier,
                   !.pending = [after |-> book.cursor, acks |-> {c \in Controls : book.rows[c] = "recorded"}, until |-> clock + Retention]]
    /\ UNCHANGED <<safe, web, clock>>

\* acceptPage(): the controls of the page are recorded, those the request
\* acknowledged are acknowledged; an empty last page is a barrier and settles,
\* while it is fresh, the requests that were abandoned.
AcceptControls ==
    LET page == web.page
        drained == /\ page.control = "none" /\ page.next = 0
                   /\ \A c \in Controls : book.rows[c] = "recorded" => c \in book.pending.acks
    IN  /\ Horizon /\ page # NoPage /\ book.pending # NoSync
        /\ book' = [book EXCEPT
              !.rows = [c \in Controls |-> IF c \in book.pending.acks THEN "acked" ELSE IF c = page.control /\ c \notin Retained(book) THEN "recorded" ELSE @[c]],
              !.pending = NoSync, !.cursor = page.next,
              !.barrier = IF drained THEN [checked |-> page.checked, seen |-> page.seen] ELSE NoBarrier,
              !.lost = IF drained /\ clock < page.checked + Freshness THEN 0 ELSE @]
        /\ web' = [web EXCEPT !.page = NoPage] /\ UNCHANGED <<safe, clock>>

-----------------------------------------------------------------------------
(* The private store.                                                      *)

\* clean(): retained controls are noted and their questions suppressed, the
\* store forgets them and remembers the control, the notes are completed; and
\* what can no longer be answered expires.
Cleaned ==
    LET kept == Retained(book)
        noted == [book EXCEPT !.applied = [c \in Controls |-> IF c \in kept THEN "pending" ELSE @[c]],
                              !.imports = [c \in Controls |-> IF c \in kept /\ @[c] # "none" THEN "suppressed" ELSE @[c]]]
        wiped == [raw |-> safe.raw \ kept, tombs |-> safe.tombs \cup kept]
        done == [noted EXCEPT !.applied = [c \in Controls |-> IF c \in kept THEN "applied" ELSE @[c]]]
        over == [done EXCEPT !.imports = [c \in Controls |-> IF @[c] \in {"content_pending", "available"} /\ clock >= QuestionHours THEN "expired" ELSE @[c]]]
        swept == [wiped EXCEPT !.raw = {c \in @ : over.imports[c] \notin {"suppressed", "expired"}}]
    IN  <<[b |-> noted, s |-> safe], [b |-> noted, s |-> wiped], [b |-> done, s |-> wiped], [b |-> over, s |-> wiped], [b |-> over, s |-> swept]>>
Maintenance == Cleaned[5] # [b |-> book, s |-> safe] /\ Commits(Cleaned)

\* importQuestion(): behind a barrier, a question that is neither withdrawn nor
\* over is imported in three commits; tombstones have the last word.
ImportQuestion(c) ==
    LET b == Cleaned[5].b
        s == Cleaned[5].s
        row == [b EXCEPT !.imports[c] = "content_pending"]
        stored == [s EXCEPT !.raw = @ \cup {c}]
    IN  /\ Barrier /\ clock < QuestionHours
        /\ ~(c \in Retained(b) /\ clock < OverAt(c)) /\ b.imports[c] \in {"none", "content_pending"} /\ c \notin s.tombs
        /\ Commits(Cleaned \o <<[b |-> row, s |-> s], [b |-> row, s |-> stored],
                                [b |-> [row EXCEPT !.imports[c] = "available"], s |-> stored]>>)

\* pruneMetadata() with prune(): nothing unresolved is forgotten; first the
\* journal forgets, then the store, then the rows of the imports.
PruneMetadata ==
    LET b == Cleaned[5].b
        s == Cleaned[5].s
        over == {c \in Retained(b) : OverAt(c) <= clock}
        pruned == [b EXCEPT !.rows = [c \in Controls |-> IF c \in over THEN "forgotten" ELSE @[c]], !.cursor = 0, !.barrier = NoBarrier]
        old == IF Retention <= clock THEN {c \in Controls : b.imports[c] # "none"} ELSE {}
        retired == {c \in Controls : b.applied[c] # "none" /\ OverAt(c) <= clock /\ c \notin Retained(pruned)}
        emptied == [raw |-> s.raw \ old, tombs |-> s.tombs \ retired]
        gone == [pruned EXCEPT !.imports = [c \in Controls |-> IF c \in old THEN "none" ELSE @[c]],
                               !.applied = [c \in Controls |-> IF c \in retired THEN "none" ELSE @[c]]]
    IN  /\ b.pending = NoSync /\ \A c \in over : b.rows[c] = "acked"
        /\ b.lost # 0 => b.lost > clock
        /\ \A c \in old : b.imports[c] \in {"suppressed", "expired"}
        /\ \A c \in retired : b.applied[c] = "applied"
        /\ over \cup old \cup retired # {}
        /\ Commits(Cleaned \o <<[b |-> pruned, s |-> s], [b |-> pruned, s |-> emptied], [b |-> gone, s |-> emptied]>>)

-----------------------------------------------------------------------------
(* The website (external), time and crashes.                               *)

Issue(c) ==
    /\ c \notin Range(web.issued)
    /\ web' = [web EXCEPT !.issued = Append(@, c), !.at[c] = clock] /\ UNCHANGED <<book, safe, clock>>

\* The first control after the cursor that was not acknowledged, and where to
\* read on; the request may be answered again.
Serve ==
    LET acked == web.acked \cup book.pending.acks
        left == {i \in DOMAIN web.issued : i > book.pending.after /\ web.issued[i] \notin acked}
        first == Min(left)
    IN  /\ book.pending # NoSync
        /\ web' = [web EXCEPT !.acked = acked,
              !.page = [control |-> IF left = {} THEN "none" ELSE web.issued[first], checked |-> clock, seen |-> Len(web.issued),
                        next |-> IF Cardinality(left) > 1 THEN first ELSE 0]]
        /\ web' # web /\ UNCHANGED <<book, safe, clock>>

PassHour == clock < LastHour /\ clock' = clock + 1 /\ UNCHANGED <<book, safe, web>>
ControlsCrash == Restarted(book) # book /\ Restart(book, safe)

AskControlsNext ==
    \/ PrepareControls \/ AcceptControls \/ Maintenance \/ PruneMetadata \/ Serve \/ PassHour \/ ControlsCrash
    \/ \E c \in Controls : ImportQuestion(c) \/ Issue(c)

AskControlsSpec == AskControlsInit /\ [][AskControlsNext]_controlVars

-----------------------------------------------------------------------------
(* Properties.                                                             *)

\* Behind a barrier every control the website had issued when it was checked is
\* recorded; what is withdrawn is not in the store once the store knows, and
\* never again, even when the control itself is forgotten; and only what the
\* website knows to be applied is forgotten.
WithdrawnForGood ==
    /\ Barrier => \A i \in 1..book.barrier.seen : book.rows[web.issued[i]] # "none"
    /\ safe.raw \cap (safe.tombs \cup {c \in Controls : book.rows[c] = "forgotten"}) = {}
    /\ \A c \in Controls : book.rows[c] \in {"acked", "forgotten"} => c \in web.acked
    /\ \A c \in Controls : book.applied[c] = "applied" => c \in safe.tombs \/ OverAt(c) <= clock
=============================================================================
