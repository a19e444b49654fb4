------------------------------ MODULE AskProofs ------------------------------
(***************************************************************************)
(* Public questions (AskTrue of MCEffects) and the types of everything     *)
(* beyond HQ's rows, for every number of questions, turns, requests and    *)
(* controls.                                                               *)
(*                                                                         *)
(* Four inductive invariants.  The one of Ask speaks of a set of stores at *)
(* any commit (AskKept), so that a handler keeps it if each of its commits *)
(* does (RunsTwo, RunsApplied and their kin).  The one of AskGrants        *)
(* relates the length of the journal to the turns that are not settled     *)
(* yet, and the charges of a grant to the turns of its day.  The one of    *)
(* AskWire says what is known at each stage of an exchange, when late      *)
(* requests may arrive at any other.  The one of AskControls follows how   *)
(* much of the website's list HQ has read (Seen), through the cursor, the  *)
(* request, its page and the barrier.                                      *)
(***************************************************************************)
EXTENDS EffectsProofs

-----------------------------------------------------------------------------
(* Public questions.                                                       *)

\* What HQ and the outside are made of.
AskRecord ==
    [up : BOOLEAN, held : BOOLEAN, barrier : BOOLEAN, known : SUBSET Questions, wire : Wires,
     imports : [Questions -> Imports], dispatch : [Questions -> Dispatches],
     claimed : SUBSET Questions, queue : SUBSET Questions, answers : SUBSET Questions,
     receipt : [Questions -> {"none", "accepted", "discarded"}], tries : [Questions -> 0..Attempts],
     notFound : BOOLEAN, vault : [Questions -> {"none", "question", "answered"}], auth : AuthorityState, lag : BOOLEAN]
SiteRecord ==
    [withdrawn : SUBSET Questions, flying : SUBSET Questions,
     model : [Questions -> {"none", "running", "ended"}], got : [Questions -> {"none", "accepted", "discarded"}]]

\* What the content store has of a question.
Contents == {"none", "question", "answered"}
\* A turn that no longer counts as under way.
EndedTurns == {"none", "unsent", "settled"}

\* One question: what the provider and the website have of it is in the journal,
\* and the content store holds nothing of it that is withdrawn or not imported.
QuestionKept(s, t, q) ==
    /\ t.model[q] # "none" => s.auth.model[q] \in {"transmitted", "settled", "unknown"}
    /\ s.auth.model[q] = "settled" => t.model[q] = "ended"
    /\ s.dispatch[q] = "completed" => s.auth.model[q] = "settled"
    /\ s.dispatch[q] # "none" => s.imports[q] # "none"
    /\ q \in t.flying \/ t.got[q] # "none" => s.auth.model[q] = "settled" /\ s.auth.answer[q] # "none"
    /\ s.receipt[q] = "accepted" => t.got[q] = "accepted"
    /\ s.imports[q] = "delivered" => s.receipt[q] = "accepted"
    /\ s.imports[q] = "none" => s.vault[q] = "none"
    /\ q \in s.auth.controls => s.vault[q] = "none" /\ q \in s.known

\* HQ in the state s, the website and the provider in t: this holds after every
\* commit, also one HQ dies after.
AskKept(s, t) ==
    /\ s \in AskRecord /\ t \in SiteRecord
    /\ \A q \in Questions : QuestionKept(s, t, q)
    /\ \A p, q \in Questions : s.auth.model[p] \notin EndedTurns /\ s.auth.model[q] \notin EndedTurns => p = q

\* While HQ is up it knows the turn it runs.
TurnCounted(s) ==
    s.up => \A q \in Questions : s.dispatch[q] = "running" => s.auth.model[q] \in {"reserved", "admitted", "transmitted"}

\* Every commit keeps AskKept; TurnCounted holds between handlers.
AskInv == AskKept(ask, site) /\ TurnCounted(ask)

\* Nothing was asked yet.
LEMMA AskStarts == AskInit => AskInv
<1> SUFFICES ASSUME AskInit PROVE AskInv
  OBVIOUS
<1>1. ask.auth \in AuthorityState
  BY DEF AskInit, AuthorityState, Models
<1>2. ask \in AskRecord
  BY <1>1, AskAssumption DEF AskInit, AskRecord, Wires, Idle, Imports, Dispatches
<1>3. site \in SiteRecord
  BY DEF AskInit, SiteRecord
<1>4. /\ \A q \in Questions : /\ ask.auth.model[q] = "none" /\ ask.dispatch[q] = "none" /\ ask.receipt[q] = "none"
                              /\ ask.imports[q] = "none" /\ ask.vault[q] = "none" /\ site.model[q] = "none" /\ site.got[q] = "none"
      /\ ask.auth.controls = {} /\ site.flying = {}
  BY DEF AskInit
<1> QED
  BY <1>2, <1>3, <1>4 DEF AskInv, AskKept, QuestionKept, TurnCounted, EndedTurns

\* The invariant holds the types, one turn at a time and what is said of answers.
LEMMA AskPromise ==
  AskInv => AskTypeOK /\ OnePublicTurn /\ AnswerAccounted
<1> SUFFICES ASSUME AskInv PROVE AskTypeOK /\ OnePublicTurn /\ AnswerAccounted
  OBVIOUS
<1>1. ask \in AskRecord /\ site \in SiteRecord
  BY DEF AskInv, AskKept
<1>2. AskTypeOK
  BY <1>1 DEF AskTypeOK, AskRecord, SiteRecord
<1>3. OnePublicTurn
  <2> DEFINE R == {q \in Questions : site.model[q] = "running"}
  <2>1. \A p, q \in R : p = q
    BY DEF AskInv, AskKept, QuestionKept, EndedTurns
  <2>2. Cardinality(R) <= 1
    <3>1. CASE R = {}
      BY <3>1, FS_EmptySet
    <3>2. CASE R # {}
      <4>1. PICK p \in R : TRUE
        BY <3>2
      <4>2. R = {p}
        BY <2>1, <4>1
      <4> QED
        BY <4>2, FS_Singleton
    <3> QED
      BY <3>1, <3>2
  <2>3. \A q \in Questions : site.model[q] # "none" => ask.auth.model[q] \in {"transmitted", "settled", "unknown"}
    BY DEF AskInv, AskKept, QuestionKept
  <2> QED
    BY <2>2, <2>3 DEF OnePublicTurn
<1>4. AnswerAccounted
  BY DEF AskInv, AskKept, QuestionKept, AnswerAccounted
<1> QED
  BY <1>2, <1>3, <1>4

\* A commit of one field at a time.
LEMMA SetImports ==
  ASSUME NEW s, NEW t, AskKept(s, t), NEW f \in [Questions -> Imports],
         \A q \in Questions : (f[q] = "delivered" => s.receipt[q] = "accepted") /\ (f[q] = "none" => s.imports[q] = "none")
  PROVE  AskKept([s EXCEPT !.imports = f], t)
<1>1. s \in AskRecord
  BY DEF AskKept
<1>2. [s EXCEPT !.imports = f] \in AskRecord
  BY <1>1 DEF AskRecord
<1>3. /\ [s EXCEPT !.imports = f].imports = f /\ [s EXCEPT !.imports = f].auth = s.auth /\ [s EXCEPT !.imports = f].dispatch = s.dispatch
      /\ [s EXCEPT !.imports = f].receipt = s.receipt /\ [s EXCEPT !.imports = f].vault = s.vault /\ [s EXCEPT !.imports = f].known = s.known
  BY <1>1 DEF AskRecord
<1> QED
  BY <1>2, <1>3 DEF AskKept, QuestionKept

\* The content store alone.
LEMMA SetVault ==
  ASSUME NEW s, NEW t, AskKept(s, t), NEW f \in [Questions -> {"none", "question", "answered"}],
         \A q \in Questions : (s.imports[q] = "none" => f[q] = "none") /\ (q \in s.auth.controls => f[q] = "none")
  PROVE  AskKept([s EXCEPT !.vault = f], t)
<1>1. s \in AskRecord
  BY DEF AskKept
<1>2. [s EXCEPT !.vault = f] \in AskRecord
  BY <1>1 DEF AskRecord
<1>3. /\ [s EXCEPT !.vault = f].vault = f /\ [s EXCEPT !.vault = f].auth = s.auth /\ [s EXCEPT !.vault = f].dispatch = s.dispatch
      /\ [s EXCEPT !.vault = f].receipt = s.receipt /\ [s EXCEPT !.vault = f].imports = s.imports /\ [s EXCEPT !.vault = f].known = s.known
  BY <1>1 DEF AskRecord
<1> QED
  BY <1>2, <1>3 DEF AskKept, QuestionKept

\* The executions alone.
LEMMA SetDispatch ==
  ASSUME NEW s, NEW t, AskKept(s, t), NEW f \in [Questions -> Dispatches],
         \A q \in Questions : (f[q] = "completed" => s.auth.model[q] = "settled") /\ (f[q] # "none" => s.imports[q] # "none")
  PROVE  AskKept([s EXCEPT !.dispatch = f], t)
<1>1. s \in AskRecord
  BY DEF AskKept
<1>2. [s EXCEPT !.dispatch = f] \in AskRecord
  BY <1>1 DEF AskRecord
<1>3. /\ [s EXCEPT !.dispatch = f].dispatch = f /\ [s EXCEPT !.dispatch = f].auth = s.auth /\ [s EXCEPT !.dispatch = f].vault = s.vault
      /\ [s EXCEPT !.dispatch = f].receipt = s.receipt /\ [s EXCEPT !.dispatch = f].imports = s.imports /\ [s EXCEPT !.dispatch = f].known = s.known
  BY <1>1 DEF AskRecord
<1> QED
  BY <1>2, <1>3 DEF AskKept, QuestionKept

\* The receipts alone.
LEMMA SetReceipt ==
  ASSUME NEW s, NEW t, AskKept(s, t), NEW f \in [Questions -> {"none", "accepted", "discarded"}],
         \A q \in Questions : (f[q] = "accepted" => t.got[q] = "accepted") /\ (s.receipt[q] = "accepted" => f[q] = "accepted")
  PROVE  AskKept([s EXCEPT !.receipt = f], t)
<1>1. s \in AskRecord
  BY DEF AskKept
<1>2. [s EXCEPT !.receipt = f] \in AskRecord
  BY <1>1 DEF AskRecord
<1>3. /\ [s EXCEPT !.receipt = f].receipt = f /\ [s EXCEPT !.receipt = f].auth = s.auth /\ [s EXCEPT !.receipt = f].vault = s.vault
      /\ [s EXCEPT !.receipt = f].dispatch = s.dispatch /\ [s EXCEPT !.receipt = f].imports = s.imports /\ [s EXCEPT !.receipt = f].known = s.known
  BY <1>1 DEF AskRecord
<1> QED
  BY <1>2, <1>3 DEF AskKept, QuestionKept

\* What the invariant does not read.
LEMMA SetOther ==
  ASSUME NEW s, NEW t, AskKept(s, t), NEW r \in AskRecord,
         r.imports = s.imports, r.vault = s.vault, r.dispatch = s.dispatch, r.receipt = s.receipt, r.auth = s.auth, s.known \subseteq r.known
  PROVE  AskKept(r, t)
BY DEF AskKept, QuestionKept

\* The journal.
LEMMA SetAuth ==
  ASSUME NEW s, NEW t, AskKept(s, t), NEW a \in AuthorityState,
         \A q \in Questions :
            /\ t.model[q] # "none" => a.model[q] \in {"transmitted", "settled", "unknown"}
            /\ a.model[q] = "settled" => t.model[q] = "ended"
            /\ s.auth.model[q] = "settled" => a.model[q] = "settled"
            /\ s.auth.answer[q] # "none" => a.answer[q] # "none"
            /\ q \in a.controls => s.vault[q] = "none" /\ q \in s.known,
         \A p, q \in Questions : a.model[p] \notin EndedTurns /\ a.model[q] \notin EndedTurns => p = q
  PROVE  AskKept([s EXCEPT !.auth = a], t)
<1>1. s \in AskRecord
  BY DEF AskKept
<1>2. [s EXCEPT !.auth = a] \in AskRecord
  BY <1>1 DEF AskRecord
<1>3. /\ [s EXCEPT !.auth = a].auth = a /\ [s EXCEPT !.auth = a].receipt = s.receipt /\ [s EXCEPT !.auth = a].vault = s.vault
      /\ [s EXCEPT !.auth = a].dispatch = s.dispatch /\ [s EXCEPT !.auth = a].imports = s.imports /\ [s EXCEPT !.auth = a].known = s.known
  BY <1>1 DEF AskRecord
<1> QED
  BY <1>2, <1>3 DEF AskKept, QuestionKept

\* What clean() leaves, with the fields it does not touch.
SameApart(s, r) ==
    /\ r.up = s.up /\ r.held = s.held /\ r.barrier = s.barrier /\ r.known = s.known /\ r.wire = s.wire /\ r.dispatch = s.dispatch
    /\ r.claimed = s.claimed /\ r.queue = s.queue /\ r.answers = s.answers /\ r.receipt = s.receipt /\ r.tries = s.tries
    /\ r.notFound = s.notFound /\ r.auth = s.auth /\ r.lag = s.lag

\* clean() keeps the stores as they should be, and leaves nothing of what is withdrawn.
LEMMA CleanKeeps ==
  ASSUME NEW s, NEW t, AskKept(s, t)
  PROVE  /\ AskKept(Clean(s), t) /\ Clean(s) \in AskRecord /\ SameApart(s, Clean(s))
         /\ \A q \in Questions : /\ q \in s.known => Clean(s).vault[q] = "none"
                                 /\ Clean(s).imports[q] = "none" <=> s.imports[q] = "none"
                                 /\ Clean(s).imports[q] \notin Gone \cup {"none"} => Clean(s).imports[q] = s.imports[q] /\ q \notin s.known
<1> DEFINE swept(q) == IF s.imports[q] = "none" THEN "none"
                       ELSE IF Withdrawn(s, q) THEN IF s.imports[q] \in {"held", "answer_reserved"} THEN "held" ELSE "suppressed"
                       ELSE IF s.receipt[q] = "discarded" /\ s.imports[q] # "held" THEN "suppressed"
                       ELSE s.imports[q]
           rows == [q \in Questions |-> swept(q)]
           vault == [q \in Questions |-> IF rows[q] \in Gone THEN "none" ELSE s.vault[q]]
<1>1. s \in AskRecord
  BY DEF AskKept
<1>2. Clean(s) = [s EXCEPT !.imports = rows, !.vault = vault]
  BY DEF Clean
<1>3. \A q \in Questions : /\ s.imports[q] \in Imports
                           /\ rows[q] \in Imports /\ (rows[q] = "none" <=> s.imports[q] = "none")
                           /\ rows[q] \notin Gone \cup {"none"} => rows[q] = s.imports[q] /\ q \notin s.known
                           /\ s.vault[q] \in {"none", "question", "answered"}
  <2>1. SUFFICES ASSUME NEW q \in Questions
                 PROVE  /\ s.imports[q] \in Imports
                        /\ rows[q] \in Imports /\ (rows[q] = "none" <=> s.imports[q] = "none")
                        /\ rows[q] \notin Gone \cup {"none"} => rows[q] = s.imports[q] /\ q \notin s.known
                        /\ s.vault[q] \in {"none", "question", "answered"}
    OBVIOUS
  <2>2. s.imports[q] \in Imports /\ s.vault[q] \in {"none", "question", "answered"}
    BY <1>1 DEF AskRecord
  <2>3. rows[q] = swept(q)
    OBVIOUS
  <2>4. CASE s.imports[q] = "none"
    BY <2>2, <2>3, <2>4 DEF Imports, Gone
  <2>5. CASE s.imports[q] # "none" /\ Withdrawn(s, q)
    <3>1. rows[q] = IF s.imports[q] \in {"held", "answer_reserved"} THEN "held" ELSE "suppressed"
      BY <2>3, <2>5
    <3> QED
      BY <2>2, <2>5, <3>1 DEF Imports, Gone
  <2>6. CASE s.imports[q] # "none" /\ ~Withdrawn(s, q)
    <3>1. rows[q] = IF s.receipt[q] = "discarded" /\ s.imports[q] # "held" THEN "suppressed" ELSE s.imports[q]
      BY <2>3, <2>6
    <3> QED
      BY <2>2, <2>6, <3>1 DEF Imports, Gone, Withdrawn
  <2> QED
    BY <2>4, <2>5, <2>6
<1>4. rows \in [Questions -> Imports]
  BY <1>3
<1>5. vault \in [Questions -> {"none", "question", "answered"}] /\ \A q \in Questions : vault[q] = "none" \/ vault[q] = s.vault[q]
  BY <1>3
<1> HIDE DEF rows, vault
<1>6. AskKept([s EXCEPT !.imports = rows], t)
  <2>1. \A q \in Questions : (rows[q] = "delivered" => s.receipt[q] = "accepted") /\ (rows[q] = "none" => s.imports[q] = "none")
    BY <1>3 DEF AskKept, QuestionKept, Gone
  <2> QED
    BY <1>4, <2>1, SetImports
<1> DEFINE m == [s EXCEPT !.imports = rows]
<1>7. /\ m \in AskRecord /\ m.imports = rows /\ m.vault = s.vault /\ m.auth = s.auth /\ SameApart(s, m)
      /\ Clean(s) = [m EXCEPT !.vault = vault]
  BY <1>1, <1>2, <1>4 DEF AskRecord, SameApart
<1>8. AskKept(m, t)
  BY <1>6
<1> HIDE DEF m
<1>9. AskKept(Clean(s), t)
  <2>1. \A q \in Questions : (m.imports[q] = "none" => vault[q] = "none") /\ (q \in m.auth.controls => vault[q] = "none")
    BY <1>3, <1>5, <1>7 DEF AskKept, QuestionKept
  <2> QED
    BY <1>5, <1>7, <1>8, <2>1, SetVault
<1>10. Clean(s).imports = rows /\ SameApart(m, Clean(s))
  BY <1>7 DEF AskRecord, SameApart
<1>11. Clean(s) \in AskRecord /\ Clean(s).vault = vault
  <2>1. Clean(s) \in AskRecord
    BY <1>9 DEF AskKept
  <2> QED
    BY <1>7, <2>1 DEF AskRecord
<1>12. \A q \in Questions : q \in s.known => vault[q] = "none"
  <2>1. SUFFICES ASSUME NEW q \in Questions, q \in s.known PROVE vault[q] = "none"
    OBVIOUS
  <2>2. rows[q] \in Gone \/ s.imports[q] = "none"
    BY <1>3, <2>1
  <2>3. s.imports[q] = "none" => s.vault[q] = "none"
    BY DEF AskKept, QuestionKept
  <2> QED
    BY <2>2, <2>3 DEF vault
<1> QED
  BY <1>3, <1>7, <1>9, <1>10, <1>11, <1>12 DEF SameApart

\* So does the comparison of the rows with the content store.
LEMMA ReconciledKeeps ==
  ASSUME NEW s, NEW t, AskKept(s, t)
  PROVE  AskKept(Reconciled(s), t) /\ Reconciled(s) \in AskRecord /\ SameApart(s, Reconciled(s)) /\ Reconciled(s).vault = Clean(s).vault
<1> DEFINE c == Clean(s)
           row(q) == IF c.imports[q] \in Gone \cup {"none"} \/ c.vault[q] = "none" THEN c.imports[q]
                     ELSE IF c.vault[q] = "answered" THEN IF c.receipt[q] = "accepted" THEN "delivered" ELSE "answer_staged"
                     ELSE IF c.imports[q] = "answer_reserved" THEN "answer_reserved" ELSE "available"
           rows == [q \in Questions |-> row(q)]
<1>1. AskKept(c, t) /\ c \in AskRecord /\ SameApart(s, c)
  BY CleanKeeps
<1>2. Reconciled(s) = [c EXCEPT !.imports = rows]
  BY DEF Reconciled
<1> HIDE DEF c
<1>3. \A q \in Questions : c.imports[q] \in Imports
  BY <1>1 DEF AskRecord
<1>4. \A q \in Questions : /\ rows[q] \in Imports /\ (rows[q] = "none" => c.imports[q] = "none")
                           /\ rows[q] = "delivered" => c.receipt[q] = "accepted" \/ c.imports[q] = "delivered"
  BY <1>3 DEF Imports, Gone
<1>5. rows \in [Questions -> Imports]
  BY <1>4
<1> HIDE DEF rows
<1>6. AskKept([c EXCEPT !.imports = rows], t)
  <2>1. \A q \in Questions : (rows[q] = "delivered" => c.receipt[q] = "accepted") /\ (rows[q] = "none" => c.imports[q] = "none")
    BY <1>1, <1>4 DEF AskKept, QuestionKept
  <2> QED
    BY <1>1, <1>5, <2>1, SetImports
<1>7. SameApart(c, Reconciled(s)) /\ Reconciled(s).vault = c.vault
  BY <1>1, <1>2, <1>5 DEF AskRecord, SameApart
<1>8. Reconciled(s) \in AskRecord
  BY <1>2, <1>6 DEF AskKept
<1> QED
  BY <1>1, <1>2, <1>6, <1>7, <1>8 DEF SameApart, c

\* A process that died, also before the checkpoint of its last entry was written.
LEMMA DeadKept ==
  ASSUME NEW s, NEW t, AskKept(s, t)
  PROVE  /\ AskKept(Dead(s), t) /\ ~Dead(s).up
         /\ AskKept([s EXCEPT !.auth.torn = TRUE], t)
<1>1. s \in AskRecord /\ s.auth \in AuthorityState
  BY DEF AskKept, AskRecord
<1>2. Dead(s) \in AskRecord
  BY <1>1 DEF Dead, AskRecord, Wires
<1>3. /\ Dead(s).imports = s.imports /\ Dead(s).vault = s.vault /\ Dead(s).dispatch = s.dispatch /\ Dead(s).receipt = s.receipt
      /\ Dead(s).auth = s.auth /\ Dead(s).known = s.known /\ ~Dead(s).up
  BY <1>1 DEF Dead, AskRecord
<1>4. AskKept(Dead(s), t)
  BY <1>2, <1>3, SetOther
<1> DEFINE a == [s.auth EXCEPT !.torn = TRUE]
<1>5. a \in AuthorityState /\ a.model = s.auth.model /\ a.answer = s.auth.answer /\ a.controls = s.auth.controls
  BY <1>1 DEF AuthorityState
<1>6. [s EXCEPT !.auth.torn = TRUE] = [s EXCEPT !.auth = a]
  BY <1>1 DEF AskRecord
<1> HIDE DEF a
<1>7. AskKept([s EXCEPT !.auth = a], t)
  <2>1. \A q \in Questions :
            /\ t.model[q] # "none" => a.model[q] \in {"transmitted", "settled", "unknown"}
            /\ a.model[q] = "settled" => t.model[q] = "ended"
            /\ s.auth.model[q] = "settled" => a.model[q] = "settled"
            /\ s.auth.answer[q] # "none" => a.answer[q] # "none"
            /\ q \in a.controls => s.vault[q] = "none" /\ q \in s.known
    BY <1>5 DEF AskKept, QuestionKept
  <2>2. \A p, q \in Questions : a.model[p] \notin EndedTurns /\ a.model[q] \notin EndedTurns => p = q
    BY <1>5 DEF AskKept
  <2> QED
    BY <1>5, <2>1, <2>2, SetAuth
<1> QED
  BY <1>3, <1>4, <1>6, <1>7

\* A handler keeps the invariant when each of its commits does, and its effect.
LEMMA RunsKept ==
  ASSUME NEW ss, NEW outside, Len(ss) \in Nat \ {0}, Runs(ss, outside),
         \A n \in 1..Len(ss) : AskKept(ss[n], site),
         AskKept(ss[Len(ss)], outside), TurnCounted(ss[Len(ss)])
  PROVE  AskInv'
<1>1. CASE ask' = ss[Len(ss)] /\ site' = outside
  BY <1>1 DEF AskInv, AskKept, QuestionKept, TurnCounted
<1>2. ASSUME NEW n \in 1..Len(ss), site' = site, ask' = Dead(ss[n]) PROVE AskInv'
  <2>1. AskKept(Dead(ss[n]), site) /\ ~Dead(ss[n]).up
    BY <1>2, DeadKept
  <2> QED
    BY <1>2, <2>1 DEF AskInv, AskKept, QuestionKept, TurnCounted
<1>3. ASSUME NEW n \in 1..Len(ss), site' = site, ask' = Dead([ss[n] EXCEPT !.auth.torn = TRUE]) PROVE AskInv'
  <2> DEFINE r == [ss[n] EXCEPT !.auth.torn = TRUE]
  <2>1. AskKept(r, site)
    BY <1>3, DeadKept
  <2>2. ask' = Dead(r)
    BY <1>3
  <2> HIDE DEF r
  <2>3. AskKept(Dead(r), site) /\ ~Dead(r).up
    BY <2>1, DeadKept
  <2>4. site' = site
    BY <1>3
  <2> QED
    BY <2>2, <2>3, <2>4 DEF AskInv, AskKept, QuestionKept, TurnCounted
<1> QED
  BY <1>1, <1>2, <1>3 DEF Runs

\* The journal of one question, and a commit that says so.
LEMMA SetModel ==
  ASSUME NEW s, NEW t, AskKept(s, t), NEW q \in Questions, NEW m \in Models,
         s.auth.model[q] # "settled", m = "settled" => t.model[q] = "ended",
         t.model[q] # "none" => m \in {"transmitted", "settled", "unknown"},
         m \notin EndedTurns => \A p \in Questions \ {q} : s.auth.model[p] \in EndedTurns
  PROVE  /\ AskKept([s EXCEPT !.auth.model[q] = m], t)
         /\ [s EXCEPT !.auth.model[q] = m] \in AskRecord
         /\ [s EXCEPT !.auth.model[q] = m].auth.model = [s.auth.model EXCEPT ![q] = m]
         /\ [s EXCEPT !.auth.model[q] = m].imports = s.imports /\ [s EXCEPT !.auth.model[q] = m].dispatch = s.dispatch
         /\ [s EXCEPT !.auth.model[q] = m].up = s.up /\ [s EXCEPT !.auth.model[q] = m].known = s.known
<1> DEFINE a == [s.auth EXCEPT !.model[q] = m]
<1>1. s \in AskRecord /\ s.auth \in AuthorityState /\ s.auth.model \in [Questions -> Models]
  BY DEF AskKept, AskRecord, AuthorityState
<1>2. a.model = [s.auth.model EXCEPT ![q] = m] /\ a.answer = s.auth.answer /\ a.controls = s.auth.controls
  BY <1>1 DEF AuthorityState
<1>3. a \in AuthorityState
  BY <1>1 DEF AuthorityState
<1>4. [s EXCEPT !.auth.model[q] = m] = [s EXCEPT !.auth = a]
  BY <1>1 DEF AskRecord
<1> HIDE DEF a
<1>5. \A p \in Questions : a.model[p] = IF p = q THEN m ELSE s.auth.model[p]
  BY <1>1, <1>2
<1>6. AskKept([s EXCEPT !.auth = a], t)
  <2>1. ASSUME NEW p \in Questions
        PROVE  /\ t.model[p] # "none" => a.model[p] \in {"transmitted", "settled", "unknown"}
               /\ a.model[p] = "settled" => t.model[p] = "ended"
               /\ s.auth.model[p] = "settled" => a.model[p] = "settled"
               /\ s.auth.answer[p] # "none" => a.answer[p] # "none"
               /\ p \in a.controls => s.vault[p] = "none" /\ p \in s.known
    BY <1>2, <1>5, <2>1 DEF AskKept, QuestionKept
  <2>2. \A p, r \in Questions : a.model[p] \notin EndedTurns /\ a.model[r] \notin EndedTurns => p = r
    BY <1>5 DEF AskKept
  <2> QED
    BY <1>3, <2>1, <2>2, SetAuth
<1>7. [s EXCEPT !.auth = a].auth = a /\ [s EXCEPT !.auth = a].imports = s.imports /\ [s EXCEPT !.auth = a].dispatch = s.dispatch
      /\ [s EXCEPT !.auth = a].up = s.up /\ [s EXCEPT !.auth = a].known = s.known
  BY <1>1 DEF AskRecord
<1>8. [s EXCEPT !.auth = a] \in AskRecord
  BY <1>6 DEF AskKept
<1> QED
  BY <1>2, <1>4, <1>6, <1>7, <1>8

\* A question's row in one table.
LEMMA SetOne ==
  ASSUME NEW s \in AskRecord, NEW q \in Questions
  PROVE  /\ \A v \in Imports : /\ [s EXCEPT !.imports[q] = v] = [s EXCEPT !.imports = [s.imports EXCEPT ![q] = v]]
                               /\ [s.imports EXCEPT ![q] = v] \in [Questions -> Imports]
         /\ \A v \in Dispatches : /\ [s EXCEPT !.dispatch[q] = v] = [s EXCEPT !.dispatch = [s.dispatch EXCEPT ![q] = v]]
                                  /\ [s.dispatch EXCEPT ![q] = v] \in [Questions -> Dispatches]
         /\ \A v \in {"none", "question", "answered"} : /\ [s EXCEPT !.vault[q] = v] = [s EXCEPT !.vault = [s.vault EXCEPT ![q] = v]]
                                                        /\ [s.vault EXCEPT ![q] = v] \in [Questions -> {"none", "question", "answered"}]
         /\ \A f : SameApart([s EXCEPT !.imports = f], s) /\ SameApart([s EXCEPT !.vault = f], s)
<1>1. s.imports \in [Questions -> Imports] /\ s.dispatch \in [Questions -> Dispatches] /\ s.vault \in [Questions -> {"none", "question", "answered"}]
  BY DEF AskRecord
<1>2. \A f : SameApart([s EXCEPT !.imports = f], s) /\ SameApart([s EXCEPT !.vault = f], s)
  BY DEF AskRecord, SameApart
<1>3. \A v \in Imports : [s EXCEPT !.imports[q] = v] = [s EXCEPT !.imports = [s.imports EXCEPT ![q] = v]]
  BY DEF AskRecord
<1>4. \A v \in Dispatches : [s EXCEPT !.dispatch[q] = v] = [s EXCEPT !.dispatch = [s.dispatch EXCEPT ![q] = v]]
  BY DEF AskRecord
<1>5. \A v \in {"none", "question", "answered"} : [s EXCEPT !.vault[q] = v] = [s EXCEPT !.vault = [s.vault EXCEPT ![q] = v]]
  BY DEF AskRecord
<1> QED
  BY <1>1, <1>2, <1>3, <1>4, <1>5

\* The import of one question.
LEMMA SetImport ==
  ASSUME NEW s, NEW t, AskKept(s, t), NEW q \in Questions, NEW v \in Imports,
         v = "delivered" => s.receipt[q] = "accepted", v # "none"
  PROVE  /\ AskKept([s EXCEPT !.imports[q] = v], t) /\ SameApart([s EXCEPT !.imports[q] = v], s)
         /\ [s EXCEPT !.imports[q] = v].imports[q] = v /\ [s EXCEPT !.imports[q] = v].vault = s.vault
<1> DEFINE f == [s.imports EXCEPT ![q] = v]
<1>1. s \in AskRecord /\ s.imports \in [Questions -> Imports]
  BY DEF AskKept, AskRecord
<1>2. [s EXCEPT !.imports[q] = v] = [s EXCEPT !.imports = f] /\ f \in [Questions -> Imports] /\ SameApart([s EXCEPT !.imports = f], s)
  BY <1>1, SetOne
<1>3. \A p \in Questions : f[p] = IF p = q THEN v ELSE s.imports[p]
  BY <1>1
<1> HIDE DEF f
<1>4. \A p \in Questions : (f[p] = "delivered" => s.receipt[p] = "accepted") /\ (f[p] = "none" => s.imports[p] = "none")
  BY <1>3 DEF AskKept, QuestionKept
<1>5. [s EXCEPT !.imports = f].imports = f /\ [s EXCEPT !.imports = f].vault = s.vault
  BY <1>1 DEF AskRecord
<1>6. AskKept([s EXCEPT !.imports = f], t)
  BY <1>2, <1>4, SetImports
<1>7. f[q] = v
  BY <1>3
<1> DEFINE r == [s EXCEPT !.imports = f]
<1>8. [s EXCEPT !.imports[q] = v] = r /\ AskKept(r, t) /\ SameApart(r, s) /\ r.imports = f /\ r.vault = s.vault
  BY <1>2, <1>5, <1>6
<1> HIDE DEF r
<1> QED
  BY <1>7, <1>8

\* The content of one question.
LEMMA SetVaultOf ==
  ASSUME NEW s, NEW t, AskKept(s, t), NEW q \in Questions, NEW v \in Contents,
         s.imports[q] # "none", q \notin s.known
  PROVE  /\ AskKept([s EXCEPT !.vault[q] = v], t) /\ SameApart([s EXCEPT !.vault[q] = v], s)
         /\ [s EXCEPT !.vault[q] = v].vault[q] = v /\ [s EXCEPT !.vault[q] = v].imports = s.imports
<1> DEFINE f == [s.vault EXCEPT ![q] = v]
<1>1. s \in AskRecord /\ s.vault \in [Questions -> {"none", "question", "answered"}]
  BY DEF AskKept, AskRecord
<1>2. [s EXCEPT !.vault[q] = v] = [s EXCEPT !.vault = f] /\ f \in [Questions -> {"none", "question", "answered"}] /\ SameApart([s EXCEPT !.vault = f], s)
  BY <1>1, SetOne DEF Contents
<1>3. \A p \in Questions : f[p] = IF p = q THEN v ELSE s.vault[p]
  BY <1>1
<1> HIDE DEF f
<1>4. \A p \in Questions : (s.imports[p] = "none" => f[p] = "none") /\ (p \in s.auth.controls => f[p] = "none")
  BY <1>3 DEF AskKept, QuestionKept
<1>5. [s EXCEPT !.vault = f].vault = f /\ [s EXCEPT !.vault = f].imports = s.imports
  BY <1>1 DEF AskRecord
<1>6. AskKept([s EXCEPT !.vault = f], t)
  BY <1>2, <1>4, SetVault
<1>7. f[q] = v
  BY <1>3
<1> DEFINE r == [s EXCEPT !.vault = f]
<1>8. [s EXCEPT !.vault[q] = v] = r /\ AskKept(r, t) /\ SameApart(r, s) /\ r.vault = f /\ r.imports = s.imports
  BY <1>2, <1>5, <1>6
<1> HIDE DEF r
<1> QED
  BY <1>7, <1>8

\* The execution of one question.
LEMMA SetDispatchOf ==
  ASSUME NEW s, NEW t, AskKept(s, t), NEW q \in Questions, NEW v \in Dispatches, v = "completed" => s.auth.model[q] = "settled", s.imports[q] # "none"
  PROVE  /\ AskKept([s EXCEPT !.dispatch[q] = v], t)
         /\ [s EXCEPT !.dispatch[q] = v] \in AskRecord /\ [s EXCEPT !.dispatch[q] = v].auth = s.auth
         /\ \A p \in Questions : [s EXCEPT !.dispatch[q] = v].dispatch[p] = IF p = q THEN v ELSE s.dispatch[p]
<1> DEFINE f == [s.dispatch EXCEPT ![q] = v]
<1>1. s \in AskRecord /\ s.dispatch \in [Questions -> Dispatches]
  BY DEF AskKept, AskRecord
<1>2. [s EXCEPT !.dispatch[q] = v] = [s EXCEPT !.dispatch = f] /\ f \in [Questions -> Dispatches]
  BY <1>1, SetOne
<1>3. \A p \in Questions : f[p] = IF p = q THEN v ELSE s.dispatch[p]
  BY <1>1
<1> HIDE DEF f
<1>4. \A p \in Questions : (f[p] = "completed" => s.auth.model[p] = "settled") /\ (f[p] # "none" => s.imports[p] # "none")
  BY <1>3 DEF AskKept, QuestionKept
<1>5. [s EXCEPT !.dispatch = f].dispatch = f /\ [s EXCEPT !.dispatch = f].auth = s.auth
  BY <1>1 DEF AskRecord
<1>6. AskKept([s EXCEPT !.dispatch = f], t)
  BY <1>2, <1>4, SetDispatch
<1>7. [s EXCEPT !.dispatch = f] \in AskRecord
  BY <1>6 DEF AskKept
<1> DEFINE r == [s EXCEPT !.dispatch = f]
<1>8. [s EXCEPT !.dispatch[q] = v] = r /\ AskKept(r, t) /\ r \in AskRecord /\ r.auth = s.auth /\ r.dispatch = f
  BY <1>2, <1>5, <1>6, <1>7
<1> HIDE DEF r
<1> QED
  BY <1>3, <1>8

\* A commit that changes none of the tables the invariant reads.
LEMMA AskOther ==
  ASSUME AskInv, ask' \in AskRecord, site' = site, ask'.up = ask.up,
         ask'.imports = ask.imports, ask'.vault = ask.vault, ask'.dispatch = ask.dispatch, ask'.receipt = ask.receipt,
         ask'.auth = ask.auth, ask.known \subseteq ask'.known
  PROVE  AskInv'
<1>1. AskKept(ask, site)
  BY DEF AskInv
<1> DEFINE r == ask'
           t == site'
<1>2. AskKept(r, site)
  <2> HIDE DEF r
  <2>1. r \in AskRecord /\ r.imports = ask.imports /\ r.vault = ask.vault /\ r.dispatch = ask.dispatch /\ r.receipt = ask.receipt
        /\ r.auth = ask.auth /\ ask.known \subseteq r.known
    BY DEF r
  <2> QED
    BY <1>1, <2>1, SetOther
<1>3. AskKept(r, t)
  BY <1>2
<1>4. TurnCounted(r)
  BY DEF AskInv, TurnCounted
<1> QED
  BY <1>3, <1>4 DEF AskInv, AskKept, QuestionKept, TurnCounted

\* The sweep before or after another commit, which reads no journal.
LEMMA AskSwept ==
  ASSUME AskInv, NEW r, AskKept(r, site), TurnCounted(r), ask' = r, site' = site
  PROVE  AskInv'
BY DEF AskInv, AskKept, QuestionKept, TurnCounted

\* clean() does not touch what counts turns.
LEMMA CleanCounts ==
  ASSUME NEW s, NEW r, SameApart(s, r), TurnCounted(s)
  PROVE  TurnCounted(r)
BY DEF SameApart, TurnCounted

\* The steps that commit to no journal.
LEMMA AskQuietStep ==
  ASSUME AskInv, NEW q,
         \/ /\ q \in Questions
            /\ \/ Withdraw(q) \/ ExpireQuestion(q) \/ Requeue(q) \/ SubmitAnswer(q) \/ ModelEnds(q) \/ SiteTakes(q)
               \/ AskReceipt(q) \/ ReceiptNotFound(q)
         \/ Maintain \/ PrepareSync \/ LoseExchange \/ Crash
  PROVE  AskInv'
<1>1. AskKept(ask, site) /\ TurnCounted(ask) /\ ask \in AskRecord /\ site \in SiteRecord
  BY DEF AskInv, AskKept
<1> DEFINE c == Clean(ask)
<1>2. AskKept(c, site) /\ c \in AskRecord /\ SameApart(ask, c)
  BY <1>1, CleanKeeps
<1>3. CASE q \in Questions /\ Withdraw(q)
  <2>1. ask' = ask /\ site' \in SiteRecord /\ site'.model = site.model /\ site'.got = site.got /\ site'.flying = site.flying
    BY <1>1, <1>3 DEF Withdraw, SiteRecord
  <2> QED
    BY <1>1, <2>1 DEF AskInv, AskKept, QuestionKept, TurnCounted
<1>4. CASE q \in Questions /\ ExpireQuestion(q)
  <2> DEFINE v == IF ask.imports[q] = "answer_reserved" THEN "held" ELSE "expired"
             r == [ask EXCEPT !.imports[q] = v]
  <2>1. v \in Imports /\ v # "none" /\ v # "delivered" /\ ask' = Clean(r) /\ site' = site
    BY <1>4 DEF ExpireQuestion, Imports, Gone
  <2> HIDE DEF v
  <2>2. AskKept(r, site) /\ SameApart(r, ask)
    BY <1>1, <1>4, <2>1, SetImport
  <2>3. TurnCounted(r)
    BY <1>1, <2>2 DEF SameApart, TurnCounted
  <2> HIDE DEF r
  <2>4. AskKept(Clean(r), site) /\ TurnCounted(Clean(r))
    BY <2>2, <2>3, CleanKeeps, CleanCounts
  <2> QED
    BY <2>1, <2>4, AskSwept
<1>5. CASE (q \in Questions /\ (Requeue(q) \/ SubmitAnswer(q))) \/ Maintain
  <2>1. PICK Q \in SUBSET Questions, A \in SUBSET Questions : ask' = [c EXCEPT !.queue = Q, !.answers = A] /\ site' = site
    <3>1. c.queue \in SUBSET Questions /\ c.answers \in SUBSET Questions
      BY <1>2 DEF AskRecord
    <3>2. CASE q \in Questions /\ Requeue(q)
      <4> DEFINE Q == c.queue \cup {q}
      <4>1. ask' = [c EXCEPT !.queue = Q, !.answers = c.answers] /\ site' = site
        BY <1>2, <3>2 DEF Requeue, AskRecord
      <4>2. Q \in SUBSET Questions
        BY <3>1, <3>2
      <4> HIDE DEF Q
      <4> QED
        BY <3>1, <4>1, <4>2
    <3>3. CASE q \in Questions /\ SubmitAnswer(q)
      <4> DEFINE A == c.answers \cup {q}
      <4>1. ask' = [c EXCEPT !.queue = c.queue, !.answers = A] /\ site' = site
        BY <1>2, <3>3 DEF SubmitAnswer, AskRecord
      <4>2. A \in SUBSET Questions
        BY <3>1, <3>3
      <4> HIDE DEF A
      <4> QED
        BY <3>1, <4>1, <4>2
    <3>4. CASE Maintain
      <4> DEFINE Q == {p \in c.queue : ~ask.held /\ c.imports[p] \notin Gone \cup {"delivered"}}
      <4>1. ask' = [c EXCEPT !.queue = Q, !.answers = c.answers] /\ site' = site
        BY <1>2, <3>4 DEF Maintain, AskRecord
      <4>2. Q \in SUBSET Questions
        BY <3>1
      <4> HIDE DEF Q
      <4> QED
        BY <3>1, <4>1, <4>2
    <3> QED
      BY <1>5, <3>2, <3>3, <3>4
  <2> HIDE DEF c
  <2> DEFINE r == [c EXCEPT !.queue = Q, !.answers = A]
  <2>2. r \in AskRecord /\ r.imports = c.imports /\ r.vault = c.vault /\ r.dispatch = c.dispatch /\ r.receipt = c.receipt
        /\ r.auth = c.auth /\ c.known = r.known /\ r.up = c.up
    BY <1>2 DEF AskRecord
  <2>3. ask' = r /\ site' = site
    BY <2>1
  <2> HIDE DEF r
  <2>4. AskKept(r, site)
    BY <1>2, <2>2, SetOther
  <2>5. TurnCounted(r)
    BY <1>1, <1>2, <2>2 DEF SameApart, TurnCounted
  <2> QED
    BY <2>3, <2>4, <2>5, AskSwept
<1>6. CASE q \in Questions /\ ModelEnds(q)
  <2>1. ask' = ask /\ site' = [site EXCEPT !.model[q] = "ended"] /\ site.model[q] = "running"
    BY <1>6 DEF ModelEnds
  <2>2. site' \in SiteRecord /\ site'.got = site.got /\ site'.flying = site.flying
        /\ \A p \in Questions : site'.model[p] = IF p = q THEN "ended" ELSE site.model[p]
    BY <1>1, <2>1 DEF SiteRecord
  <2> QED
    BY <1>1, <2>1, <2>2 DEF AskInv, AskKept, QuestionKept, TurnCounted
<1>7. CASE q \in Questions /\ SiteTakes(q)
  <2>1. PICK taken \in {"accepted", "discarded"} :
           site' = [site EXCEPT !.flying = site.flying \ {q}, !.got[q] = IF site.got[q] = "none" THEN taken ELSE site.got[q]]
    BY <1>7 DEF SiteTakes
  <2>2. ask' = ask /\ q \in site.flying
    BY <1>7 DEF SiteTakes
  <2>3. site' \in SiteRecord /\ site'.model = site.model /\ site'.flying \subseteq site.flying
        /\ \A p \in Questions : site'.got[p] = IF p = q /\ site.got[q] = "none" THEN taken ELSE site.got[p]
    BY <1>1, <2>1 DEF SiteRecord
  <2> QED
    BY <1>1, <2>2, <2>3 DEF AskInv, AskKept, QuestionKept, TurnCounted
<1>8. CASE (q \in Questions /\ (AskReceipt(q) \/ ReceiptNotFound(q))) \/ PrepareSync \/ LoseExchange
  <2>1. PICK w \in Wires, b \in BOOLEAN, n \in BOOLEAN : site' = site /\ ask' = [ask EXCEPT !.wire = w, !.barrier = b, !.notFound = n]
    <3>1. ask.wire \in Wires /\ ask.barrier \in BOOLEAN /\ ask.notFound \in BOOLEAN
      BY <1>1 DEF AskRecord
    <3>2. CASE q \in Questions /\ AskReceipt(q)
      <4>1. ask' = [ask EXCEPT !.wire = [kind |-> "receipt", q |-> q], !.barrier = ask.barrier, !.notFound = ask.notFound] /\ site' = site
        BY <1>1, <3>2 DEF AskReceipt, AskRecord
      <4>2. [kind |-> "receipt", q |-> q] \in Wires
        BY <3>2 DEF Wires
      <4> QED
        BY <3>1, <4>1, <4>2
    <3>3. CASE q \in Questions /\ ReceiptNotFound(q)
      <4>1. ask' = [ask EXCEPT !.wire = Idle, !.barrier = ask.barrier, !.notFound = TRUE] /\ site' = site
        BY <1>1, <3>3 DEF ReceiptNotFound, AskRecord
      <4>2. Idle \in Wires
        BY DEF Wires
      <4> QED
        BY <3>1, <4>1, <4>2
    <3>4. CASE PrepareSync
      <4>1. ask' = [ask EXCEPT !.wire = [kind |-> "sync", q |-> "none"], !.barrier = FALSE, !.notFound = ask.notFound] /\ site' = site
        BY <1>1, <3>4 DEF PrepareSync, AskRecord
      <4>2. [kind |-> "sync", q |-> "none"] \in Wires
        BY DEF Wires
      <4> QED
        BY <3>1, <4>1, <4>2
    <3>5. CASE LoseExchange
      <4>1. ask' = [ask EXCEPT !.wire = Idle, !.barrier = ask.barrier, !.notFound = ask.notFound] /\ site' = site
        BY <1>1, <3>5 DEF LoseExchange, AskRecord
      <4>2. Idle \in Wires
        BY DEF Wires
      <4> QED
        BY <3>1, <4>1, <4>2
    <3> QED
      BY <1>8, <3>2, <3>3, <3>4, <3>5
  <2>2. ask' \in AskRecord /\ ask'.up = ask.up /\ ask'.imports = ask.imports /\ ask'.vault = ask.vault /\ ask'.dispatch = ask.dispatch
        /\ ask'.receipt = ask.receipt /\ ask'.auth = ask.auth /\ ask'.known = ask.known
    BY <1>1, <2>1 DEF AskRecord
  <2> QED
    BY <2>1, <2>2, AskOther
<1>9. CASE Crash
  <2>1. ask' = Dead(ask) /\ site' = site
    BY <1>9 DEF Crash
  <2>2. AskKept(Dead(ask), site) /\ ~Dead(ask).up
    BY <1>1, DeadKept
  <2>3. TurnCounted(Dead(ask))
    BY <2>2 DEF TurnCounted
  <2> QED
    BY <2>1, <2>2, <2>3, AskSwept
<1> QED
  BY <1>3, <1>4, <1>5, <1>6, <1>7, <1>8, <1>9

\* The tuples of commits.
LEMMA RunsTwo ==
  ASSUME NEW a, NEW b, NEW outside, Runs(<<a, b>>, outside),
         AskKept(a, site), AskKept(b, site), AskKept(b, outside), TurnCounted(b)
  PROVE  AskInv'
<1> DEFINE ss == <<a, b>>
<1>1. Len(ss) = 2 /\ ss[1] = a /\ ss[2] = b
  OBVIOUS
<1>2. \A n \in 1..Len(ss) : AskKept(ss[n], site)
  <2>1. ASSUME NEW n \in 1..2 PROVE AskKept(ss[n], site)
    <3>1. n = 1 \/ n = 2
      OBVIOUS
    <3> QED
      BY <1>1, <3>1
  <2> QED
    BY <1>1, <2>1
<1>3. Runs(ss, outside)
  OBVIOUS
<1> HIDE DEF ss
<1> QED
  BY <1>1, <1>2, <1>3, RunsKept

\* A handler of three commits.
LEMMA RunsThree ==
  ASSUME NEW a, NEW b, NEW c, NEW outside, Runs(<<a, b, c>>, outside),
         AskKept(a, site), AskKept(b, site), AskKept(c, site), AskKept(c, outside), TurnCounted(c)
  PROVE  AskInv'
<1> DEFINE ss == <<a, b, c>>
<1>1. Len(ss) = 3 /\ ss[1] = a /\ ss[2] = b /\ ss[3] = c
  OBVIOUS
<1>2. \A n \in 1..Len(ss) : AskKept(ss[n], site)
  <2>1. ASSUME NEW n \in 1..3 PROVE AskKept(ss[n], site)
    <3>1. n = 1 \/ n = 2 \/ n = 3
      OBVIOUS
    <3> QED
      BY <1>1, <3>1
  <2> QED
    BY <1>1, <2>1
<1>3. Runs(ss, outside)
  OBVIOUS
<1> HIDE DEF ss
<1> QED
  BY <1>1, <1>2, <1>3, RunsKept

\* A handler of five commits.
LEMMA RunsFive ==
  ASSUME NEW a, NEW b, NEW c, NEW d, NEW e, NEW outside, Runs(<<a, b, c, d, e>>, outside),
         AskKept(a, site), AskKept(b, site), AskKept(c, site), AskKept(d, site), AskKept(e, site), AskKept(e, outside), TurnCounted(e)
  PROVE  AskInv'
<1> DEFINE ss == <<a, b, c, d, e>>
<1>1. Len(ss) = 5 /\ ss[1] = a /\ ss[2] = b /\ ss[3] = c /\ ss[4] = d /\ ss[5] = e
  OBVIOUS
<1>2. \A n \in 1..Len(ss) : AskKept(ss[n], site)
  <2>1. ASSUME NEW n \in 1..5 PROVE AskKept(ss[n], site)
    <3>1. n = 1 \/ n = 2 \/ n = 3 \/ n = 4 \/ n = 5
      OBVIOUS
    <3> QED
      BY <1>1, <3>1
  <2> QED
    BY <1>1, <2>1
<1>3. Runs(ss, outside)
  OBVIOUS
<1> HIDE DEF ss
<1> QED
  BY <1>1, <1>2, <1>3, RunsKept

\* Commits that end with an effect of the wire.
LEMMA RunsApplied ==
  ASSUME NEW ss, Len(ss) \in Nat, ss \in Seq(AskRecord), NEW s, TurnCounted(s), AskKept(s, site),
         \A n \in 1..Len(ss) : AskKept(ss[n], site), Runs(ss \o Applied(s), site)
  PROVE  AskInv'
<1> DEFINE l == [s EXCEPT !.lag = TRUE]
           aa == Applied(s)
           all == ss \o aa
<1>1. s \in AskRecord
  BY DEF AskKept
<1>2. l \in AskRecord /\ l.imports = s.imports /\ l.vault = s.vault /\ l.dispatch = s.dispatch /\ l.receipt = s.receipt
      /\ l.auth = s.auth /\ l.known = s.known
  BY <1>1 DEF AskRecord
<1>3. aa = <<l, s>>
  BY DEF Applied
<1> HIDE DEF l
<1>4. AskKept(l, site)
  BY <1>2, SetOther
<1>5. aa \in Seq(AskRecord) /\ Len(aa) = 2 /\ aa[1] = l /\ aa[2] = s
  BY <1>1, <1>2, <1>3
<1>6. Runs(all, site)
  OBVIOUS
<1> HIDE DEF aa
<1>7. Len(all) = Len(ss) + 2 /\ \A n \in 1..Len(ss) + 2 : all[n] = IF n <= Len(ss) THEN ss[n] ELSE aa[n - Len(ss)]
  <2>1. /\ Len(ss \o aa) = Len(ss) + Len(aa)
        /\ \A i \in 1..Len(ss) + Len(aa) : (ss \o aa)[i] = IF i <= Len(ss) THEN ss[i] ELSE aa[i - Len(ss)]
    BY <1>5, ConcatProperties
  <2> QED
    BY <1>5, <2>1
<1> HIDE DEF all
<1>8. \A n \in 1..Len(all) : AskKept(all[n], site)
  <2>1. SUFFICES ASSUME NEW n \in 1..Len(all) PROVE AskKept(all[n], site)
    OBVIOUS
  <2>2. CASE n <= Len(ss)
    <3>1. n \in 1..Len(ss) /\ all[n] = ss[n]
      BY <1>7, <2>1, <2>2
    <3> QED
      BY <3>1
  <2>3. CASE ~ (n <= Len(ss))
    <3>1. n = Len(ss) + 1 \/ n = Len(ss) + 2
      BY <1>7, <2>1, <2>3
    <3>2. CASE n = Len(ss) + 1
      <4>1. all[n] = aa[1]
        BY <1>7, <2>1, <3>2
      <4> QED
        BY <1>4, <1>5, <4>1
    <3>3. CASE n = Len(ss) + 2
      <4>1. all[n] = aa[2]
        BY <1>7, <2>1, <3>3
      <4> QED
        BY <1>5, <4>1
    <3> QED
      BY <3>1, <3>2, <3>3
  <2> QED
    BY <2>2, <2>3
<1>9. all[Len(all)] = s
  <2>1. Len(all) \in 1..Len(ss) + 2 /\ ~ (Len(all) <= Len(ss)) /\ Len(all) - Len(ss) = 2
    BY <1>7
  <2> QED
    BY <1>5, <1>7, <2>1
<1> QED
  BY <1>6, <1>7, <1>8, <1>9, RunsKept

\* A privacy page: the controls are journalled as applied after the sweep.
LEMMA AskPageStep ==
  ASSUME AskInv, AcceptPage
  PROVE  AskInv'
<1> DEFINE new == site.withdrawn \ ask.known
           page == [ask EXCEPT !.known = ask.known \cup new, !.barrier = new = {}, !.wire = Idle]
           swept == Clean(page)
           last == [swept EXCEPT !.auth.controls = page.known]
<1>1. AskKept(ask, site) /\ TurnCounted(ask) /\ ask \in AskRecord /\ site \in SiteRecord
  BY DEF AskInv, AskKept
<1>2. Runs(<<page, swept>> \o Applied(last), site)
  BY DEF AcceptPage
<1>3. new \in SUBSET Questions /\ (new = {}) \in BOOLEAN /\ Idle \in Wires
  BY <1>1 DEF SiteRecord, Wires
<1> HIDE DEF new
<1>4. page \in AskRecord /\ page.imports = ask.imports /\ page.vault = ask.vault /\ page.dispatch = ask.dispatch /\ page.receipt = ask.receipt
      /\ page.auth = ask.auth /\ ask.known \subseteq page.known /\ page.up = ask.up
  BY <1>1, <1>3 DEF AskRecord
<1>5. AskKept(page, site)
  BY <1>1, <1>4, SetOther
<1> HIDE DEF page
<1>6. /\ AskKept(swept, site) /\ swept \in AskRecord /\ SameApart(page, swept)
      /\ \A q \in Questions : q \in page.known => swept.vault[q] = "none"
  BY <1>5, CleanKeeps
<1> HIDE DEF swept
<1> DEFINE a == [swept.auth EXCEPT !.controls = page.known]
<1>7. swept.auth \in AuthorityState /\ page.known \in SUBSET Questions
  BY <1>4, <1>6 DEF AskRecord
<1>8. a \in AuthorityState /\ a.model = swept.auth.model /\ a.answer = swept.auth.answer /\ a.controls = page.known
  BY <1>7 DEF AuthorityState
<1>9. last = [swept EXCEPT !.auth = a]
  BY <1>6 DEF AskRecord
<1> HIDE DEF a
<1>10. \A q \in Questions :
          /\ site.model[q] # "none" => a.model[q] \in {"transmitted", "settled", "unknown"}
          /\ a.model[q] = "settled" => site.model[q] = "ended"
          /\ swept.auth.model[q] = "settled" => a.model[q] = "settled"
          /\ swept.auth.answer[q] # "none" => a.answer[q] # "none"
          /\ q \in a.controls => swept.vault[q] = "none" /\ q \in swept.known
  BY <1>6, <1>8 DEF AskKept, QuestionKept, SameApart
<1>11. \A p, q \in Questions : a.model[p] \notin EndedTurns /\ a.model[q] \notin EndedTurns => p = q
  BY <1>6, <1>8 DEF AskKept
<1>12. AskKept(last, site)
  BY <1>6, <1>8, <1>9, <1>10, <1>11, SetAuth
<1>13. last.up = ask.up /\ last.dispatch = ask.dispatch /\ last.auth.model = ask.auth.model
  <2>1. last.up = swept.up /\ last.dispatch = swept.dispatch /\ last.auth = a
    BY <1>6, <1>9 DEF AskRecord
  <2> QED
    BY <1>4, <1>6, <1>8, <2>1 DEF SameApart
<1> HIDE DEF last
<1>14. TurnCounted(last)
  BY <1>1, <1>13 DEF TurnCounted
<1> DEFINE ss == <<page, swept>>
<1>15. Len(ss) = 2 /\ ss \in Seq(AskRecord) /\ ss[1] = page /\ ss[2] = swept
  BY <1>4, <1>6
<1>16. Runs(ss \o Applied(last), site)
  BY <1>2
<1> HIDE DEF ss
<1>17. \A n \in 1..Len(ss) : AskKept(ss[n], site)
  <2>1. ASSUME NEW n \in 1..2 PROVE AskKept(ss[n], site)
    <3>1. n = 1 \/ n = 2
      OBVIOUS
    <3> QED
      BY <1>5, <1>6, <1>15, <3>1
  <2> QED
    BY <1>15, <2>1
<1> QED
  BY <1>12, <1>14, <1>15, <1>16, <1>17, RunsApplied

\* A claim: the row, the content, and the journal last.
LEMMA AskClaimStep ==
  ASSUME AskInv, NEW q \in Questions, ClaimQuestion(q)
  PROVE  AskInv'
<1> DEFINE c == Clean(ask)
           v1 == IF c.imports[q] = "none" THEN "content_pending" ELSE c.imports[q]
           row == [c EXCEPT !.imports[q] = v1]
           v2 == IF row.vault[q] = "none" THEN "question" ELSE row.vault[q]
           stored == [row EXCEPT !.vault[q] = v2]
           v3 == IF stored.imports[q] = "content_pending" THEN "available" ELSE stored.imports[q]
           mine == [stored EXCEPT !.imports[q] = v3]
           held == [mine EXCEPT !.claimed = mine.claimed \cup {q}]
           last == [held EXCEPT !.auth.claims = held.auth.claims \cup {q}, !.queue = held.queue \cup {q}]
<1>1. AskKept(ask, site) /\ TurnCounted(ask) /\ ask \in AskRecord
  BY DEF AskInv, AskKept
<1>2. q \notin ask.known /\ Runs(<<row, stored, mine, held>> \o Applied(last), site)
  <2>1. c \in AskRecord
    BY <1>1, CleanKeeps
  <2>2. q \notin ask.known
    BY DEF ClaimQuestion
  <2> QED
    BY <2>1, <2>2 DEF ClaimQuestion
<1>3. AskKept(c, site) /\ c \in AskRecord /\ SameApart(ask, c)
  BY <1>1, CleanKeeps
<1> HIDE DEF c
<1>4. v1 \in Imports /\ v1 # "none" /\ (v1 = "delivered" => c.receipt[q] = "accepted")
  <2>1. c.imports[q] \in Imports /\ (c.imports[q] = "delivered" => c.receipt[q] = "accepted")
    BY <1>3 DEF AskRecord, AskKept, QuestionKept
  <2> QED
    BY <2>1 DEF Imports
<1> HIDE DEF v1
<1>5. AskKept(row, site) /\ SameApart(row, c) /\ row.imports[q] = v1
  BY <1>3, <1>4, SetImport
<1> HIDE DEF row
<1>6. row \in AskRecord /\ v2 \in Contents
  <2>1. row \in AskRecord
    BY <1>5 DEF AskKept
  <2> QED
    BY <2>1 DEF AskRecord, Contents
<1> HIDE DEF v2
<1>7. AskKept(stored, site) /\ SameApart(stored, row) /\ stored.imports = row.imports
  <2>1. q \notin row.known
    BY <1>2, <1>3, <1>5 DEF SameApart
  <2> QED
    <3>1. row.imports[q] # "none" /\ AskKept(row, site)
      BY <1>4, <1>5
    <3>2. /\ AskKept([row EXCEPT !.vault[q] = v2], site) /\ SameApart([row EXCEPT !.vault[q] = v2], row)
          /\ [row EXCEPT !.vault[q] = v2].imports = row.imports
      BY <1>6, <2>1, <3>1, SetVaultOf
    <3> QED
      BY <3>2
<1> HIDE DEF stored
<1>8. v3 \in Imports /\ v3 # "none" /\ (v3 = "delivered" => stored.receipt[q] = "accepted")
  <2>1. stored.imports[q] = v1 /\ stored.receipt = c.receipt
    BY <1>5, <1>7 DEF SameApart
  <2> QED
    BY <1>4, <2>1 DEF Imports
<1> HIDE DEF v3
<1>9. AskKept(mine, site) /\ SameApart(mine, stored)
  BY <1>7, <1>8, SetImport
<1> HIDE DEF mine
<1>10. mine \in AskRecord
  BY <1>9 DEF AskKept
<1>11. held \in AskRecord /\ held.imports = mine.imports /\ held.vault = mine.vault /\ held.dispatch = mine.dispatch /\ held.receipt = mine.receipt
      /\ held.auth = mine.auth /\ held.known = mine.known /\ held.up = mine.up
  BY <1>10 DEF AskRecord
<1>12. AskKept(held, site)
  BY <1>9, <1>11, SetOther
<1> HIDE DEF held
<1> DEFINE a == [held.auth EXCEPT !.claims = held.auth.claims \cup {q}]
           m == [held EXCEPT !.auth = a]
<1>13. held.auth \in AuthorityState
  BY <1>11 DEF AskRecord
<1>14. a \in AuthorityState /\ a.model = held.auth.model /\ a.answer = held.auth.answer /\ a.controls = held.auth.controls
  BY <1>13 DEF AuthorityState
<1>15. last = [m EXCEPT !.queue = held.queue \cup {q}]
  BY <1>11 DEF AskRecord
<1> HIDE DEF a
<1>16. AskKept(m, site)
  <2>1. \A p \in Questions :
          /\ site.model[p] # "none" => a.model[p] \in {"transmitted", "settled", "unknown"}
          /\ a.model[p] = "settled" => site.model[p] = "ended"
          /\ held.auth.model[p] = "settled" => a.model[p] = "settled"
          /\ held.auth.answer[p] # "none" => a.answer[p] # "none"
          /\ p \in a.controls => held.vault[p] = "none" /\ p \in held.known
    BY <1>12, <1>14 DEF AskKept, QuestionKept
  <2>2. \A p, r \in Questions : a.model[p] \notin EndedTurns /\ a.model[r] \notin EndedTurns => p = r
    BY <1>12, <1>14 DEF AskKept
  <2> QED
    BY <1>12, <1>14, <2>1, <2>2, SetAuth
<1>17. m \in AskRecord /\ m.queue = held.queue /\ m.up = held.up /\ m.dispatch = held.dispatch /\ m.auth = a
  <2>1. m \in AskRecord
    BY <1>16 DEF AskKept
  <2> QED
    BY <1>11, <2>1 DEF AskRecord
<1>18. held.queue \in SUBSET Questions
  BY <1>11 DEF AskRecord
<1> HIDE DEF m
<1>19. last \in AskRecord /\ last.imports = m.imports /\ last.vault = m.vault /\ last.dispatch = m.dispatch /\ last.receipt = m.receipt
       /\ last.auth = m.auth /\ last.known = m.known /\ last.up = m.up
  BY <1>15, <1>17, <1>18 DEF AskRecord
<1> HIDE DEF last
<1>20. AskKept(last, site)
  BY <1>16, <1>19, SetOther
<1>21. TurnCounted(last)
  <2>1. last.up = ask.up /\ last.dispatch = ask.dispatch /\ last.auth.model = ask.auth.model
    BY <1>3, <1>5, <1>7, <1>9, <1>11, <1>14, <1>17, <1>19 DEF SameApart
  <2> QED
    BY <1>1, <2>1 DEF TurnCounted
<1> DEFINE ss == <<row, stored, mine, held>>
<1>22. Len(ss) = 4 /\ ss \in Seq(AskRecord) /\ ss[1] = row /\ ss[2] = stored /\ ss[3] = mine /\ ss[4] = held
  <2>1. row \in AskRecord /\ stored \in AskRecord /\ mine \in AskRecord /\ held \in AskRecord
    BY <1>5, <1>7, <1>9, <1>11 DEF AskKept
  <2> QED
    BY <2>1
<1>23. Runs(ss \o Applied(last), site)
  BY <1>2
<1> HIDE DEF ss
<1>24. \A n \in 1..Len(ss) : AskKept(ss[n], site)
  <2>1. ASSUME NEW n \in 1..4 PROVE AskKept(ss[n], site)
    <3>1. n = 1 \/ n = 2 \/ n = 3 \/ n = 4
      OBVIOUS
    <3> QED
      BY <1>5, <1>7, <1>9, <1>12, <1>22, <3>1
  <2> QED
    BY <1>22, <2>1
<1> QED
  BY <1>20, <1>21, <1>22, <1>23, <1>24, RunsApplied

\* A handler of one commit.
LEMMA RunsOne ==
  ASSUME NEW a, NEW outside, Runs(<<a>>, outside), AskKept(a, site), AskKept(a, outside), TurnCounted(a)
  PROVE  AskInv'
<1> DEFINE ss == <<a>>
<1>1. Len(ss) = 1 /\ ss[1] = a
  OBVIOUS
<1>2. \A n \in 1..Len(ss) : AskKept(ss[n], site)
  BY <1>1
<1>3. Runs(ss, outside)
  OBVIOUS
<1> HIDE DEF ss
<1> QED
  BY <1>1, <1>2, <1>3, RunsKept

\* What a turn that is not over says of the others.
LEMMA OneTurn ==
  ASSUME NEW s, NEW t, AskKept(s, t), NEW q \in Questions, s.auth.model[q] \notin EndedTurns
  PROVE  \A p \in Questions \ {q} : s.auth.model[p] \in EndedTurns
BY DEF AskKept

\* A turn is reserved, admitted and transmitted.
LEMMA AskTurnBegins ==
  ASSUME AskInv, NEW q \in Questions, ClaimNext(q) \/ Admit(q) \/ Transmit(q)
  PROVE  AskInv'
<1> DEFINE c == Clean(ask)
<1>1. AskKept(ask, site) /\ TurnCounted(ask) /\ ask \in AskRecord /\ site \in SiteRecord
  BY DEF AskInv, AskKept
<1>2. AskKept(c, site) /\ c \in AskRecord /\ SameApart(ask, c)
  BY <1>1, CleanKeeps
<1>3. c.auth = ask.auth /\ c.dispatch = ask.dispatch /\ c.up = ask.up
  BY <1>2 DEF SameApart
<1>4. CASE ClaimNext(q)
  <2> DEFINE reserved == [c EXCEPT !.auth.model[q] = "reserved"]
             last == [reserved EXCEPT !.dispatch[q] = "running"]
  <2>1. /\ \A p \in Questions : ask.auth.model[p] \in EndedTurns /\ ask.dispatch[p] # "running"
        /\ ask.auth.model[q] = "none" /\ c.imports[q] = "available" /\ Runs(<<reserved, last>>, site)
    BY <1>4 DEF ClaimNext, SettledTurns, EndedTurns
  <2> HIDE DEF c
  <2>2. site.model[q] = "none"
    BY <1>1, <2>1 DEF AskKept, QuestionKept
  <2>3. /\ AskKept(reserved, site) /\ reserved.imports = c.imports /\ reserved.dispatch = c.dispatch
        /\ reserved.auth.model = [c.auth.model EXCEPT ![q] = "reserved"] /\ reserved \in AskRecord
    <3>1. "reserved" \in Models /\ "reserved" # "settled" /\ c.auth.model[q] # "settled" /\ \A p \in Questions \ {q} : c.auth.model[p] \in EndedTurns
      BY <1>3, <2>1 DEF Models
    <3> QED
      BY <1>2, <2>2, <3>1, SetModel
  <2> HIDE DEF reserved
  <2>4. /\ AskKept(last, site) /\ last.auth = reserved.auth
        /\ \A p \in Questions : last.dispatch[p] = IF p = q THEN "running" ELSE reserved.dispatch[p]
    <3>1. "running" \in Dispatches /\ "running" # "completed" /\ reserved.imports[q] # "none"
      BY <2>1, <2>3 DEF Dispatches
    <3> QED
      BY <2>3, <3>1, SetDispatchOf
  <2> HIDE DEF last
  <2>5. last.auth.model[q] = "reserved"
    <3>1. c.auth.model \in [Questions -> Models]
      BY <1>2 DEF AskRecord, AuthorityState
    <3> QED
      BY <2>3, <2>4, <3>1
  <2>6. TurnCounted(last)
    BY <1>3, <2>1, <2>3, <2>4, <2>5 DEF TurnCounted
  <2> QED
    BY <2>1, <2>3, <2>4, <2>6, RunsTwo
<1>5. CASE Admit(q) \/ Transmit(q)
  <2> DEFINE m == IF ask.auth.model[q] = "reserved" THEN "admitted" ELSE "transmitted"
             r == [c EXCEPT !.auth.model[q] = m]
             outside == IF m = "admitted" THEN site ELSE [site EXCEPT !.model[q] = "running"]
  <2>1. ask.auth.model[q] \in {"reserved", "admitted"} /\ Runs(<<r>>, outside)
    <3>1. CASE Admit(q)
      BY <3>1 DEF Admit
    <3>2. CASE Transmit(q)
      <4>1. ask.auth.model[q] = "admitted" /\ Runs(<<[c EXCEPT !.auth.model[q] = "transmitted"]>>, [site EXCEPT !.model[q] = "running"])
        BY <3>2 DEF Transmit
      <4> QED
        BY <4>1
    <3> QED
      BY <1>5, <3>1, <3>2
  <2> HIDE DEF c
  <2>2. m \in Models /\ m \in {"admitted", "transmitted"}
    BY DEF Models
  <2> HIDE DEF m
  <2>3. site.model[q] = "none"
    BY <1>1, <2>1 DEF AskKept, QuestionKept
  <2>4. /\ AskKept(r, site) /\ r.dispatch = c.dispatch /\ r.up = c.up /\ r \in AskRecord
        /\ r.auth.model = [c.auth.model EXCEPT ![q] = m]
    <3>1. c.auth.model[q] # "settled" /\ m # "settled" /\ \A p \in Questions \ {q} : c.auth.model[p] \in EndedTurns
      BY <1>2, <1>3, <2>1, <2>2, OneTurn DEF EndedTurns
    <3> QED
      BY <1>2, <2>2, <2>3, <3>1, SetModel
  <2>5. \A p \in Questions : r.auth.model[p] = IF p = q THEN m ELSE ask.auth.model[p]
    <3>1. c.auth.model \in [Questions -> Models]
      BY <1>2 DEF AskRecord, AuthorityState
    <3> QED
      BY <1>3, <2>4, <3>1
  <2> HIDE DEF r
  <2>6. TurnCounted(r)
    BY <1>1, <1>3, <2>2, <2>4, <2>5 DEF TurnCounted
  <2>7. AskKept(r, outside)
    <3>1. CASE m = "admitted"
      BY <2>4, <3>1
    <3>2. CASE m = "transmitted"
      <4>1. /\ outside \in SiteRecord /\ outside.got = site.got /\ outside.flying = site.flying
            /\ \A p \in Questions : outside.model[p] = IF p = q THEN "running" ELSE site.model[p]
        BY <1>1, <3>2 DEF SiteRecord
      <4> HIDE DEF outside
      <4>2. r.auth.model[q] = "transmitted"
        BY <2>5, <3>2
      <4> QED
        BY <2>4, <4>1, <4>2 DEF AskKept, QuestionKept
    <3> QED
      BY <2>2, <3>1, <3>2
  <2> QED
    BY <2>1, <2>4, <2>6, <2>7, RunsOne
<1> QED
  BY <1>4, <1>5

\* The end of a turn: its outcome, the answer if there is one to keep, the row.
LEMMA AskTurnEnds ==
  ASSUME AskInv, NEW q \in Questions, NEW seen \in BOOLEAN, NEW completed \in BOOLEAN, FinishTurn(q, seen, completed)
  PROVE  AskInv'
<1> DEFINE out == CASE ask.auth.model[q] \in {"reserved", "admitted"} -> "unsent"
                 [] ask.auth.model[q] = "transmitted" /\ seen -> "settled"
                 [] OTHER -> "unknown"
        told == [ask EXCEPT !.auth.model[q] = out]
        good == out = "settled" /\ completed /\ q \in ask.answers
        end(s, state) == [s EXCEPT !.dispatch[q] = state, !.queue = s.queue \ {q}, !.answers = s.answers \ {q}]
        c == Clean(told)
        reserved == [c EXCEPT !.imports[q] = "answer_reserved"]
        stored == [reserved EXCEPT !.vault[q] = "answered"]
        staged == [stored EXCEPT !.imports[q] = "answer_staged"]
        heldup == [reserved EXCEPT !.held = TRUE]
        state == IF good THEN "suppressed" ELSE IF out = "unknown" THEN "unknown" ELSE "failed"
<1>1. AskKept(ask, site) /\ TurnCounted(ask) /\ ask \in AskRecord
  BY DEF AskInv, AskKept
<1>2. /\ ask.up /\ ask.dispatch[q] = "running" /\ (seen => site.model[q] = "ended")
      /\ \/ /\ good /\ Allowed(c, q)
            /\ \/ Runs(<<told, reserved, stored, staged, end(staged, "completed")>>, site)
               \/ Runs(<<told, reserved, end(heldup, "failed")>>, site)
         \/ Runs(<<told, end(told, state)>>, site)
  BY DEF FinishTurn, Runs
<1>3. ask.auth.model[q] \in {"reserved", "admitted", "transmitted"}
  BY <1>1, <1>2 DEF TurnCounted
<1>4. out \in {"unsent", "settled", "unknown"} /\ (out = "settled" => site.model[q] = "ended") /\ (out = "unsent" => site.model[q] = "none")
      /\ out \in Models
  <2>1. ask.auth.model[q] \in {"reserved", "admitted"} => site.model[q] = "none"
    BY <1>1 DEF AskKept, QuestionKept
  <2>2. CASE ask.auth.model[q] \in {"reserved", "admitted"}
    <3>1. out = "unsent"
      BY <2>2
    <3> QED
      BY <2>1, <2>2, <3>1 DEF Models
  <2>3. CASE ask.auth.model[q] = "transmitted" /\ seen
    <3>1. out = "settled"
      BY <2>3
    <3> QED
      BY <1>2, <2>3, <3>1 DEF Models
  <2>4. CASE ask.auth.model[q] = "transmitted" /\ ~seen
    <3>1. out = "unknown"
      BY <2>4
    <3> QED
      BY <3>1 DEF Models
  <2> QED
    BY <1>3, <2>2, <2>3, <2>4
<1> HIDE DEF out
<1>5. /\ AskKept(told, site) /\ told.dispatch = ask.dispatch /\ told \in AskRecord
      /\ told.auth.model = [ask.auth.model EXCEPT ![q] = out] /\ told.imports = ask.imports
  <2>1. ask.auth.model[q] # "settled" /\ (out = "settled" => site.model[q] = "ended")
        /\ (site.model[q] # "none" => out \in {"transmitted", "settled", "unknown"})
        /\ \A p \in Questions \ {q} : ask.auth.model[p] \in EndedTurns
    BY <1>1, <1>3, <1>4, OneTurn DEF EndedTurns
  <2> QED
    BY <1>1, <1>4, <2>1, SetModel
<1>6. \A p \in Questions : told.auth.model[p] = IF p = q THEN out ELSE ask.auth.model[p]
  <2>1. ask.auth.model \in [Questions -> Models]
    BY <1>1 DEF AskRecord, AuthorityState
  <2> QED
    BY <1>5, <2>1
<1>7. told.imports[q] # "none"
  BY <1>1, <1>2, <1>5 DEF AskKept, QuestionKept
<1> HIDE DEF told
\* The row is written last.
<1>8. ASSUME NEW s, AskKept(s, site), s.auth = told.auth, s.dispatch = told.dispatch, s.imports[q] # "none",
             NEW v \in Dispatches, v # "running", v = "completed" => out = "settled"
      PROVE  AskKept(end(s, v), site) /\ TurnCounted(end(s, v))
  <2> DEFINE r == [s EXCEPT !.dispatch[q] = v]
             e == end(s, v)
  <2>1. /\ AskKept(r, site) /\ r \in AskRecord /\ r.auth = s.auth
        /\ \A p \in Questions : r.dispatch[p] = IF p = q THEN v ELSE s.dispatch[p]
    <3>1. v = "completed" => s.auth.model[q] = "settled"
      BY <1>6, <1>8
    <3> QED
      BY <1>8, <3>1, SetDispatchOf
  <2>2. s \in AskRecord /\ s.queue \ {q} \in SUBSET Questions /\ s.answers \ {q} \in SUBSET Questions
    <3>1. s \in AskRecord
      BY <1>8 DEF AskKept
    <3> QED
      BY <3>1 DEF AskRecord
  <2>3. e = [r EXCEPT !.queue = s.queue \ {q}, !.answers = s.answers \ {q}]
    BY <2>2 DEF AskRecord
  <2> HIDE DEF r, e
  <2>4. e \in AskRecord /\ e.imports = r.imports /\ e.vault = r.vault /\ e.dispatch = r.dispatch /\ e.receipt = r.receipt
        /\ e.auth = r.auth /\ e.known = r.known
    BY <2>1, <2>2, <2>3 DEF AskRecord
  <2>5. AskKept(e, site)
    BY <2>1, <2>4, SetOther
  <2>6. TurnCounted(e)
    <3>1. SUFFICES ASSUME NEW p \in Questions, e.dispatch[p] = "running"
                   PROVE  e.auth.model[p] \in {"reserved", "admitted", "transmitted"}
      BY DEF TurnCounted
    <3>2. p # q /\ s.dispatch[p] = "running"
      <4>1. e.dispatch[p] = r.dispatch[p]
        BY <2>4
      <4> QED
        BY <1>8, <2>1, <3>1, <4>1
    <3>3. ask.dispatch[p] = "running"
      BY <1>5, <1>8, <3>2
    <3>4. ask.auth.model[p] \in {"reserved", "admitted", "transmitted"}
      BY <1>1, <1>2, <3>3 DEF TurnCounted
    <3>5. e.auth = told.auth
      BY <1>8, <2>1, <2>4
    <3> QED
      BY <1>6, <3>2, <3>4, <3>5
  <2> QED
    BY <2>5, <2>6 DEF e
<1>9. CASE Runs(<<told, end(told, state)>>, site)
  <2>1. state \in Dispatches /\ state # "running" /\ state # "completed"
    BY DEF Dispatches
  <2> DEFINE e == end(told, state)
  <2>2. AskKept(e, site) /\ TurnCounted(e)
    <3> HIDE DEF state
    <3> QED
      BY <1>5, <1>7, <1>8, <2>1
  <2>3. Runs(<<told, e>>, site)
    BY <1>9
  <2> HIDE DEF e
  <2> QED
    BY <1>5, <2>2, <2>3, RunsTwo
<1>10. CASE good /\ Allowed(c, q) /\ (Runs(<<told, reserved, stored, staged, end(staged, "completed")>>, site) \/ Runs(<<told, reserved, end(heldup, "failed")>>, site))
  <2>1. AskKept(c, site) /\ c \in AskRecord /\ SameApart(told, c) /\ c.imports[q] # "none" /\ q \notin c.known /\ out = "settled"
    <3>1. c.imports[q] \notin Gone
      BY <1>10 DEF Allowed
    <3>2. /\ AskKept(c, site) /\ c \in AskRecord /\ SameApart(told, c)
          /\ (c.imports[q] = "none" <=> told.imports[q] = "none")
          /\ (c.imports[q] \notin Gone \cup {"none"} => q \notin told.known)
      BY <1>5, CleanKeeps
    <3> QED
      BY <1>7, <1>10, <3>1, <3>2 DEF SameApart
  <2> HIDE DEF c
  <2>2. AskKept(reserved, site) /\ SameApart(reserved, c) /\ reserved.imports[q] = "answer_reserved"
    <3>1. "answer_reserved" \in Imports /\ "answer_reserved" # "none" /\ "answer_reserved" # "delivered"
      BY DEF Imports
    <3> QED
      BY <2>1, <3>1, SetImport
  <2> HIDE DEF reserved
  <2>3. AskKept(stored, site) /\ SameApart(stored, reserved) /\ stored.imports = reserved.imports
    <3>1. "answered" \in Contents /\ q \notin reserved.known /\ reserved.imports[q] # "none"
      BY <2>1, <2>2 DEF Contents, SameApart
    <3> QED
      BY <2>2, <3>1, SetVaultOf
  <2> HIDE DEF stored
  <2>4. AskKept(staged, site) /\ SameApart(staged, stored) /\ staged.imports[q] = "answer_staged"
    <3>1. "answer_staged" \in Imports /\ "answer_staged" # "none" /\ "answer_staged" # "delivered"
      BY DEF Imports
    <3> QED
      BY <2>3, <3>1, SetImport
  <2> HIDE DEF staged
  <2>5. /\ staged.auth = told.auth /\ staged.dispatch = told.dispatch /\ reserved.auth = told.auth /\ reserved.dispatch = told.dispatch
    BY <2>1, <2>2, <2>3, <2>4 DEF SameApart
  <2>6. CASE Runs(<<told, reserved, stored, staged, end(staged, "completed")>>, site)
    <3> DEFINE e == end(staged, "completed")
    <3>1. AskKept(e, site) /\ TurnCounted(e)
      <4>1. "completed" \in Dispatches /\ "completed" # "running" /\ staged.imports[q] # "none"
        BY <2>4 DEF Dispatches
      <4> QED
        BY <1>8, <2>1, <2>4, <2>5, <4>1
    <3>2. Runs(<<told, reserved, stored, staged, e>>, site)
      BY <2>6
    <3> HIDE DEF e
    <3> QED
      BY <1>5, <2>2, <2>3, <2>4, <3>1, <3>2, RunsFive
  <2>7. CASE Runs(<<told, reserved, end(heldup, "failed")>>, site)
    <3>1. reserved \in AskRecord
      BY <2>2 DEF AskKept
    <3>2. heldup \in AskRecord /\ heldup.imports = reserved.imports /\ heldup.vault = reserved.vault /\ heldup.dispatch = reserved.dispatch
          /\ heldup.receipt = reserved.receipt /\ heldup.auth = reserved.auth /\ heldup.known = reserved.known
      BY <3>1 DEF AskRecord
    <3> DEFINE e == end(heldup, "failed")
    <3>3. Runs(<<told, reserved, e>>, site)
      BY <2>7
    <3> HIDE DEF heldup
    <3>4. AskKept(heldup, site)
      BY <2>2, <3>2, SetOther
    <3>5. AskKept(e, site) /\ TurnCounted(e)
      <4>1. "failed" \in Dispatches /\ "failed" # "running" /\ "failed" # "completed" /\ heldup.imports[q] # "none"
        BY <2>2, <3>2 DEF Dispatches
      <4> QED
        BY <1>8, <2>5, <3>2, <3>4, <4>1
    <3> HIDE DEF e
    <3> QED
      BY <1>5, <2>2, <3>3, <3>5, RunsThree
  <2> QED
    BY <1>10, <2>6, <2>7
<1> QED
  BY <1>2, <1>9, <1>10

\* A delivery: its attempt first, then its operation in the journal.
LEMMA AskSendStep ==
  ASSUME AskInv, NEW q \in Questions, SendAnswer(q)
  PROVE  AskInv' /\ SentBeforeWithdrawal
<1> DEFINE c == Clean(ask)
           n == c.tries[q] + 1
           a == [c EXCEPT !.tries[q] = n, !.notFound = FALSE]
           w == [kind |-> "answer", q |-> q]
           b == [c EXCEPT !.tries[q] = n, !.notFound = FALSE, !.auth.answer[q] = "unknown", !.wire = w]
           t == [site EXCEPT !.flying = site.flying \cup {q}]
<1>1. AskKept(ask, site) /\ TurnCounted(ask) /\ site \in SiteRecord
  BY DEF AskInv, AskKept
<1>2. Runs(<<a, b>>, t) /\ Deliverable(c, q) /\ ask.tries[q] < Attempts
  BY DEF SendAnswer
<1>3. /\ AskKept(c, site) /\ c \in AskRecord /\ SameApart(ask, c)
      /\ (c.imports[q] \notin Gone \cup {"none"} => q \notin ask.known)
  BY <1>1, CleanKeeps
<1>4. c.imports[q] = "answer_staged" /\ c.dispatch[q] = "completed" /\ c.tries = ask.tries
  BY <1>2, <1>3 DEF Deliverable, SameApart
<1> HIDE DEF c
<1>5. q \notin ask.known
  BY <1>3, <1>4 DEF Gone
<1>6. c.auth.model[q] = "settled" /\ n \in 0..Attempts /\ w \in Wires /\ c.auth \in AuthorityState
  <2>1. c.tries[q] \in 0..Attempts
    BY <1>3 DEF AskRecord
  <2>2. n \in 0..Attempts
    BY <1>2, <1>4, <2>1, AskAssumption
  <2>3. c.auth.model[q] = "settled"
    BY <1>3, <1>4 DEF AskKept, QuestionKept
  <2> QED
    BY <1>3, <2>2, <2>3 DEF Wires, AskRecord
<1> HIDE DEF n, w
<1>7. /\ a \in AskRecord /\ a.imports = c.imports /\ a.vault = c.vault /\ a.dispatch = c.dispatch /\ a.receipt = c.receipt
      /\ a.auth = c.auth /\ a.known = c.known /\ a.up = c.up
  BY <1>3, <1>6 DEF AskRecord
<1>8. AskKept(a, site)
  BY <1>3, <1>7, SetOther
<1> DEFINE u == [c.auth EXCEPT !.answer[q] = "unknown"]
           d == [a EXCEPT !.wire = w]
<1>9. b = [d EXCEPT !.auth = u]
  BY <1>3 DEF AskRecord
<1>10. /\ d \in AskRecord /\ d.imports = a.imports /\ d.vault = a.vault /\ d.dispatch = a.dispatch /\ d.receipt = a.receipt
       /\ d.auth = a.auth /\ d.known = a.known /\ d.up = a.up
  BY <1>6, <1>7 DEF AskRecord
<1>11. AskKept(d, site)
  BY <1>8, <1>10, SetOther
<1>12. /\ u \in AuthorityState /\ u.model = c.auth.model /\ u.controls = c.auth.controls
       /\ \A p \in Questions : u.answer[p] = IF p = q THEN "unknown" ELSE c.auth.answer[p]
  BY <1>6 DEF AuthorityState
<1> HIDE DEF a, d, u
<1>13. AskKept(b, site) /\ b.auth = u
  <2>1. \A p \in Questions :
            /\ site.model[p] # "none" => u.model[p] \in {"transmitted", "settled", "unknown"}
            /\ u.model[p] = "settled" => site.model[p] = "ended"
            /\ d.auth.model[p] = "settled" => u.model[p] = "settled"
            /\ d.auth.answer[p] # "none" => u.answer[p] # "none"
            /\ p \in u.controls => d.vault[p] = "none" /\ p \in d.known
    BY <1>3, <1>7, <1>10, <1>12 DEF AskKept, QuestionKept
  <2>2. \A p, r \in Questions : u.model[p] \notin EndedTurns /\ u.model[r] \notin EndedTurns => p = r
    BY <1>3, <1>12 DEF AskKept
  <2>3. AskKept([d EXCEPT !.auth = u], site)
    BY <1>11, <1>12, <2>1, <2>2, SetAuth
  <2>4. [d EXCEPT !.auth = u].auth = u
    BY <1>10 DEF AskRecord
  <2> QED
    BY <1>9, <2>3, <2>4
<1>14. TurnCounted(b)
  <2>1. b.up = ask.up /\ b.dispatch = ask.dispatch /\ b.auth.model = ask.auth.model
    <3>1. b.up = d.up /\ b.dispatch = d.dispatch
      BY <1>9, <1>10 DEF AskRecord
    <3> QED
      BY <1>3, <1>7, <1>10, <1>12, <1>13, <3>1 DEF SameApart
  <2> HIDE DEF b
  <2> QED
    BY <1>1, <2>1 DEF TurnCounted
<1> HIDE DEF b
<1>15. /\ t \in SiteRecord /\ t.flying = site.flying \cup {q} /\ t.model = site.model /\ t.got = site.got
  BY <1>1 DEF SiteRecord
<1> HIDE DEF t
<1>16. AskKept(b, t)
  <2>1. b.auth.model[q] = "settled" /\ b.auth.answer[q] # "none"
    BY <1>6, <1>12, <1>13
  <2>2. \A p \in Questions : QuestionKept(b, site, p) => QuestionKept(b, t, p)
    BY <1>15, <2>1 DEF QuestionKept
  <2> QED
    BY <1>13, <1>15, <2>2 DEF AskKept
<1>17. SentBeforeWithdrawal
  <2>1. site' = t \/ site' = site
    BY <1>2 DEF Runs
  <2> QED
    BY <1>5, <1>15, <2>1 DEF SentBeforeWithdrawal
<1>18. AskInv'
  BY <1>2, <1>8, <1>13, <1>14, <1>16, RunsTwo
<1> QED
  BY <1>17, <1>18

\* A receipt: the row is reconciled before the journal settles its operation.
LEMMA AskReceiptStep ==
  ASSUME AskInv, NEW q \in Questions, AcceptReceipt(q)
  PROVE  AskInv'
<1> DEFINE c == Clean(ask)
           f == [c.receipt EXCEPT ![q] = site.got[q]]
           d == [c EXCEPT !.receipt = f]
           row == [c EXCEPT !.receipt[q] = site.got[q], !.wire = Idle]
           mine == Reconciled(row)
           last == [mine EXCEPT !.auth.answer[q] = "reconciled", !.notFound = FALSE]
<1>1. AskKept(ask, site) /\ TurnCounted(ask) /\ site \in SiteRecord
  BY DEF AskInv, AskKept
<1>2. Runs(<<row, mine>> \o Applied(last), site) /\ site.got[q] # "none"
  BY DEF AcceptReceipt
<1>3. AskKept(c, site) /\ c \in AskRecord /\ SameApart(ask, c)
  BY <1>1, CleanKeeps
<1> HIDE DEF c
<1>4. row = [d EXCEPT !.wire = Idle] /\ Idle \in Wires
  BY <1>3 DEF AskRecord, Wires
<1>5. f \in [Questions -> {"none", "accepted", "discarded"}] /\ \A p \in Questions : f[p] = IF p = q THEN site.got[q] ELSE c.receipt[p]
  BY <1>1, <1>3 DEF AskRecord, SiteRecord
<1> HIDE DEF f
<1>6. AskKept(d, site) /\ d \in AskRecord
  <2>1. \A p \in Questions : (f[p] = "accepted" => site.got[p] = "accepted") /\ (c.receipt[p] = "accepted" => f[p] = "accepted")
    BY <1>3, <1>5 DEF AskKept, QuestionKept
  <2>2. AskKept(d, site)
    BY <1>3, <1>5, <2>1, SetReceipt
  <2> HIDE DEF d
  <2> QED
    BY <2>2 DEF AskKept
<1>7. d.up = c.up /\ d.dispatch = c.dispatch /\ d.auth = c.auth
  BY <1>3 DEF AskRecord
<1> HIDE DEF d
<1>8. /\ row \in AskRecord /\ row.imports = d.imports /\ row.vault = d.vault /\ row.dispatch = d.dispatch /\ row.receipt = d.receipt
      /\ row.auth = d.auth /\ row.known = d.known /\ row.up = d.up
  BY <1>4, <1>6 DEF AskRecord
<1> HIDE DEF row
<1>9. AskKept(row, site)
  BY <1>6, <1>8, SetOther
<1>10. AskKept(mine, site) /\ mine \in AskRecord /\ SameApart(row, mine)
  BY <1>9, ReconciledKeeps
<1> HIDE DEF mine
<1> DEFINE u == [mine.auth EXCEPT !.answer[q] = "reconciled"]
           e == [mine EXCEPT !.notFound = FALSE]
<1>11. last = [e EXCEPT !.auth = u]
  BY <1>10 DEF AskRecord
<1>12. /\ e \in AskRecord /\ e.imports = mine.imports /\ e.vault = mine.vault /\ e.dispatch = mine.dispatch /\ e.receipt = mine.receipt
       /\ e.auth = mine.auth /\ e.known = mine.known /\ e.up = mine.up /\ mine.auth \in AuthorityState
  BY <1>10 DEF AskRecord
<1>13. /\ u \in AuthorityState /\ u.model = mine.auth.model /\ u.controls = mine.auth.controls
       /\ \A p \in Questions : u.answer[p] = IF p = q THEN "reconciled" ELSE mine.auth.answer[p]
  BY <1>12 DEF AuthorityState
<1> HIDE DEF e, u
<1>14. AskKept(e, site)
  BY <1>10, <1>12, SetOther
<1>15. AskKept(last, site)
  <2>1. \A p \in Questions :
            /\ site.model[p] # "none" => u.model[p] \in {"transmitted", "settled", "unknown"}
            /\ u.model[p] = "settled" => site.model[p] = "ended"
            /\ e.auth.model[p] = "settled" => u.model[p] = "settled"
            /\ e.auth.answer[p] # "none" => u.answer[p] # "none"
            /\ p \in u.controls => e.vault[p] = "none" /\ p \in e.known
    BY <1>10, <1>12, <1>13 DEF AskKept, QuestionKept
  <2>2. \A p, r \in Questions : u.model[p] \notin EndedTurns /\ u.model[r] \notin EndedTurns => p = r
    BY <1>10, <1>13 DEF AskKept
  <2> QED
    BY <1>11, <1>13, <1>14, <2>1, <2>2, SetAuth
<1>16. last.up = ask.up /\ last.dispatch = ask.dispatch /\ last.auth.model = ask.auth.model
  <2>1. last.up = e.up /\ last.dispatch = e.dispatch /\ last.auth = u
    BY <1>11, <1>12 DEF AskRecord
  <2> QED
    BY <1>3, <1>7, <1>8, <1>10, <1>12, <1>13, <2>1 DEF SameApart
<1> HIDE DEF last
<1>17. TurnCounted(last)
  BY <1>1, <1>16 DEF TurnCounted
<1> DEFINE ss == <<row, mine>>
<1>18. Len(ss) = 2 /\ ss \in Seq(AskRecord) /\ ss[1] = row /\ ss[2] = mine
  BY <1>8, <1>10
<1>19. Runs(ss \o Applied(last), site)
  BY <1>2
<1> HIDE DEF ss
<1>20. \A i \in 1..Len(ss) : AskKept(ss[i], site)
  <2>1. ASSUME NEW i \in 1..2 PROVE AskKept(ss[i], site)
    <3>1. i = 1 \/ i = 2
      OBVIOUS
    <3> QED
      BY <1>9, <1>10, <1>18, <3>1
  <2> QED
    BY <1>18, <2>1
<1> QED
  BY <1>15, <1>17, <1>18, <1>19, <1>20, RunsApplied

\* Recovery: every turn the process did not see end becomes unknown.
LEMMA AskStartStep ==
  ASSUME AskInv, HQStarts
  PROVE  AskInv'
<1> DEFINE wires == ask.auth.torn \/ ask.lag \/ ask.auth.controls \notin {{}, ask.known} \/ ~(ask.auth.claims \subseteq ask.claimed)
           rows == ask.auth.torn \/ \E q \in Questions : (ask.auth.model[q] = "none") # (ask.dispatch[q] = "none")
           h == ask.held \/ wires \/ rows
           up == [ask EXCEPT !.up = TRUE, !.barrier = FALSE, !.held = h]
           c == IF rows THEN up ELSE Reconciled(up)
           row(q) == IF ask.dispatch[q] = "none" THEN "none"
                     ELSE IF rows THEN IF ask.dispatch[q] = "running" THEN "unknown" ELSE ask.dispatch[q]
                     ELSE IF Outcome(ask.auth.model[q]) = "unknown" THEN "unknown"
                     ELSE IF ask.dispatch[q] # "running" THEN ask.dispatch[q]
                     ELSE IF ask.auth.model[q] = "settled" /\ c.imports[q] \in {"answer_staged", "delivered"} THEN "completed"
                     ELSE "failed"
           f == [q \in Questions |-> row(q)]
           m == IF rows THEN c.auth.model ELSE [q \in Questions |-> Outcome(ask.auth.model[q])]
           s == [c EXCEPT !.dispatch = f, !.auth.model = m]
<1>1. AskKept(ask, site) /\ ask \in AskRecord /\ ask.auth \in AuthorityState
  BY DEF AskInv, AskKept, AskRecord
<1>2. ask' = s /\ site' = site
  BY DEF HQStarts
<1>3. h \in BOOLEAN
  BY <1>1 DEF AskRecord
<1> HIDE DEF wires, rows, h
<1>4. /\ up \in AskRecord /\ up.imports = ask.imports /\ up.vault = ask.vault /\ up.dispatch = ask.dispatch /\ up.receipt = ask.receipt
      /\ up.auth = ask.auth /\ up.known = ask.known
  BY <1>1, <1>3 DEF AskRecord
<1> HIDE DEF up
<1>5. AskKept(up, site)
  BY <1>1, <1>4, SetOther
<1>6. AskKept(c, site) /\ c \in AskRecord /\ c.auth = ask.auth /\ c.dispatch = ask.dispatch
  <2>1. CASE rows
    <3>1. c = up
      BY <2>1
    <3> QED
      BY <1>4, <1>5, <3>1
  <2>2. CASE ~rows
    <3>1. c = Reconciled(up)
      BY <2>2
    <3>2. AskKept(Reconciled(up), site) /\ Reconciled(up) \in AskRecord /\ SameApart(up, Reconciled(up))
      BY <1>5, ReconciledKeeps
    <3> QED
      BY <1>4, <3>1, <3>2 DEF SameApart
  <2> QED
    BY <2>1, <2>2
<1> DEFINE staged(q) == c.imports[q] \in {"answer_staged", "delivered"}
<1> HIDE DEF c
<1>7. \A q \in Questions : ask.auth.model[q] \in Models /\ ask.dispatch[q] \in Dispatches
  BY <1>1 DEF AskRecord, AuthorityState
\* The journal's word on each turn.
<1>8. m \in [Questions -> Models]
  <2>1. CASE rows
    BY <1>1, <1>6, <2>1 DEF AuthorityState
  <2>2. CASE ~rows
    <3>1. \A q \in Questions : Outcome(ask.auth.model[q]) \in Models
      BY <1>7 DEF Outcome, Models
    <3> QED
      BY <2>2, <3>1
  <2> QED
    BY <2>1, <2>2
<1>9. \A q \in Questions : /\ m[q] = ask.auth.model[q] \/ (m[q] = "unknown" /\ ask.auth.model[q] \notin EndedTurns)
                           /\ rows => m[q] = ask.auth.model[q]
                           /\ ~rows => m[q] = Outcome(ask.auth.model[q])
  BY <1>6, <1>7 DEF Outcome, Models, EndedTurns
<1>10. f \in [Questions -> Dispatches]
  <2>1. \A q \in Questions : row(q) \in Dispatches
    <3> HIDE DEF c
    <3>1. SUFFICES ASSUME NEW q \in Questions PROVE row(q) \in Dispatches
      OBVIOUS
    <3>2. row(q) \in {"none", "unknown", "completed", "failed"} \/ row(q) = ask.dispatch[q]
      OBVIOUS
    <3> QED
      BY <1>7, <3>2 DEF Dispatches
  <2> QED
    BY <2>1
<1>11. \A q \in Questions : /\ f[q] = "none" <=> ask.dispatch[q] = "none"
                            /\ f[q] # "running"
                            /\ f[q] = "completed" => m[q] = "settled"
  <2>1. SUFFICES ASSUME NEW q \in Questions
                 PROVE  /\ f[q] = "none" <=> ask.dispatch[q] = "none"
                        /\ f[q] # "running"
                        /\ f[q] = "completed" => m[q] = "settled"
    OBVIOUS
  <2>2. f[q] = row(q) /\ (ask.dispatch[q] = "completed" => ask.auth.model[q] = "settled")
    BY <1>1, <2>1 DEF AskKept, QuestionKept
  <2>3. CASE ask.dispatch[q] = "none"
    <3>1. f[q] = "none"
      BY <2>2, <2>3
    <3> QED
      BY <2>3, <3>1
  <2>4. CASE ask.dispatch[q] # "none" /\ rows
    <3>1. f[q] = IF ask.dispatch[q] = "running" THEN "unknown" ELSE ask.dispatch[q]
      BY <2>2, <2>4
    <3>2. m[q] = ask.auth.model[q]
      BY <1>9, <2>4
    <3> QED
      BY <2>2, <2>4, <3>1, <3>2
  <2>5. CASE ask.dispatch[q] # "none" /\ ~rows /\ Outcome(ask.auth.model[q]) = "unknown"
    <3>1. f[q] = "unknown"
      BY <2>2, <2>5
    <3> QED
      BY <2>5, <3>1
  <2>6. CASE ask.dispatch[q] # "none" /\ ~rows /\ Outcome(ask.auth.model[q]) # "unknown" /\ ask.dispatch[q] # "running"
    <3>1. f[q] = ask.dispatch[q]
      BY <2>2, <2>6
    <3>2. m[q] = Outcome(ask.auth.model[q])
      BY <1>9, <2>6
    <3> QED
      BY <2>2, <2>6, <3>1, <3>2 DEF Outcome
  <2>7. CASE ask.dispatch[q] = "running" /\ ~rows /\ Outcome(ask.auth.model[q]) # "unknown"
    <3>1. f[q] = IF ask.auth.model[q] = "settled" /\ staged(q) THEN "completed" ELSE "failed"
      BY <2>2, <2>7
    <3>2. m[q] = Outcome(ask.auth.model[q])
      BY <1>9, <2>7
    <3> HIDE DEF staged
    <3> QED
      BY <2>7, <3>1, <3>2 DEF Outcome
  <2> QED
    BY <2>3, <2>4, <2>5, <2>6, <2>7
<1> HIDE DEF f, m
<1> DEFINE a == [c.auth EXCEPT !.model = m]
           d == [c EXCEPT !.auth = a]
<1>12. s = [d EXCEPT !.dispatch = f]
  BY <1>6 DEF AskRecord
<1>13. a \in AuthorityState /\ a.model = m /\ a.answer = c.auth.answer /\ a.controls = c.auth.controls
  BY <1>1, <1>6, <1>8 DEF AuthorityState
<1> HIDE DEF a
<1>14. AskKept(d, site)
  <2>1. \A p \in Questions :
            /\ site.model[p] # "none" => a.model[p] \in {"transmitted", "settled", "unknown"}
            /\ a.model[p] = "settled" => site.model[p] = "ended"
            /\ c.auth.model[p] = "settled" => a.model[p] = "settled"
            /\ c.auth.answer[p] # "none" => a.answer[p] # "none"
            /\ p \in a.controls => c.vault[p] = "none" /\ p \in c.known
    BY <1>6, <1>9, <1>13 DEF AskKept, QuestionKept, EndedTurns
  <2>2. \A p, r \in Questions : a.model[p] \notin EndedTurns /\ a.model[r] \notin EndedTurns => p = r
    <3>1. \A p \in Questions : a.model[p] \notin EndedTurns => c.auth.model[p] \notin EndedTurns
      BY <1>6, <1>9, <1>13
    <3> QED
      BY <1>6, <3>1 DEF AskKept
  <2> QED
    BY <1>6, <1>13, <2>1, <2>2, SetAuth
<1>15. d.auth = a /\ d.imports = c.imports /\ d.dispatch = c.dispatch /\ d \in AskRecord
  <2>1. d.auth = a /\ d.imports = c.imports /\ d.dispatch = c.dispatch
    BY <1>6 DEF AskRecord
  <2> QED
    BY <1>14, <2>1 DEF AskKept
<1> HIDE DEF d
<1>16. AskKept(s, site)
  <2>1. \A p \in Questions : (f[p] = "completed" => d.auth.model[p] = "settled") /\ (f[p] # "none" => d.imports[p] # "none")
    BY <1>6, <1>11, <1>13, <1>15 DEF AskKept, QuestionKept
  <2> QED
    BY <1>10, <1>12, <1>14, <2>1, SetDispatch
<1>17. s.dispatch = f
  BY <1>12, <1>15 DEF AskRecord
<1> HIDE DEF s
<1>18. TurnCounted(s)
  BY <1>11, <1>17 DEF TurnCounted
<1> QED
  BY <1>2, <1>16, <1>18, AskSwept

\* Every step of the service, of the website and of a new process.
LEMMA AskStep ==
  AskInv /\ [AskNext]_askVars => AskInv'
<1> SUFFICES ASSUME AskInv, [AskNext]_askVars PROVE AskInv'
  OBVIOUS
<1>1. CASE UNCHANGED askVars
  BY <1>1 DEF askVars, AskInv, AskKept, QuestionKept, TurnCounted
<1>2. CASE \E q \in Questions : \/ Withdraw(q) \/ ExpireQuestion(q) \/ Requeue(q) \/ SubmitAnswer(q) \/ ModelEnds(q) \/ SiteTakes(q)
                                \/ AskReceipt(q) \/ ReceiptNotFound(q)
  BY <1>2, AskQuietStep
<1>3. CASE Maintain \/ PrepareSync \/ LoseExchange \/ Crash
  BY <1>3, AskQuietStep
<1>4. CASE \E q \in Questions : ClaimNext(q) \/ Admit(q) \/ Transmit(q)
  BY <1>4, AskTurnBegins
<1>5. CASE \E q \in Questions : \E seen, completed \in BOOLEAN : FinishTurn(q, seen, completed)
  BY <1>5, AskTurnEnds
<1>6. CASE \E q \in Questions : ClaimQuestion(q)
  BY <1>6, AskClaimStep
<1>7. CASE \E q \in Questions : SendAnswer(q)
  BY <1>7, AskSendStep
<1>8. CASE \E q \in Questions : AcceptReceipt(q)
  BY <1>8, AskReceiptStep
<1>9. CASE AcceptPage
  BY <1>9, AskPageStep
<1>10. CASE HQStarts
  BY <1>10, AskStartStep
<1> QED
  BY <1>1, <1>2, <1>3, <1>4, <1>5, <1>6, <1>7, <1>8, <1>9, <1>10 DEF AskNext

\* Only SendAnswer puts an answer on its way.
LEMMA OnlySendFlies ==
  ASSUME AskInv, [AskNext]_askVars, ~ \E q \in Questions : SendAnswer(q)
  PROVE  site'.flying \subseteq site.flying
<1>1. site \in SiteRecord
  BY DEF AskInv, AskKept
<1>2. ASSUME NEW ss, Runs(ss, site) PROVE site' = site
  BY <1>2 DEF Runs
<1>3. CASE UNCHANGED askVars \/ Maintain \/ PrepareSync \/ LoseExchange \/ Crash \/ HQStarts
  BY <1>3 DEF askVars, Maintain, PrepareSync, LoseExchange, Crash, HQStarts
<1>4. CASE AcceptPage
  <2>1. site' = site
    BY <1>2, <1>4 DEF AcceptPage
  <2> QED
    BY <2>1
<1>5. ASSUME NEW q \in Questions,
             \/ Withdraw(q) \/ ExpireQuestion(q) \/ Requeue(q) \/ SubmitAnswer(q) \/ ModelEnds(q) \/ SiteTakes(q)
             \/ AskReceipt(q) \/ ReceiptNotFound(q)
      PROVE  site'.flying \subseteq site.flying
  BY <1>1, <1>5 DEF SiteRecord, Withdraw, ExpireQuestion, Requeue, SubmitAnswer, ModelEnds, SiteTakes, AskReceipt, ReceiptNotFound
<1>6. ASSUME NEW q \in Questions, Transmit(q) PROVE site'.flying \subseteq site.flying
  <2>1. site' = site \/ site' = [site EXCEPT !.model[q] = "running"]
    BY <1>6 DEF Transmit, Runs
  <2> QED
    BY <1>1, <2>1 DEF SiteRecord
<1>7. ASSUME NEW q \in Questions, ClaimQuestion(q) PROVE site' = site
  BY <1>2, <1>7 DEF ClaimQuestion
<1>8. ASSUME NEW q \in Questions, ClaimNext(q) PROVE site' = site
  BY <1>2, <1>8 DEF ClaimNext
<1>9. ASSUME NEW q \in Questions, Admit(q) PROVE site' = site
  BY <1>2, <1>9 DEF Admit
<1>10. ASSUME NEW q \in Questions, AcceptReceipt(q) PROVE site' = site
  BY <1>2, <1>10 DEF AcceptReceipt
<1>11. ASSUME NEW q \in Questions, NEW seen \in BOOLEAN, NEW completed \in BOOLEAN, FinishTurn(q, seen, completed) PROVE site' = site
  BY <1>2, <1>11 DEF FinishTurn
<1> QED
  BY <1>3, <1>4, <1>5, <1>6, <1>7, <1>8, <1>9, <1>10, <1>11 DEF AskNext

\* An answer leaves HQ only while its question is not withdrawn.
LEMMA AskSilent ==
  AskInv /\ [AskNext]_askVars => SentBeforeWithdrawal
<1> SUFFICES ASSUME AskInv, [AskNext]_askVars PROVE SentBeforeWithdrawal
  OBVIOUS
<1>1. CASE \E q \in Questions : SendAnswer(q)
  BY <1>1, AskSendStep
<1>2. CASE ~ \E q \in Questions : SendAnswer(q)
  BY <1>2, OnlySendFlies DEF SentBeforeWithdrawal
<1> QED
  BY <1>1, <1>2

-----------------------------------------------------------------------------
(* Grants, and the turns charged to them.                                  *)

\* What is written of grants and turns, and what a process keeps of it.
PermitRecord == [grants : Seq(AskGrant), turns : Seq(ModelTurn), paused : BOOLEAN, length : 1..JournalRoom]
OfficeRecord == [mine : 0..MaxTurns, torn : BOOLEAN, ran : SUBSET (1..MaxTurns)]

\* The turns charged to a grant, and those of the day before a turn.
Charged(p, g) == {t \in DOMAIN p.turns : p.turns[t].grant = g}
\* The turns charged within a day up to a turn.
DayUpTo(p, t) == {u \in DOMAIN p.turns : p.turns[u].at > p.turns[t].at - DayTicks /\ u <= t}

\* What the journal replays to: a turn begins when those before it are settled,
\* within its grant.
Books(p) ==
    /\ p \in PermitRecord /\ Len(p.turns) <= MaxTurns /\ Len(p.grants) <= MaxGrants
    /\ \A t \in DOMAIN p.turns : p.turns[t].grant \in DOMAIN p.grants
    /\ \A t, u \in DOMAIN p.turns : u < t => p.turns[u].st = "settled"
    /\ \A g \in DOMAIN p.grants : Cardinality(Charged(p, g)) <= p.grants[g].all
    /\ \A t \in DOMAIN p.turns : Cardinality(DayUpTo(p, t)) <= p.grants[p.turns[t].grant].daily

\* What the process works on and the provider ran is in the journal.
InBooks(p, o) ==
    /\ o \in OfficeRecord
    /\ o.mine # 0 => o.mine \in DOMAIN p.turns
    /\ \A t \in o.ran : /\ t \in DOMAIN p.turns /\ p.turns[t].st \in {"transmitted", "over", "unknown", "settled"}
                        /\ p.turns[t].st = "settled" => p.turns[t].receipt

\* The journal has room for every outcome that is still to come, and charges tell the turns.
GrantsInv ==
    /\ Books(permit) /\ InBooks(permit, office) /\ today \in 0..LastTick
    /\ permit.length + Completion(permit) <= JournalRoom

\* The turns are finitely many.
LEMMA TurnsFinite ==
  ASSUME NEW p, Books(p)
  PROVE  /\ Len(p.turns) \in Nat /\ DOMAIN p.turns = 1..Len(p.turns) /\ IsFiniteSet(DOMAIN p.turns)
         /\ Len(p.grants) \in Nat /\ DOMAIN p.grants = 1..Len(p.grants) /\ IsFiniteSet(DOMAIN p.grants)
         /\ p.turns \in Seq(ModelTurn) /\ p.grants \in Seq(AskGrant)
         /\ \A t \in DOMAIN p.turns : p.turns[t] \in ModelTurn
         /\ \A g \in DOMAIN p.grants : p.grants[g] \in AskGrant
<1>1. p.turns \in Seq(ModelTurn) /\ p.grants \in Seq(AskGrant)
  BY DEF Books, PermitRecord
<1>2. /\ Len(p.turns) \in Nat /\ DOMAIN p.turns = 1..Len(p.turns)
      /\ Len(p.grants) \in Nat /\ DOMAIN p.grants = 1..Len(p.grants)
  BY <1>1, SequenceAsFunction
<1>3. IsFiniteSet(1..Len(p.turns)) /\ IsFiniteSet(1..Len(p.grants))
  BY SMTT(30), <1>2, FS_Interval
<1> QED
  BY <1>1, <1>2, <1>3

\* Sets the journal counts.
LEMMA CountedTurns ==
  ASSUME NEW p, Books(p)
  PROVE  /\ \A S : IsFiniteSet(InState(p, S)) /\ Cardinality(InState(p, S)) \in Nat
         /\ \A g : IsFiniteSet(Charged(p, g)) /\ Cardinality(Charged(p, g)) \in Nat
         /\ \A t : IsFiniteSet(DayUpTo(p, t)) /\ Cardinality(DayUpTo(p, t)) \in Nat
         /\ IsFiniteSet({g \in DOMAIN p.grants : ~p.grants[g].revoked})
         /\ Cardinality({g \in DOMAIN p.grants : ~p.grants[g].revoked}) \in Nat
         /\ Completion(p) \in Nat
<1>1. IsFiniteSet(DOMAIN p.turns) /\ IsFiniteSet(DOMAIN p.grants)
  BY TurnsFinite
<1>2. /\ \A S : InState(p, S) \in SUBSET DOMAIN p.turns
      /\ \A g : Charged(p, g) \in SUBSET DOMAIN p.turns
      /\ \A t : DayUpTo(p, t) \in SUBSET DOMAIN p.turns
      /\ {g \in DOMAIN p.grants : ~p.grants[g].revoked} \in SUBSET DOMAIN p.grants
  BY DEF InState, Charged, DayUpTo
<1>3. \A T \in SUBSET DOMAIN p.turns : IsFiniteSet(T) /\ Cardinality(T) \in Nat
  BY <1>1, FS_Subset, FS_CardinalityType
<1>4. \A T \in SUBSET DOMAIN p.grants : IsFiniteSet(T) /\ Cardinality(T) \in Nat
  BY <1>1, FS_Subset, FS_CardinalityType
<1>5. /\ \A S : IsFiniteSet(InState(p, S)) /\ Cardinality(InState(p, S)) \in Nat
      /\ \A g : IsFiniteSet(Charged(p, g)) /\ Cardinality(Charged(p, g)) \in Nat
      /\ \A t : IsFiniteSet(DayUpTo(p, t)) /\ Cardinality(DayUpTo(p, t)) \in Nat
      /\ IsFiniteSet({g \in DOMAIN p.grants : ~p.grants[g].revoked})
      /\ Cardinality({g \in DOMAIN p.grants : ~p.grants[g].revoked}) \in Nat
  BY <1>2, <1>3, <1>4
<1>6. Completion(p) \in Nat
  BY <1>5 DEF Completion
<1> QED
  BY <1>5, <1>6

\* Nothing was granted yet.
LEMMA GrantsStart == AskGrantsInit => GrantsInv
<1> SUFFICES ASSUME AskGrantsInit PROVE GrantsInv
  OBVIOUS
<1>1. JournalRoom \in Nat \ {0} /\ MaxTurns \in Nat \ {0} /\ LastTick \in Nat \ {0}
  BY AskGrantsAssumption
<1>2. permit \in PermitRecord /\ permit.turns = <<>> /\ permit.grants = <<>> /\ permit.length = 1 /\ today = 0
  BY <1>1 DEF AskGrantsInit, PermitRecord
<1>3. DOMAIN permit.turns = {} /\ DOMAIN permit.grants = {} /\ Len(permit.turns) = 0 /\ Len(permit.grants) = 0 /\ 0 <= MaxGrants
  BY <1>2, AskGrantsAssumption
<1>4. Books(permit)
  BY <1>1, <1>2, <1>3 DEF Books
<1>5. InBooks(permit, office)
  BY <1>1 DEF AskGrantsInit, InBooks, OfficeRecord
<1>6. Completion(permit) = 0
  <2>1. \A S : InState(permit, S) = {}
    BY <1>3 DEF InState
  <2>2. {g \in DOMAIN permit.grants : ~permit.grants[g].revoked} = {}
    BY <1>3
  <2> QED
    BY <2>1, <2>2, FS_EmptySet DEF Completion
<1> QED
  BY <1>1, <1>2, <1>4, <1>5, <1>6 DEF GrantsInv

\* The invariant holds what is said of charges and of room.
LEMMA GrantsPromise == GrantsInv => AskGrantsTypeOK /\ ChargedTruly /\ RoomForOutcomes
<1> SUFFICES ASSUME GrantsInv PROVE AskGrantsTypeOK /\ ChargedTruly /\ RoomForOutcomes
  OBVIOUS
<1>1. Books(permit) /\ InBooks(permit, office)
  BY DEF GrantsInv
<1>2. AskGrantsTypeOK
  BY DEF GrantsInv, Books, InBooks, AskGrantsTypeOK, PermitRecord, OfficeRecord
<1>3. ChargedTruly
  <2>1. SUFFICES ASSUME NEW t \in office.ran
                 PROVE  /\ permit.turns[t].st \in {"transmitted", "over", "unknown", "settled"}
                        /\ permit.turns[t].st = "settled" => permit.turns[t].receipt
                        /\ Cardinality({u \in office.ran : permit.turns[u].at > permit.turns[t].at - DayTicks /\ u <= t}) <= permit.grants[permit.turns[t].grant].daily
                        /\ Cardinality({u \in office.ran : permit.turns[u].grant = permit.turns[t].grant}) <= permit.grants[permit.turns[t].grant].all
                        /\ \A u \in DOMAIN permit.turns : u < t => permit.turns[u].st = "settled"
    BY DEF ChargedTruly
  <2> DEFINE g == permit.turns[t].grant
             D == {u \in office.ran : permit.turns[u].at > permit.turns[t].at - DayTicks /\ u <= t}
             G == {u \in office.ran : permit.turns[u].grant = g}
  <2>2. t \in DOMAIN permit.turns /\ office.ran \subseteq DOMAIN permit.turns /\ g \in DOMAIN permit.grants
    BY <1>1 DEF InBooks, Books
  <2>3. D \in SUBSET DayUpTo(permit, t) /\ G \in SUBSET Charged(permit, g)
    BY <2>2 DEF DayUpTo, Charged
  <2>4. Cardinality(D) \in Nat /\ Cardinality(D) <= Cardinality(DayUpTo(permit, t)) /\ Cardinality(DayUpTo(permit, t)) \in Nat
    <3> HIDE DEF D
    <3> QED
      BY <1>1, <2>3, CountedTurns, FS_Subset, FS_CardinalityType
  <2>5. Cardinality(G) \in Nat /\ Cardinality(G) <= Cardinality(Charged(permit, g)) /\ Cardinality(Charged(permit, g)) \in Nat
    <3> HIDE DEF G
    <3> QED
      BY <1>1, <2>3, CountedTurns, FS_Subset, FS_CardinalityType
  <2>6. permit.grants[g].daily \in Nat /\ permit.grants[g].all \in Nat
    <3>1. permit.grants[g] \in AskGrant
      BY <1>1, <2>2, TurnsFinite
    <3> QED
      BY <3>1, AskGrantsAssumption DEF AskGrant
  <2>7. Cardinality(DayUpTo(permit, t)) <= permit.grants[g].daily /\ Cardinality(Charged(permit, g)) <= permit.grants[g].all
    BY <1>1, <2>2 DEF Books
  <2>8. Cardinality(D) <= permit.grants[g].daily /\ Cardinality(G) <= permit.grants[g].all
    <3> HIDE DEF D, G, g
    <3> QED
      BY <2>4, <2>5, <2>6, <2>7
  <2> QED
    BY <1>1, <2>2, <2>8 DEF InBooks, Books
<1>4. RoomForOutcomes
  <2> DEFINE free == {g \in DOMAIN permit.grants : ~permit.grants[g].revoked}
             R == InState(permit, {"reserved"})
             A == InState(permit, {"admitted"})
             T == InState(permit, {"transmitted"})
  <2>1. /\ IsFiniteSet(free) /\ IsFiniteSet(R) /\ IsFiniteSet(A) /\ IsFiniteSet(T)
        /\ Cardinality(free) \in Nat /\ Cardinality(R) \in Nat /\ Cardinality(A) \in Nat /\ Cardinality(T) \in Nat
    BY <1>1, CountedTurns
  <2>2. permit.length + 3 * Cardinality(R) + 2 * Cardinality(A) + Cardinality(T) + Cardinality(free) <= JournalRoom /\ permit.length \in Nat
    <3>1. permit.length + (3 * Cardinality(R) + 2 * Cardinality(A) + Cardinality(T) + Cardinality(free)) <= JournalRoom
      BY DEF GrantsInv, Completion
    <3>2. permit.length \in Nat /\ JournalRoom \in Nat
      BY <1>1, AskGrantsAssumption DEF Books, PermitRecord
    <3> HIDE DEF R, A, T, free
    <3> QED
      BY <2>1, <3>1, <3>2
  <2>3. ASSUME NEW t \in InState(permit, {"reserved", "admitted", "transmitted"})
        PROVE  Holds([permit EXCEPT !.turns[t].st = "unknown"])
    <3> DEFINE p == [permit EXCEPT !.turns[t].st = "unknown"]
    <3>1. t \in DOMAIN permit.turns /\ permit.turns[t].st \in {"reserved", "admitted", "transmitted"}
      BY <2>3 DEF InState
    <3>2. /\ p.length = permit.length /\ p.grants = permit.grants /\ DOMAIN p.turns = DOMAIN permit.turns
          /\ \A u \in DOMAIN permit.turns : p.turns[u].st = IF u = t THEN "unknown" ELSE permit.turns[u].st
      <4>1. \A u \in DOMAIN permit.turns : permit.turns[u] \in ModelTurn
        BY <1>1, TurnsFinite
      <4> QED
        BY <1>1, <4>1 DEF Books, PermitRecord, ModelTurn
    <3> HIDE DEF p
    <3>3. InState(p, {"reserved"}) = R \ {t} /\ InState(p, {"admitted"}) = A \ {t} /\ InState(p, {"transmitted"}) = T \ {t}
      BY <3>1, <3>2 DEF InState
    <3>4. t \in R \/ t \in A \/ t \in T
      BY <3>1 DEF InState
    <3> HIDE DEF R, A, T
    <3>5. /\ Cardinality(R \ {t}) = (IF t \in R THEN Cardinality(R) - 1 ELSE Cardinality(R))
          /\ Cardinality(A \ {t}) = (IF t \in A THEN Cardinality(A) - 1 ELSE Cardinality(A))
          /\ Cardinality(T \ {t}) = (IF t \in T THEN Cardinality(T) - 1 ELSE Cardinality(T))
      BY <2>1, FS_RemoveElement
    <3>6. Completion(p) = 3 * Cardinality(R \ {t}) + 2 * Cardinality(A \ {t}) + Cardinality(T \ {t}) + Cardinality(free)
      BY <3>2, <3>3 DEF Completion
    <3> HIDE DEF free
    <3>7. permit.length + 1 + Completion(p) <= JournalRoom
      BY <2>1, <2>2, <3>4, <3>5, <3>6, AskGrantsAssumption
    <3> QED
      BY <3>2, <3>7 DEF Holds, p
  <2>4. ASSUME NEW h \in DOMAIN permit.grants, ~permit.grants[h].revoked
        PROVE  Holds([permit EXCEPT !.grants[h].revoked = TRUE])
    <3> DEFINE p == [permit EXCEPT !.grants[h].revoked = TRUE]
    <3>2. /\ p.length = permit.length /\ p.turns = permit.turns /\ DOMAIN p.grants = DOMAIN permit.grants
          /\ \A u \in DOMAIN permit.grants : p.grants[u].revoked = IF u = h THEN TRUE ELSE permit.grants[u].revoked
      <4>1. \A u \in DOMAIN permit.grants : permit.grants[u] \in AskGrant
        BY <1>1, TurnsFinite
      <4> QED
        BY <1>1, <4>1 DEF Books, PermitRecord, AskGrant
    <3> HIDE DEF p
    <3>3. {g \in DOMAIN p.grants : ~p.grants[g].revoked} = free \ {h} /\ h \in free
      BY <2>4, <3>2
    <3>4. Cardinality(free \ {h}) = Cardinality(free) - 1
      BY <2>1, <3>3, FS_RemoveElement
    <3>5. Completion(p) = 3 * Cardinality(R) + 2 * Cardinality(A) + Cardinality(T) + Cardinality(free \ {h})
      BY <3>2, <3>3 DEF Completion, InState
    <3> HIDE DEF free, R, A, T
    <3>7. permit.length + 1 + Completion(p) <= JournalRoom
      BY <2>1, <2>2, <3>4, <3>5, AskGrantsAssumption
    <3> QED
      BY <3>2, <3>7 DEF Holds, p
  <2> QED
    BY <2>3, <2>4 DEF RoomForOutcomes
<1> QED
  BY <1>2, <1>3, <1>4

\* A commit of the journal, after which HQ goes on or is dead.
LEMMA GrantsCommit ==
  ASSUME GrantsInv, NEW p, Books(p), p.length = permit.length, NEW next, InBooks(p, next), Journalled(p, next),
         \A t \in office.ran : /\ t \in DOMAIN p.turns /\ p.turns[t].st \in {"transmitted", "over", "unknown", "settled"}
                               /\ p.turns[t].st = "settled" => p.turns[t].receipt
  PROVE  GrantsInv'
<1> DEFINE q == [p EXCEPT !.length = p.length + 1]
           dead == [office EXCEPT !.mine = 0, !.torn = TRUE]
<1>1. permit' = q /\ today' = today /\ (office' = next \/ office' = dead) /\ permit.length + 1 + Completion(p) <= JournalRoom
  BY DEF Journalled, Holds
<1>2. Completion(p) \in Nat /\ permit.length \in Nat /\ JournalRoom \in Nat
  <2>1. permit \in PermitRecord /\ Completion(p) \in Nat
    BY CountedTurns DEF GrantsInv, Books
  <2>2. JournalRoom \in Nat
    BY AskGrantsAssumption
  <2> QED
    BY <2>1, <2>2 DEF PermitRecord
<1>3. p.length + 1 \in 1..JournalRoom
  BY <1>1, <1>2
<1>4. q \in PermitRecord /\ q.turns = p.turns /\ q.grants = p.grants /\ q.length = p.length + 1
  BY <1>3 DEF Books, PermitRecord
<1>5. Books(q)
  BY <1>4 DEF Books, Charged, DayUpTo
<1>6. Completion(q) = Completion(p)
  BY <1>4 DEF Completion, InState
<1>7. \A o : InBooks(p, o) => InBooks(q, o)
  BY <1>4 DEF InBooks
<1>8. InBooks(p, dead)
  <2>1. office \in OfficeRecord
    BY DEF GrantsInv, InBooks
  <2>2. dead \in OfficeRecord /\ dead.mine = 0 /\ dead.ran = office.ran
    <3>1. 0 \in 0..MaxTurns
      BY AskGrantsAssumption
    <3>2. office.mine \in 0..MaxTurns /\ office.ran \in SUBSET (1..MaxTurns)
      BY <2>1 DEF OfficeRecord
    <3>3. dead.mine = 0 /\ dead.ran = office.ran /\ dead.torn
      BY <2>1 DEF OfficeRecord
    <3>4. dead \in [mine : {0}, torn : {TRUE}, ran : {office.ran}]
      BY <2>1 DEF OfficeRecord
    <3> HIDE DEF dead
    <3> QED
      BY <3>1, <3>2, <3>3, <3>4 DEF OfficeRecord
  <2> HIDE DEF dead
  <2> QED
    BY <2>2 DEF InBooks
<1>9. q.length + Completion(q) <= JournalRoom
  BY <1>1, <1>2, <1>4, <1>6
<1> HIDE DEF q, dead
<1>10. permit' = q /\ InBooks(q, office') /\ today' \in 0..LastTick
  BY <1>1, <1>7, <1>8 DEF GrantsInv
<1>11. Books(permit)' /\ InBooks(permit, office)' /\ Completion(permit)' = Completion(q)
  BY <1>5, <1>10 DEF Books, InBooks, Completion, InState, Charged, DayUpTo
<1> QED
  BY <1>9, <1>10, <1>11 DEF GrantsInv

\* The owner's entries.
LEMMA OwnerSteps ==
  ASSUME GrantsInv, NEW gen \in 1..MaxGrants, NEW all \in 1..MaxTurns, NEW daily \in 1..MaxTurns, NEW g,
         ApproveGrant(gen, all, daily) \/ (g \in DOMAIN permit.grants /\ RevokeGrant(g)) \/ OwnerPause
  PROVE  GrantsInv'
<1>1. Books(permit) /\ InBooks(permit, office) /\ today \in 0..LastTick /\ permit \in PermitRecord
  BY DEF GrantsInv, Books
<1>2. /\ Len(permit.grants) \in Nat /\ DOMAIN permit.grants = 1..Len(permit.grants) /\ permit.grants \in Seq(AskGrant)
      /\ \A h \in DOMAIN permit.grants : permit.grants[h] \in AskGrant
  BY <1>1, TurnsFinite
<1>3. \A p : /\ Books(p) /\ p.turns = permit.turns => InBooks(p, office)
             /\ p.turns = permit.turns => \A h : Charged(p, h) = Charged(permit, h)
             /\ p.turns = permit.turns => \A h : DayUpTo(p, h) = DayUpTo(permit, h)
  BY <1>1 DEF InBooks, Charged, DayUpTo
<1>4. CASE ApproveGrant(gen, all, daily)
  <2> DEFINE it == [gen |-> gen, from |-> today, until |-> today + GrantTicks, all |-> all, daily |-> daily, revoked |-> FALSE]
             gs == Append(permit.grants, it)
             p == [permit EXCEPT !.grants = gs]
  <2>1. it \in AskGrant
    BY <1>1, AskGrantsAssumption DEF AskGrant
  <2>2. it.all = all /\ it.daily = daily
    OBVIOUS
  <2> HIDE DEF it
  <2>3. /\ gs \in Seq(AskGrant) /\ Len(gs) = Len(permit.grants) + 1 /\ DOMAIN gs = 1..Len(permit.grants) + 1
        /\ \A h \in DOMAIN permit.grants : h \in DOMAIN gs /\ gs[h] = permit.grants[h]
        /\ gs[Len(permit.grants) + 1] = it
    <3>1. /\ gs \in Seq(AskGrant) /\ Len(gs) = Len(permit.grants) + 1
          /\ \A i \in 1..Len(permit.grants) : gs[i] = permit.grants[i]
          /\ gs[Len(permit.grants) + 1] = it
      BY <1>2, <2>1, AppendProperties
    <3>2. DOMAIN gs = 1..Len(permit.grants) + 1
      BY <1>2, <3>1, SequenceAsFunction
    <3> HIDE DEF gs
    <3>3. \A h \in DOMAIN permit.grants : h \in 1..Len(permit.grants) /\ h \in DOMAIN gs
      BY <1>2, <3>2
    <3> QED
      BY <3>1, <3>2, <3>3
  <2> HIDE DEF gs
  <2>4. p \in PermitRecord /\ p.turns = permit.turns /\ p.grants = gs /\ p.length = permit.length
    BY <1>1, <2>3 DEF PermitRecord
  <2>5. Journalled(p, office) /\ Len(permit.grants) < MaxGrants
    BY <1>4 DEF ApproveGrant, Newest, gs, it
  <2> HIDE DEF p
  <2>6. Charged(permit, Len(permit.grants) + 1) = {}
    BY <1>1, <1>2 DEF Books, Charged
  <2>7. Books(p)
    <3>1. \A t \in DOMAIN p.turns : p.turns[t].grant \in DOMAIN permit.grants /\ p.turns[t].grant \in DOMAIN p.grants
      BY <1>1, <2>3, <2>4 DEF Books
    <3>2. \A h \in DOMAIN p.grants : Cardinality(Charged(p, h)) <= p.grants[h].all
      <4>1. SUFFICES ASSUME NEW h \in DOMAIN p.grants PROVE Cardinality(Charged(p, h)) <= p.grants[h].all
        OBVIOUS
      <4>2. CASE h \in DOMAIN permit.grants
        BY <1>1, <1>3, <2>3, <2>4, <4>2 DEF Books
      <4>3. CASE h = Len(permit.grants) + 1
        <5>1. Charged(p, h) = {} /\ p.grants[h].all = all
          BY <1>3, <2>2, <2>3, <2>4, <2>6, <4>3
        <5>2. 0 <= all
          BY AskGrantsAssumption
        <5> QED
          BY <5>1, <5>2, FS_EmptySet
      <4> QED
        BY <1>2, <2>3, <2>4, <4>1, <4>2, <4>3
    <3>3. \A t \in DOMAIN p.turns : Cardinality(DayUpTo(p, t)) <= p.grants[p.turns[t].grant].daily
      BY <1>1, <1>3, <2>3, <2>4, <3>1 DEF Books
    <3>4. Len(p.grants) <= MaxGrants
      <4>1. MaxGrants \in Nat
        BY AskGrantsAssumption
      <4> QED
        BY <1>2, <2>3, <2>4, <2>5, <4>1
    <3> QED
      BY <1>1, <2>4, <3>1, <3>2, <3>3, <3>4 DEF Books
  <2>8. InBooks(p, office)
    BY <1>3, <2>4, <2>7
  <2> QED
    BY <2>4, <2>5, <2>7, <2>8, GrantsCommit DEF InBooks
<1>5. CASE g \in DOMAIN permit.grants /\ RevokeGrant(g)
  <2> DEFINE gs == [permit.grants EXCEPT ![g].revoked = TRUE]
             p == [permit EXCEPT !.grants = gs]
  <2>1. /\ gs \in Seq(AskGrant) /\ DOMAIN gs = DOMAIN permit.grants /\ Len(gs) = Len(permit.grants)
        /\ \A h \in DOMAIN permit.grants : gs[h].all = permit.grants[h].all /\ gs[h].daily = permit.grants[h].daily
    <3>1. [permit.grants[g] EXCEPT !.revoked = TRUE] \in AskGrant
          /\ [permit.grants[g] EXCEPT !.revoked = TRUE].all = permit.grants[g].all
          /\ [permit.grants[g] EXCEPT !.revoked = TRUE].daily = permit.grants[g].daily
      BY <1>2, <1>5 DEF AskGrant
    <3>2. gs = [permit.grants EXCEPT ![g] = [permit.grants[g] EXCEPT !.revoked = TRUE]]
      OBVIOUS
    <3>3. gs \in [DOMAIN permit.grants -> AskGrant]
      BY <1>2, <3>1, <3>2
    <3>4. gs \in Seq(AskGrant) /\ Len(gs) = Len(permit.grants)
      BY <1>2, <3>3, FunctionAsSequence
    <3> QED
      BY <1>2, <3>1, <3>2, <3>4
  <2> HIDE DEF gs
  <2>2. p \in PermitRecord /\ p.turns = permit.turns /\ p.grants = gs /\ p.length = permit.length
    BY <1>1, <2>1 DEF PermitRecord
  <2>3. Journalled(p, office)
    <3>1. p = [permit EXCEPT !.grants[g].revoked = TRUE]
      BY <1>1 DEF PermitRecord, gs
    <3> QED
      BY <1>5, <3>1 DEF RevokeGrant
  <2> HIDE DEF p
  <2>4. Books(p)
    <3>1. \A t \in DOMAIN p.turns : p.turns[t].grant \in DOMAIN permit.grants /\ p.turns[t].grant \in DOMAIN p.grants
      BY <1>1, <2>1, <2>2 DEF Books
    <3>2. \A h \in DOMAIN p.grants : Cardinality(Charged(p, h)) <= p.grants[h].all
      BY <1>1, <1>3, <2>1, <2>2 DEF Books
    <3>3. \A t \in DOMAIN p.turns : Cardinality(DayUpTo(p, t)) <= p.grants[p.turns[t].grant].daily
      <4>1. SUFFICES ASSUME NEW t \in DOMAIN p.turns PROVE Cardinality(DayUpTo(p, t)) <= p.grants[p.turns[t].grant].daily
        OBVIOUS
      <4>2. DayUpTo(p, t) = DayUpTo(permit, t)
        BY <1>3, <2>2
      <4>3. p.grants[p.turns[t].grant].daily = permit.grants[permit.turns[t].grant].daily
        BY <2>1, <2>2, <3>1
      <4>4. Cardinality(DayUpTo(permit, t)) <= permit.grants[permit.turns[t].grant].daily
        BY <1>1, <2>2 DEF Books
      <4> QED
        BY <4>2, <4>3, <4>4
    <3> QED
      BY <1>1, <2>1, <2>2, <3>1, <3>2, <3>3 DEF Books
  <2>5. InBooks(p, office)
    BY <1>3, <2>2, <2>4
  <2> QED
    BY <2>2, <2>3, <2>4, <2>5, GrantsCommit DEF InBooks
<1>6. CASE OwnerPause
  <2>1. PICK on \in BOOLEAN : Journalled([permit EXCEPT !.paused = on], office)
    BY <1>6 DEF OwnerPause
  <2> DEFINE p == [permit EXCEPT !.paused = on]
  <2>2. p \in PermitRecord /\ p.turns = permit.turns /\ p.grants = permit.grants /\ p.length = permit.length
    BY <1>1 DEF PermitRecord
  <2>3. Journalled(p, office)
    BY <2>1
  <2> HIDE DEF p
  <2>4. Books(p)
    BY <1>1, <1>3, <2>2 DEF Books
  <2>5. InBooks(p, office)
    BY <1>3, <2>2, <2>4
  <2> QED
    BY <2>2, <2>3, <2>4, <2>5, GrantsCommit DEF InBooks
<1> QED
  BY <1>4, <1>5, <1>6

\* A turn that changes state is the last one.
Entry(t, st, r) == [permit EXCEPT !.turns = [permit.turns EXCEPT ![t] = [permit.turns[t] EXCEPT !.st = st, !.receipt = r]]]

\* One turn changes its state.
LEMMA TurnBecomes ==
  ASSUME GrantsInv, NEW t \in DOMAIN permit.turns, permit.turns[t].st # "settled", NEW st \in TurnStates, NEW r \in BOOLEAN
  PROVE  /\ Books(Entry(t, st, r)) /\ Entry(t, st, r).length = permit.length /\ DOMAIN Entry(t, st, r).turns = DOMAIN permit.turns
         /\ Entry(t, st, r).turns[t].st = st /\ Entry(t, st, r).turns[t].receipt = r
         /\ \A u \in DOMAIN permit.turns \ {t} : Entry(t, st, r).turns[u] = permit.turns[u]
<1> DEFINE p == Entry(t, st, r)
<1>1. Books(permit) /\ permit \in PermitRecord
  BY DEF GrantsInv, Books
<1>2. /\ Len(permit.turns) \in Nat /\ DOMAIN permit.turns = 1..Len(permit.turns) /\ permit.turns \in Seq(ModelTurn)
      /\ \A u \in DOMAIN permit.turns : permit.turns[u] \in ModelTurn
  BY <1>1, TurnsFinite
<1> DEFINE m == [permit.turns[t] EXCEPT !.st = st, !.receipt = r]
           ts == [permit.turns EXCEPT ![t] = m]
<1>3. m \in ModelTurn /\ m.grant = permit.turns[t].grant /\ m.at = permit.turns[t].at /\ m.st = st /\ m.receipt = r
  <2>1. permit.turns[t] \in ModelTurn
    BY <1>2
  <2> QED
    BY <2>1 DEF ModelTurn
<1> HIDE DEF m
<1>4. ts \in Seq(ModelTurn) /\ DOMAIN ts = DOMAIN permit.turns /\ Len(ts) = Len(permit.turns)
  <2>1. ts \in [DOMAIN permit.turns -> ModelTurn]
    BY <1>2, <1>3
  <2> QED
    BY <1>2, <2>1, FunctionAsSequence
<1>5. ts[t] = m /\ \A u \in DOMAIN permit.turns \ {t} : ts[u] = permit.turns[u]
  BY <1>2
<1>6. p = [permit EXCEPT !.turns = ts]
  BY DEF m, Entry
<1> HIDE DEF ts, p
<1>7. p \in PermitRecord /\ p.turns = ts /\ p.grants = permit.grants /\ p.length = permit.length
  BY <1>1, <1>4, <1>6 DEF PermitRecord
<1>8. \A u \in DOMAIN permit.turns : ts[u].grant = permit.turns[u].grant /\ ts[u].at = permit.turns[u].at
  BY <1>3, <1>5
<1>9. (\A g : Charged(p, g) = Charged(permit, g)) /\ (\A u \in DOMAIN permit.turns : DayUpTo(p, u) = DayUpTo(permit, u))
  BY <1>4, <1>7, <1>8 DEF Charged, DayUpTo
<1>10. \A v, u \in DOMAIN p.turns : u < v => p.turns[u].st = "settled"
  <2>1. SUFFICES ASSUME NEW v \in DOMAIN permit.turns, NEW u \in DOMAIN permit.turns, u < v PROVE ts[u].st = "settled"
    BY <1>4, <1>7
  <2>2. permit.turns[u].st = "settled"
    BY <1>1, <2>1 DEF Books
  <2> QED
    BY <1>5, <2>2
<1>11. Books(p)
  BY <1>1, <1>4, <1>7, <1>8, <1>9, <1>10 DEF Books
<1> QED
  BY <1>3, <1>4, <1>5, <1>7, <1>11 DEF p

\* A turn is charged to its grant before it begins.
LEMMA ReserveStep ==
  ASSUME GrantsInv, NEW g \in DOMAIN permit.grants, ReserveTurn(g)
  PROVE  GrantsInv'
<1> DEFINE m == [grant |-> g, at |-> today, st |-> "reserved", receipt |-> FALSE]
           n == Len(permit.turns) + 1
           ts == Append(permit.turns, m)
           p == [permit EXCEPT !.turns = ts]
           next == [office EXCEPT !.mine = n]
           rolling == {t \in DOMAIN permit.turns : permit.turns[t].at > today - DayTicks}
<1>1. Books(permit) /\ InBooks(permit, office) /\ today \in 0..LastTick /\ permit \in PermitRecord /\ office \in OfficeRecord
  BY DEF GrantsInv, Books, InBooks
<1>2. /\ Len(permit.turns) \in Nat /\ DOMAIN permit.turns = 1..Len(permit.turns) /\ permit.turns \in Seq(ModelTurn)
      /\ \A u \in DOMAIN permit.turns : permit.turns[u] \in ModelTurn
      /\ Len(permit.grants) \in Nat /\ DOMAIN permit.grants = 1..Len(permit.grants)
      /\ permit.grants[g] \in AskGrant
  BY <1>1, TurnsFinite
<1>3. /\ Journalled(p, next) /\ Len(permit.turns) < MaxTurns
      /\ InState(permit, TurnStates \ {"settled"}) = {}
      /\ Cardinality(Charged(permit, g)) < permit.grants[g].all /\ Cardinality(rolling) < permit.grants[g].daily
  <2>1. Journalled(p, next) /\ WithinLimits(g) /\ Len(permit.turns) < MaxTurns
    BY DEF ReserveTurn
  <2> HIDE DEF p, next
  <2> QED
    BY <2>1 DEF WithinLimits, Charged
<1>4. MaxTurns \in Nat /\ DayTicks \in Nat \ {0} /\ MaxGrants \in Nat /\ n \in 1..MaxTurns
  <2>1. MaxTurns \in Nat /\ DayTicks \in Nat \ {0} /\ MaxGrants \in Nat
    BY AskGrantsAssumption
  <2> QED
    BY <1>2, <1>3, <2>1
<1>5. m \in ModelTurn /\ m.grant = g /\ m.at = today /\ m.st = "reserved"
  <2>1. "reserved" \in TurnStates
    BY DEF TurnStates
  <2>2. g \in 1..MaxGrants
    <3>1. permit.grants[g] \in AskGrant
      BY <1>2
    <3>2. Len(permit.grants) <= MaxGrants
      BY <1>1 DEF Books
    <3> QED
      BY <1>2, <1>4, <3>2
  <2> QED
    BY <1>1, <2>1, <2>2 DEF ModelTurn
<1> HIDE DEF m
<1>6. /\ ts \in Seq(ModelTurn) /\ Len(ts) = n /\ DOMAIN ts = 1..n /\ ts[n] = m
      /\ \A t \in DOMAIN permit.turns : t \in DOMAIN ts /\ ts[t] = permit.turns[t] /\ t < n /\ t \in Nat
  <2>1. /\ ts \in Seq(ModelTurn) /\ Len(ts) = n
        /\ \A i \in 1..Len(permit.turns) : ts[i] = permit.turns[i]
        /\ ts[n] = m
    BY <1>2, <1>5, AppendProperties
  <2>2. DOMAIN ts = 1..n
    BY <1>2, <2>1, SequenceAsFunction
  <2> HIDE DEF ts
  <2>3. \A h \in DOMAIN permit.turns : h \in 1..Len(permit.turns) /\ h \in DOMAIN ts /\ h < n /\ h \in Nat
    BY <1>2, <2>2
  <2> QED
    BY <2>1, <2>2, <2>3
<1>7. \A t \in DOMAIN ts : t \in DOMAIN permit.turns \/ t = n
  BY <1>2, <1>6
<1>8. n \in DOMAIN ts /\ n \notin DOMAIN permit.turns /\ n \in Nat
  BY <1>2, <1>6
<1> HIDE DEF ts
<1>9. p \in PermitRecord /\ p.turns = ts /\ p.grants = permit.grants /\ p.length = permit.length
  BY <1>1, <1>6 DEF PermitRecord
<1> HIDE DEF p
<1>10. \A t \in DOMAIN permit.turns : permit.turns[t].st = "settled"
  <2>1. \A t \in DOMAIN permit.turns : permit.turns[t].st \in TurnStates
    BY <1>2 DEF ModelTurn
  <2> QED
    BY <1>3, <2>1 DEF InState
<1>11. \A h \in DOMAIN permit.grants : Cardinality(Charged(p, h)) <= permit.grants[h].all
  <2>1. SUFFICES ASSUME NEW h \in DOMAIN permit.grants PROVE Cardinality(Charged(p, h)) <= permit.grants[h].all
    OBVIOUS
  <2>2. CASE h = g
    <3>1. Charged(p, g) = Charged(permit, g) \cup {n} /\ n \notin Charged(permit, g)
      BY <1>5, <1>6, <1>7, <1>8, <1>9 DEF Charged
    <3>2. IsFiniteSet(Charged(permit, g)) /\ Cardinality(Charged(permit, g)) \in Nat
      BY <1>1, CountedTurns
    <3>3. Cardinality(Charged(p, g)) = Cardinality(Charged(permit, g)) + 1
      BY <3>1, <3>2, FS_AddElement
    <3>4. permit.grants[g].all \in Nat
      BY <1>2, <1>4 DEF AskGrant
    <3> QED
      BY <1>3, <2>2, <3>2, <3>3, <3>4
  <2>3. CASE h # g
    <3>1. Charged(p, h) = Charged(permit, h)
      BY <1>5, <1>6, <1>7, <1>8, <1>9, <2>3 DEF Charged
    <3> QED
      BY <1>1, <3>1 DEF Books
  <2> QED
    BY <2>2, <2>3
<1>12. \A t \in DOMAIN permit.turns : DayUpTo(p, t) = DayUpTo(permit, t)
  <2>1. SUFFICES ASSUME NEW t \in DOMAIN permit.turns PROVE DayUpTo(p, t) = DayUpTo(permit, t)
    OBVIOUS
  <2>2. t < n /\ t \in Nat
    BY <1>6
  <2>3. ~ (n <= t)
    BY <1>8, <2>2
  <2> QED
    BY <1>6, <1>7, <1>9, <2>3 DEF DayUpTo
<1>13. Cardinality(DayUpTo(p, n)) <= permit.grants[g].daily
  <2>1. today > today - DayTicks
    BY <1>1, <1>4
  <2>2. DayUpTo(p, n) = rolling \cup {n} /\ n \notin rolling
    <3>1. \A t \in DOMAIN permit.turns : t <= n
      BY <1>6, <1>8
    <3>2. n <= n
      BY <1>8
    <3> QED
      BY <1>5, <1>6, <1>7, <1>8, <1>9, <2>1, <3>1, <3>2 DEF DayUpTo
  <2>3. IsFiniteSet(rolling) /\ Cardinality(rolling) \in Nat
    <3>1. IsFiniteSet(DOMAIN permit.turns) /\ rolling \in SUBSET DOMAIN permit.turns
      BY <1>1, TurnsFinite
    <3> HIDE DEF rolling
    <3> QED
      BY <3>1, FS_Subset, FS_CardinalityType
  <2> HIDE DEF rolling
  <2>4. Cardinality(DayUpTo(p, n)) = Cardinality(rolling) + 1
    BY <2>2, <2>3, FS_AddElement
  <2>5. permit.grants[g].daily \in Nat
    BY <1>2, <1>4 DEF AskGrant
  <2> QED
    BY <1>3, <2>3, <2>4, <2>5
<1>14. Books(p)
  <2>1. Len(p.turns) <= MaxTurns
    BY <1>4, <1>6, <1>9
  <2>2. \A t \in DOMAIN p.turns : p.turns[t].grant \in DOMAIN p.grants
    BY <1>1, <1>5, <1>6, <1>7, <1>9 DEF Books
  <2>3. \A t, u \in DOMAIN p.turns : u < t => p.turns[u].st = "settled"
    <3>1. SUFFICES ASSUME NEW t \in DOMAIN ts, NEW u \in DOMAIN ts, u < t PROVE ts[u].st = "settled"
      BY <1>9
    <3>2. t <= n /\ t \in Nat /\ u \in Nat
      BY <1>6, <1>8
    <3>3. u # n
      BY <1>8, <3>1, <3>2
    <3>4. u \in DOMAIN permit.turns
      BY <1>7, <3>3
    <3> QED
      BY <1>6, <1>10, <3>4
  <2>4. \A t \in DOMAIN p.turns : Cardinality(DayUpTo(p, t)) <= p.grants[p.turns[t].grant].daily
    <3>1. SUFFICES ASSUME NEW t \in DOMAIN ts PROVE Cardinality(DayUpTo(p, t)) <= permit.grants[ts[t].grant].daily
      BY <1>9
    <3>2. CASE t = n
      BY <1>5, <1>6, <1>13, <3>2
    <3>3. CASE t \in DOMAIN permit.turns
      BY <1>1, <1>6, <1>12, <3>3 DEF Books
    <3> QED
      BY <1>7, <3>2, <3>3
  <2> QED
    BY <1>1, <1>9, <1>11, <2>1, <2>2, <2>3, <2>4 DEF Books
<1>15. \A t \in office.ran : /\ t \in DOMAIN p.turns /\ p.turns[t].st \in {"transmitted", "over", "unknown", "settled"}
                             /\ p.turns[t].st = "settled" => p.turns[t].receipt
  BY <1>1, <1>6, <1>9 DEF InBooks
<1>16. InBooks(p, next)
  <2>1. n \in 0..MaxTurns
    BY <1>4
  <2> HIDE DEF n
  <2>2. next \in OfficeRecord /\ next.mine = n /\ next.ran = office.ran
    BY <1>1, <2>1 DEF OfficeRecord
  <2> HIDE DEF next
  <2> QED
    BY <1>8, <1>9, <1>15, <2>2 DEF InBooks
<1> HIDE DEF next
<1> QED
  BY <1>3, <1>9, <1>14, <1>15, <1>16, GrantsCommit

\* The entries of a turn that was reserved.
LEMMA TurnSteps ==
  ASSUME GrantsInv, NEW t, AdmitTurn \/ TransmitTurn \/ SettleTurn \/ NotSent \/ (t \in DOMAIN permit.turns /\ TurnUnknown(t))
  PROVE  GrantsInv'
<1> DEFINE i == office.mine
<1>1. Books(permit) /\ InBooks(permit, office) /\ permit \in PermitRecord /\ office \in OfficeRecord /\ 0 \in 0..MaxTurns
  BY AskGrantsAssumption DEF GrantsInv, Books, InBooks
<1>2. \A u \in DOMAIN permit.turns : permit.turns[u] \in ModelTurn
  BY <1>1, TurnsFinite
<1>3. \A u \in DOMAIN permit.turns : permit.turns[u].receipt \in BOOLEAN
  BY <1>2 DEF ModelTurn
\* An entry of one turn, with what the process keeps and what has run.
<1>4. ASSUME NEW u \in DOMAIN permit.turns, permit.turns[u].st \in {"reserved", "admitted", "transmitted"},
             NEW st \in TurnStates, NEW r \in BOOLEAN, NEW next \in OfficeRecord, next.mine \in {0, office.mine},
             next.ran = office.ran \/ (next.ran = office.ran \cup {u} /\ st = "transmitted"),
             st = "settled" => r \/ u \notin office.ran, st \notin {"reserved", "admitted"} \/ u \notin office.ran,
             Journalled(Entry(u, st, r), next)
      PROVE  GrantsInv'
  <2> DEFINE p == Entry(u, st, r)
  <2>1. /\ Books(p) /\ p.length = permit.length /\ DOMAIN p.turns = DOMAIN permit.turns
        /\ p.turns[u].st = st /\ p.turns[u].receipt = r
        /\ \A v \in DOMAIN permit.turns \ {u} : p.turns[v] = permit.turns[v]
    <3>1. permit.turns[u].st # "settled"
      BY <1>4
    <3> QED
      BY <1>4, <3>1, TurnBecomes
  <2>2. Journalled(p, next)
    BY <1>4
  <2> HIDE DEF p
  <2>3. st \in {"reserved", "admitted", "transmitted", "settled", "over", "unknown"}
    BY <1>4 DEF TurnStates
  <2>4. \A v \in office.ran : /\ v \in DOMAIN p.turns /\ p.turns[v].st \in {"transmitted", "over", "unknown", "settled"}
                              /\ p.turns[v].st = "settled" => p.turns[v].receipt
    <3>1. SUFFICES ASSUME NEW v \in office.ran
                   PROVE  /\ v \in DOMAIN p.turns /\ p.turns[v].st \in {"transmitted", "over", "unknown", "settled"}
                          /\ p.turns[v].st = "settled" => p.turns[v].receipt
      OBVIOUS
    <3>2. v \in DOMAIN permit.turns
      BY <1>1 DEF InBooks
    <3>3. CASE v = u
      BY <1>4, <2>1, <2>3, <3>1, <3>3
    <3>4. CASE v # u
      BY <1>1, <2>1, <3>1, <3>2, <3>4 DEF InBooks
    <3> QED
      BY <3>3, <3>4
  <2>5. InBooks(p, next)
    <3>1. next.mine # 0 => next.mine \in DOMAIN p.turns
      BY <1>1, <1>4, <2>1 DEF InBooks
    <3>2. \A v \in next.ran : v \in office.ran \/ (v = u /\ st = "transmitted")
      BY <1>4
    <3> QED
      BY <1>4, <2>1, <2>4, <3>1, <3>2 DEF InBooks
  <2> QED
    BY <2>1, <2>2, <2>4, <2>5, GrantsCommit
<1>5. \A u \in DOMAIN permit.turns : \A st : [permit EXCEPT !.turns[u].st = st] = Entry(u, st, permit.turns[u].receipt)
  <2>1. SUFFICES ASSUME NEW u \in DOMAIN permit.turns, NEW st PROVE [permit EXCEPT !.turns[u].st = st] = Entry(u, st, permit.turns[u].receipt)
    OBVIOUS
  <2>2. [permit.turns[u] EXCEPT !.st = st] = [permit.turns[u] EXCEPT !.st = st, !.receipt = permit.turns[u].receipt]
    BY <1>2 DEF ModelTurn
  <2> QED
    BY <2>2 DEF Entry
<1>6. \A u \in DOMAIN permit.turns : \A st, r : [[permit EXCEPT !.turns[u].st = st] EXCEPT !.turns[u].receipt = r] = Entry(u, st, r)
  <2>1. SUFFICES ASSUME NEW u \in DOMAIN permit.turns, NEW st, NEW r
                 PROVE  [[permit EXCEPT !.turns[u].st = st] EXCEPT !.turns[u].receipt = r] = Entry(u, st, r)
    OBVIOUS
  <2> DEFINE m == permit.turns[u]
             ts == [permit.turns EXCEPT ![u] = [m EXCEPT !.st = st]]
             p == [permit EXCEPT !.turns = ts]
  <2>2. [permit EXCEPT !.turns[u].st = st] = p
    OBVIOUS
  <2>3. p.turns = ts
    BY <1>1 DEF PermitRecord
  <2>4. ts[u] = [m EXCEPT !.st = st]
    OBVIOUS
  <2>5. [p EXCEPT !.turns[u].receipt = r] = [p EXCEPT !.turns = [p.turns EXCEPT ![u] = [p.turns[u] EXCEPT !.receipt = r]]]
    OBVIOUS
  <2>6. [ts EXCEPT ![u] = [ts[u] EXCEPT !.receipt = r]] = [permit.turns EXCEPT ![u] = [m EXCEPT !.st = st, !.receipt = r]]
    OBVIOUS
  <2> HIDE DEF ts
  <2>7. [p EXCEPT !.turns = [p.turns EXCEPT ![u] = [p.turns[u] EXCEPT !.receipt = r]]] = [permit EXCEPT !.turns = [ts EXCEPT ![u] = [ts[u] EXCEPT !.receipt = r]]]
    BY <2>3
  <2> HIDE DEF p
  <2> QED
    BY <2>2, <2>5, <2>6, <2>7 DEF Entry
<1>7. \A u \in office.ran : permit.turns[u].st \notin {"reserved", "admitted"}
  BY <1>1 DEF InBooks
<1>8. Mine => i \in DOMAIN permit.turns /\ TheTurn = permit.turns[i]
  BY <1>1 DEF Mine, TheTurn, InBooks
<1>9. {"reserved", "admitted", "transmitted", "settled", "over", "unknown"} \subseteq TurnStates
  BY DEF TurnStates
<1>10. CASE AdmitTurn
  <2>1. Mine /\ TheTurn.st = "reserved" /\ Journalled(Becomes("admitted"), office)
    BY <1>10 DEF AdmitTurn, Passes
  <2>2. Becomes("admitted") = Entry(i, "admitted", permit.turns[i].receipt) /\ permit.turns[i].receipt \in BOOLEAN
    BY <1>3, <1>5, <1>8, <2>1 DEF Becomes
  <2> HIDE DEF i
  <2>3. permit.turns[i].st = "reserved" /\ i \notin office.ran /\ i \in DOMAIN permit.turns
    BY <1>7, <1>8, <2>1
  <2> QED
    BY <1>1, <1>4, <1>9, <2>1, <2>2, <2>3
<1>11. CASE TransmitTurn
  <2> DEFINE next == [office EXCEPT !.ran = office.ran \cup {i}]
  <2>1. Mine /\ TheTurn.st = "admitted" /\ Journalled(Becomes("transmitted"), next)
    BY <1>11 DEF TransmitTurn, Passes
  <2>2. Becomes("transmitted") = Entry(i, "transmitted", permit.turns[i].receipt) /\ permit.turns[i].receipt \in BOOLEAN
    BY <1>3, <1>5, <1>8, <2>1 DEF Becomes
  <2>3. permit.turns[i].st = "admitted" /\ i \in DOMAIN permit.turns
    BY <1>8, <2>1
  <2>4. next \in OfficeRecord /\ next.mine = office.mine /\ next.ran = office.ran \cup {i}
    <3>1. i \in 1..MaxTurns
      <4>1. i \in 0..MaxTurns /\ i # 0 /\ MaxTurns \in Nat
        BY <1>1, <2>1, AskGrantsAssumption DEF OfficeRecord, Mine
      <4> QED
        BY <4>1
    <3> HIDE DEF i
    <3> QED
      BY <1>1, <3>1 DEF OfficeRecord
  <2> HIDE DEF i, next
  <2> QED
    BY <1>4, <1>9, <2>1, <2>2, <2>3, <2>4
<1>12. \A o \in OfficeRecord : /\ [o EXCEPT !.mine = 0] \in OfficeRecord /\ [o EXCEPT !.mine = 0].mine = 0
                               /\ [o EXCEPT !.mine = 0].ran = o.ran
  BY <1>1 DEF OfficeRecord
<1> DEFINE ended == [office EXCEPT !.mine = 0]
<1>13. ended \in OfficeRecord /\ ended.mine = 0 /\ ended.ran = office.ran
  BY <1>1, <1>12
<1>14. CASE SettleTurn
  <2>1. PICK st \in {"settled", "over"} : Journalled([Becomes(st) EXCEPT !.turns[office.mine].receipt = TRUE], ended)
    BY <1>14 DEF SettleTurn
  <2>2. Mine /\ TheTurn.st = "transmitted"
    BY <1>14 DEF SettleTurn
  <2>3. [Becomes(st) EXCEPT !.turns[office.mine].receipt = TRUE] = Entry(i, st, TRUE)
    BY <1>6, <1>8, <2>2 DEF Becomes
  <2>4. permit.turns[i].st = "transmitted" /\ i \in DOMAIN permit.turns
    BY <1>8, <2>2
  <2> HIDE DEF i, ended
  <2>5. st \in TurnStates /\ st \notin {"reserved", "admitted"} /\ TRUE \in BOOLEAN
    BY <1>9, <2>1
  <2>6. Journalled(Entry(i, st, TRUE), ended)
    BY <2>1, <2>3
  <2> QED
    BY <1>4, <1>13, <2>4, <2>5, <2>6
<1>15. CASE NotSent
  <2>1. Mine /\ TheTurn.st \in {"reserved", "admitted"} /\ Journalled(Becomes("settled"), ended)
    BY <1>15 DEF NotSent
  <2>2. Becomes("settled") = Entry(i, "settled", permit.turns[i].receipt) /\ permit.turns[i].receipt \in BOOLEAN
    BY <1>3, <1>5, <1>8, <2>1 DEF Becomes
  <2> HIDE DEF ended
  <2>3. permit.turns[i].st \in {"reserved", "admitted"} /\ i \notin office.ran /\ i \in DOMAIN permit.turns
    BY <1>7, <1>8, <2>1
  <2> HIDE DEF i
  <2> QED
    BY <1>4, <1>9, <1>13, <2>1, <2>2, <2>3
<1>16. CASE t \in DOMAIN permit.turns /\ TurnUnknown(t)
  <2>1. permit.turns[t].st \in {"reserved", "admitted", "transmitted"} /\ Journalled([permit EXCEPT !.turns[t].st = "unknown"], ended)
    BY <1>16 DEF TurnUnknown
  <2>2. [permit EXCEPT !.turns[t].st = "unknown"] = Entry(t, "unknown", permit.turns[t].receipt) /\ permit.turns[t].receipt \in BOOLEAN
    BY <1>3, <1>5, <1>16
  <2> HIDE DEF ended
  <2> QED
    BY <1>4, <1>9, <1>13, <1>16, <2>1, <2>2
<1> QED
  BY <1>10, <1>11, <1>14, <1>15, <1>16

\* Every step of the owner, of a turn and of the journal.
LEMMA GrantsStep == GrantsInv /\ [AskGrantsNext]_grantVars => GrantsInv'
<1> SUFFICES ASSUME GrantsInv, [AskGrantsNext]_grantVars PROVE GrantsInv'
  OBVIOUS
<1>1. CASE UNCHANGED grantVars
  BY <1>1 DEF grantVars, GrantsInv, Books, InBooks, Completion, InState, Charged, DayUpTo
<1>2. CASE \E gen \in 1..MaxGrants, all, daily \in 1..MaxTurns : ApproveGrant(gen, all, daily)
  BY <1>2, OwnerSteps
<1>3. CASE \E g \in DOMAIN permit.grants : RevokeGrant(g)
  <2>1. 1 \in 1..MaxGrants /\ 1 \in 1..MaxTurns
    BY AskGrantsAssumption
  <2> QED
    BY <1>3, <2>1, OwnerSteps
<1>4. CASE OwnerPause
  <2>1. 1 \in 1..MaxGrants /\ 1 \in 1..MaxTurns
    BY AskGrantsAssumption
  <2> QED
    BY <1>4, <2>1, OwnerSteps
<1>5. CASE \E g \in DOMAIN permit.grants : ReserveTurn(g)
  BY <1>5, ReserveStep
<1>6. CASE AdmitTurn \/ TransmitTurn \/ SettleTurn \/ NotSent \/ \E t \in DOMAIN permit.turns : TurnUnknown(t)
  BY <1>6, TurnSteps
<1>7. CASE PassTick
  <2>1. permit' = permit /\ office' = office /\ today' \in 0..LastTick
    BY <1>7, AskGrantsAssumption DEF PassTick, GrantsInv
  <2> QED
    BY <2>1 DEF GrantsInv, Books, InBooks, Completion, InState, Charged, DayUpTo
<1>8. CASE AuthorityDies
  <2>1. permit' = permit /\ today' = today /\ office' = [office EXCEPT !.mine = 0]
    BY <1>8 DEF AuthorityDies
  <2>2. 0 \in 0..MaxTurns /\ office \in OfficeRecord
    BY AskGrantsAssumption DEF GrantsInv, InBooks
  <2>3. office' \in OfficeRecord /\ office'.mine = 0 /\ office'.ran = office.ran
    BY <2>1, <2>2 DEF OfficeRecord
  <2>4. InBooks(permit, office)'
    BY <2>1, <2>3 DEF GrantsInv, InBooks
  <2> QED
    BY <2>1, <2>4 DEF GrantsInv, Books, Completion, InState, Charged, DayUpTo
<1> QED
  BY <1>1, <1>2, <1>3, <1>4, <1>5, <1>6, <1>7, <1>8 DEF AskGrantsNext

-----------------------------------------------------------------------------
(* Requests to the website.                                                *)

\* What is written of an operation, and what is known of the exchange.
Dealing == [kind : {"claim", "answer", "receipt"}, st : {"pending", "applied"}, tries : 0..MaxTries,
            problem : {"none", "not_found", "other"}]
Line == [stage : {"idle", "dialling", "marked", "sent", "told", "answered", "entered"},
         reply : {"none", "data", "not_found", "other"}, held : BOOLEAN]

\* Rows belong together: every attempt to an operation, and what is on its way to an attempt.
WireRows ==
    /\ dealings \in Seq(Dealing) /\ Len(dealings) <= MaxOps /\ attempts \in Seq(Wire)
    /\ \A a \in DOMAIN attempts : attempts[a].op \in DOMAIN dealings
    /\ far \in [flying : SUBSET DOMAIN attempts, took : SUBSET (0..MaxOps)]

\* What is concluded happened, what may arrive is marked, and one intent of a
\* kind is uncertain at a time.
ConcludedTrue ==
    \A a \in DOMAIN attempts : attempts[a].mark = "reconciled" =>
        IF KindOf(a) = "claim" THEN attempts[a].op \in far.took ELSE 0 \in far.took
\* An answer applied was taken.
AnswerTaken == \A o \in DOMAIN dealings : dealings[o].kind = "answer" /\ dealings[o].st = "applied" => 0 \in far.took
\* What was not sent was never marked.
UnsentUnmarked == \A a \in DOMAIN attempts : attempts[a].row = "not_sent" => attempts[a].mark = "none"
\* Whatever may yet arrive is marked.
FlyingMarked == \A a \in far.flying : attempts[a].mark # "none"
\* Of each kind only one intent is uncertain.
OneIntent ==
    \A a, b \in DOMAIN attempts :
        /\ attempts[a].mark = "unknown" /\ attempts[b].mark = "unknown"
        /\ KindOf(a) = KindOf(b) /\ KindOf(a) # "receipt"
        => attempts[a].op = attempts[b].op
\* What the marks of the journal say.
WireMarks == ConcludedTrue /\ AnswerTaken /\ UnsentUnmarked /\ FlyingMarked /\ OneIntent

\* What is known at each stage of an exchange.
OnLine ==
    /\ line \in Line
    /\ line.stage # "idle" => This \in DOMAIN attempts
    /\ line.stage = "dialling" => attempts[This].mark = "none" /\ attempts[This].row = "prepared"
    /\ line.stage = "marked" => attempts[This].mark = "unknown"
    /\ line.stage = "sent" /\ This \notin far.flying => Effect(This) \subseteq far.took
    /\ line.stage \in {"told", "answered", "entered"} /\ line.reply = "data" =>
          IF KindOf(This) = "claim" THEN TheOp \in far.took ELSE 0 \in far.took
    /\ line.stage = "entered" => line.reply = "data"

\* Rows, marks and the exchange together.
WireInv == WireRows /\ WireMarks /\ OnLine

\* Nothing was sent yet.
LEMMA WireStarts == AskWireInit => WireInv
<1> SUFFICES ASSUME AskWireInit PROVE WireInv
  OBVIOUS
<1>1. dealings = <<>> /\ attempts = <<>> /\ far.flying = {}
  BY DEF AskWireInit
<1>2. DOMAIN dealings = {} /\ DOMAIN attempts = {} /\ Len(dealings) = 0 /\ 0 <= MaxOps
  BY <1>1, AskWireAssumption
<1>3. WireRows
  BY <1>1, <1>2 DEF WireRows, AskWireInit
<1>4. WireMarks
  BY <1>1, <1>2 DEF WireMarks, ConcludedTrue, AnswerTaken, UnsentUnmarked, FlyingMarked, OneIntent
<1>5. OnLine
  BY DEF AskWireInit, OnLine, Line, Quiet
<1> QED
  BY <1>3, <1>4, <1>5 DEF WireInv

\* The invariant holds what WireTrue says.
LEMMA WirePromise == WireInv => AskWireTypeOK /\ WireTrue
<1> SUFFICES ASSUME WireInv PROVE AskWireTypeOK /\ WireTrue
  OBVIOUS
<1>1. AskWireTypeOK
  BY DEF WireInv, WireRows, OnLine, Line, Dealing, AskWireTypeOK
<1>2. ASSUME NEW kind \in {"claim", "answer"} PROVE Cardinality({attempts[a].op : a \in Uncertain(kind)}) <= 1
  <2> DEFINE S == {attempts[a].op : a \in Uncertain(kind)}
  <2>1. \A x, y \in S : x = y
    BY <1>2 DEF WireInv, WireMarks, OneIntent, Uncertain
  <2> SUFFICES Cardinality(S) <= 1
    OBVIOUS
  <2> HIDE DEF S
  <2>2. CASE S = {}
    BY <2>2, FS_EmptySet
  <2>3. CASE S # {}
    <3>1. PICK x \in S : TRUE
      BY <2>3
    <3>2. S = {x}
      BY <2>1, <3>1
    <3> QED
      BY <3>2, FS_Singleton
  <2> QED
    BY <2>2, <2>3
<1>3. \A a \in DOMAIN attempts : KindOf(a) = "claim" => KindOf(a) \notin {"answer", "receipt"}
  OBVIOUS
<1>4. WireTrue
  BY <1>2 DEF WireInv, WireMarks, ConcludedTrue, AnswerTaken, UnsentUnmarked, FlyingMarked, WireTrue
<1> QED
  BY <1>1, <1>4

\* One field of one attempt.
LEMMA AttemptChanges ==
  ASSUME attempts \in Seq(Wire), NEW i \in DOMAIN attempts, NEW m, m \in Wire, m.op = attempts[i].op,
         attempts' = [attempts EXCEPT ![i] = m]
  PROVE  /\ attempts' \in Seq(Wire) /\ DOMAIN attempts' = DOMAIN attempts /\ Len(attempts') = Len(attempts)
         /\ attempts'[i] = m
         /\ \A a \in DOMAIN attempts : attempts'[a].op = attempts[a].op /\ (a # i => attempts'[a] = attempts[a])
<1>1. attempts' \in [DOMAIN attempts -> Wire]
  <2>1. \A a \in DOMAIN attempts : attempts[a] \in Wire
    BY SequenceAsFunction
  <2> QED
    BY <2>1
<1>2. attempts' \in Seq(Wire) /\ DOMAIN attempts' = DOMAIN attempts /\ Len(attempts') = Len(attempts)
  BY <1>1, FunctionAsSequence
<1> QED
  BY <1>2

\* A new word on the attempt in progress, after which the exchange is over or
\* goes on.
LEMMA RowNoted ==
  ASSUME WireInv, This \in DOMAIN attempts, NEW st \in {"not_sent", "unknown", "transmitted", "response"},
         st = "not_sent" => attempts[This].mark = "none",
         AttemptRow(st), dealings' = dealings
  PROVE  /\ attempts' \in Seq(Wire) /\ DOMAIN attempts' = DOMAIN attempts /\ Len(attempts') = Len(attempts)
         /\ \A a \in DOMAIN attempts : attempts'[a].op = attempts[a].op /\ attempts'[a].mark = attempts[a].mark
         /\ far' = far => WireRows' /\ WireMarks'
<1> DEFINE m == [attempts[This] EXCEPT !.row = st]
<1>1. \A a \in DOMAIN attempts : attempts[a] \in Wire
  BY SequenceAsFunction DEF WireInv, WireRows
<1>2. m \in Wire /\ m.op = attempts[This].op /\ m.mark = attempts[This].mark /\ m.row = st
  <2>1. attempts[This] \in Wire
    BY <1>1
  <2> QED
    BY <2>1 DEF Wire
<1>3. attempts' = [attempts EXCEPT ![This] = m]
  BY DEF AttemptRow
<1> HIDE DEF m
<1>4. /\ attempts' \in Seq(Wire) /\ DOMAIN attempts' = DOMAIN attempts /\ Len(attempts') = Len(attempts)
      /\ attempts'[This] = m
      /\ \A a \in DOMAIN attempts : attempts'[a].op = attempts[a].op /\ (a # This => attempts'[a] = attempts[a])
  BY <1>2, <1>3, AttemptChanges DEF WireInv, WireRows
<1>5. \A a \in DOMAIN attempts : /\ attempts'[a].op = attempts[a].op /\ attempts'[a].mark = attempts[a].mark
                                 /\ attempts'[a].row = "not_sent" => attempts[a].mark = "none"
  BY <1>2, <1>4 DEF WireInv, WireMarks, UnsentUnmarked
<1>6. ASSUME far' = far PROVE WireRows' /\ WireMarks'
  <2>1. WireRows'
    BY <1>4, <1>6 DEF WireInv, WireRows
  <2>2. \A a \in DOMAIN attempts : KindOf(a)' = KindOf(a)
    BY <1>5 DEF KindOf
  <2>3. WireMarks'
    <3>1. ConcludedTrue'
      BY <1>4, <1>5, <1>6, <2>2 DEF WireInv, WireMarks, ConcludedTrue
    <3>2. AnswerTaken'
      BY <1>6 DEF WireInv, WireMarks, AnswerTaken
    <3>3. UnsentUnmarked'
      BY <1>4, <1>5 DEF UnsentUnmarked
    <3>4. FlyingMarked'
      BY <1>5, <1>6 DEF WireInv, WireRows, WireMarks, FlyingMarked
    <3>5. OneIntent'
      BY <1>4, <1>5, <2>2 DEF WireInv, WireMarks, OneIntent
    <3> QED
      BY <3>1, <3>2, <3>3, <3>4, <3>5 DEF WireMarks
  <2> QED
    BY <2>1, <2>3
<1> QED
  BY <1>4, <1>5, <1>6

\* An attempt keeps its kind.
LEMMA KindsKept ==
  ASSUME \A a \in DOMAIN attempts : attempts[a].op \in DOMAIN dealings /\ attempts'[a].op = attempts[a].op,
         \A o \in DOMAIN dealings : dealings'[o].kind = dealings[o].kind
  PROVE  \A a \in DOMAIN attempts : KindOf(a)' = KindOf(a)
BY DEF KindOf

\* Rows of operations that change in nothing but their state.
LEMMA DealingsNoted ==
  ASSUME WireInv, dealings' \in [DOMAIN dealings -> Dealing], attempts' = attempts, far' = far,
         \A o \in DOMAIN dealings : /\ dealings'[o].kind = dealings[o].kind
                                    /\ dealings'[o].kind = "answer" /\ dealings'[o].st = "applied" => 0 \in far.took
  PROVE  WireRows' /\ WireMarks'
<1>1. dealings' \in Seq(Dealing) /\ DOMAIN dealings' = DOMAIN dealings /\ Len(dealings') = Len(dealings)
  BY FunctionAsSequence DEF WireInv, WireRows
<1>2. \A a \in DOMAIN attempts : KindOf(a)' = KindOf(a)
  BY KindsKept DEF WireInv, WireRows
<1>3. WireRows'
  BY <1>1 DEF WireInv, WireRows
<1>4. ConcludedTrue'
  BY <1>2 DEF WireInv, WireMarks, ConcludedTrue
<1>5. AnswerTaken'
  BY <1>1 DEF AnswerTaken
<1>6. UnsentUnmarked' /\ FlyingMarked'
  BY DEF WireInv, WireMarks, UnsentUnmarked, FlyingMarked
<1>7. OneIntent'
  BY <1>2 DEF WireInv, WireMarks, OneIntent
<1> QED
  BY <1>3, <1>4, <1>5, <1>6, <1>7 DEF WireMarks

\* An exchange that is over leaves nothing to know.
LEMMA LineOverKept ==
  ASSUME WireInv, LineOver
  PROVE  OnLine'
<1>1. line' = [line EXCEPT !.stage = "idle", !.reply = "none"] /\ line \in Line
  BY DEF LineOver, WireInv, OnLine
<1>2. line' \in Line /\ line'.stage = "idle"
  BY <1>1 DEF Line
<1> QED
  BY <1>2 DEF OnLine

\* An operation is written.
LEMMA CreateStep ==
  ASSUME WireInv, NEW kind \in {"claim", "answer", "receipt"}, CreateDealing(kind)
  PROVE  WireInv'
<1> DEFINE d == [kind |-> kind, st |-> "pending", tries |-> 0, problem |-> "none"]
           n == Len(dealings) + 1
<1>1. dealings' = Append(dealings, d) /\ attempts' = attempts /\ line' = line /\ far' = far /\ Len(dealings) < MaxOps /\ line.stage = "idle"
  BY DEF CreateDealing
<1>2. d \in Dealing /\ d.st = "pending"
  BY AskWireAssumption DEF Dealing
<1>3. dealings \in Seq(Dealing) /\ Len(dealings) \in Nat /\ DOMAIN dealings = 1..Len(dealings)
  BY SequenceAsFunction DEF WireInv, WireRows
<1> HIDE DEF d
<1>4. /\ dealings' \in Seq(Dealing) /\ Len(dealings') = n /\ DOMAIN dealings' = 1..n
      /\ dealings'[n] = d
      /\ \A o \in DOMAIN dealings : o \in DOMAIN dealings' /\ dealings'[o] = dealings[o]
  <2>1. /\ dealings' \in Seq(Dealing) /\ Len(dealings') = n
        /\ \A i \in 1..Len(dealings) : dealings'[i] = dealings[i]
        /\ dealings'[n] = d
    BY <1>1, <1>2, <1>3, AppendProperties
  <2>2. DOMAIN dealings' = 1..n
    BY <2>1, SequenceAsFunction
  <2>3. \A o \in DOMAIN dealings : o \in 1..Len(dealings) /\ o \in DOMAIN dealings'
    BY <1>3, <2>2
  <2> QED
    BY <2>1, <2>2, <2>3
<1>5. \A o \in DOMAIN dealings' : o = n \/ o \in DOMAIN dealings
  BY <1>3, <1>4
<1>6. Len(dealings') <= MaxOps
  BY <1>1, <1>3, <1>4, AskWireAssumption
<1>7. \A a \in DOMAIN attempts : KindOf(a)' = KindOf(a)
  BY <1>1, <1>4, KindsKept DEF WireInv, WireRows
<1>8. WireRows'
  BY <1>1, <1>4, <1>6 DEF WireInv, WireRows
<1>9. ConcludedTrue' /\ UnsentUnmarked' /\ FlyingMarked' /\ OneIntent'
  BY <1>1, <1>7 DEF WireInv, WireMarks, ConcludedTrue, UnsentUnmarked, FlyingMarked, OneIntent
<1>10. AnswerTaken'
  BY <1>1, <1>2, <1>4, <1>5 DEF WireInv, WireMarks, AnswerTaken
<1>11. OnLine'
  BY <1>1 DEF WireInv, OnLine
<1> QED
  BY <1>8, <1>9, <1>10, <1>11 DEF WireInv, WireMarks

\* An attempt is counted before it is made.
LEMMA PrepareStep ==
  ASSUME WireInv, NEW kind \in {"claim", "answer", "receipt"}, PrepareAttempt(kind)
  PROVE  WireInv'
<1> DEFINE o == Min(PendingOf({kind}))
           m == [op |-> o, row |-> "prepared", mark |-> "none"]
           n == Len(attempts) + 1
<1>1. /\ dealings \in Seq(Dealing) /\ Len(dealings) \in Nat /\ DOMAIN dealings = 1..Len(dealings) /\ Len(dealings) <= MaxOps
      /\ attempts \in Seq(Wire) /\ Len(attempts) \in Nat /\ DOMAIN attempts = 1..Len(attempts)
      /\ \A d \in DOMAIN dealings : dealings[d] \in Dealing
  BY SequenceAsFunction DEF WireInv, WireRows
<1>2. o \in DOMAIN dealings /\ dealings[o].tries < MaxTries
  <2>1. PendingOf({kind}) # {} /\ dealings[o].tries < MaxTries
    BY DEF PrepareAttempt
  <2>2. PendingOf({kind}) \subseteq DOMAIN dealings /\ PendingOf({kind}) \in SUBSET Nat
    BY <1>1 DEF PendingOf
  <2>3. o \in PendingOf({kind})
    BY <2>1, <2>2, Smallest DEF Min
  <2> QED
    BY <2>1, <2>2, <2>3
<1>3. /\ dealings' = [d \in DOMAIN dealings |->
             IF d = o THEN [dealings[d] EXCEPT !.tries = dealings[d].tries + 1]
             ELSE IF kind = "answer" /\ d \in PendingOf({"receipt"}) THEN [dealings[d] EXCEPT !.problem = "none"] ELSE dealings[d]]
      /\ attempts' = Append(attempts, m) /\ line' = [line EXCEPT !.stage = "dialling"] /\ far' = far
  BY DEF PrepareAttempt
<1>4. m \in Wire /\ m.op = o /\ m.row = "prepared" /\ m.mark = "none"
  <2>1. o \in 1..MaxOps
    BY <1>1, <1>2, AskWireAssumption
  <2> HIDE DEF o
  <2> QED
    BY <2>1 DEF Wire
<1> HIDE DEF o, m
<1>5. \A d \in DOMAIN dealings : dealings'[d] \in Dealing /\ dealings'[d].kind = dealings[d].kind /\ dealings'[d].st = dealings[d].st
  <2>1. SUFFICES ASSUME NEW d \in DOMAIN dealings
                 PROVE  dealings'[d] \in Dealing /\ dealings'[d].kind = dealings[d].kind /\ dealings'[d].st = dealings[d].st
    OBVIOUS
  <2>2. dealings[d] \in Dealing
    BY <1>1
  <2>3. CASE d = o
    <3>1. dealings'[d] = [dealings[d] EXCEPT !.tries = dealings[d].tries + 1]
      BY <1>3, <2>3
    <3>2. dealings[d].tries + 1 \in 0..MaxTries
      BY <1>2, <2>2, <2>3, AskWireAssumption DEF Dealing
    <3> QED
      BY <2>2, <3>1, <3>2 DEF Dealing
  <2>4. CASE d # o /\ kind = "answer" /\ d \in PendingOf({"receipt"})
    <3>1. dealings'[d] = [dealings[d] EXCEPT !.problem = "none"]
      BY <1>3, <2>4
    <3> QED
      BY <2>2, <3>1 DEF Dealing
  <2>5. CASE d # o /\ ~ (kind = "answer" /\ d \in PendingOf({"receipt"}))
    <3>1. dealings'[d] = dealings[d]
      BY <1>3, <2>5
    <3> QED
      BY <2>2, <3>1
  <2> QED
    BY <2>3, <2>4, <2>5
<1>6. dealings' \in Seq(Dealing) /\ DOMAIN dealings' = DOMAIN dealings /\ Len(dealings') = Len(dealings)
  <2>1. dealings' \in [DOMAIN dealings -> Dealing]
    BY <1>3, <1>5
  <2> QED
    BY <1>1, <2>1, FunctionAsSequence
<1>7. /\ attempts' \in Seq(Wire) /\ Len(attempts') = n /\ DOMAIN attempts' = 1..n
      /\ attempts'[n] = m
      /\ \A a \in DOMAIN attempts : a \in DOMAIN attempts' /\ attempts'[a] = attempts[a]
  <2>1. /\ attempts' \in Seq(Wire) /\ Len(attempts') = n
        /\ \A i \in 1..Len(attempts) : attempts'[i] = attempts[i]
        /\ attempts'[n] = m
    BY <1>1, <1>3, <1>4, AppendProperties
  <2>2. DOMAIN attempts' = 1..n
    BY <2>1, SequenceAsFunction
  <2>3. \A a \in DOMAIN attempts : a \in 1..Len(attempts) /\ a \in DOMAIN attempts'
    BY <1>1, <2>2
  <2> QED
    BY <2>1, <2>2, <2>3
<1>8. n \in DOMAIN attempts' /\ \A a \in DOMAIN attempts' : a = n \/ a \in DOMAIN attempts
  BY <1>1, <1>7
<1>9. \A a \in DOMAIN attempts : KindOf(a)' = KindOf(a)
  BY <1>5, <1>7, KindsKept DEF WireInv, WireRows
<1>10. WireRows'
  <2>1. \A a \in DOMAIN attempts' : attempts'[a].op \in DOMAIN dealings'
    BY <1>2, <1>4, <1>6, <1>7, <1>8 DEF WireInv, WireRows
  <2> QED
    BY <1>1, <1>3, <1>6, <1>7, <2>1 DEF WireInv, WireRows
<1> HIDE DEF n
<1>11. ConcludedTrue'
  BY <1>3, <1>4, <1>7, <1>8, <1>9 DEF WireInv, WireMarks, ConcludedTrue
<1>12. AnswerTaken'
  BY <1>3, <1>5, <1>6 DEF WireInv, WireMarks, AnswerTaken
<1>13. UnsentUnmarked'
  BY <1>4, <1>7, <1>8 DEF WireInv, WireMarks, UnsentUnmarked
<1>14. FlyingMarked'
  BY <1>3, <1>7 DEF WireInv, WireRows, WireMarks, FlyingMarked
<1>15. OneIntent'
  BY <1>4, <1>7, <1>8, <1>9 DEF WireInv, WireMarks, OneIntent
<1>16. OnLine'
  <2>1. line' \in Line /\ line'.stage = "dialling"
    BY <1>3 DEF WireInv, OnLine, Line
  <2> QED
    BY <1>4, <1>7, <1>8, <2>1 DEF OnLine, This
<1> QED
  BY <1>10, <1>11, <1>12, <1>13, <1>14, <1>15, <1>16 DEF WireInv, WireMarks

\* The stages at which an exchange is on the line.
LEMMA LineSteps ==
  ASSUME WireInv, NotConnected \/ HookRefused \/ Lost \/ Response \/ SendMarked \/ MarkAttempt
  PROVE  WireInv'
<1>1. /\ line \in Line /\ dealings' = dealings /\ line.stage # "idle" /\ This \in DOMAIN attempts
  BY DEF WireInv, OnLine, NotConnected, HookRefused, Lost, Response, SendMarked, MarkAttempt
<1>2. CASE NotConnected
  <2>1. AttemptRow("not_sent") /\ LineOver /\ far' = far /\ attempts[This].mark = "none"
    BY <1>2 DEF NotConnected, WireInv, OnLine
  <2> QED
    BY <1>1, <2>1, RowNoted, LineOverKept DEF WireInv
<1>3. CASE HookRefused \/ Lost
  <2>1. AttemptRow("unknown") /\ LineOver /\ far' = far
    BY <1>3 DEF HookRefused, Lost
  <2> QED
    BY <1>1, <2>1, RowNoted, LineOverKept DEF WireInv
<1>4. CASE Response
  <2>1. AttemptRow("response") /\ far' = far /\ line.stage = "told" /\ line' = [line EXCEPT !.stage = "answered"]
    BY <1>4 DEF Response
  <2>2. /\ WireRows' /\ WireMarks' /\ DOMAIN attempts' = DOMAIN attempts /\ Len(attempts') = Len(attempts)
        /\ \A a \in DOMAIN attempts : attempts'[a].op = attempts[a].op /\ attempts'[a].mark = attempts[a].mark
    BY <1>1, <2>1, RowNoted
  <2>3. \A a \in DOMAIN attempts : KindOf(a)' = KindOf(a)
    BY <1>1, <2>2 DEF KindOf
  <2>4. line' \in Line /\ line'.stage = "answered" /\ line'.reply = line.reply
    BY <1>1, <2>1 DEF Line
  <2>5. This' = This /\ TheOp' = TheOp /\ KindOf(This)' = KindOf(This)
    BY <1>1, <2>2, <2>3 DEF This, TheOp, KindOf
  <2>6. OnLine'
    BY <1>1, <2>1, <2>2, <2>4, <2>5 DEF WireInv, OnLine
  <2> QED
    BY <2>2, <2>6 DEF WireInv
<1>5. CASE SendMarked
  <2>1. /\ AttemptRow("transmitted") /\ far' = [far EXCEPT !.flying = far.flying \cup {This}] /\ line.stage = "marked"
        /\ line' = [line EXCEPT !.stage = "sent"] /\ attempts[This].mark = "unknown"
    BY <1>5 DEF SendMarked, WireInv, OnLine
  <2>2. /\ attempts' \in Seq(Wire) /\ DOMAIN attempts' = DOMAIN attempts /\ Len(attempts') = Len(attempts)
        /\ \A a \in DOMAIN attempts : attempts'[a].op = attempts[a].op /\ attempts'[a].mark = attempts[a].mark
    BY <1>1, <2>1, RowNoted
  <2>3. \A a \in DOMAIN attempts : KindOf(a)' = KindOf(a)
    BY <1>1, <2>2 DEF KindOf
  <2>4. far' \in [flying : SUBSET DOMAIN attempts, took : SUBSET (0..MaxOps)] /\ far'.took = far.took /\ far'.flying = far.flying \cup {This}
    BY <1>1, <2>1 DEF WireInv, WireRows
  <2>5. line' \in Line /\ line'.stage = "sent"
    BY <1>1, <2>1 DEF Line
  <2>6. This' = This
    BY <2>2 DEF This
  <2>7. WireRows'
    BY <1>1, <2>2, <2>4 DEF WireInv, WireRows
  <2>8. ConcludedTrue' /\ AnswerTaken'
    BY <1>1, <2>2, <2>3, <2>4 DEF WireInv, WireMarks, ConcludedTrue, AnswerTaken
  <2>9. UnsentUnmarked'
    <3>1. \A a \in DOMAIN attempts : attempts'[a].row = "not_sent" => attempts[a].row = "not_sent"
      <4>1. \A a \in DOMAIN attempts : attempts[a] \in Wire
        BY SequenceAsFunction DEF WireInv, WireRows
      <4> QED
        BY <2>1, <4>1 DEF AttemptRow, Wire
    <3> QED
      BY <2>2, <3>1 DEF WireInv, WireMarks, UnsentUnmarked
  <2>10. FlyingMarked'
    BY <1>1, <2>1, <2>2, <2>4 DEF WireInv, WireRows, WireMarks, FlyingMarked
  <2>11. OneIntent'
    BY <2>2, <2>3 DEF WireInv, WireMarks, OneIntent
  <2>12. OnLine'
    BY <1>1, <2>2, <2>4, <2>5, <2>6 DEF OnLine
  <2> QED
    BY <2>7, <2>8, <2>9, <2>10, <2>11, <2>12 DEF WireInv, WireMarks
<1>6. CASE MarkAttempt
  <2> DEFINE m == [attempts[This] EXCEPT !.mark = "unknown"]
  <2>1. /\ KindOf(This) = "receipt" \/ \A a \in Uncertain(KindOf(This)) : attempts[a].op = TheOp
        /\ attempts' = [attempts EXCEPT ![This] = m] /\ line' = [line EXCEPT !.stage = "marked"] /\ far' = far /\ line.stage = "dialling"
    BY <1>6 DEF MarkAttempt
  <2>2. m \in Wire /\ m.op = attempts[This].op /\ m.row = attempts[This].row /\ m.mark = "unknown"
    <3>1. attempts[This] \in Wire
      BY <1>1, SequenceAsFunction DEF WireInv, WireRows
    <3> QED
      BY <3>1 DEF Wire
  <2> HIDE DEF m
  <2>3. /\ attempts' \in Seq(Wire) /\ DOMAIN attempts' = DOMAIN attempts /\ Len(attempts') = Len(attempts)
        /\ attempts'[This] = m
        /\ \A a \in DOMAIN attempts : attempts'[a].op = attempts[a].op /\ (a # This => attempts'[a] = attempts[a])
    BY <1>1, <2>1, <2>2, AttemptChanges DEF WireInv, WireRows
  <2>4. \A a \in DOMAIN attempts : KindOf(a)' = KindOf(a)
    BY <1>1, <2>3 DEF KindOf
  <2>5. attempts[This].mark = "none" /\ attempts[This].row # "not_sent"
    BY <2>1 DEF WireInv, OnLine
  <2>6. WireRows'
    BY <1>1, <2>1, <2>3 DEF WireInv, WireRows
  <2>7. ConcludedTrue' /\ AnswerTaken'
    BY <1>1, <2>1, <2>2, <2>3, <2>4 DEF WireInv, WireMarks, ConcludedTrue, AnswerTaken
  <2>8. UnsentUnmarked'
    BY <2>2, <2>3, <2>5 DEF WireInv, WireMarks, UnsentUnmarked
  <2>9. FlyingMarked'
    BY <2>1, <2>2, <2>3 DEF WireInv, WireRows, WireMarks, FlyingMarked
  <2>10. OneIntent'
    <3>1. SUFFICES ASSUME NEW a \in DOMAIN attempts, NEW b \in DOMAIN attempts,
                          attempts'[a].mark = "unknown", attempts'[b].mark = "unknown",
                          KindOf(a) = KindOf(b), KindOf(a) # "receipt"
                   PROVE  attempts[a].op = attempts[b].op
      BY <2>3, <2>4 DEF OneIntent
    <3>2. \A c \in DOMAIN attempts : c # This /\ attempts'[c].mark = "unknown" /\ KindOf(c) = KindOf(This) /\ KindOf(c) # "receipt" => attempts[c].op = attempts[This].op
      BY <2>1, <2>3 DEF Uncertain, TheOp
    <3>3. CASE a = This \/ b = This
      BY <3>1, <3>2, <3>3
    <3>4. CASE a # This /\ b # This
      BY <2>3, <3>1, <3>4 DEF WireInv, WireMarks, OneIntent
    <3> QED
      BY <3>3, <3>4
  <2>11. OnLine'
    <3>1. line' \in Line /\ line'.stage = "marked" /\ This' = This
      BY <1>1, <2>1, <2>3 DEF Line, This
    <3> QED
      BY <1>1, <2>2, <2>3, <3>1 DEF OnLine
  <2> QED
    BY <2>6, <2>7, <2>8, <2>9, <2>10, <2>11 DEF WireInv, WireMarks
<1> QED
  BY <1>2, <1>3, <1>4, <1>5, <1>6

\* Attempts that change in their row or their mark, and nothing else moves.
LEMMA AttemptsNoted ==
  ASSUME WireInv, attempts' \in [DOMAIN attempts -> Wire], dealings' = dealings, far' = far,
         \A a \in DOMAIN attempts :
            /\ attempts'[a].op = attempts[a].op
            /\ attempts'[a].mark = attempts[a].mark \/ (attempts[a].mark = "unknown" /\ attempts'[a].mark = "reconciled")
            /\ attempts'[a].mark = "reconciled" => IF KindOf(a) = "claim" THEN attempts[a].op \in far.took ELSE 0 \in far.took
            /\ attempts'[a].row = "not_sent" => attempts'[a].mark = "none"
  PROVE  WireRows' /\ WireMarks' /\ DOMAIN attempts' = DOMAIN attempts /\ Len(attempts') = Len(attempts)
<1>1. attempts' \in Seq(Wire) /\ DOMAIN attempts' = DOMAIN attempts /\ Len(attempts') = Len(attempts)
  BY FunctionAsSequence DEF WireInv, WireRows
<1>2. \A a \in DOMAIN attempts : KindOf(a)' = KindOf(a)
  BY DEF KindOf
<1>3. WireRows'
  BY <1>1 DEF WireInv, WireRows
<1>4. ConcludedTrue'
  BY <1>1, <1>2 DEF ConcludedTrue
<1>5. AnswerTaken'
  BY DEF WireInv, WireMarks, AnswerTaken
<1>6. UnsentUnmarked'
  BY <1>1 DEF UnsentUnmarked
<1>7. FlyingMarked'
  BY <1>1 DEF WireInv, WireRows, WireMarks, FlyingMarked
<1>8. OneIntent'
  BY <1>1, <1>2 DEF WireInv, WireMarks, OneIntent
<1> QED
  BY <1>1, <1>3, <1>4, <1>5, <1>6, <1>7, <1>8 DEF WireMarks

\* The end of an exchange, and the service held after the last attempt.
LEMMA ConcludeSteps ==
  ASSUME WireInv, (\E kind \in {"claim", "answer", "receipt"} : Exhausted(kind)) \/ ProblemNoted \/ Enter \/ ApplyRows
  PROVE  WireInv'
<1>1. /\ line \in Line /\ dealings \in Seq(Dealing)
      /\ \A d \in DOMAIN dealings : dealings[d] \in Dealing
      /\ \A a \in DOMAIN attempts : attempts[a] \in Wire /\ attempts[a].op \in DOMAIN dealings
  BY SequenceAsFunction DEF WireInv, WireRows, OnLine
<1>2. ASSUME NEW kind \in {"claim", "answer", "receipt"}, Exhausted(kind) PROVE WireInv'
  <2>1. line.stage = "idle" /\ line' = [line EXCEPT !.held = TRUE] /\ dealings' = dealings /\ attempts' = attempts /\ far' = far
    BY <1>2 DEF Exhausted
  <2>2. line' \in Line /\ line'.stage = "idle"
    BY <1>1, <2>1 DEF Line
  <2>3. WireRows'
    BY <2>1 DEF WireInv, WireRows
  <2>4. WireMarks'
    <3>1. \A a \in DOMAIN attempts : KindOf(a)' = KindOf(a)
      BY <2>1 DEF KindOf
    <3> QED
      BY <2>1, <3>1 DEF WireInv, WireMarks, ConcludedTrue, AnswerTaken, UnsentUnmarked, FlyingMarked, OneIntent
  <2> QED
    BY <2>2, <2>3, <2>4 DEF WireInv, OnLine
<1>3. CASE ProblemNoted
  <2>1. /\ line.stage = "answered" /\ dealings' = [dealings EXCEPT ![TheOp].problem = line.reply] /\ LineOver
        /\ attempts' = attempts /\ far' = far
    BY <1>3 DEF ProblemNoted
  <2>2. \A d \in DOMAIN dealings : /\ dealings'[d] \in Dealing /\ dealings'[d].kind = dealings[d].kind
                                   /\ dealings'[d].st = dealings[d].st
    <3>1. SUFFICES ASSUME NEW d \in DOMAIN dealings
                   PROVE  dealings'[d] \in Dealing /\ dealings'[d].kind = dealings[d].kind /\ dealings'[d].st = dealings[d].st
      OBVIOUS
    <3>2. dealings[d] \in Dealing /\ line.reply \in {"none", "data", "not_found", "other"} /\ line.reply # "data"
      BY <1>1, <1>3 DEF Line, ProblemNoted
    <3>3. dealings'[d] = IF d = TheOp THEN [dealings[d] EXCEPT !.problem = line.reply] ELSE dealings[d]
      BY <2>1
    <3> QED
      BY <3>2, <3>3 DEF Dealing
  <2>3. dealings' \in [DOMAIN dealings -> Dealing]
    BY <2>1, <2>2
  <2>4. \A o \in DOMAIN dealings : dealings'[o].kind = "answer" /\ dealings'[o].st = "applied" => 0 \in far.took
    BY <2>2 DEF WireInv, WireMarks, AnswerTaken
  <2> QED
    BY <2>1, <2>2, <2>3, <2>4, DealingsNoted, LineOverKept DEF WireInv
<1>4. CASE Enter
  <2>1. /\ line.stage = "answered" /\ line.reply = "data" /\ line' = [line EXCEPT !.stage = "entered"]
        /\ attempts' = [a \in DOMAIN attempts |-> IF a \in Settled THEN [attempts[a] EXCEPT !.mark = "reconciled"] ELSE attempts[a]]
        /\ dealings' = dealings /\ far' = far
    BY <1>4 DEF Enter
  <2>2. This \in DOMAIN attempts /\ (IF KindOf(This) = "claim" THEN TheOp \in far.took ELSE 0 \in far.took)
    BY <2>1 DEF WireInv, OnLine
  <2>3. \A a \in DOMAIN attempts : a \in Settled => /\ attempts[a].mark = "unknown"
                                                    /\ IF KindOf(a) = "claim" THEN attempts[a].op \in far.took ELSE 0 \in far.took
    <3>1. SUFFICES ASSUME NEW a \in Settled
                   PROVE  attempts[a].mark = "unknown" /\ (IF KindOf(a) = "claim" THEN attempts[a].op \in far.took ELSE 0 \in far.took)
      OBVIOUS
    <3>2. CASE KindOf(This) = "claim"
      BY <2>2, <3>1, <3>2 DEF Settled, KindOf, TheOp
    <3>3. CASE KindOf(This) # "claim"
      BY <2>2, <3>1, <3>3 DEF Settled
    <3> QED
      BY <3>2, <3>3
  <2>4. \A a \in DOMAIN attempts :
            /\ attempts'[a] \in Wire /\ attempts'[a].op = attempts[a].op /\ attempts'[a].row = attempts[a].row
            /\ attempts'[a].mark = IF a \in Settled THEN "reconciled" ELSE attempts[a].mark
    <3>1. SUFFICES ASSUME NEW a \in DOMAIN attempts
                   PROVE  /\ attempts'[a] \in Wire /\ attempts'[a].op = attempts[a].op /\ attempts'[a].row = attempts[a].row
                          /\ attempts'[a].mark = IF a \in Settled THEN "reconciled" ELSE attempts[a].mark
      OBVIOUS
    <3>2. attempts[a] \in Wire
      BY <1>1
    <3>3. attempts'[a] = IF a \in Settled THEN [attempts[a] EXCEPT !.mark = "reconciled"] ELSE attempts[a]
      BY <2>1
    <3> QED
      BY <3>2, <3>3 DEF Wire
  <2>5. attempts' \in [DOMAIN attempts -> Wire]
    BY <2>1, <2>4
  <2>6. \A a \in DOMAIN attempts :
            /\ attempts'[a].op = attempts[a].op
            /\ attempts'[a].mark = attempts[a].mark \/ (attempts[a].mark = "unknown" /\ attempts'[a].mark = "reconciled")
            /\ attempts'[a].mark = "reconciled" => IF KindOf(a) = "claim" THEN attempts[a].op \in far.took ELSE 0 \in far.took
            /\ attempts'[a].row = "not_sent" => attempts'[a].mark = "none"
    BY <2>3, <2>4 DEF WireInv, WireMarks, ConcludedTrue, UnsentUnmarked
  <2>7. WireRows' /\ WireMarks' /\ DOMAIN attempts' = DOMAIN attempts /\ Len(attempts') = Len(attempts)
    BY <2>1, <2>5, <2>6, AttemptsNoted
  <2>8. line' \in Line /\ line'.stage = "entered" /\ line'.reply = "data"
    BY <1>1, <2>1 DEF Line
  <2>9. This' = This /\ TheOp' = TheOp /\ KindOf(This)' = KindOf(This)
    BY <2>1, <2>2, <2>4, <2>7 DEF This, TheOp, KindOf
  <2>10. OnLine'
    BY <2>1, <2>2, <2>7, <2>8, <2>9 DEF OnLine
  <2> QED
    BY <2>7, <2>10 DEF WireInv
<1>5. CASE ApplyRows
  <2> DEFINE Closes(d) == d = TheOp \/ \E a \in DOMAIN attempts : attempts[a].op = d /\ attempts[a].mark = "reconciled"
  <2>1. /\ line.stage = "entered" /\ LineOver /\ attempts' = attempts /\ far' = far
        /\ dealings' = [d \in DOMAIN dealings |-> IF Closes(d) THEN [dealings[d] EXCEPT !.st = "applied"] ELSE dealings[d]]
    BY <1>5 DEF ApplyRows
  <2>2. \A d \in DOMAIN dealings : Closes(d) /\ dealings[d].kind = "answer" => 0 \in far.took
    <3>1. SUFFICES ASSUME NEW d \in DOMAIN dealings, Closes(d), dealings[d].kind = "answer" PROVE 0 \in far.took
      OBVIOUS
    <3>2. CASE d = TheOp
      BY <2>1, <3>1, <3>2 DEF WireInv, OnLine, KindOf, TheOp
    <3>3. ASSUME NEW a \in DOMAIN attempts, attempts[a].op = d, attempts[a].mark = "reconciled" PROVE 0 \in far.took
      BY <3>1, <3>3 DEF WireInv, WireMarks, ConcludedTrue, KindOf
    <3> QED
      BY <3>1, <3>2, <3>3
  <2> HIDE DEF Closes
  <2>3. \A d \in DOMAIN dealings : /\ dealings'[d] \in Dealing /\ dealings'[d].kind = dealings[d].kind
                                   /\ dealings'[d].st = IF Closes(d) THEN "applied" ELSE dealings[d].st
    <3>1. SUFFICES ASSUME NEW d \in DOMAIN dealings
                   PROVE  /\ dealings'[d] \in Dealing /\ dealings'[d].kind = dealings[d].kind
                          /\ dealings'[d].st = IF Closes(d) THEN "applied" ELSE dealings[d].st
      OBVIOUS
    <3>2. dealings[d] \in Dealing
      BY <1>1
    <3>3. dealings'[d] = IF Closes(d) THEN [dealings[d] EXCEPT !.st = "applied"] ELSE dealings[d]
      BY <2>1
    <3> QED
      BY <3>2, <3>3 DEF Dealing
  <2>4. dealings' \in [DOMAIN dealings -> Dealing]
    BY <2>1, <2>3
  <2>5. \A o \in DOMAIN dealings : dealings'[o].kind = "answer" /\ dealings'[o].st = "applied" => 0 \in far.took
    BY <2>2, <2>3 DEF WireInv, WireMarks, AnswerTaken
  <2> QED
    BY <2>1, <2>3, <2>4, <2>5, DealingsNoted, LineOverKept DEF WireInv
<1> QED
  BY <1>2, <1>3, <1>4, <1>5

\* The website, and a new process.
LEMMA FarSteps ==
  ASSUME WireInv, (\E a \in far.flying : SiteReceives(a)) \/ (\E reply \in {"data", "not_found", "other"} : SiteReplies(reply)) \/ Reopen
  PROVE  WireInv'
<1>1. /\ line \in Line /\ far \in [flying : SUBSET DOMAIN attempts, took : SUBSET (0..MaxOps)]
      /\ \A a \in DOMAIN attempts : attempts[a] \in Wire /\ attempts[a].op \in DOMAIN dealings
  BY SequenceAsFunction DEF WireInv, WireRows, OnLine
<1>2. ASSUME NEW a \in far.flying, SiteReceives(a) PROVE WireInv'
  <2>1. /\ far' = [flying |-> far.flying \ {a}, took |-> far.took \cup Effect(a)]
        /\ dealings' = dealings /\ attempts' = attempts /\ line' = line
    BY <1>2 DEF SiteReceives
  <2>2. far'.flying = far.flying \ {a} /\ far'.took = far.took \cup Effect(a)
    BY <2>1
  <2>3. Effect(a) \in SUBSET (0..MaxOps)
    <3>1. a \in DOMAIN attempts /\ attempts[a] \in Wire
      BY <1>1
    <3>2. attempts[a].op \in 0..MaxOps /\ 0 \in 0..MaxOps
      BY <3>1, AskWireAssumption DEF Wire
    <3> QED
      BY <3>2 DEF Effect
  <2>4. far' \in [flying : SUBSET DOMAIN attempts', took : SUBSET (0..MaxOps)]
    BY <1>1, <2>1, <2>3
  <2>5. \A b \in DOMAIN attempts : KindOf(b)' = KindOf(b) /\ Effect(b)' = Effect(b)
    BY <2>1 DEF KindOf, Effect
  <2>6. WireRows'
    BY <2>1, <2>4 DEF WireInv, WireRows
  <2>7. WireMarks'
    BY <2>1, <2>2, <2>5 DEF WireInv, WireMarks, ConcludedTrue, AnswerTaken, UnsentUnmarked, FlyingMarked, OneIntent
  <2>8. This' = This /\ TheOp' = TheOp
    BY <2>1 DEF This, TheOp
  <2>9. line.stage = "sent" /\ This \notin far'.flying => Effect(This) \subseteq far'.took
    BY <2>2 DEF WireInv, OnLine
  <2>10. OnLine'
    BY <1>1, <2>1, <2>2, <2>5, <2>8, <2>9 DEF WireInv, OnLine
  <2> QED
    BY <2>6, <2>7, <2>10 DEF WireInv
<1>3. ASSUME NEW reply \in {"data", "not_found", "other"}, SiteReplies(reply) PROVE WireInv'
  <2>1. /\ line.stage = "sent" /\ This \notin far.flying
        /\ KindOf(This) = "receipt" => reply \in {IF 0 \in far.took THEN "data" ELSE "not_found", "other"}
        /\ line' = [line EXCEPT !.stage = "told", !.reply = reply]
        /\ dealings' = dealings /\ attempts' = attempts /\ far' = far
    BY <1>3 DEF SiteReplies
  <2>2. line' \in Line /\ line'.stage = "told" /\ line'.reply = reply
    BY <1>1, <1>3, <2>1 DEF Line
  <2>3. This \in DOMAIN attempts /\ Effect(This) \subseteq far.took /\ TheOp \in DOMAIN dealings /\ dealings[TheOp] \in Dealing
    <3>1. This \in DOMAIN attempts /\ Effect(This) \subseteq far.took
      BY <2>1 DEF WireInv, OnLine
    <3>2. \A d \in DOMAIN dealings : dealings[d] \in Dealing
      BY SequenceAsFunction DEF WireInv, WireRows
    <3> QED
      BY <1>1, <3>1, <3>2 DEF TheOp
  <2>4. reply = "data" => IF KindOf(This) = "claim" THEN TheOp \in far.took ELSE 0 \in far.took
    <3>1. KindOf(This) \in {"claim", "answer", "receipt"}
      BY <2>3 DEF KindOf, TheOp, Dealing
    <3>2. CASE KindOf(This) = "receipt"
      BY <2>1, <3>2
    <3>3. CASE KindOf(This) = "claim"
      BY <2>3, <3>3 DEF Effect, TheOp
    <3>4. CASE KindOf(This) = "answer"
      BY <2>3, <3>4 DEF Effect
    <3> QED
      BY <3>1, <3>2, <3>3, <3>4
  <2>5. WireRows' /\ WireMarks'
    <3>1. \A b \in DOMAIN attempts : KindOf(b)' = KindOf(b)
      BY <2>1 DEF KindOf
    <3>2. WireRows'
      BY <2>1 DEF WireInv, WireRows
    <3> QED
      BY <2>1, <3>1, <3>2 DEF WireInv, WireMarks, ConcludedTrue, AnswerTaken, UnsentUnmarked, FlyingMarked, OneIntent
  <2>6. This' = This /\ TheOp' = TheOp /\ KindOf(This)' = KindOf(This)
    BY <2>1 DEF This, TheOp, KindOf
  <2>7. OnLine'
    BY <2>1, <2>2, <2>3, <2>4, <2>6 DEF OnLine
  <2> QED
    BY <2>5, <2>7 DEF WireInv
<1>4. CASE Reopen
  <2> DEFINE after(a) == [attempts[a] EXCEPT
                             !.row = IF @ # "prepared" THEN @ ELSE IF attempts[a].mark = "none" THEN "not_sent" ELSE "unknown"]
             lost == \E a \in DOMAIN attempts :
                        (attempts[a].mark = "reconciled") # (dealings[attempts[a].op].st = "applied") /\ attempts[a].mark # "none"
  <2>1. /\ attempts' = [a \in DOMAIN attempts |-> after(a)] /\ line' = Quiet(line.held \/ lost)
        /\ dealings' = dealings /\ far' = far
    BY <1>4 DEF Reopen
  <2>2. \A a \in DOMAIN attempts : /\ after(a) \in Wire /\ after(a).op = attempts[a].op /\ after(a).mark = attempts[a].mark
                                   /\ after(a).row = "not_sent" => attempts[a].mark = "none"
    <3>1. SUFFICES ASSUME NEW a \in DOMAIN attempts
                   PROVE  /\ after(a) \in Wire /\ after(a).op = attempts[a].op /\ after(a).mark = attempts[a].mark
                          /\ after(a).row = "not_sent" => attempts[a].mark = "none"
      OBVIOUS
    <3>2. attempts[a] \in Wire /\ (attempts[a].row = "not_sent" => attempts[a].mark = "none")
      BY <1>1 DEF WireInv, WireMarks, UnsentUnmarked
    <3> QED
      BY <3>2 DEF Wire
  <2> HIDE DEF after, lost
  <2>3. attempts' \in [DOMAIN attempts -> Wire]
    BY <2>1, <2>2
  <2>4. \A a \in DOMAIN attempts :
            /\ attempts'[a].op = attempts[a].op
            /\ attempts'[a].mark = attempts[a].mark \/ (attempts[a].mark = "unknown" /\ attempts'[a].mark = "reconciled")
            /\ attempts'[a].mark = "reconciled" => IF KindOf(a) = "claim" THEN attempts[a].op \in far.took ELSE 0 \in far.took
            /\ attempts'[a].row = "not_sent" => attempts'[a].mark = "none"
    BY <2>1, <2>2 DEF WireInv, WireMarks, ConcludedTrue
  <2>5. WireRows' /\ WireMarks'
    BY <2>1, <2>3, <2>4, AttemptsNoted
  <2>6. line' \in Line /\ line'.stage = "idle"
    <3>1. (line.held \/ lost) \in BOOLEAN
      BY <1>1 DEF Line
    <3> QED
      BY <2>1, <3>1 DEF Quiet, Line
  <2>7. OnLine'
    BY <2>6 DEF OnLine
  <2> QED
    BY <2>5, <2>7 DEF WireInv
<1> QED
  BY <1>2, <1>3, <1>4

\* Every step of an exchange, of the website and of a new process.
LEMMA WireStep ==
  ASSUME WireInv, [AskWireNext]_wireVars
  PROVE  WireInv'
<1>1. CASE UNCHANGED wireVars
  <2>1. dealings' = dealings /\ attempts' = attempts /\ line' = line /\ far' = far
    BY <1>1 DEF wireVars
  <2>2. \A a \in DOMAIN attempts : KindOf(a)' = KindOf(a) /\ Effect(a)' = Effect(a)
    BY <2>1 DEF KindOf, Effect
  <2>3. This' = This /\ TheOp' = TheOp
    BY <2>1 DEF This, TheOp
  <2>4. WireRows'
    BY <2>1 DEF WireInv, WireRows
  <2>5. WireMarks'
    BY <2>1, <2>2 DEF WireInv, WireMarks, ConcludedTrue, AnswerTaken, UnsentUnmarked, FlyingMarked, OneIntent
  <2>6. OnLine'
    BY <2>1, <2>2, <2>3 DEF WireInv, OnLine
  <2> QED
    BY <2>4, <2>5, <2>6 DEF WireInv
<1> QED
  BY <1>1, CreateStep, PrepareStep, LineSteps, ConcludeSteps, FarSteps DEF AskWireNext

-----------------------------------------------------------------------------
(* Withdrawals.                                                            *)

\* What HQ, its private store and the website are made of.
Book == [rows : [Controls -> {"none", "recorded", "acked", "forgotten"}],
         pending : [after : Nat, acks : SUBSET Controls, until : Nat],
         cursor : Nat, barrier : [checked : Int, seen : Nat], lost : Nat,
         imports : [Controls -> {"none", "content_pending", "available", "suppressed", "expired"}],
         applied : [Controls -> {"none", "pending", "applied"}]]
Safe == [raw : SUBSET Controls, tombs : SUBSET Controls]
Page == [control : Controls \cup {"none"}, next : Nat, checked : Int, seen : Nat]
Web == [issued : Seq(Controls), at : [Controls -> 0..LastHour], acked : SUBSET Controls, page : Page]

\* The first n controls of the website are known to HQ.
Seen(b, n) == n <= Len(web.issued) /\ \A i \in 1..n : b.rows[web.issued[i]] # "none"

\* Only what was issued is known or applied, only what the website knows to be
\* applied is acknowledged, and what is forgotten or buried is not stored.
ControlKept(b, s, c) ==
    /\ b.rows[c] # "none" => c \in Range(web.issued)
    /\ b.applied[c] # "none" => c \in Range(web.issued)
    /\ b.rows[c] \in {"acked", "forgotten"} => c \in web.acked
    /\ b.rows[c] = "forgotten" => Retention <= clock /\ c \notin s.raw
    /\ b.applied[c] = "applied" => c \in s.tombs \/ OverAt(c) <= clock
    /\ c \in b.pending.acks \/ c \in web.acked => b.rows[c] # "none"
    /\ ~ (c \in s.raw /\ c \in s.tombs)
\* The stores at any commit.
StoresKept(b, s) ==
    /\ b \in Book /\ s \in Safe
    /\ Seen(b, b.cursor) /\ Seen(b, b.pending.after) /\ Seen(b, b.barrier.seen)
    /\ \A c \in Controls : ControlKept(b, s, c)

\* A page belongs to a request, whose acknowledgements the website has taken; it
\* ends where nothing is unknown, and reading goes on after its control.
PageKept ==
    /\ web.page # NoPage => book.pending # NoSync /\ book.pending.acks \subseteq web.acked
    /\ web.page.control # "none" => web.page.control \in Range(web.issued)
    /\ web.page.control = "none" => Seen(book, web.page.seen)
    /\ web.page.next <= Len(web.issued)
    /\ \A i \in 1..web.page.next : book.rows[web.issued[i]] # "none" \/ web.issued[i] = web.page.control

\* Stores and page together.
ControlsInv == web \in Web /\ clock \in 0..LastHour /\ StoresKept(book, safe) /\ PageKept

\* Nothing was withdrawn yet.
LEMMA ControlsStart == AskControlsInit => ControlsInv
<1> SUFFICES ASSUME AskControlsInit PROVE ControlsInv
  OBVIOUS
<1>1. web.page = NoPage /\ web.issued = <<>> /\ web.acked = {} /\ clock = 0 /\ safe = [raw |-> {}, tombs |-> {}]
  BY DEF AskControlsInit
<1>2. clock \in 0..LastHour /\ 0 \in 0..LastHour
  BY <1>1, AskControlsAssumption
<1>3. NoPage \in Page /\ NoPage.control = "none" /\ NoPage.next = 0 /\ NoPage.seen = 0
  BY DEF NoPage, Page
<1>4. web \in Web
  <2>1. <<>> \in Seq(Controls)
    OBVIOUS
  <2>2. [c \in Controls |-> 0] \in [Controls -> 0..LastHour]
    BY <1>2
  <2> QED
    BY <1>3, <2>1, <2>2 DEF AskControlsInit, Web
<1>5. book \in Book
  <2>1. NoSync \in [after : Nat, acks : SUBSET Controls, until : Nat] /\ NoBarrier \in [checked : Int, seen : Nat]
    BY DEF NoSync, NoBarrier
  <2> QED
    BY <2>1 DEF AskControlsInit, Book
<1>6. book.cursor = 0 /\ book.pending.after = 0 /\ book.pending.acks = {} /\ book.barrier.seen = 0
  BY DEF AskControlsInit, NoSync, NoBarrier
<1>7. Seen(book, 0)
  <2>1. Len(web.issued) = 0
    BY <1>1
  <2> QED
    BY <2>1 DEF Seen
<1>8. \A c \in Controls : ControlKept(book, safe, c)
  BY <1>1, <1>6 DEF ControlKept, AskControlsInit
<1>9. safe \in Safe
  BY <1>1 DEF Safe
<1>10. StoresKept(book, safe)
  BY <1>5, <1>6, <1>7, <1>8, <1>9 DEF StoresKept
<1>11. PageKept
  BY <1>1, <1>3, <1>7 DEF PageKept, Seen
<1> QED
  BY <1>2, <1>4, <1>10, <1>11 DEF ControlsInv

\* The invariant holds what WithdrawnForGood says.
LEMMA ControlsPromise == ControlsInv => AskControlsTypeOK /\ WithdrawnForGood
<1> SUFFICES ASSUME ControlsInv PROVE AskControlsTypeOK /\ WithdrawnForGood
  OBVIOUS
<1>1. web \in Web /\ clock \in 0..LastHour /\ book \in Book /\ safe \in Safe
  BY DEF ControlsInv, StoresKept
<1>2. AskControlsTypeOK
  BY <1>1 DEF AskControlsTypeOK, Web, Book, Safe
<1>3. \A c \in Controls : ControlKept(book, safe, c)
  BY DEF ControlsInv, StoresKept
<1>4. \A i \in 1..book.barrier.seen : book.rows[web.issued[i]] # "none"
  BY DEF ControlsInv, StoresKept, Seen
<1>5. safe.raw \cap (safe.tombs \cup {c \in Controls : book.rows[c] = "forgotten"}) = {}
  <2>1. safe.raw \subseteq Controls
    BY <1>1 DEF Safe
  <2> QED
    BY <1>3, <2>1 DEF ControlKept
<1>6. \A c \in Controls : book.rows[c] \in {"acked", "forgotten"} => c \in web.acked
  BY <1>3 DEF ControlKept
<1>7. \A c \in Controls : book.applied[c] = "applied" => c \in safe.tombs \/ OverAt(c) <= clock
  BY <1>3 DEF ControlKept
<1>8. WithdrawnForGood
  BY <1>4, <1>5, <1>6, <1>7 DEF WithdrawnForGood
<1> QED
  BY <1>2, <1>8

\* What the commits of a handler leave, whether it comes to its end or HQ dies.
Grown(b, s) == /\ StoresKept(b, s) /\ b.pending = book.pending
               /\ \A c \in Controls : book.rows[c] # "none" => b.rows[c] # "none"


\* Stores that are as they should be stay so while the website does not move.
LEMMA StoresHold ==
  ASSUME NEW b, NEW s, StoresKept(b, s), book' = b, safe' = s,
         web'.issued = web.issued, web'.at = web.at, web'.acked = web.acked, clock' = clock
  PROVE  StoresKept(book, safe)'
<1>1. book' \in Book /\ safe' \in Safe
  BY DEF StoresKept
<1>2. Seen(book, book.cursor)' /\ Seen(book, book.pending.after)' /\ Seen(book, book.barrier.seen)'
  BY DEF StoresKept, Seen
<1>3. \A c \in Controls : ControlKept(book, safe, c)'
  BY DEF StoresKept, ControlKept, OverAt
<1> QED
  BY <1>1, <1>2, <1>3 DEF StoresKept

\* A new process reads from the beginning.
LEMMA RestartStep ==
  ASSUME ControlsInv, NEW b, NEW s, StoresKept(b, s), Restart(b, s)
  PROVE  ControlsInv'
<1> DEFINE r == Restarted(b)
<1>1. book' = r /\ safe' = s /\ web' = [web EXCEPT !.page = NoPage] /\ clock' = clock
  BY DEF Restart
<1>2. web \in Web /\ clock \in 0..LastHour /\ b \in Book /\ s \in Safe
  BY DEF ControlsInv, StoresKept
<1>3. /\ r \in Book /\ r.rows = b.rows /\ r.applied = b.applied /\ r.cursor = 0 /\ r.pending = NoSync /\ r.barrier = NoBarrier
  <2>1. NoSync \in [after : Nat, acks : SUBSET Controls, until : Nat] /\ NoBarrier \in [checked : Int, seen : Nat]
    BY DEF NoSync, NoBarrier
  <2>2. b.lost \in Nat /\ b.pending.until \in Nat
    BY <1>2 DEF Book
  <2> DEFINE l == IF b.lost # 0 THEN b.lost ELSE b.pending.until
  <2>3. l \in Nat
    BY <2>2
  <2>4. r = [b EXCEPT !.lost = l, !.pending = NoSync, !.cursor = 0, !.barrier = NoBarrier]
    BY DEF Restarted
  <2> HIDE DEF l, r
  <2> QED
    BY <1>2, <2>1, <2>3, <2>4 DEF Book
<1>4. NoPage \in Page /\ NoPage.control = "none" /\ NoPage.next = 0 /\ NoPage.seen = 0
  BY DEF NoPage, Page
<1>5. web' \in Web /\ web'.page = NoPage /\ web'.issued = web.issued /\ web'.at = web.at /\ web'.acked = web.acked
  BY <1>1, <1>2, <1>4 DEF Web
<1> HIDE DEF r
<1>6. Len(web.issued) \in Nat
  BY <1>2 DEF Web
<1>7. Seen(r, 0)
  BY <1>6 DEF Seen
<1>8. NoSync.after = 0 /\ NoSync.acks = {} /\ NoBarrier.seen = 0
  BY DEF NoSync, NoBarrier
<1>9. \A c \in Controls : ControlKept(r, s, c)
  BY <1>3, <1>8 DEF StoresKept, ControlKept
<1>10. StoresKept(r, s)
  BY <1>2, <1>3, <1>7, <1>8, <1>9 DEF StoresKept
<1>11. StoresKept(book, safe)'
  BY <1>1, <1>5, <1>10, StoresHold
<1>12. PageKept'
  BY <1>4, <1>5, <1>6 DEF PageKept, Seen
<1> QED
  BY <1>1, <1>2, <1>5, <1>11, <1>12 DEF ControlsInv

\* A handler keeps the invariant if each of its commits does.
LEMMA CommitsKept ==
  ASSUME ControlsInv, NEW ss, Len(ss) \in Nat \ {0}, DOMAIN ss = 1..Len(ss),
         \A n \in 1..Len(ss) : Grown(ss[n].b, ss[n].s), Commits(ss)
  PROVE  ControlsInv'
<1>1. CASE book' = ss[Len(ss)].b /\ safe' = ss[Len(ss)].s /\ UNCHANGED <<web, clock>>
  <2> DEFINE b == ss[Len(ss)].b
             s == ss[Len(ss)].s
  <2>1. book' = b /\ safe' = s /\ web' = web /\ clock' = clock /\ Grown(b, s)
    BY <1>1
  <2> HIDE DEF b, s
  <2>2. StoresKept(book, safe)'
    BY <2>1, StoresHold DEF Grown
  <2>3. PageKept'
    <3>1. /\ web.page # NoPage => book'.pending # NoSync /\ book'.pending.acks \subseteq web.acked
          /\ web.page.control # "none" => web.page.control \in Range(web.issued)
          /\ web.page.next <= Len(web.issued)
      BY <2>1 DEF ControlsInv, PageKept, Grown
    <3>2. web \in Web /\ Len(web.issued) \in Nat /\ \A i \in 1..Len(web.issued) : web.issued[i] \in Controls
      BY DEF ControlsInv, Web
    <3>3. web.page.control = "none" => Seen(book', web.page.seen)
      <4>1. SUFFICES ASSUME web.page.control = "none" PROVE Seen(book', web.page.seen)
        OBVIOUS
      <4>2. Seen(book, web.page.seen) /\ web.page.seen \in Nat
        BY <3>2, <4>1 DEF ControlsInv, PageKept, Web, Page
      <4>3. \A i \in 1..web.page.seen : i \in 1..Len(web.issued)
        BY <3>2, <4>2 DEF Seen
      <4> QED
        BY <2>1, <3>2, <4>2, <4>3 DEF Grown, Seen
    <3>4. \A i \in 1..web.page.next : book'.rows[web.issued[i]] # "none" \/ web.issued[i] = web.page.control
      <4>1. web.page.next \in Nat
        BY <3>2 DEF Web, Page
      <4>2. \A i \in 1..web.page.next : i \in 1..Len(web.issued)
        BY <3>1, <3>2, <4>1
      <4> QED
        BY <2>1, <3>2, <4>2 DEF ControlsInv, PageKept, Grown
    <3> QED
      BY <2>1, <3>1, <3>3, <3>4 DEF PageKept, Seen
  <2> QED
    BY <2>1, <2>2, <2>3 DEF ControlsInv
<1>2. ASSUME NEW n \in DOMAIN ss, Restart(ss[n].b, ss[n].s) PROVE ControlsInv'
  BY <1>2, RestartStep DEF Grown
<1> QED
  BY <1>1, <1>2 DEF Commits

\* A request, an hour, a crash or a new control.
LEMMA ControlsQuietStep ==
  ASSUME ControlsInv, PrepareControls \/ PassHour \/ ControlsCrash \/ (\E c \in Controls : Issue(c))
  PROVE  ControlsInv'
<1>1. /\ web \in Web /\ clock \in 0..LastHour /\ book \in Book /\ safe \in Safe /\ PageKept
      /\ Seen(book, book.cursor) /\ Seen(book, book.pending.after) /\ Seen(book, book.barrier.seen)
      /\ \A c \in Controls : ControlKept(book, safe, c)
  BY DEF ControlsInv, StoresKept
<1>2. Len(web.issued) \in Nat /\ web.page \in Page /\ web.at \in [Controls -> 0..LastHour] /\ web.issued \in Seq(Controls)
  BY <1>1 DEF Web
<1>3. LastHour \in Nat /\ Retention \in Nat \ {0}
  BY AskControlsAssumption
<1>4. CASE PrepareControls
  <2> DEFINE acks == {c \in Controls : book.rows[c] = "recorded"}
             p == [after |-> book.cursor, acks |-> acks, until |-> clock + Retention]
  <2>1. /\ book.pending = NoSync /\ book' = [book EXCEPT !.barrier = NoBarrier, !.pending = p]
        /\ safe' = safe /\ web' = web /\ clock' = clock
    BY <1>4 DEF PrepareControls
  <2>2. p \in [after : Nat, acks : SUBSET Controls, until : Nat] /\ p.after = book.cursor /\ p.acks = acks
    <3>1. clock + Retention \in Nat /\ book.cursor \in Nat
      BY <1>1, <1>3 DEF Book
    <3> QED
      BY <3>1
  <2>3. NoBarrier \in [checked : Int, seen : Nat] /\ NoBarrier.seen = 0
    BY DEF NoBarrier
  <2>4. \A c \in acks : book.rows[c] # "none"
    OBVIOUS
  <2> HIDE DEF acks, p
  <2>5. /\ book' \in Book /\ book'.rows = book.rows /\ book'.applied = book.applied /\ book'.cursor = book.cursor
        /\ book'.pending = p /\ book'.barrier = NoBarrier
    BY <1>1, <2>1, <2>2, <2>3 DEF Book
  <2>6. \A c \in Controls : ControlKept(book', safe, c)
    BY <1>1, <2>2, <2>4, <2>5 DEF ControlKept
  <2>7. Seen(book', book.cursor) /\ Seen(book', 0)
    BY <1>1, <1>2, <2>5 DEF Seen
  <2>8. StoresKept(book', safe)
    BY <1>1, <2>2, <2>3, <2>5, <2>6, <2>7 DEF StoresKept
  <2>9. StoresKept(book, safe)'
    BY <2>1, <2>8 DEF StoresKept, Seen, ControlKept, OverAt
  <2>10. PageKept'
    BY <1>1, <2>1, <2>5 DEF PageKept, Seen
  <2> QED
    BY <1>1, <2>1, <2>9, <2>10 DEF ControlsInv
<1>5. CASE PassHour
  <2>1. clock' = clock + 1 /\ clock < LastHour /\ book' = book /\ safe' = safe /\ web' = web
    BY <1>5 DEF PassHour
  <2>2. clock' \in 0..LastHour
    BY <1>1, <1>3, <2>1
  <2>3. \A c \in Controls : OverAt(c) \in Int /\ OverAt(c)' = OverAt(c)
    BY <1>2, <1>3, <2>1 DEF OverAt
  <2>4. \A c \in Controls : ControlKept(book, safe, c)'
    BY <1>1, <1>3, <2>1, <2>3 DEF ControlKept
  <2>5. StoresKept(book, safe)'
    BY <1>1, <2>1, <2>4 DEF StoresKept, Seen
  <2>6. PageKept'
    BY <1>1, <2>1 DEF PageKept, Seen
  <2> QED
    BY <1>1, <2>1, <2>2, <2>5, <2>6 DEF ControlsInv
<1>6. CASE ControlsCrash
  <2>1. Restart(book, safe) /\ StoresKept(book, safe)
    BY <1>6 DEF ControlsCrash, ControlsInv
  <2> QED
    BY <2>1, RestartStep
<1>7. ASSUME NEW c \in Controls, Issue(c) PROVE ControlsInv'
  <2> DEFINE more == Append(web.issued, c)
             when == [web.at EXCEPT ![c] = clock]
  <2>1. /\ c \notin Range(web.issued) /\ web' = [web EXCEPT !.issued = more, !.at = when]
        /\ book' = book /\ safe' = safe /\ clock' = clock
    <3>1. c \notin Range(web.issued) /\ web' = [web EXCEPT !.issued = Append(@, c), !.at[c] = clock] /\ book' = book /\ safe' = safe /\ clock' = clock
      BY <1>7 DEF Issue
    <3> QED
      BY <1>1, <3>1 DEF Web
  <2>2. /\ more \in Seq(Controls) /\ Len(more) = Len(web.issued) + 1
        /\ \A i \in 1..Len(web.issued) : more[i] = web.issued[i]
    BY <1>2, AppendProperties
  <2>3. when \in [Controls -> 0..LastHour] /\ \A d \in Controls : d # c => when[d] = web.at[d]
    BY <1>1, <1>2
  <2> HIDE DEF more, when
  <2>4. web' \in Web /\ web'.issued = more /\ web'.at = when /\ web'.page = web.page /\ web'.acked = web.acked
    BY <1>1, <2>1, <2>2, <2>3 DEF Web
  <2>5. Range(web.issued) \subseteq Range(more)
    <3>1. DOMAIN web.issued = 1..Len(web.issued) /\ DOMAIN more = 1..Len(more)
      BY <1>2, <2>2, SequenceAsFunction
    <3>2. \A i \in 1..Len(web.issued) : i \in 1..Len(more) /\ more[i] = web.issued[i]
      BY <1>2, <2>2
    <3> QED
      BY <3>1, <3>2 DEF Range
  <2>6. \A d \in Controls : ControlKept(book, safe, d)'
    <3>1. SUFFICES ASSUME NEW d \in Controls PROVE ControlKept(book, safe, d)'
      OBVIOUS
    <3>2. ControlKept(book, safe, d)
      BY <1>1
    <3>3. CASE d = c
      <4>1. book.rows[d] = "none" /\ book.applied[d] = "none"
        BY <2>1, <3>2, <3>3 DEF ControlKept
      <4> QED
        BY <2>1, <2>4, <3>2, <4>1 DEF ControlKept
    <3>4. CASE d # c
      <4>1. OverAt(d)' = OverAt(d)
        BY <2>3, <2>4, <3>4 DEF OverAt
      <4> QED
        BY <2>1, <2>4, <2>5, <3>2, <4>1 DEF ControlKept
    <3> QED
      BY <3>3, <3>4
  <2>7. \A n \in Nat : Seen(book, n) => n <= Len(more) /\ \A i \in 1..n : book.rows[more[i]] # "none"
    <3>1. SUFFICES ASSUME NEW n \in Nat, Seen(book, n)
                   PROVE  n <= Len(more) /\ \A i \in 1..n : book.rows[more[i]] # "none"
      OBVIOUS
    <3>2. n <= Len(web.issued) /\ \A i \in 1..n : book.rows[web.issued[i]] # "none"
      BY <3>1 DEF Seen
    <3>3. \A i \in 1..n : i \in 1..Len(web.issued)
      BY <1>2, <3>2
    <3>4. n <= Len(more)
      BY <1>2, <2>2, <3>2
    <3> QED
      BY <2>2, <3>2, <3>3, <3>4
  <2>8. \A n \in Nat : Seen(book, n) => (n <= Len(web.issued) /\ \A i \in 1..n : book.rows[web.issued[i]] # "none")'
    BY <2>1, <2>4, <2>7
  <2>9. book.cursor \in Nat /\ book.pending.after \in Nat /\ book.barrier.seen \in Nat /\ web.page.seen \in Nat /\ web.page.next \in Nat
    BY <1>1, <1>2 DEF Book, Page
  <2>10. StoresKept(book, safe)'
    BY <1>1, <2>1, <2>4, <2>6, <2>7, <2>9 DEF StoresKept, Seen
  <2>11. PageKept'
    <3>1. web.page.next <= Len(web.issued) /\ \A i \in 1..web.page.next : book.rows[web.issued[i]] # "none" \/ web.issued[i] = web.page.control
      BY <1>1 DEF PageKept
    <3>2. web.page.next <= Len(more) /\ \A i \in 1..web.page.next : book.rows[more[i]] # "none" \/ more[i] = web.page.control
      <4>1. \A i \in 1..web.page.next : i \in 1..Len(web.issued)
        BY <1>2, <2>9, <3>1
      <4>2. web.page.next <= Len(more)
        BY <1>2, <2>2, <2>9, <3>1
      <4> QED
        BY <2>2, <3>1, <4>1, <4>2
    <3>3. web.page.control = "none" => web.page.seen <= Len(more) /\ \A i \in 1..web.page.seen : book.rows[more[i]] # "none"
      BY <1>1, <2>7, <2>9 DEF PageKept
    <3>4. /\ web.page # NoPage => book.pending # NoSync /\ book.pending.acks \subseteq web.acked
          /\ web.page.control # "none" => web.page.control \in Range(more)
      BY <1>1, <2>5 DEF PageKept
    <3> QED
      BY <2>1, <2>4, <3>2, <3>3, <3>4 DEF PageKept, Seen
  <2> QED
    BY <1>1, <2>1, <2>4, <2>10, <2>11 DEF ControlsInv
<1> QED
  BY <1>4, <1>5, <1>6, <1>7

\* The website answers a request.
LEMMA ServeStep ==
  ASSUME ControlsInv, Serve
  PROVE  ControlsInv'
<1> DEFINE acked == web.acked \cup book.pending.acks
           left == {i \in DOMAIN web.issued : i > book.pending.after /\ web.issued[i] \notin acked}
           first == Min(left)
           next == IF Cardinality(left) > 1 THEN first ELSE 0
           control == IF left = {} THEN "none" ELSE web.issued[first]
           page == [control |-> control, checked |-> clock, seen |-> Len(web.issued), next |-> next]
<1>1. /\ web \in Web /\ clock \in 0..LastHour /\ book \in Book /\ safe \in Safe /\ PageKept
      /\ Seen(book, book.pending.after)
      /\ \A c \in Controls : ControlKept(book, safe, c)
  BY DEF ControlsInv, StoresKept
<1>2. /\ Len(web.issued) \in Nat /\ web.issued \in Seq(Controls) /\ DOMAIN web.issued = 1..Len(web.issued)
      /\ \A i \in DOMAIN web.issued : web.issued[i] \in Controls
      /\ book.pending.after \in Nat /\ book.pending.acks \subseteq Controls /\ web.acked \subseteq Controls
  BY <1>1, SequenceAsFunction DEF Web, Book
<1>3. book.pending # NoSync /\ web' = [web EXCEPT !.acked = acked, !.page = page] /\ book' = book /\ safe' = safe /\ clock' = clock
  BY DEF Serve
<1>4. acked \subseteq Controls /\ book.pending.acks \subseteq acked /\ web.acked \subseteq acked
      /\ \A c \in acked : c \in Controls /\ book.rows[c] # "none"
  BY <1>1, <1>2 DEF ControlKept
<1>5. left # {} => first \in left /\ \A i \in left : first <= i
  <2>1. left \in SUBSET Nat
    BY <1>2
  <2> QED
    BY <2>1, Smallest DEF Min
<1>6. \A i \in DOMAIN web.issued : i \notin left => book.rows[web.issued[i]] # "none"
  BY <1>1, <1>2, <1>4 DEF Seen
<1>7. left \subseteq DOMAIN web.issued
  OBVIOUS
<1> HIDE DEF acked, left, first
<1>8. next = 0 \/ (left # {} /\ next = first /\ next \in DOMAIN web.issued)
  <2>1. CASE left = {}
    <3>1. Cardinality(left) = 0
      BY <2>1, FS_EmptySet
    <3> QED
      BY <3>1
  <2>2. CASE left # {}
    BY <1>5, <1>7, <2>2
  <2> QED
    BY <2>1, <2>2
<1>9. \/ control = "none" /\ left = {}
      \/ control = web.issued[first] /\ control \in Range(web.issued) /\ control \in Controls /\ left # {}
  <2>1. CASE left = {}
    BY <2>1
  <2>2. CASE left # {}
    <3>1. first \in DOMAIN web.issued /\ control = web.issued[first]
      BY <1>5, <1>7, <2>2
    <3> QED
      BY <1>2, <2>2, <3>1 DEF Range
  <2> QED
    BY <2>1, <2>2
<1> HIDE DEF next, control
<1>10. page \in Page /\ page.control = control /\ page.next = next /\ page.seen = Len(web.issued)
  <2>1. control \in Controls \cup {"none"} /\ next \in Nat /\ clock \in Int
    BY <1>1, <1>2, <1>8, <1>9
  <2> QED
    BY <1>2, <2>1 DEF Page
<1> HIDE DEF page
<1>11. web' \in Web /\ web'.page = page /\ web'.acked = acked /\ web'.issued = web.issued /\ web'.at = web.at
  BY <1>1, <1>3, <1>4, <1>10 DEF Web
<1>12. \A c \in Controls : ControlKept(book, safe, c)'
  BY <1>1, <1>3, <1>4, <1>11 DEF ControlKept, OverAt
<1>13. StoresKept(book, safe)'
  BY <1>1, <1>3, <1>11, <1>12 DEF ControlsInv, StoresKept, Seen
<1>14. PageKept'
  <2>1. control # "none" => control \in Range(web.issued)
    BY <1>9
  <2>2. control = "none" => Seen(book, Len(web.issued))
    <3>1. SUFFICES ASSUME control = "none" PROVE Seen(book, Len(web.issued))
      OBVIOUS
    <3>2. left = {}
      BY <1>9, <3>1, AskControlsAssumption
    <3> QED
      BY <1>2, <1>6, <3>2 DEF Seen
  <2>3. next <= Len(web.issued)
    BY <1>2, <1>8
  <2>4. \A i \in 1..next : book.rows[web.issued[i]] # "none" \/ web.issued[i] = control
    <3>1. SUFFICES ASSUME NEW i \in 1..next PROVE book.rows[web.issued[i]] # "none" \/ web.issued[i] = control
      OBVIOUS
    <3>2. left # {} /\ next = first /\ i \in DOMAIN web.issued /\ i <= first
      BY <1>2, <1>8, <3>1
    <3>3. CASE i = first
      BY <1>9, <3>2, <3>3
    <3>4. CASE i # first
      <4>1. i \notin left
        BY <1>2, <1>5, <1>7, <3>2, <3>4
      <4> QED
        BY <1>6, <3>2, <4>1
    <3> QED
      BY <3>3, <3>4
  <2> QED
    BY <1>3, <1>4, <1>10, <1>11, <2>1, <2>2, <2>3, <2>4 DEF PageKept, Seen
<1> QED
  BY <1>1, <1>3, <1>11, <1>13, <1>14 DEF ControlsInv

\* A page is accepted.
LEMMA AcceptStep ==
  ASSUME ControlsInv, AcceptControls
  PROVE  ControlsInv'
<1> DEFINE p == web.page
           f == [c \in Controls |-> IF c \in book.pending.acks THEN "acked"
                                    ELSE IF c = p.control /\ c \notin Retained(book) THEN "recorded" ELSE book.rows[c]]
           drained == /\ p.control = "none" /\ p.next = 0
                      /\ \A c \in Controls : book.rows[c] = "recorded" => c \in book.pending.acks
           bar == IF drained THEN [checked |-> p.checked, seen |-> p.seen] ELSE NoBarrier
           lost == IF drained /\ clock < p.checked + Freshness THEN 0 ELSE book.lost
           b == [book EXCEPT !.rows = f, !.pending = NoSync, !.cursor = p.next, !.barrier = bar, !.lost = lost]
<1>1. /\ web \in Web /\ clock \in 0..LastHour /\ book \in Book /\ safe \in Safe /\ PageKept
      /\ Seen(book, book.pending.after)
      /\ \A c \in Controls : ControlKept(book, safe, c)
  BY DEF ControlsInv, StoresKept
<1>2. /\ p \in Page /\ book.rows \in [Controls -> {"none", "recorded", "acked", "forgotten"}]
      /\ book.lost \in Nat /\ web.issued \in Seq(Controls)
  BY <1>1 DEF Web, Book
<1>3. p # NoPage /\ web' = [web EXCEPT !.page = NoPage] /\ safe' = safe /\ clock' = clock
  BY DEF AcceptControls
<1>4. book' = b
  BY <1>2 DEF AcceptControls
<1>5. /\ book.pending.acks \subseteq web.acked
      /\ p.control # "none" => p.control \in Range(web.issued)
      /\ p.control = "none" => Seen(book, p.seen)
      /\ p.next <= Len(web.issued)
      /\ \A i \in 1..p.next : book.rows[web.issued[i]] # "none" \/ web.issued[i] = p.control
  BY <1>1, <1>3 DEF PageKept
<1>6. /\ f \in [Controls -> {"none", "recorded", "acked", "forgotten"}]
      /\ \A c \in Controls : /\ book.rows[c] # "none" \/ c = p.control => f[c] # "none"
                             /\ f[c] = "none" \/ f[c] = "recorded" \/ f[c] = book.rows[c] \/ c \in book.pending.acks
                             /\ f[c] = "forgotten" => book.rows[c] = "forgotten"
                             /\ f[c] # "none" => book.rows[c] # "none" \/ c = p.control
  <2>1. \A c \in Controls : c \in book.pending.acks => book.rows[c] # "none"
    BY <1>1 DEF ControlKept
  <2>2. \A c \in Retained(book) : book.rows[c] # "none"
    BY DEF Retained
  <2> QED
    BY <1>2, <2>1, <2>2
<1>7. bar \in [checked : Int, seen : Nat] /\ Seen(book, bar.seen)
  <2>1. NoBarrier \in [checked : Int, seen : Nat] /\ NoBarrier.seen = 0
    BY DEF NoBarrier
  <2>2. Len(web.issued) \in Nat
    BY <1>2
  <2>3. Seen(book, 0)
    BY <2>2 DEF Seen
  <2>4. [checked |-> p.checked, seen |-> p.seen] \in [checked : Int, seen : Nat]
    BY <1>2 DEF Page
  <2> QED
    BY <1>5, <2>1, <2>3, <2>4
<1>8. lost \in Nat
  BY <1>2
<1>9. NoSync \in [after : Nat, acks : SUBSET Controls, until : Nat] /\ NoSync.after = 0 /\ NoSync.acks = {}
  BY DEF NoSync
<1>10. p.next \in Nat /\ p.seen \in Nat
  BY <1>2 DEF Page
<1> HIDE DEF p, f, drained, bar, lost
<1>11. /\ b \in Book /\ b.rows = f /\ b.pending = NoSync /\ b.cursor = p.next /\ b.barrier = bar /\ b.applied = book.applied
  BY <1>1, <1>6, <1>7, <1>8, <1>9, <1>10 DEF Book
<1> HIDE DEF b
<1>12. Len(web.issued) \in Nat /\ \A i \in 1..Len(web.issued) : web.issued[i] \in Controls
  BY <1>2
<1>13. Seen(b, p.next) /\ Seen(b, 0) /\ Seen(b, bar.seen)
  <2>1. \A i \in 1..p.next : i \in 1..Len(web.issued)
    BY <1>5, <1>10, <1>12
  <2>2. bar.seen \in Nat /\ bar.seen <= Len(web.issued)
    BY <1>7 DEF Seen
  <2>3. \A i \in 1..bar.seen : i \in 1..Len(web.issued)
    BY <1>12, <2>2
  <2>4. Seen(b, p.next)
    BY <1>5, <1>6, <1>11, <1>12, <2>1 DEF Seen
  <2>5. Seen(b, bar.seen)
    BY <1>6, <1>7, <1>11, <1>12, <2>3 DEF Seen
  <2> QED
    BY <1>12, <2>4, <2>5 DEF Seen
<1>14. \A c \in Controls : ControlKept(b, safe, c)
  <2>1. SUFFICES ASSUME NEW c \in Controls PROVE ControlKept(b, safe, c)
    OBVIOUS
  <2>2. ControlKept(book, safe, c)
    BY <1>1
  <2>3. c # "none"
    BY AskControlsAssumption
  <2> QED
    BY <1>5, <1>6, <1>9, <1>11, <2>2, <2>3 DEF ControlKept
<1>15. StoresKept(b, safe)
  BY <1>1, <1>9, <1>11, <1>13, <1>14 DEF StoresKept
<1>16. NoPage \in Page /\ NoPage.control = "none" /\ NoPage.next = 0 /\ NoPage.seen = 0
  BY DEF NoPage, Page
<1>17. web' \in Web /\ web'.page = NoPage /\ web'.issued = web.issued /\ web'.at = web.at /\ web'.acked = web.acked
  BY <1>1, <1>3, <1>16 DEF Web
<1>18. StoresKept(book, safe)'
  BY <1>3, <1>4, <1>15, <1>17, StoresHold
<1>19. PageKept'
  BY <1>12, <1>16, <1>17 DEF PageKept, Seen
<1> QED
  BY <1>1, <1>3, <1>17, <1>18, <1>19 DEF ControlsInv

\* A commit that leaves the journal alone.
LEMMA GrownOn ==
  ASSUME NEW b, NEW s, Grown(b, s), NEW c \in Book, NEW t \in Safe,
         c.rows = b.rows, c.pending = b.pending, c.cursor = b.cursor, c.barrier = b.barrier,
         \A d \in Controls : /\ c.applied[d] # "none" => d \in Range(web.issued)
                             /\ c.applied[d] = "applied" => d \in t.tombs \/ OverAt(d) <= clock
                             /\ c.rows[d] = "forgotten" => d \notin t.raw
                             /\ ~ (d \in t.raw /\ d \in t.tombs)
  PROVE  Grown(c, t)
<1>1. \A d \in Controls : ControlKept(c, t, d)
  BY DEF Grown, StoresKept, ControlKept
<1>2. Seen(c, c.cursor) /\ Seen(c, c.pending.after) /\ Seen(c, c.barrier.seen)
  BY DEF Grown, StoresKept, Seen
<1> QED
  BY <1>1, <1>2 DEF Grown, StoresKept

\* Both stores after a commit.
StoreCommit == [b : Book, s : Safe]

\* The commits of clean(); after them nothing withdrawn is stored.
LEMMA CleanedKept ==
  ASSUME ControlsInv
  PROVE  /\ Cleaned \in Seq(StoreCommit) /\ Len(Cleaned) = 5
         /\ \A n \in 1..5 : Grown(Cleaned[n].b, Cleaned[n].s)
         /\ Cleaned[5].b.rows = book.rows
         /\ \A c \in Retained(book) : c \notin Cleaned[5].s.raw
<1> DEFINE kept == Retained(book)
           f1 == [c \in Controls |-> IF c \in kept THEN "pending" ELSE book.applied[c]]
           g1 == [c \in Controls |-> IF c \in kept /\ book.imports[c] # "none" THEN "suppressed" ELSE book.imports[c]]
           noted == [book EXCEPT !.applied = f1, !.imports = g1]
           wiped == [raw |-> safe.raw \ kept, tombs |-> safe.tombs \cup kept]
           f2 == [c \in Controls |-> IF c \in kept THEN "applied" ELSE noted.applied[c]]
           done == [noted EXCEPT !.applied = f2]
           g2 == [c \in Controls |-> IF done.imports[c] \in {"content_pending", "available"} /\ clock >= QuestionHours THEN "expired" ELSE done.imports[c]]
           over == [done EXCEPT !.imports = g2]
           r2 == {c \in wiped.raw : over.imports[c] \notin {"suppressed", "expired"}}
           swept == [wiped EXCEPT !.raw = r2]
<1>1. book \in Book /\ safe \in Safe /\ Grown(book, safe) /\ \A c \in Controls : ControlKept(book, safe, c)
  BY DEF ControlsInv, StoresKept, Grown
<1>2. kept \subseteq Controls /\ \A c \in kept : book.rows[c] # "none" /\ book.rows[c] # "forgotten"
  BY DEF Retained
<1>3. /\ Cleaned = <<[b |-> noted, s |-> safe], [b |-> noted, s |-> wiped], [b |-> done, s |-> wiped],
                     [b |-> over, s |-> wiped], [b |-> over, s |-> swept]>>
  <2>1. noted = [book EXCEPT !.applied = [c \in Controls |-> IF c \in kept THEN "pending" ELSE @[c]],
                             !.imports = [c \in Controls |-> IF c \in kept /\ @[c] # "none" THEN "suppressed" ELSE @[c]]]
    BY <1>1 DEF Book
  <2>2. done = [noted EXCEPT !.applied = [c \in Controls |-> IF c \in kept THEN "applied" ELSE @[c]]]
    OBVIOUS
  <2> QED
    BY DEF Cleaned
<1>4. /\ noted \in Book /\ noted.rows = book.rows /\ noted.pending = book.pending /\ noted.cursor = book.cursor
      /\ noted.barrier = book.barrier /\ noted.applied = f1 /\ noted.imports = g1
  <2>1. f1 \in [Controls -> {"none", "pending", "applied"}] /\ g1 \in [Controls -> {"none", "content_pending", "available", "suppressed", "expired"}]
    BY <1>1 DEF Book
  <2> HIDE DEF f1, g1
  <2> QED
    BY <1>1, <2>1 DEF Book
<1> HIDE DEF noted
<1>5. /\ done \in Book /\ done.rows = book.rows /\ done.pending = book.pending /\ done.cursor = book.cursor
      /\ done.barrier = book.barrier /\ done.applied = f2
  <2>1. f2 \in [Controls -> {"none", "pending", "applied"}]
    BY <1>4 DEF Book
  <2> HIDE DEF f1, g1, f2
  <2> QED
    BY <1>4, <2>1 DEF Book
<1> HIDE DEF done
<1>6. /\ over \in Book /\ over.rows = book.rows /\ over.pending = book.pending /\ over.cursor = book.cursor
      /\ over.barrier = book.barrier /\ over.applied = f2
  <2>1. g2 \in [Controls -> {"none", "content_pending", "available", "suppressed", "expired"}]
    BY <1>5 DEF Book
  <2> HIDE DEF f1, g1, f2, g2
  <2> QED
    BY <1>5, <2>1 DEF Book
<1>7. wiped \in Safe /\ wiped.raw = safe.raw \ kept /\ wiped.tombs = safe.tombs \cup kept
  BY <1>1, <1>2 DEF Safe
<1> HIDE DEF over, wiped
<1>8. swept \in Safe /\ swept.raw \subseteq wiped.raw /\ swept.tombs = wiped.tombs
  <2>1. r2 \subseteq wiped.raw
    OBVIOUS
  <2> HIDE DEF r2
  <2> QED
    BY <1>7, <2>1 DEF Safe
<1> HIDE DEF swept
<1>9. \A c \in Controls : /\ f1[c] # "none" => c \in Range(web.issued)
                          /\ f1[c] = "applied" => c \in safe.tombs \/ OverAt(c) <= clock
                          /\ f2[c] # "none" => c \in Range(web.issued)
                          /\ f2[c] = "applied" => c \in wiped.tombs \/ OverAt(c) <= clock
                          /\ book.rows[c] = "forgotten" => c \notin safe.raw
                          /\ ~ (c \in safe.raw /\ c \in safe.tombs)
                          /\ ~ (c \in wiped.raw /\ c \in wiped.tombs)
  BY <1>1, <1>2, <1>4, <1>7 DEF ControlKept
<1> HIDE DEF f1, f2, kept
<1>10. Grown(noted, safe)
  BY <1>1, <1>4, <1>9, GrownOn
<1>11. Grown(noted, wiped)
  <2>1. \A c \in Controls : f1[c] = "applied" => c \in wiped.tombs \/ OverAt(c) <= clock
    BY <1>7, <1>9
  <2> QED
    BY <1>4, <1>7, <1>9, <1>10, <2>1, GrownOn
<1>12. Grown(done, wiped)
  <2>1. \A c \in Controls : book.rows[c] = "forgotten" => c \notin wiped.raw
    BY <1>7, <1>9
  <2> QED
    BY <1>4, <1>5, <1>7, <1>9, <1>11, <2>1, GrownOn
<1>13. Grown(over, wiped)
  <2>1. \A c \in Controls : book.rows[c] = "forgotten" => c \notin wiped.raw
    BY <1>7, <1>9
  <2> QED
    BY <1>5, <1>6, <1>7, <1>9, <1>12, <2>1, GrownOn
<1>14. Grown(over, swept)
  <2>1. \A c \in Controls : /\ book.rows[c] = "forgotten" => c \notin swept.raw
                            /\ ~ (c \in swept.raw /\ c \in swept.tombs)
                            /\ f2[c] = "applied" => c \in swept.tombs \/ OverAt(c) <= clock
    BY <1>7, <1>8, <1>9
  <2> QED
    BY <1>6, <1>8, <1>9, <1>13, <2>1, GrownOn
<1>15. /\ [b |-> noted, s |-> safe] \in StoreCommit /\ [b |-> noted, s |-> wiped] \in StoreCommit /\ [b |-> done, s |-> wiped] \in StoreCommit
       /\ [b |-> over, s |-> wiped] \in StoreCommit /\ [b |-> over, s |-> swept] \in StoreCommit
  BY <1>1, <1>4, <1>5, <1>6, <1>7, <1>8 DEF StoreCommit
<1>16. Cleaned \in Seq(StoreCommit) /\ Len(Cleaned) = 5
  BY <1>3, <1>15
<1>17. /\ Cleaned[1] = [b |-> noted, s |-> safe] /\ Cleaned[2] = [b |-> noted, s |-> wiped] /\ Cleaned[3] = [b |-> done, s |-> wiped]
       /\ Cleaned[4] = [b |-> over, s |-> wiped] /\ Cleaned[5] = [b |-> over, s |-> swept]
  BY <1>3
<1>18. \A n \in 1..5 : Grown(Cleaned[n].b, Cleaned[n].s)
  <2>1. \A n \in 1..5 : n = 1 \/ n = 2 \/ n = 3 \/ n = 4 \/ n = 5
    OBVIOUS
  <2> QED
    BY <1>10, <1>11, <1>12, <1>13, <1>14, <1>17, <2>1
<1>19. Cleaned[5].b.rows = book.rows /\ \A c \in kept : c \notin Cleaned[5].s.raw
  BY <1>6, <1>7, <1>8, <1>17
<1> QED
  BY <1>16, <1>18, <1>19 DEF kept

\* clean() alone.
LEMMA MaintenanceStep ==
  ASSUME ControlsInv, Maintenance
  PROVE  ControlsInv'
<1>1. Commits(Cleaned) /\ Cleaned \in Seq(StoreCommit) /\ Len(Cleaned) = 5 /\ \A n \in 1..5 : Grown(Cleaned[n].b, Cleaned[n].s)
  BY CleanedKept DEF Maintenance
<1>2. DOMAIN Cleaned = 1..Len(Cleaned) /\ Len(Cleaned) \in Nat \ {0}
  BY <1>1, SequenceAsFunction
<1> QED
  BY <1>1, <1>2, CommitsKept

\* Three more commits after those of clean().
LEMMA FurtherCommits ==
  ASSUME ControlsInv, NEW x \in StoreCommit, NEW y \in StoreCommit, NEW z \in StoreCommit,
         Grown(x.b, x.s), Grown(y.b, y.s), Grown(z.b, z.s), Commits(Cleaned \o <<x, y, z>>)
  PROVE  ControlsInv'
<1> DEFINE more == <<x, y, z>>
           all == Cleaned \o more
<1>1. Cleaned \in Seq(StoreCommit) /\ Len(Cleaned) = 5 /\ \A n \in 1..5 : Grown(Cleaned[n].b, Cleaned[n].s)
  BY CleanedKept
<1>2. more \in Seq(StoreCommit) /\ Len(more) = 3 /\ more[1] = x /\ more[2] = y /\ more[3] = z
  OBVIOUS
<1>3. Commits(all)
  OBVIOUS
<1> HIDE DEF more
<1>4. /\ all \in Seq(StoreCommit) /\ Len(all) = 8
      /\ \A i \in 1..8 : all[i] = IF i <= 5 THEN Cleaned[i] ELSE more[i - 5]
  <2>1. /\ Cleaned \o more \in Seq(StoreCommit) /\ Len(Cleaned \o more) = Len(Cleaned) + Len(more)
        /\ \A i \in 1..Len(Cleaned) + Len(more) : (Cleaned \o more)[i] = IF i <= Len(Cleaned) THEN Cleaned[i] ELSE more[i - Len(Cleaned)]
    BY <1>1, <1>2, ConcatProperties
  <2> QED
    BY <1>1, <1>2, <2>1
<1> HIDE DEF all
<1>5. \A n \in 1..8 : Grown(all[n].b, all[n].s)
  <2>1. SUFFICES ASSUME NEW n \in 1..8 PROVE Grown(all[n].b, all[n].s)
    OBVIOUS
  <2>2. CASE n <= 5
    BY <1>1, <1>4, <2>2
  <2>3. CASE ~ (n <= 5)
    <3>1. n = 6 \/ n = 7 \/ n = 8
      BY <2>3
    <3>2. all[6] = x /\ all[7] = y /\ all[8] = z
      BY <1>2, <1>4
    <3> QED
      BY <3>1, <3>2
  <2> QED
    BY <2>2, <2>3
<1>6. DOMAIN all = 1..Len(all) /\ Len(all) \in Nat \ {0}
  BY <1>4, SequenceAsFunction
<1> QED
  BY <1>3, <1>4, <1>5, <1>6, CommitsKept

\* A question is imported after clean().
LEMMA ImportStep ==
  ASSUME ControlsInv, NEW c \in Controls, ImportQuestion(c)
  PROVE  ControlsInv'
<1> DEFINE b == Cleaned[5].b
           s == Cleaned[5].s
           g1 == [b.imports EXCEPT ![c] = "content_pending"]
           row == [b EXCEPT !.imports = g1]
           stored == [s EXCEPT !.raw = s.raw \cup {c}]
           g2 == [g1 EXCEPT ![c] = "available"]
           mine == [row EXCEPT !.imports = g2]
<1>1. Grown(b, s) /\ b \in Book /\ s \in Safe
  <2>1. Grown(Cleaned[5].b, Cleaned[5].s)
    BY CleanedKept
  <2> QED
    BY <2>1 DEF Grown, StoresKept
<1>2. clock < QuestionHours /\ c \notin s.tombs
  BY DEF ImportQuestion
<1>3. Commits(Cleaned \o <<[b |-> row, s |-> s], [b |-> row, s |-> stored], [b |-> mine, s |-> stored]>>)
  <2> DEFINE row0 == [b EXCEPT !.imports[c] = "content_pending"]
             mine0 == [row0 EXCEPT !.imports[c] = "available"]
  <2>1. Commits(Cleaned \o <<[b |-> row0, s |-> s], [b |-> row0, s |-> stored], [b |-> mine0, s |-> stored]>>)
    BY DEF ImportQuestion
  <2> HIDE DEF b, s
  <2>2. row0 = row /\ mine0 = mine
    BY <1>1 DEF Book
  <2> HIDE DEF row, row0, mine, mine0, stored
  <2> QED
    BY <2>1, <2>2
<1> HIDE DEF b, s
<1>4. \A d \in Controls : ControlKept(b, s, d)
  BY <1>1 DEF Grown, StoresKept
<1>5. /\ row \in Book /\ row.rows = b.rows /\ row.pending = b.pending /\ row.cursor = b.cursor /\ row.barrier = b.barrier /\ row.applied = b.applied
      /\ mine \in Book /\ mine.rows = b.rows /\ mine.pending = b.pending /\ mine.cursor = b.cursor /\ mine.barrier = b.barrier /\ mine.applied = b.applied
  <2>1. g1 \in [Controls -> {"none", "content_pending", "available", "suppressed", "expired"}]
    BY <1>1 DEF Book
  <2> HIDE DEF g1
  <2>2. g2 \in [Controls -> {"none", "content_pending", "available", "suppressed", "expired"}]
    BY <2>1
  <2> HIDE DEF g2
  <2>3. row \in Book /\ row.rows = b.rows /\ row.pending = b.pending /\ row.cursor = b.cursor /\ row.barrier = b.barrier /\ row.applied = b.applied
    BY <1>1, <2>1 DEF Book
  <2> HIDE DEF row
  <2>4. mine \in Book /\ mine.rows = row.rows /\ mine.pending = row.pending /\ mine.cursor = row.cursor /\ mine.barrier = row.barrier /\ mine.applied = row.applied
    BY <2>2, <2>3 DEF Book
  <2> QED
    BY <2>3, <2>4
<1>6. stored \in Safe /\ stored.raw = s.raw \cup {c} /\ stored.tombs = s.tombs
  BY <1>1 DEF Safe
<1> HIDE DEF row, mine, stored
<1>7. \A d \in Controls : b.rows[d] = "forgotten" => d \notin stored.raw
  <2>1. ~ (Retention <= clock)
    BY <1>2, AskControlsAssumption DEF ControlsInv
  <2> QED
    BY <1>4, <2>1 DEF ControlKept
<1>8. Grown(row, s)
  BY <1>1, <1>4, <1>5, GrownOn DEF ControlKept
<1>9. \A d \in Controls : /\ row.applied[d] # "none" => d \in Range(web.issued)
                          /\ row.applied[d] = "applied" => d \in stored.tombs \/ OverAt(d) <= clock
                          /\ ~ (d \in stored.raw /\ d \in stored.tombs)
  BY <1>2, <1>4, <1>5, <1>6 DEF ControlKept
<1>10. Grown(row, stored)
  BY <1>5, <1>6, <1>7, <1>8, <1>9, GrownOn
<1>11. Grown(mine, stored)
  BY <1>5, <1>6, <1>7, <1>9, <1>10, GrownOn
<1> DEFINE x == [b |-> row, s |-> s]
           y == [b |-> row, s |-> stored]
           z == [b |-> mine, s |-> stored]
<1>12. x \in StoreCommit /\ y \in StoreCommit /\ z \in StoreCommit
  BY <1>1, <1>5, <1>6 DEF StoreCommit
<1>13. Grown(x.b, x.s) /\ Grown(y.b, y.s) /\ Grown(z.b, z.s) /\ Commits(Cleaned \o <<x, y, z>>)
  BY <1>3, <1>8, <1>10, <1>11
<1> HIDE DEF x, y, z
<1> QED
  BY <1>12, <1>13, FurtherCommits

\* What is over is forgotten after clean().
LEMMA PruneStep ==
  ASSUME ControlsInv, PruneMetadata
  PROVE  ControlsInv'
<1> DEFINE b == Cleaned[5].b
           s == Cleaned[5].s
           over == {c \in Retained(b) : OverAt(c) <= clock}
           f == [c \in Controls |-> IF c \in over THEN "forgotten" ELSE b.rows[c]]
           pruned == [b EXCEPT !.rows = f, !.cursor = 0, !.barrier = NoBarrier]
           old == IF Retention <= clock THEN {c \in Controls : b.imports[c] # "none"} ELSE {}
           retired == {c \in Controls : b.applied[c] # "none" /\ OverAt(c) <= clock /\ c \notin Retained(pruned)}
           emptied == [raw |-> s.raw \ old, tombs |-> s.tombs \ retired]
           g == [c \in Controls |-> IF c \in old THEN "none" ELSE b.imports[c]]
           h == [c \in Controls |-> IF c \in retired THEN "none" ELSE b.applied[c]]
           gone == [pruned EXCEPT !.imports = g, !.applied = h]
<1>1. /\ Grown(b, s) /\ b \in Book /\ s \in Safe /\ b.rows = book.rows
      /\ \A c \in Retained(book) : c \notin s.raw
  <2>1. Grown(Cleaned[5].b, Cleaned[5].s) /\ Cleaned[5].b.rows = book.rows /\ \A c \in Retained(book) : c \notin Cleaned[5].s.raw
    BY CleanedKept
  <2> QED
    BY <2>1 DEF Grown, StoresKept
<1>2. \A c \in over : b.rows[c] = "acked"
  BY DEF PruneMetadata
<1>3. Commits(Cleaned \o <<[b |-> pruned, s |-> s], [b |-> pruned, s |-> emptied], [b |-> gone, s |-> emptied]>>)
  <2> DEFINE pruned0 == [b EXCEPT !.rows = [c \in Controls |-> IF c \in over THEN "forgotten" ELSE @[c]], !.cursor = 0, !.barrier = NoBarrier]
             retired0 == {c \in Controls : b.applied[c] # "none" /\ OverAt(c) <= clock /\ c \notin Retained(pruned0)}
             emptied0 == [raw |-> s.raw \ old, tombs |-> s.tombs \ retired0]
             gone0 == [pruned0 EXCEPT !.imports = [c \in Controls |-> IF c \in old THEN "none" ELSE @[c]],
                                      !.applied = [c \in Controls |-> IF c \in retired0 THEN "none" ELSE @[c]]]
  <2>1. Commits(Cleaned \o <<[b |-> pruned0, s |-> s], [b |-> pruned0, s |-> emptied0], [b |-> gone0, s |-> emptied0]>>)
    BY DEF PruneMetadata
  <2> HIDE DEF b, s
  <2>2. pruned0 = pruned
    OBVIOUS
  <2>3. retired0 = retired /\ emptied0 = emptied
    BY <2>2
  <2>4. pruned0.imports = b.imports /\ pruned0.applied = b.applied
    BY <1>1 DEF Book
  <2> HIDE DEF retired, retired0, pruned, pruned0, old
  <2>5. gone0 = gone
    BY <2>2, <2>3, <2>4
  <2> HIDE DEF emptied, emptied0, gone, gone0
  <2> QED
    BY <2>1, <2>2, <2>3, <2>5
<1> HIDE DEF b, s
<1>4. \A d \in Controls : ControlKept(b, s, d)
  BY <1>1 DEF Grown, StoresKept
<1>5. /\ f \in [Controls -> {"none", "recorded", "acked", "forgotten"}]
      /\ over \subseteq Controls /\ \A c \in over : c \in Retained(book) /\ OverAt(c) <= clock
      /\ \A c \in Controls : f[c] = IF c \in over THEN "forgotten" ELSE b.rows[c]
  BY <1>1 DEF Book, Retained
<1> HIDE DEF over, f
<1>6. NoBarrier \in [checked : Int, seen : Nat] /\ NoBarrier.seen = 0
  BY DEF NoBarrier
<1>7. /\ pruned \in Book /\ pruned.rows = f /\ pruned.pending = b.pending /\ pruned.cursor = 0 /\ pruned.barrier = NoBarrier
      /\ pruned.applied = b.applied /\ pruned.imports = b.imports
  BY <1>1, <1>5, <1>6 DEF Book
<1> HIDE DEF pruned
<1>8. \A c \in Controls : OverAt(c) <= clock => Retention <= clock
  <2>1. web.at \in [Controls -> 0..LastHour] /\ clock \in Int
    BY DEF ControlsInv, Web
  <2> QED
    BY <2>1, AskControlsAssumption DEF OverAt
<1>9. \A d \in Controls : ControlKept(pruned, s, d)
  BY <1>1, <1>2, <1>4, <1>5, <1>7, <1>8 DEF ControlKept
<1>10. Grown(pruned, s)
  <2>1. Len(web.issued) \in Nat /\ \A i \in 1..Len(web.issued) : web.issued[i] \in Controls
    BY DEF ControlsInv, Web
  <2>2. Seen(b, b.pending.after) /\ b.pending.after \in Nat
    BY <1>1 DEF Grown, StoresKept, Book
  <2>3. \A c \in Controls : b.rows[c] # "none" => f[c] # "none"
    BY <1>5
  <2>4. \A i \in 1..b.pending.after : i \in 1..Len(web.issued)
    BY <2>1, <2>2 DEF Seen
  <2>5. Seen(pruned, pruned.pending.after) /\ Seen(pruned, 0)
    BY <1>7, <2>1, <2>2, <2>3, <2>4 DEF Seen
  <2> QED
    BY <1>1, <1>6, <1>7, <1>9, <2>3, <2>5 DEF Grown, StoresKept
<1>11. emptied \in Safe /\ emptied.raw \subseteq s.raw /\ emptied.tombs = s.tombs \ retired
  BY <1>1 DEF Safe
<1>12. \A d \in Controls : d \in retired => OverAt(d) <= clock
  OBVIOUS
<1>13. h \in [Controls -> {"none", "pending", "applied"}] /\ \A d \in Controls : h[d] = IF d \in retired THEN "none" ELSE b.applied[d]
  BY <1>1 DEF Book
<1> HIDE DEF emptied, retired, h
<1>14. Grown(pruned, emptied)
  <2>1. \A d \in Controls : /\ pruned.applied[d] # "none" => d \in Range(web.issued)
                            /\ pruned.applied[d] = "applied" => d \in emptied.tombs \/ OverAt(d) <= clock
                            /\ pruned.rows[d] = "forgotten" => d \notin emptied.raw
                            /\ ~ (d \in emptied.raw /\ d \in emptied.tombs)
    BY <1>9, <1>11, <1>12 DEF ControlKept
  <2> QED
    BY <1>7, <1>10, <1>11, <2>1, GrownOn
<1>15. /\ gone \in Book /\ gone.rows = pruned.rows /\ gone.pending = pruned.pending /\ gone.cursor = pruned.cursor
       /\ gone.barrier = pruned.barrier /\ gone.applied = h
  <2>1. g \in [Controls -> {"none", "content_pending", "available", "suppressed", "expired"}]
    BY <1>1 DEF Book
  <2> HIDE DEF g
  <2> QED
    BY <1>7, <1>13, <2>1 DEF Book
<1> HIDE DEF gone
<1>16. Grown(gone, emptied)
  <2>1. \A d \in Controls : /\ gone.applied[d] # "none" => d \in Range(web.issued)
                            /\ gone.applied[d] = "applied" => d \in emptied.tombs \/ OverAt(d) <= clock
                            /\ gone.rows[d] = "forgotten" => d \notin emptied.raw
                            /\ ~ (d \in emptied.raw /\ d \in emptied.tombs)
    <3>1. \A d \in Controls : ControlKept(pruned, emptied, d)
      BY <1>14 DEF Grown, StoresKept
    <3> QED
      BY <1>7, <1>13, <1>15, <3>1 DEF ControlKept
  <2> QED
    BY <1>11, <1>14, <1>15, <2>1, GrownOn
<1> DEFINE x == [b |-> pruned, s |-> s]
           y == [b |-> pruned, s |-> emptied]
           z == [b |-> gone, s |-> emptied]
<1>17. x \in StoreCommit /\ y \in StoreCommit /\ z \in StoreCommit
  BY <1>1, <1>7, <1>11, <1>15 DEF StoreCommit
<1>18. Grown(x.b, x.s) /\ Grown(y.b, y.s) /\ Grown(z.b, z.s) /\ Commits(Cleaned \o <<x, y, z>>)
  BY <1>3, <1>10, <1>14, <1>16
<1> HIDE DEF x, y, z
<1> QED
  BY <1>17, <1>18, FurtherCommits

\* Every step of HQ, of the website and of time.
LEMMA ControlsStep ==
  ASSUME ControlsInv, [AskControlsNext]_controlVars
  PROVE  ControlsInv'
<1>1. CASE UNCHANGED controlVars
  <2>1. book' = book /\ safe' = safe /\ web' = web /\ clock' = clock
    BY <1>1 DEF controlVars
  <2>2. StoresKept(book, safe)'
    BY <2>1, StoresHold DEF ControlsInv
  <2>3. PageKept'
    BY <2>1 DEF ControlsInv, PageKept, Seen
  <2> QED
    BY <2>1, <2>2, <2>3 DEF ControlsInv
<1> QED
  BY <1>1, ControlsQuietStep, AcceptStep, MaintenanceStep, PruneStep, ServeStep, ImportStep DEF AskControlsNext

-----------------------------------------------------------------------------
(* The public components, and all types.                                   *)

\* The invariant of the public component that moves.
PublicInv ==
    /\ part = "public" => AskInv
    /\ part = "grants" => GrantsInv
    /\ part = "requests" => WireInv
    /\ part = "withdrawals" => ControlsInv

\* It holds at the start, whichever component it is.
LEMMA PublicStart == EffectsInit => PublicInv
BY AskStarts, GrantsStart, WireStarts, ControlsStart DEF EffectsInit, PublicInv

\* Every step keeps it, as no component touches another's state.
LEMMA PublicStep == PublicInv /\ [EffectsNext]_EffectsVars => PublicInv'
<1> SUFFICES ASSUME PublicInv, [EffectsNext]_EffectsVars PROVE PublicInv'
  OBVIOUS
<1>1. part' = part
  BY DEF EffectsNext, EffectsVars
<1>2. CASE part = "public"
  <2>1. AskInv /\ [AskNext]_askVars
    BY <1>2 DEF PublicInv, EffectsNext, EffectsVars
  <2> QED
    BY <1>1, <1>2, <2>1, AskStep DEF PublicInv
<1>3. CASE part = "grants"
  <2>1. GrantsInv /\ [AskGrantsNext]_grantVars
    BY <1>3 DEF PublicInv, EffectsNext, EffectsVars, publicVars
  <2> QED
    BY <1>1, <1>3, <2>1, GrantsStep DEF PublicInv
<1>4. CASE part = "requests"
  <2>1. WireInv /\ [AskWireNext]_wireVars
    BY <1>4 DEF PublicInv, EffectsNext, EffectsVars, publicVars
  <2> QED
    BY <1>1, <1>4, <2>1, WireStep DEF PublicInv
<1>5. CASE part = "withdrawals"
  <2>1. ControlsInv /\ [AskControlsNext]_controlVars
    BY <1>5 DEF PublicInv, EffectsNext, EffectsVars, publicVars
  <2> QED
    BY <1>1, <1>5, <2>1, ControlsStep DEF PublicInv
<1> QED
  BY <1>1, <1>2, <1>3, <1>4, <1>5 DEF PublicInv

\* A public answer is of a turn that ended and was counted, reaches the website
\* once and only while its question is not withdrawn; turns are charged in full
\* with room for their outcome; of the website HQ concludes only what it did;
\* and nothing that was withdrawn comes back: however the commits of HQ's stores
\* are cut off, whatever is lost on the way and however late it arrives.
THEOREM AnswersTrue == EffectsSpec => AskTrue
<1>1. PublicInv => (part = "public" => OnePublicTurn /\ AnswerAccounted)
  BY AskPromise DEF PublicInv
<1>2. PublicInv => (part = "grants" => ChargedTruly /\ RoomForOutcomes)
  BY GrantsPromise DEF PublicInv
<1>3. PublicInv => (part = "requests" => WireTrue)
  BY WirePromise DEF PublicInv
<1>4. PublicInv => (part = "withdrawals" => WithdrawnForGood)
  BY ControlsPromise DEF PublicInv
<1>5. PublicInv /\ [EffectsNext]_EffectsVars => [part = "public" => SentBeforeWithdrawal]_EffectsVars
  <2>1. SUFFICES ASSUME PublicInv, EffectsNext, part = "public" PROVE SentBeforeWithdrawal
    BY DEF EffectsVars
  <2>2. AskInv /\ [AskNext]_askVars
    BY <2>1 DEF PublicInv, EffectsNext
  <2> QED
    BY <2>2, AskSilent
<1> QED
  BY <1>1, <1>2, <1>3, <1>4, <1>5, PublicStart, PublicStep, PTL DEF EffectsSpec, AskTrue

\* Every component keeps its types: rows, journals and messages are what the
\* stores declare them to be, for any number of them.
THEOREM EffectsTyped == EffectsSpec => []EffectsTypeOK
<1>1. EffectsInv /\ PublicInv => EffectsTypeOK
  BY AskPromise, GrantsPromise, WirePromise, ControlsPromise
     DEF EffectsInv, InfraInv, BusinessInv, RemoteInv, ComputersInv, ResearchInv, ProvisionerInv, PublicInv, EffectsTypeOK
<1> QED
  BY <1>1, EffectsStart, EffectsStep, PublicStart, PublicStep, PTL DEF EffectsSpec
=============================================================================
