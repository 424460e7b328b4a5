-------------------------- MODULE CreditSupport_proof --------------------------
(***************************************************************************)
(* Proofs about CreditSupport: what the lock on the quote's row gives to   *)
(* forwards, resends and answers that overlap, for any number of offers,   *)
(* partners, links, answers and requests.                                  *)
(***************************************************************************)
EXTENDS CreditSupport, TLAPS

\* What a request remembers is still so; inside a transaction, all of it.
Remembers(w) ==
    LET r == req[w] IN
    /\ r.pc \notin {"idle", "forward"} => r.forward \in Used
    /\ r.pc = "forward" => r.offer \in Offers /\ \A f \in Active : offerOf[f] # r.offer
    /\ r.pc = "resend" => answers[r.forward] = 0
    /\ r.pc = "answer" => r.version = answers[r.forward]

\* Only forwards that exist have links and answers.
RowsInUse == known \subseteq Used /\ \A f \in Forwards : answers[f] > 0 => f \in Used

\* A request is about to tell the latest answer.
Telling(w, f) ==
    LET r == req[w] IN
    /\ r.forward = f
    /\ r.pc = "view" \/ (r.pc = "notify" /\ r.version = answers[f])

\* The latest answer is told, was lost, or is about to be told.
ToldOrTelling ==
    \A f \in Forwards :
        \/ answers[f] = 0 \/ answers[f] \in told[f] \/ f \in silent
        \/ \E w \in Workers : Telling(w, f)

Inv ==
    /\ TypeOK
    /\ \A w \in Workers : Remembers(w)
    /\ RowsInUse
    /\ AuditComplete
    /\ OneActiveUnlessRevived
    /\ ToldOrTelling

-----------------------------------------------------------------------------
(* Records and the lock.                                                   *)

LEMMA IdleTyped == Idle \in Works
BY DEF Idle, Works, Stages

\* Only the record of w changes.
LEMMA BecomesFrame ==
    ASSUME req \in [Workers -> Works], NEW w \in Workers, NEW r \in Works, Becomes(w, r)
    PROVE  /\ req' \in [Workers -> Works]
           /\ req'[w] = r
           /\ \A v \in Workers \ {w} : req'[v] = req[v]
BY DEF Becomes

\* Who takes the free lock is the only one inside a transaction.
LEMMA Locking ==
    ASSUME TypeOK, NEW w \in Workers, NEW r \in Works, Locks(w), Becomes(w, r),
           r.pc \in InTransaction
    PROVE  /\ lock' \in Workers \cup {"none"}
           /\ \A v \in Workers : lock' = v <=> req'[v].pc \in InTransaction
<1>1. \A v \in Workers : lock # v /\ req[v].pc \notin InTransaction
  BY CreditSupportAssumption DEF TypeOK, Locks, LockFree
<1> QED
  BY <1>1, BecomesFrame DEF TypeOK, Locks

\* After the commit nobody is inside one.
LEMMA Unlocking ==
    ASSUME TypeOK, NEW w \in Workers, NEW r \in Works, Unlocks, Becomes(w, r),
           req[w].pc \in InTransaction, r.pc \notin InTransaction
    PROVE  /\ lock' \in Workers \cup {"none"}
           /\ \A v \in Workers : lock' = v <=> req'[v].pc \in InTransaction
<1>1. \A v \in Workers \ {w} : lock # v /\ req[v].pc \notin InTransaction
  BY DEF TypeOK
<1>2. \A v \in Workers : lock' # v
  BY CreditSupportAssumption DEF Unlocks
<1> QED
  BY <1>1, <1>2, BecomesFrame DEF TypeOK, Unlocks

\* A step outside of transactions leaves the lock where it is.
LEMMA Outside ==
    ASSUME TypeOK, NEW w \in Workers, NEW r \in Works, lock' = lock, Becomes(w, r),
           req[w].pc \notin InTransaction, r.pc \notin InTransaction
    PROVE  /\ lock' \in Workers \cup {"none"}
           /\ \A v \in Workers : lock' = v <=> req'[v].pc \in InTransaction
BY BecomesFrame DEF TypeOK

\* While w is inside a transaction, nobody else is.
LEMMA Alone ==
    ASSUME TypeOK, NEW w \in Workers, req[w].pc \in InTransaction
    PROVE  \A v \in Workers \ {w} : req[v].pc \notin InTransaction
BY DEF TypeOK

\* What a request that did not take the step remembers.
LEMMA OthersRemember ==
    ASSUME NEW v \in Workers, Remembers(v), req'[v] = req[v], Used \subseteq Used',
           \/ req[v].pc \notin InTransaction
           \/ Active' \subseteq Active /\ offerOf' = offerOf /\ answers' = answers
    PROVE  Remembers(v)'
BY DEF Remembers, InTransaction

\* A step that loses nothing of what is told, of answers or of requests that tell.
LEMMA StillTelling ==
    ASSUME ToldOrTelling, NEW w \in Workers,
           answers' = answers, silent \subseteq silent',
           \A f \in Forwards : told[f] \subseteq told'[f],
           \A v \in Workers \ {w} : req'[v] = req[v],
           req[w].pc \notin {"view", "notify"}
    PROVE  ToldOrTelling'
<1> SUFFICES ASSUME NEW f \in Forwards,
                    answers[f] # 0, answers[f] \notin told[f], f \notin silent
             PROVE  \E v \in Workers : Telling(v, f)'
  BY DEF ToldOrTelling
<1>1. PICK v \in Workers : Telling(v, f)
  BY DEF ToldOrTelling
<1>2. v # w
  BY <1>1 DEF Telling
<1> QED
  BY <1>1, <1>2 DEF Telling

-----------------------------------------------------------------------------
(* Each action preserves the invariant.                                    *)

LEMMA InitKeeps == Init => Inv
<1> SUFFICES ASSUME Init PROVE Inv
  OBVIOUS
<1>1. \A w \in Workers : req[w] = Idle /\ Idle.pc = "idle"
  BY DEF Init, Idle
<1>2. TypeOK
  BY <1>1, IdleTyped, CreditSupportAssumption DEF Init, TypeOK, InTransaction
<1>3. \A w \in Workers : Remembers(w)
  BY <1>1 DEF Remembers
<1>4. Used = {} /\ RowsInUse /\ OneActiveUnlessRevived /\ ToldOrTelling
  BY DEF Init, Used, RowsInUse, Active, OneActiveUnlessRevived, ToldOrTelling
<1>5. AuditComplete
  <2>1. 1..0 = {}
    OBVIOUS
  <2> QED
    BY <2>1 DEF Init, AuditComplete
<1> QED
  BY <1>2, <1>3, <1>4, <1>5 DEF Inv

LEMMA ForwardReadKeeps ==
    ASSUME Inv, NEW w \in Workers, ForwardRead(w) PROVE Inv'
<1> USE DEF Inv
<1>1. PICK o \in Offers :
          /\ \A f \in Active : offerOf[f] # o
          /\ Becomes(w, [Idle EXCEPT !.pc = "forward", !.offer = o])
  BY DEF ForwardRead
<1> DEFINE r == [Idle EXCEPT !.pc = "forward", !.offer = o]
<1>2. r \in Works /\ r.pc = "forward" /\ r.offer = o
  BY IdleTyped DEF Idle, Works, Stages
<1>3. Becomes(w, r)
  BY <1>1
<1> HIDE DEF r
<1>4. /\ req' \in [Workers -> Works] /\ req'[w] = r
      /\ \A v \in Workers \ {w} : req'[v] = req[v]
  BY <1>2, <1>3, BecomesFrame DEF TypeOK
<1>5. Locks(w) /\ req[w].pc = "idle" /\ UNCHANGED <<quoteVars, rowVars, mailVars>>
  BY DEF ForwardRead, At
<1>6. Used' = Used /\ Active' = Active
  BY <1>5 DEF rowVars, Used, Active
<1>7. TypeOK'
  BY <1>2, <1>3, <1>4, <1>5, Locking DEF TypeOK, quoteVars, rowVars, mailVars, InTransaction
<1>8. ASSUME NEW v \in Workers PROVE Remembers(v)'
  <2>1. CASE v = w
    BY <2>1, <1>1, <1>2, <1>4, <1>5, <1>6 DEF Remembers, rowVars
  <2>2. CASE v # w
    BY <2>2, <1>4, <1>5, <1>6, OthersRemember DEF rowVars
  <2> QED
    BY <2>1, <2>2
<1>9. ToldOrTelling'
  BY <1>4, <1>5, StillTelling DEF rowVars, mailVars
<1> QED
  BY <1>5, <1>6, <1>7, <1>8, <1>9
     DEF RowsInUse, AuditComplete, OneActiveUnlessRevived, Same, rowVars, mailVars

LEMMA ForwardCommitKeeps ==
    ASSUME Inv, NEW w \in Workers, ForwardCommit(w) PROVE Inv'
<1> USE DEF Inv
<1>1. PICK f \in Forwards \ Used :
          /\ offerOf' = [offerOf EXCEPT ![f] = req[w].offer]
          /\ link' = [link EXCEPT ![f] = 1]
          /\ Becomes(w, [Idle EXCEPT !.pc = "mail", !.forward = f, !.link = 1, !.first = TRUE])
  BY DEF ForwardCommit
<1> DEFINE r == [Idle EXCEPT !.pc = "mail", !.forward = f, !.link = 1, !.first = TRUE]
<1>2. r \in Works /\ r.pc = "mail" /\ r.forward = f
  BY IdleTyped DEF Idle, Works, Stages
<1>3. Becomes(w, r)
  BY <1>1
<1> HIDE DEF r
<1>4. /\ req' \in [Workers -> Works] /\ req'[w] = r
      /\ \A v \in Workers \ {w} : req'[v] = req[v]
  BY <1>2, <1>3, BecomesFrame DEF TypeOK
<1>5. /\ Unlocks /\ req[w].pc = "forward"
      /\ UNCHANGED <<quoteVars, gone, expired, revoked, answers, audited, revived, mailVars>>
  BY DEF ForwardCommit, At
<1>6. req[w].offer \in Offers /\ \A g \in Active : offerOf[g] # req[w].offer
  BY <1>5 DEF Remembers
<1>7. /\ Used' = Used \cup {f} /\ Active' \subseteq Active \cup {f}
      /\ offerOf'[f] = req[w].offer
      /\ \A g \in Forwards \ {f} : offerOf'[g] = offerOf[g]
  BY <1>1, <1>5, <1>6, CreditSupportAssumption DEF TypeOK, Used, Active
<1>8. TypeOK'
  <2>1. /\ lock' \in Workers \cup {"none"}
        /\ \A v \in Workers : lock' = v <=> req'[v].pc \in InTransaction
    BY <1>2, <1>3, <1>5, Unlocking DEF InTransaction
  <2> QED
    BY <2>1, <1>1, <1>4, <1>5, <1>6 DEF TypeOK, quoteVars, mailVars
<1>9. ASSUME NEW v \in Workers PROVE Remembers(v)'
  <2>1. CASE v = w
    BY <2>1, <1>2, <1>4, <1>7 DEF Remembers
  <2>2. CASE v # w
    BY <2>2, <1>4, <1>5, <1>7, Alone, OthersRemember DEF InTransaction
  <2> QED
    BY <2>1, <2>2
<1>10. ToldOrTelling'
  BY <1>4, <1>5, StillTelling DEF mailVars
<1>11. RowsInUse'
  BY <1>5, <1>7 DEF RowsInUse, mailVars
<1>12. OneActiveUnlessRevived'
  <2>1. \A g \in Active : g # f /\ offerOf'[g] = offerOf[g]
    BY <1>1, <1>7 DEF Active, Used
  <2> QED
    BY <2>1, <1>5, <1>6, <1>7 DEF OneActiveUnlessRevived, Same
<1> QED
  BY <1>5, <1>8, <1>9, <1>10, <1>11, <1>12 DEF AuditComplete

LEMMA ResendReadKeeps ==
    ASSUME Inv, NEW w \in Workers, ResendRead(w) PROVE Inv'
<1> USE DEF Inv
<1>1. PICK f \in Used \ revoked :
          /\ answers[f] = 0
          /\ Becomes(w, [Idle EXCEPT !.pc = "resend", !.forward = f, !.link = link[f] + 1])
  BY DEF ResendRead
<1> DEFINE r == [Idle EXCEPT !.pc = "resend", !.forward = f, !.link = link[f] + 1]
<1>2. r \in Works /\ r.pc = "resend" /\ r.forward = f
  <2>1. f \in Forwards /\ link[f] + 1 \in Nat
    BY DEF Used, TypeOK
  <2> QED
    BY <2>1, IdleTyped DEF Idle, Works, Stages
<1>3. Becomes(w, r)
  BY <1>1
<1> HIDE DEF r
<1>4. /\ req' \in [Workers -> Works] /\ req'[w] = r
      /\ \A v \in Workers \ {w} : req'[v] = req[v]
  BY <1>2, <1>3, BecomesFrame DEF TypeOK
<1>5. Locks(w) /\ req[w].pc = "idle" /\ UNCHANGED <<quoteVars, rowVars, mailVars>>
  BY DEF ResendRead, At
<1>6. Used' = Used /\ Active' = Active
  BY <1>5 DEF rowVars, Used, Active
<1>7. TypeOK'
  BY <1>2, <1>3, <1>4, <1>5, Locking DEF TypeOK, quoteVars, rowVars, mailVars, InTransaction
<1>8. ASSUME NEW v \in Workers PROVE Remembers(v)'
  <2>1. CASE v = w
    BY <2>1, <1>1, <1>2, <1>4, <1>5, <1>6 DEF Remembers, rowVars
  <2>2. CASE v # w
    BY <2>2, <1>4, <1>5, <1>6, OthersRemember DEF rowVars
  <2> QED
    BY <2>1, <2>2
<1>9. ToldOrTelling'
  BY <1>4, <1>5, StillTelling DEF rowVars, mailVars
<1> QED
  BY <1>5, <1>6, <1>7, <1>8, <1>9
     DEF RowsInUse, AuditComplete, OneActiveUnlessRevived, Same, rowVars, mailVars

\* A forward that is active again after its deadline is a revived one.
LEMMA ResendCommitKeeps ==
    ASSUME Inv, NEW w \in Workers, ResendCommit(w) PROVE Inv'
<1> USE DEF Inv
<1> DEFINE f == req[w].forward
           r == [req[w] EXCEPT !.pc = "mail"]
<1>1. /\ req[w].pc = "resend" /\ Unlocks /\ Becomes(w, r)
      /\ link' = [link EXCEPT ![f] = req[w].link]
      /\ expired' = expired \ {f}
      /\ revived' = IF f \in expired THEN revived \cup {f} ELSE revived
      /\ known' = known \ {f}
      /\ UNCHANGED <<quoteVars, gone, offerOf, revoked, answers, audited, told, silent>>
  BY DEF ResendCommit, At
<1>2. r \in Works /\ r.pc = "mail" /\ r.forward = f /\ req[w].link \in Nat
  BY DEF TypeOK, Works, Stages
<1>3. f \in Used /\ f \in Forwards
  BY <1>1 DEF Remembers, Used
<1> HIDE DEF r, f
<1>4. /\ req' \in [Workers -> Works] /\ req'[w] = r
      /\ \A v \in Workers \ {w} : req'[v] = req[v]
  BY <1>1, <1>2, BecomesFrame DEF TypeOK
<1>5. Used' = Used
  BY <1>1 DEF Used
<1>6. TypeOK'
  <2>1. /\ lock' \in Workers \cup {"none"}
        /\ \A v \in Workers : lock' = v <=> req'[v].pc \in InTransaction
    BY <1>1, <1>2, Unlocking DEF InTransaction
  <2> QED
    BY <2>1, <1>1, <1>2, <1>3, <1>4 DEF TypeOK, quoteVars
<1>7. ASSUME NEW v \in Workers PROVE Remembers(v)'
  <2>1. CASE v = w
    BY <2>1, <1>2, <1>3, <1>4, <1>5 DEF Remembers
  <2>2. CASE v # w
    BY <2>2, <1>1, <1>4, <1>5, Alone, OthersRemember DEF InTransaction
  <2> QED
    BY <2>1, <2>2
<1>8. ToldOrTelling'
  BY <1>1, <1>4, StillTelling
<1>9. OneActiveUnlessRevived'
  <2>1. Active' \subseteq Active \cup {f} /\ (f \notin expired => Active' \subseteq Active)
    BY <1>1, <1>5 DEF Active
  <2>2. revived \subseteq revived' /\ (f \in expired => f \in revived')
    BY <1>1
  <2> QED
    BY <2>1, <2>2, <1>1 DEF OneActiveUnlessRevived, Same
<1> QED
  BY <1>1, <1>5, <1>6, <1>7, <1>8, <1>9 DEF RowsInUse, AuditComplete

\* Steps that leave a worker idle outside of transactions, and tell nothing.
LEMMA DoneKeeps ==
    ASSUME Inv, NEW w \in Workers, req[w].pc \in {"mail", "undo"}, Becomes(w, Idle),
           lock' = lock, known \subseteq known', known' \subseteq Used,
           revoked \subseteq revoked', revoked' \subseteq Forwards,
           UNCHANGED <<quoteVars, gone, offerOf, link, expired, answers, audited, revived,
                       told, silent>>
    PROVE  Inv'
<1> USE DEF Inv
<1>1. /\ req' \in [Workers -> Works] /\ req'[w] = Idle
      /\ \A v \in Workers \ {w} : req'[v] = req[v]
  BY IdleTyped, BecomesFrame DEF TypeOK
<1>2. Used' = Used /\ Active' \subseteq Active
  BY DEF Used, Active
<1>3. TypeOK'
  <2>1. /\ lock' \in Workers \cup {"none"}
        /\ \A v \in Workers : lock' = v <=> req'[v].pc \in InTransaction
    BY IdleTyped, Outside DEF InTransaction, Idle
  <2>2. known' \subseteq Forwards
    BY DEF Used
  <2> QED
    BY <2>1, <2>2, <1>1 DEF TypeOK, quoteVars
<1>4. ASSUME NEW v \in Workers PROVE Remembers(v)'
  <2>1. CASE v = w
    BY <2>1, <1>1 DEF Remembers, Idle
  <2>2. CASE v # w
    BY <2>2, <1>1, <1>2, OthersRemember
  <2> QED
    BY <2>1, <2>2
<1>5. ToldOrTelling'
  BY <1>1, StillTelling
<1> QED
  BY <1>2, <1>3, <1>4, <1>5 DEF RowsInUse, AuditComplete, OneActiveUnlessRevived, Same

LEMMA MailKeeps ==
    ASSUME Inv, NEW w \in Workers, Mail(w) PROVE Inv'
<1>1. req[w].pc = "mail" /\ req[w].forward \in Used
  BY DEF Mail, At, Inv, Remembers
<1>2. Delivered(w) \subseteq Used /\ known \subseteq Used /\ revoked \subseteq Forwards
  BY <1>1 DEF Delivered, Inv, RowsInUse, TypeOK
<1> QED
  BY <1>1, <1>2, DoneKeeps DEF Mail, rowVars

LEMMA UndoKeeps ==
    ASSUME Inv, NEW w \in Workers, Undo(w) PROVE Inv'
<1>1. req[w].pc = "undo" /\ req[w].forward \in Forwards
  BY DEF Undo, At, Inv, Remembers, Used
<1>2. known \subseteq Used /\ revoked \subseteq Forwards
  BY DEF Inv, RowsInUse, TypeOK
<1> QED
  BY <1>1, <1>2, DoneKeeps DEF Undo, mailVars

LEMMA MailFailsKeeps ==
    ASSUME Inv, NEW w \in Workers, MailFails(w) PROVE Inv'
<1>1. /\ req[w].pc = "mail" /\ req[w].forward \in Used /\ req[w] \in Works
      /\ UNCHANGED <<quoteVars, rowVars, told, silent, lock>>
  BY DEF MailFails, At, Inv, Remembers, TypeOK
<1>2. known \subseteq known' /\ known' \subseteq Used
  <2>1. Delivered(w) \subseteq Used /\ known \subseteq Used
    BY <1>1 DEF Delivered, Inv, RowsInUse
  <2> QED
    BY <2>1 DEF MailFails
<1>3. CASE req[w].first
  <2> DEFINE r == [req[w] EXCEPT !.pc = "undo"]
  <2>1. r \in Works /\ r.pc = "undo" /\ r.forward = req[w].forward
    BY <1>1 DEF Works, Stages
  <2>2. Becomes(w, r)
    BY <1>3 DEF MailFails
  <2> HIDE DEF r
  <2>3. /\ req' \in [Workers -> Works] /\ req'[w] = r
        /\ \A v \in Workers \ {w} : req'[v] = req[v]
    BY <2>1, <2>2, BecomesFrame DEF Inv, TypeOK
  <2>4. Used' = Used /\ Active' = Active
    BY <1>1 DEF rowVars, Used, Active
  <2>5. TypeOK'
    <3>1. /\ lock' \in Workers \cup {"none"}
          /\ \A v \in Workers : lock' = v <=> req'[v].pc \in InTransaction
      BY <1>1, <2>1, <2>2, Outside DEF Inv, InTransaction
    <3>2. known' \subseteq Forwards
      BY <1>2 DEF Used
    <3> QED
      BY <3>1, <3>2, <1>1, <2>3 DEF Inv, TypeOK, quoteVars, rowVars
  <2>6. ASSUME NEW v \in Workers PROVE Remembers(v)'
    <3>1. CASE v = w
      BY <3>1, <1>1, <2>1, <2>3, <2>4 DEF Remembers
    <3>2. CASE v # w
      BY <3>2, <1>1, <2>3, <2>4, OthersRemember DEF Inv, rowVars
    <3> QED
      BY <3>1, <3>2
  <2>7. ToldOrTelling'
    BY <1>1, <2>3, StillTelling DEF Inv, rowVars
  <2> QED
    BY <1>1, <1>2, <2>4, <2>5, <2>6, <2>7
       DEF Inv, RowsInUse, AuditComplete, OneActiveUnlessRevived, Same, rowVars
<1>4. CASE ~ req[w].first
  <2>1. Becomes(w, Idle)
    BY <1>4 DEF MailFails
  <2>2. revoked \subseteq Forwards
    BY DEF Inv, TypeOK
  <2> QED
    BY <2>1, <2>2, <1>1, <1>2, DoneKeeps DEF rowVars
<1> QED
  BY <1>3, <1>4

LEMMA SubmitReadKeeps ==
    ASSUME Inv, NEW w \in Workers, SubmitRead(w) PROVE Inv'
<1> USE DEF Inv
<1>1. PICK f \in known :
          Becomes(w, [Idle EXCEPT !.pc = "submit", !.forward = f, !.link = link[f]])
  BY DEF SubmitRead
<1> DEFINE r == [Idle EXCEPT !.pc = "submit", !.forward = f, !.link = link[f]]
<1>2. f \in Used /\ f \in Forwards /\ link[f] \in Nat
  BY DEF RowsInUse, Used, TypeOK
<1>3. r \in Works /\ r.pc = "submit" /\ r.forward = f
  BY <1>2, IdleTyped DEF Idle, Works, Stages
<1>4. Becomes(w, r)
  BY <1>1
<1> HIDE DEF r
<1>5. /\ req' \in [Workers -> Works] /\ req'[w] = r
      /\ \A v \in Workers \ {w} : req'[v] = req[v]
  BY <1>3, <1>4, BecomesFrame DEF TypeOK
<1>6. req[w].pc = "idle" /\ UNCHANGED <<quoteVars, rowVars, mailVars, lock>>
  BY DEF SubmitRead, At
<1>7. Used' = Used /\ Active' = Active
  BY <1>6 DEF rowVars, Used, Active
<1>8. TypeOK'
  <2>1. /\ lock' \in Workers \cup {"none"}
        /\ \A v \in Workers : lock' = v <=> req'[v].pc \in InTransaction
    BY <1>3, <1>4, <1>6, Outside DEF InTransaction
  <2> QED
    BY <2>1, <1>5, <1>6 DEF TypeOK, quoteVars, rowVars, mailVars
<1>9. ASSUME NEW v \in Workers PROVE Remembers(v)'
  <2>1. CASE v = w
    BY <2>1, <1>2, <1>3, <1>5, <1>7 DEF Remembers
  <2>2. CASE v # w
    BY <2>2, <1>5, <1>6, <1>7, OthersRemember DEF rowVars
  <2> QED
    BY <2>1, <2>2
<1>10. ToldOrTelling'
  BY <1>5, <1>6, StillTelling DEF rowVars, mailVars
<1> QED
  BY <1>6, <1>7, <1>8, <1>9, <1>10
     DEF RowsInUse, AuditComplete, OneActiveUnlessRevived, Same, rowVars, mailVars

LEMMA SubmitLockKeeps ==
    ASSUME Inv, NEW w \in Workers, SubmitLock(w) PROVE Inv'
<1> USE DEF Inv
<1> DEFINE f == req[w].forward
           r == [req[w] EXCEPT !.pc = "answer", !.version = answers[f]]
<1>1. /\ req[w].pc = "submit" /\ Locks(w) /\ Becomes(w, r)
      /\ UNCHANGED <<quoteVars, rowVars, mailVars>>
  BY DEF SubmitLock, At
<1>2. f \in Used /\ f \in Forwards /\ answers[f] \in Nat /\ req[w] \in Works
  BY <1>1 DEF Remembers, Used, TypeOK
<1>3. r \in Works /\ r.pc = "answer" /\ r.forward = f /\ r.version = answers[f]
  BY <1>2 DEF Works, Stages
<1> HIDE DEF r, f
<1>4. /\ req' \in [Workers -> Works] /\ req'[w] = r
      /\ \A v \in Workers \ {w} : req'[v] = req[v]
  BY <1>1, <1>3, BecomesFrame DEF TypeOK
<1>5. Used' = Used /\ Active' = Active
  BY <1>1 DEF rowVars, Used, Active
<1>6. TypeOK'
  BY <1>1, <1>3, <1>4, Locking DEF TypeOK, quoteVars, rowVars, mailVars, InTransaction
<1>7. ASSUME NEW v \in Workers PROVE Remembers(v)'
  <2>1. CASE v = w
    BY <2>1, <1>1, <1>2, <1>3, <1>4, <1>5 DEF Remembers, rowVars
  <2>2. CASE v # w
    BY <2>2, <1>1, <1>4, <1>5, OthersRemember DEF rowVars
  <2> QED
    BY <2>1, <2>2
<1>8. ToldOrTelling'
  BY <1>1, <1>4, StillTelling DEF rowVars, mailVars
<1> QED
  BY <1>1, <1>5, <1>6, <1>7, <1>8
     DEF RowsInUse, AuditComplete, OneActiveUnlessRevived, Same, rowVars, mailVars

\* The version that the audit log names is the one the row counts.
LEMMA SubmitCommitKeeps ==
    ASSUME Inv, NEW w \in Workers, SubmitCommit(w) PROVE Inv'
<1> USE DEF Inv
<1> DEFINE f == req[w].forward
           r == [req[w] EXCEPT !.pc = "view"]
<1>1. /\ req[w].pc = "answer" /\ Unlocks /\ Becomes(w, r)
      /\ answers' = [answers EXCEPT ![f] = @ + 1]
      /\ audited' = [audited EXCEPT ![f] = @ \cup {req[w].version + 1}]
      /\ UNCHANGED <<quoteVars, gone, offerOf, link, expired, revoked, revived, mailVars>>
  BY DEF SubmitCommit, At
<1>2. /\ f \in Used /\ f \in Forwards /\ answers[f] \in Nat /\ req[w] \in Works
      /\ req[w].version = answers[f]
  BY <1>1 DEF Remembers, Used, TypeOK
<1>3. r \in Works /\ r.pc = "view" /\ r.forward = f
  BY <1>2 DEF Works, Stages
<1> HIDE DEF r, f
<1>4. /\ req' \in [Workers -> Works] /\ req'[w] = r
      /\ \A v \in Workers \ {w} : req'[v] = req[v]
  BY <1>1, <1>3, BecomesFrame DEF TypeOK
<1>5. Used' = Used /\ Active' = Active
  BY <1>1 DEF Used, Active
<1>6. /\ answers' \in [Forwards -> Nat] /\ audited' \in [Forwards -> SUBSET Nat]
      /\ answers'[f] = answers[f] + 1
      /\ audited'[f] = audited[f] \cup {answers[f] + 1}
      /\ \A g \in Forwards \ {f} : answers'[g] = answers[g] /\ audited'[g] = audited[g]
  BY <1>1, <1>2 DEF TypeOK
<1>7. TypeOK'
  <2>1. /\ lock' \in Workers \cup {"none"}
        /\ \A v \in Workers : lock' = v <=> req'[v].pc \in InTransaction
    BY <1>1, <1>3, Unlocking DEF InTransaction
  <2> QED
    BY <2>1, <1>1, <1>4, <1>6 DEF TypeOK, quoteVars, mailVars
<1>8. ASSUME NEW v \in Workers PROVE Remembers(v)'
  <2>1. CASE v = w
    BY <2>1, <1>2, <1>3, <1>4, <1>5 DEF Remembers
  <2>2. CASE v # w
    BY <2>2, <1>1, <1>4, <1>5, Alone, OthersRemember DEF InTransaction
  <2> QED
    BY <2>1, <2>2
<1>9. AuditComplete'
  <2>1. ASSUME NEW n \in Nat PROVE 1..(n + 1) = (1..n) \cup {n + 1}
    OBVIOUS
  <2>2. audited[f] = 1..answers[f]
    BY <1>2 DEF AuditComplete
  <2>3. audited'[f] = 1..answers'[f]
    BY <2>1, <2>2, <1>2, <1>6
  <2> QED
    BY <2>3, <1>6 DEF AuditComplete
<1>10. ToldOrTelling'
  <2> SUFFICES ASSUME NEW g \in Forwards,
                      ~ (answers[g] = 0 \/ answers[g] \in told[g] \/ g \in silent)', g # f
               PROVE  \E v \in Workers : Telling(v, g)'
    BY <1>3, <1>4 DEF ToldOrTelling, Telling
  <2>1. PICK v \in Workers : Telling(v, g)
    BY <1>1, <1>6 DEF ToldOrTelling, mailVars
  <2>2. v # w
    BY <2>1, <1>1 DEF Telling
  <2> QED
    BY <2>1, <2>2, <1>4, <1>6 DEF Telling
<1>11. RowsInUse'
  BY <1>1, <1>2, <1>5, <1>6 DEF RowsInUse, mailVars
<1> QED
  BY <1>1, <1>5, <1>7, <1>8, <1>9, <1>10, <1>11 DEF OneActiveUnlessRevived, Same

LEMMA ViewKeeps ==
    ASSUME Inv, NEW w \in Workers, View(w) PROVE Inv'
<1> USE DEF Inv
<1> DEFINE f == req[w].forward
           r == [req[w] EXCEPT !.pc = "notify", !.version = answers[f]]
<1>1. /\ req[w].pc = "view" /\ Becomes(w, r)
      /\ UNCHANGED <<quoteVars, rowVars, mailVars, lock>>
  BY DEF View, Viewed, At
<1>2. f \in Used /\ f \in Forwards /\ answers[f] \in Nat /\ req[w] \in Works
  BY <1>1 DEF Remembers, Used, TypeOK
<1>3. r \in Works /\ r.pc = "notify" /\ r.forward = f /\ r.version = answers[f]
  BY <1>2 DEF Works, Stages
<1>4. f = req[w].forward
  OBVIOUS
<1> HIDE DEF r, f
<1>5. /\ req' \in [Workers -> Works] /\ req'[w] = r
      /\ \A v \in Workers \ {w} : req'[v] = req[v]
  BY <1>1, <1>3, BecomesFrame DEF TypeOK
<1>6. Used' = Used /\ Active' = Active
  BY <1>1 DEF rowVars, Used, Active
<1>7. TypeOK'
  <2>1. /\ lock' \in Workers \cup {"none"}
        /\ \A v \in Workers : lock' = v <=> req'[v].pc \in InTransaction
    BY <1>1, <1>3, Outside DEF InTransaction
  <2> QED
    BY <2>1, <1>1, <1>5 DEF TypeOK, quoteVars, rowVars, mailVars
<1>8. ASSUME NEW v \in Workers PROVE Remembers(v)'
  <2>1. CASE v = w
    BY <2>1, <1>2, <1>3, <1>5, <1>6 DEF Remembers
  <2>2. CASE v # w
    BY <2>2, <1>1, <1>5, <1>6, OthersRemember DEF rowVars
  <2> QED
    BY <2>1, <2>2
<1>9. ToldOrTelling'
  <2> SUFFICES ASSUME NEW g \in Forwards,
                      ~ (answers[g] = 0 \/ answers[g] \in told[g] \/ g \in silent)
               PROVE  \E v \in Workers : Telling(v, g)'
    BY <1>1 DEF ToldOrTelling, rowVars, mailVars
  <2>1. PICK v \in Workers : Telling(v, g)
    BY DEF ToldOrTelling
  <2>2. CASE v = w
    BY <2>1, <2>2, <1>1, <1>3, <1>4, <1>5 DEF Telling, rowVars
  <2>3. CASE v # w
    BY <2>1, <2>3, <1>1, <1>5 DEF Telling, rowVars
  <2> QED
    BY <2>2, <2>3
<1> QED
  BY <1>1, <1>6, <1>7, <1>8, <1>9
     DEF RowsInUse, AuditComplete, OneActiveUnlessRevived, Same, rowVars, mailVars

\* A request that ends without having told the answer it was about leaves the
\* forward among those that lost a mail.
LEMMA EndsKeeps ==
    ASSUME Inv, NEW w \in Workers, Becomes(w, Idle),
           lock' = (IF lock = w THEN "none" ELSE lock),
           silent \subseteq silent', silent' \subseteq Forwards,
           told' \in [Forwards -> SUBSET Nat],
           \A f \in Forwards : told[f] \subseteq told'[f],
           \A f \in Forwards : Telling(w, f) => answers[f] \in told'[f] \/ f \in silent',
           UNCHANGED <<quoteVars, rowVars, known>>
    PROVE  Inv'
<1> USE DEF Inv
<1>1. /\ req' \in [Workers -> Works] /\ req'[w] = Idle
      /\ \A v \in Workers \ {w} : req'[v] = req[v]
  BY IdleTyped, BecomesFrame DEF TypeOK
<1>2. Used' = Used /\ Active' = Active
  BY DEF rowVars, Used, Active
<1>3. TypeOK'
  <2>1. \A v \in Workers : lock' = v <=> req'[v].pc \in InTransaction
    <3>1. \A v \in Workers \ {w} : lock' = v <=> lock = v
      BY CreditSupportAssumption
    <3>2. lock' # w /\ req'[w].pc \notin InTransaction
      BY <1>1, CreditSupportAssumption DEF Idle, InTransaction
    <3> QED
      BY <3>1, <3>2, <1>1 DEF TypeOK
  <2>2. lock' \in Workers \cup {"none"}
    BY DEF TypeOK
  <2> QED
    BY <2>1, <2>2, <1>1 DEF TypeOK, quoteVars, rowVars
<1>4. ASSUME NEW v \in Workers PROVE Remembers(v)'
  <2>1. CASE v = w
    BY <2>1, <1>1 DEF Remembers, Idle
  <2>2. CASE v # w
    BY <2>2, <1>1, <1>2, OthersRemember DEF rowVars
  <2> QED
    BY <2>1, <2>2
<1>5. ToldOrTelling'
  <2> SUFFICES ASSUME NEW g \in Forwards,
                      ~ (answers[g] = 0 \/ answers[g] \in told'[g] \/ g \in silent')
               PROVE  \E v \in Workers : Telling(v, g)'
    BY DEF ToldOrTelling, rowVars
  <2>1. PICK v \in Workers : Telling(v, g)
    BY DEF ToldOrTelling
  <2>2. v # w
    BY <2>1
  <2> QED
    BY <2>1, <2>2, <1>1 DEF Telling, rowVars
<1> QED
  BY <1>2, <1>3, <1>4, <1>5
     DEF RowsInUse, AuditComplete, OneActiveUnlessRevived, Same, rowVars

LEMMA NotifyKeeps ==
    ASSUME Inv, NEW w \in Workers, Notify(w) PROVE Inv'
<1> DEFINE f == req[w].forward
<1>1. /\ req[w].pc = "notify" /\ Becomes(w, Idle) /\ req[w] \in Works
      /\ UNCHANGED <<quoteVars, rowVars, known, lock>>
      /\ \/ told' = [told EXCEPT ![f] = @ \cup {req[w].version}] /\ UNCHANGED silent
         \/ silent' = silent \cup {f} /\ UNCHANGED told
  BY DEF Notify, At, Inv, TypeOK
<1>2. f \in Forwards /\ req[w].version \in Nat
  BY <1>1 DEF Inv, Remembers, Used, Works
<1>3. lock # w
  BY <1>1 DEF Inv, TypeOK, InTransaction
<1>4. /\ silent \subseteq silent' /\ silent' \subseteq Forwards
      /\ told' \in [Forwards -> SUBSET Nat]
      /\ \A g \in Forwards : told[g] \subseteq told'[g]
  BY <1>1, <1>2 DEF Inv, TypeOK
<1>5. ASSUME NEW g \in Forwards, Telling(w, g)
      PROVE  answers[g] \in told'[g] \/ g \in silent'
  <2>1. g = f /\ req[w].version = answers[g]
    BY <1>1, <1>5 DEF Telling
  <2> QED
    BY <2>1, <1>1, <1>2 DEF Inv, TypeOK
<1> QED
  BY <1>1, <1>3, <1>4, <1>5, EndsKeeps

LEMMA AbortKeeps ==
    ASSUME Inv, NEW w \in Workers, Abort(w) PROVE Inv'
<1>1. /\ Becomes(w, Idle) /\ req[w].pc # "idle"
      /\ lock' = (IF lock = w THEN "none" ELSE lock)
      /\ silent' = IF req[w].pc \in {"view", "notify"} THEN silent \cup {req[w].forward} ELSE silent
      /\ UNCHANGED <<quoteVars, rowVars, known, told>>
  BY DEF Abort, At
<1>2. req[w].pc \in {"view", "notify"} => req[w].forward \in Forwards
  BY DEF Inv, Remembers, Used
<1>3. silent \subseteq silent' /\ silent' \subseteq Forwards
  BY <1>1, <1>2 DEF Inv, TypeOK
<1>4. told' \in [Forwards -> SUBSET Nat] /\ \A f \in Forwards : told[f] \subseteq told'[f]
  BY <1>1 DEF Inv, TypeOK
<1>5. \A f \in Forwards : Telling(w, f) => answers[f] \in told'[f] \/ f \in silent'
  BY <1>1 DEF Telling
<1> QED
  BY <1>1, <1>3, <1>4, <1>5, EndsKeeps

\* Revocations, the clock and what happens to the quote take no lock and only
\* make forwards inactive.
LEMMA AroundKeeps ==
    ASSUME Inv, open' \in BOOLEAN, removed' \in BOOLEAN, gone' \subseteq Partners,
           revoked \subseteq revoked', revoked' \subseteq Forwards,
           expired \subseteq expired', expired' \subseteq Forwards,
           UNCHANGED <<offerOf, link, answers, audited, revived, mailVars, lock, req>>
    PROVE  Inv'
<1> USE DEF Inv
<1>1. Used' = Used /\ Active' \subseteq Active
  BY DEF Used, Active
<1>2. TypeOK'
  BY DEF TypeOK, mailVars
<1>3. ASSUME NEW v \in Workers PROVE Remembers(v)'
  BY <1>1, OthersRemember
<1>4. ToldOrTelling'
  BY DEF ToldOrTelling, Telling, mailVars
<1> QED
  BY <1>1, <1>2, <1>3, <1>4
     DEF RowsInUse, AuditComplete, OneActiveUnlessRevived, Same, mailVars

LEMMA EnvironmentKeeps ==
    ASSUME Inv,
           \/ \E f \in Forwards : Revoke(f) \/ Expire(f)
           \/ \E p \in Partners : RemovePartner(p)
           \/ Close \/ Reopen \/ RemoveQuote
    PROVE  Inv'
<1> USE DEF Inv
<1>1. ASSUME NEW f \in Forwards, Revoke(f) PROVE Inv'
  <2>1. revoked' \subseteq Forwards /\ revoked \subseteq revoked'
    BY <1>1 DEF Revoke, TypeOK
  <2>2. gone' \subseteq Partners /\ expired' = expired /\ expired \subseteq Forwards
    BY <1>1 DEF Revoke, TypeOK
  <2> QED
    BY <2>1, <2>2, <1>1, AroundKeeps DEF Revoke, TypeOK, quoteVars
<1>2. ASSUME NEW f \in Forwards, Expire(f) PROVE Inv'
  <2>1. expired' \subseteq Forwards /\ expired \subseteq expired'
    BY <1>2 DEF Expire, TypeOK
  <2>2. gone' \subseteq Partners /\ revoked' = revoked /\ revoked \subseteq Forwards
    BY <1>2 DEF Expire, TypeOK
  <2> QED
    BY <2>1, <2>2, <1>2, AroundKeeps DEF Expire, TypeOK, quoteVars
<1>3. ASSUME NEW p \in Partners, RemovePartner(p) PROVE Inv'
  <2>1. revoked' \subseteq Forwards /\ revoked \subseteq revoked'
    BY <1>3 DEF RemovePartner, TypeOK, Used
  <2>2. gone' \subseteq Partners /\ expired' = expired /\ expired \subseteq Forwards
    BY <1>3 DEF RemovePartner, TypeOK
  <2> QED
    BY <2>1, <2>2, <1>3, AroundKeeps DEF RemovePartner, TypeOK, quoteVars
<1>4. ASSUME Close \/ Reopen \/ RemoveQuote PROVE Inv'
  <2>1. open' \in BOOLEAN /\ removed' \in BOOLEAN /\ UNCHANGED <<rowVars, mailVars, lock, req>>
    BY <1>4 DEF Close, Reopen, RemoveQuote, TypeOK
  <2>2. revoked \subseteq Forwards /\ expired \subseteq Forwards /\ gone \subseteq Partners
    BY DEF TypeOK
  <2> QED
    BY <2>1, <2>2, AroundKeeps DEF rowVars
<1> QED
  BY <1>1, <1>2, <1>3, <1>4

-----------------------------------------------------------------------------
(* The theorems.                                                           *)

LEMMA StutterKeeps == Inv /\ UNCHANGED vars => Inv'
BY DEF Inv, vars, quoteVars, rowVars, mailVars, TypeOK, Remembers, RowsInUse, Used, Active,
       AuditComplete, OneActiveUnlessRevived, Same, ToldOrTelling, Telling

LEMMA NextKeeps == Inv /\ [Next]_vars => Inv'
<1> SUFFICES ASSUME Inv, [Next]_vars PROVE Inv'
  OBVIOUS
<1>1. ASSUME NEW w \in Workers, Step(w) PROVE Inv'
  BY <1>1, ForwardReadKeeps, ForwardCommitKeeps, ResendReadKeeps, ResendCommitKeeps,
     MailKeeps, MailFailsKeeps, UndoKeeps, SubmitReadKeeps, SubmitLockKeeps,
     SubmitCommitKeeps, ViewKeeps, NotifyKeeps, AbortKeeps DEF Step
<1>2. CASE UNCHANGED vars
  BY <1>2, StutterKeeps
<1> QED
  BY <1>1, <1>2, EnvironmentKeeps DEF Next

LEMMA Always == Spec => []Inv
BY InitKeeps, NextKeeps, PTL DEF Spec

\* Rows and requests keep their types, and only who is inside a transaction
\* holds the lock.
THEOREM TypeCorrect == Spec => []TypeOK
<1>1. Inv => TypeOK
  BY DEF Inv
<1> QED
  BY <1>1, Always, PTL

\* The audit log has every version of every answer (CreditPortalService.submit).
THEOREM AuditIsComplete == Spec => []AuditComplete
<1>1. Inv => AuditComplete
  BY DEF Inv
<1> QED
  BY <1>1, Always, PTL

\* Two forwards of a proposal to a partner that overlap do not both become
\* active (CreditSupportService.forward).
THEOREM ForwardsDoNotDouble == Spec => []OneActiveUnlessRevived
<1>1. Inv => OneActiveUnlessRevived
  BY DEF Inv
<1> QED
  BY <1>1, Always, PTL

\* When all is done, the latest answer was told (notifyBuyerOfPartnerResponse).
THEOREM LatestAnswerIsTold == Spec => []LatestAnswerTold
<1>1. Inv => LatestAnswerTold
  BY DEF Inv, ToldOrTelling, Telling, LatestAnswerTold, At
<1> QED
  BY <1>1, Always, PTL

\* The link of an answered forward stays (CreditSupportService.resend).
THEOREM AnsweredLinkStays == Spec => AnsweredKeepsItsLink
<1>1. ASSUME Inv, [Next]_vars
      PROVE  [\A f \in Forwards : answers[f] > 0 => link'[f] = link[f]]_vars
  <2> SUFFICES ASSUME Next, NEW g \in Forwards, answers[g] > 0 PROVE link'[g] = link[g]
    BY <1>1
  <2>1. ASSUME NEW w \in Workers, ForwardCommit(w) PROVE link'[g] = link[g]
    <3>1. g \in Used
      BY <1>1 DEF Inv, RowsInUse
    <3> QED
      BY <3>1, <2>1, <1>1 DEF ForwardCommit, Inv, TypeOK
  <2>2. ASSUME NEW w \in Workers, ResendCommit(w) PROVE link'[g] = link[g]
    <3>1. answers[req[w].forward] = 0
      BY <2>2, <1>1 DEF ResendCommit, At, Inv, Remembers
    <3> QED
      BY <3>1, <2>2, <1>1 DEF ResendCommit, Inv, TypeOK
  <2>3. CASE UNCHANGED link
    BY <2>3
  <2>4. ASSUME NEW w \in Workers, Step(w), ~ ForwardCommit(w), ~ ResendCommit(w)
        PROVE  UNCHANGED link
    BY <2>4 DEF Step, ForwardRead, ResendRead, Mail, MailFails, Undo, SubmitRead, SubmitLock,
       SubmitCommit, View, Notify, Abort, rowVars
  <2>5. ASSUME ~ \E w \in Workers : Step(w) PROVE UNCHANGED link
    BY <2>5 DEF Next, Revoke, Expire, RemovePartner, Close, Reopen, RemoveQuote, rowVars
  <2> QED
    BY <2>1, <2>2, <2>3, <2>4, <2>5
<1> QED
  BY <1>1, Always, PTL DEF Spec, AnsweredKeepsItsLink

\* A revoked forward takes no answer (the WHERE of CreditPortalService.submit).
THEOREM RevokedIsClosed == Spec => RevokedTakesNothing
<1>1. ASSUME Inv, [Next]_vars
      PROVE  [\A f \in revoked : answers'[f] = answers[f]]_vars
  <2> SUFFICES ASSUME Next, NEW g \in revoked PROVE answers'[g] = answers[g]
    BY <1>1
  <2>1. ASSUME NEW w \in Workers, SubmitCommit(w) PROVE answers'[g] = answers[g]
    BY <2>1, <1>1 DEF SubmitCommit, Accepts, Inv, TypeOK
  <2>2. CASE UNCHANGED answers
    BY <2>2
  <2>3. ASSUME NEW w \in Workers, Step(w), ~ SubmitCommit(w) PROVE UNCHANGED answers
    BY <2>3 DEF Step, ForwardRead, ForwardCommit, ResendRead, ResendCommit, Mail, MailFails,
       Undo, SubmitRead, SubmitLock, View, Notify, Abort, rowVars
  <2>4. ASSUME ~ \E w \in Workers : Step(w) PROVE UNCHANGED answers
    BY <2>4 DEF Next, Revoke, Expire, RemovePartner, Close, Reopen, RemoveQuote, rowVars
  <2> QED
    BY <2>1, <2>2, <2>3, <2>4
<1> QED
  BY <1>1, Always, PTL DEF Spec, RevokedTakesNothing
-----------------------------------------------------------------------------
(* The refinement of CreditDialogue.                                       *)

\* What a request relies on besides: a transaction is about a quote that takes
\* answers, a new link is the next one, who submits through the valid link got
\* it by mail, and what is reported was committed.
Relies(w) ==
    LET r == req[w] IN
    /\ r.pc \in InTransaction => TakesAnswers
    /\ r.pc = "resend" => r.link = link[r.forward] + 1
    /\ r.pc \in {"submit", "answer"} =>
          /\ r.link <= link[r.forward]
          /\ r.link = link[r.forward] => r.forward \in known
    /\ r.pc = "view" => answers[r.forward] > 0
    /\ r.pc = "notify" => r.version \in 1..answers[r.forward]

EndsInUse == revoked \cup expired \subseteq Used
ToldIsThere == \A f \in Forwards : told[f] \subseteq 1..answers[f]

DialogueInv ==
    /\ Inv
    /\ \A w \in Workers : Relies(w)
    /\ EndsInUse
    /\ ToldIsThere

LEMMA Replaced ==
    ASSUME req \in [Workers -> Works], NEW w \in Workers, NEW r, Becomes(w, r)
    PROVE  /\ req'[w] = r
           /\ \A v \in Workers \ {w} : req'[v] = req[v]
BY DEF Becomes

\* Links are only ever replaced by newer ones, answers only become more.
LEMMA OthersRely ==
    ASSUME TypeOK, link' \in [Forwards -> Nat], answers' \in [Forwards -> Nat],
           NEW v \in Workers, Remembers(v), Relies(v), req'[v] = req[v],
           \A g \in Used : answers[g] <= answers'[g],
           \A g \in Used : \/ link'[g] = link[g] /\ (g \in known => g \in known')
                           \/ link'[g] > link[g],
           req[v].pc \in InTransaction => UNCHANGED link /\ TakesAnswers'
    PROVE  Relies(v)'
<1> DEFINE r == req[v]
           f == r.forward
<1>1. r.link \in Nat /\ r.version \in Nat /\ f \in Forwards \cup {"none"}
  BY DEF TypeOK, Works
<1>2. CASE r.pc \in {"idle", "forward"}
  BY <1>2 DEF Relies, InTransaction
<1>3. CASE r.pc \notin {"idle", "forward"}
  <2>1. f \in Used /\ f \in Forwards
    BY <1>3 DEF Remembers, Used
  <2>2. /\ link[f] \in Nat /\ link'[f] \in Nat /\ answers[f] \in Nat /\ answers'[f] \in Nat
        /\ answers[f] <= answers'[f]
    BY <2>1 DEF TypeOK
  <2>3. r.pc \in InTransaction => TakesAnswers'
    OBVIOUS
  <2>4. r.pc = "resend" => r.link = link'[f] + 1
    BY DEF Relies, InTransaction
  <2>5. r.pc \in {"submit", "answer"} =>
          /\ r.link <= link'[f]
          /\ r.link = link'[f] => f \in known'
    BY <1>1, <2>1, <2>2 DEF Relies
  <2>6. r.pc = "view" => answers'[f] > 0
    BY <2>2 DEF Relies
  <2>7. r.pc = "notify" => r.version \in 1..answers'[f]
    BY <1>1, <2>2 DEF Relies
  <2> QED
    BY <2>3, <2>4, <2>5, <2>6, <2>7 DEF Relies
<1> QED
  BY <1>2, <1>3

LEMMA DialogueInit == Init => DialogueInv
<1> SUFFICES ASSUME Init PROVE DialogueInv
  OBVIOUS
<1>1. \A w \in Workers : Relies(w)
  BY DEF Init, Idle, Relies, InTransaction
<1>2. EndsInUse /\ ToldIsThere
  BY DEF Init, EndsInUse, ToldIsThere
<1> QED
  BY <1>1, <1>2, InitKeeps DEF DialogueInv

\* A step of w that changes neither links, answers nor what is told.
LEMMA QuietRelies ==
    ASSUME DialogueInv, NEW w \in Workers, NEW r, Becomes(w, r),
           UNCHANGED <<quoteVars, link, answers, told>>, known \subseteq known',
           Used \subseteq Used', revoked' \cup expired' \subseteq Used',
           Relies(w)'
    PROVE  (\A v \in Workers : Relies(v))' /\ EndsInUse' /\ ToldIsThere'
<1>1. \A v \in Workers \ {w} : req'[v] = req[v]
  BY Replaced DEF DialogueInv, Inv, TypeOK
<1>2. /\ link \in [Forwards -> Nat] /\ answers \in [Forwards -> Nat]
      /\ \A g \in Used : answers[g] \in Nat
  BY DEF DialogueInv, Inv, TypeOK, Used
<1>3. \A g \in Used : answers[g] <= answers'[g]
  BY <1>2
<1>4. ASSUME NEW v \in Workers \ {w} PROVE Relies(v)'
  <2>1. Relies(v) /\ Remembers(v) /\ TypeOK /\ req'[v] = req[v]
    BY <1>1 DEF DialogueInv, Inv
  <2>2. req[v].pc \in InTransaction => UNCHANGED link /\ TakesAnswers'
    BY <2>1 DEF Relies, TakesAnswers, quoteVars
  <2> QED
    BY <1>2, <1>3, <2>1, <2>2, OthersRely
<1> QED
  BY <1>4 DEF DialogueInv, EndsInUse, ToldIsThere

LEMMA ForwardReadRelies ==
    ASSUME DialogueInv, NEW w \in Workers, ForwardRead(w)
    PROVE  (\A v \in Workers : Relies(v))' /\ EndsInUse' /\ ToldIsThere'
<1>1. PICK o \in Offers : Becomes(w, [Idle EXCEPT !.pc = "forward", !.offer = o])
  BY DEF ForwardRead
<1>2. req'[w] = [Idle EXCEPT !.pc = "forward", !.offer = o]
  BY <1>1, Replaced DEF DialogueInv, Inv, TypeOK
<1>3. Relies(w)'
  BY <1>2 DEF ForwardRead, quoteVars, TakesAnswers, Relies, Idle
<1>4. Used' = Used /\ revoked' \cup expired' \subseteq Used'
  BY DEF ForwardRead, rowVars, Used, DialogueInv, EndsInUse
<1> QED
  BY <1>1, <1>3, <1>4, QuietRelies DEF ForwardRead, rowVars, mailVars

LEMMA ForwardCommitRelies ==
    ASSUME DialogueInv, NEW w \in Workers, ForwardCommit(w)
    PROVE  (\A v \in Workers : Relies(v))' /\ EndsInUse' /\ ToldIsThere'
<1>1. PICK f \in Forwards \ Used :
          /\ offerOf' = [offerOf EXCEPT ![f] = req[w].offer]
          /\ link' = [link EXCEPT ![f] = 1]
          /\ Becomes(w, [Idle EXCEPT !.pc = "mail", !.forward = f, !.link = 1, !.first = TRUE])
  BY DEF ForwardCommit
<1>2. /\ req'[w].pc = "mail"
      /\ \A v \in Workers \ {w} : req'[v] = req[v]
  <2> DEFINE r == [Idle EXCEPT !.pc = "mail", !.forward = f, !.link = 1, !.first = TRUE]
  <2>1. Becomes(w, r) /\ r.pc = "mail"
    BY <1>1 DEF Idle
  <2> HIDE DEF r
  <2> QED
    BY <2>1, Replaced DEF DialogueInv, Inv, TypeOK
<1>3. /\ req[w].pc = "forward" /\ req[w].offer \in Offers
      /\ UNCHANGED <<quoteVars, expired, revoked, answers, mailVars>>
  BY DEF ForwardCommit, At, DialogueInv, Inv, Remembers
<1>4. Used \subseteq Used'
  BY <1>1, <1>3, CreditSupportAssumption DEF Used, DialogueInv, Inv, TypeOK
<1>5. /\ link' \in [Forwards -> Nat] /\ answers' \in [Forwards -> Nat]
      /\ \A g \in Used : answers[g] \in Nat /\ link'[g] = link[g]
  BY <1>1, <1>3 DEF DialogueInv, Inv, TypeOK, Used
<1>6. \A g \in Used : answers[g] <= answers'[g]
  BY <1>3, <1>5
<1>7. ASSUME NEW v \in Workers PROVE Relies(v)'
  <2>1. CASE v = w
    BY <2>1, <1>2 DEF Relies, InTransaction
  <2>2. CASE v # w
    <3>1. TypeOK /\ Remembers(v) /\ Relies(v) /\ req'[v] = req[v]
      BY <1>2, <2>2 DEF DialogueInv, Inv
    <3>2. req[v].pc \notin InTransaction
      BY <3>1, <2>2, <1>3, Alone DEF InTransaction
    <3> QED
      BY <3>1, <3>2, <1>3, <1>5, <1>6, OthersRely DEF mailVars
  <2> QED
    BY <2>1, <2>2
<1> QED
  BY <1>3, <1>4, <1>7 DEF DialogueInv, EndsInUse, ToldIsThere, mailVars

LEMMA ResendReadRelies ==
    ASSUME DialogueInv, NEW w \in Workers, ResendRead(w)
    PROVE  (\A v \in Workers : Relies(v))' /\ EndsInUse' /\ ToldIsThere'
<1>1. PICK f \in Used \ revoked :
          Becomes(w, [Idle EXCEPT !.pc = "resend", !.forward = f, !.link = link[f] + 1])
  BY DEF ResendRead
<1>2. req'[w] = [Idle EXCEPT !.pc = "resend", !.forward = f, !.link = link[f] + 1]
  BY <1>1, Replaced DEF DialogueInv, Inv, TypeOK
<1>3. Relies(w)'
  BY <1>2 DEF ResendRead, quoteVars, rowVars, TakesAnswers, Relies, Idle
<1>4. Used' = Used /\ revoked' \cup expired' \subseteq Used'
  BY DEF ResendRead, rowVars, Used, DialogueInv, EndsInUse
<1> QED
  BY <1>1, <1>3, <1>4, QuietRelies DEF ResendRead, rowVars, mailVars

LEMMA ResendCommitRelies ==
    ASSUME DialogueInv, NEW w \in Workers, ResendCommit(w)
    PROVE  /\ (\A v \in Workers : Relies(v))' /\ EndsInUse' /\ ToldIsThere'
           /\ link' = [link EXCEPT ![req[w].forward] = @ + 1]
<1> DEFINE f == req[w].forward
<1>1. /\ req[w].pc = "resend" /\ Becomes(w, [req[w] EXCEPT !.pc = "mail"])
      /\ link' = [link EXCEPT ![f] = req[w].link]
      /\ expired' = expired \ {f} /\ known' = known \ {f}
      /\ UNCHANGED <<quoteVars, offerOf, revoked, answers, told>>
  BY DEF ResendCommit, At
<1>2. /\ TypeOK /\ f \in Used /\ f \in Forwards /\ req[w].link = link[f] + 1
      /\ link[f] \in Nat /\ req[w] \in Works
  BY <1>1 DEF DialogueInv, Inv, Remembers, Relies, TypeOK, Used
<1>3. /\ req'[w].pc = "mail"
      /\ \A v \in Workers \ {w} : req'[v] = req[v]
  BY <1>1, <1>2, Replaced DEF TypeOK, Works
<1>4. /\ link' \in [Forwards -> Nat] /\ answers' \in [Forwards -> Nat]
      /\ \A g \in Used : answers[g] \in Nat
      /\ \A g \in Forwards \ {f} : link'[g] = link[g]
      /\ link'[f] = link[f] + 1
  BY <1>1, <1>2 DEF TypeOK, Used
<1>5. \A g \in Used : \/ link'[g] = link[g] /\ (g \in known => g \in known')
                      \/ link'[g] > link[g]
  BY <1>1, <1>2, <1>4 DEF Used
<1>6. \A g \in Used : answers[g] <= answers'[g]
  BY <1>1, <1>4
<1>7. ASSUME NEW v \in Workers PROVE Relies(v)'
  <2>1. CASE v = w
    BY <2>1, <1>3 DEF Relies, InTransaction
  <2>2. CASE v # w
    <3>1. Remembers(v) /\ Relies(v) /\ req'[v] = req[v]
      BY <1>3, <2>2 DEF DialogueInv, Inv
    <3>2. req[v].pc \notin InTransaction
      BY <1>1, <1>2, <2>2, Alone DEF InTransaction
    <3> QED
      BY <3>1, <3>2, <1>2, <1>4, <1>5, <1>6, OthersRely
  <2> QED
    BY <2>1, <2>2
<1>8. EndsInUse' /\ ToldIsThere'
  BY <1>1 DEF DialogueInv, EndsInUse, ToldIsThere, Used
<1> QED
  BY <1>1, <1>2, <1>7, <1>8

\* Mails, what they undo, and the reading before a submission change no row
\* that a request relies on.
LEMMA MailRelies ==
    ASSUME DialogueInv, NEW w \in Workers, Mail(w) \/ MailFails(w) \/ Undo(w)
    PROVE  (\A v \in Workers : Relies(v))' /\ EndsInUse' /\ ToldIsThere'
<1>1. /\ req[w].pc \in {"mail", "undo"} /\ req[w].forward \in Used /\ req[w] \in Works
  BY DEF Mail, MailFails, Undo, At, DialogueInv, Inv, Remembers, TypeOK
<1>2. PICK r \in {Idle, [req[w] EXCEPT !.pc = "undo"]} : Becomes(w, r)
  BY DEF Mail, MailFails, Undo
<1>3. req'[w] = r /\ r.pc \in {"idle", "undo"}
  BY <1>1, <1>2, Replaced DEF DialogueInv, Inv, TypeOK, Idle, Works
<1>4. Relies(w)'
  BY <1>3 DEF Relies, InTransaction
<1>5. UNCHANGED <<quoteVars, offerOf, link, answers, told, expired>> /\ known \subseteq known'
  BY DEF Mail, MailFails, Undo, rowVars, mailVars
<1>6. revoked' \subseteq revoked \cup {req[w].forward}
  BY DEF Mail, MailFails, Undo, rowVars
<1>7. Used' = Used /\ revoked' \cup expired' \subseteq Used'
  BY <1>1, <1>5, <1>6 DEF Used, DialogueInv, EndsInUse
<1> QED
  BY <1>2, <1>4, <1>5, <1>7, QuietRelies

LEMMA SubmitReadRelies ==
    ASSUME DialogueInv, NEW w \in Workers, SubmitRead(w)
    PROVE  (\A v \in Workers : Relies(v))' /\ EndsInUse' /\ ToldIsThere'
<1>1. PICK f \in known :
          Becomes(w, [Idle EXCEPT !.pc = "submit", !.forward = f, !.link = link[f]])
  BY DEF SubmitRead
<1>2. /\ req'[w] = [Idle EXCEPT !.pc = "submit", !.forward = f, !.link = link[f]]
      /\ link[f] \in Nat
  BY <1>1, Replaced DEF DialogueInv, Inv, TypeOK
<1>3. Relies(w)'
  BY <1>2 DEF SubmitRead, rowVars, mailVars, Relies, InTransaction, Idle
<1>4. Used' = Used /\ revoked' \cup expired' \subseteq Used'
  BY DEF SubmitRead, rowVars, Used, DialogueInv, EndsInUse
<1> QED
  BY <1>1, <1>3, <1>4, QuietRelies DEF SubmitRead, rowVars, mailVars

LEMMA SubmitLockRelies ==
    ASSUME DialogueInv, NEW w \in Workers, SubmitLock(w)
    PROVE  (\A v \in Workers : Relies(v))' /\ EndsInUse' /\ ToldIsThere'
<1> DEFINE f == req[w].forward
           r == [req[w] EXCEPT !.pc = "answer", !.version = answers[f]]
<1>1. req[w].pc = "submit" /\ Becomes(w, r) /\ TakesAnswers
  BY DEF SubmitLock, At
<1>2. req'[w] = r /\ r.pc = "answer" /\ r.link = req[w].link /\ r.forward = f
  BY <1>1, Replaced DEF DialogueInv, Inv, TypeOK, Works
<1>3. Relies(w)
  BY DEF DialogueInv
<1> HIDE DEF r
<1>4. Relies(w)'
  BY <1>1, <1>2, <1>3 DEF SubmitLock, quoteVars, rowVars, mailVars, Relies, TakesAnswers
<1>5. Used' = Used /\ revoked' \cup expired' \subseteq Used'
  BY DEF SubmitLock, rowVars, Used, DialogueInv, EndsInUse
<1> QED
  BY <1>1, <1>4, <1>5, QuietRelies DEF SubmitLock, rowVars, mailVars

LEMMA SubmitCommitRelies ==
    ASSUME DialogueInv, NEW w \in Workers, SubmitCommit(w)
    PROVE  (\A v \in Workers : Relies(v))' /\ EndsInUse' /\ ToldIsThere'
<1> DEFINE f == req[w].forward
<1>1. /\ req[w].pc = "answer" /\ Becomes(w, [req[w] EXCEPT !.pc = "view"])
      /\ answers' = [answers EXCEPT ![f] = @ + 1]
      /\ UNCHANGED <<quoteVars, offerOf, link, expired, revoked, mailVars>>
  BY DEF SubmitCommit, At
<1>2. TypeOK /\ f \in Used /\ f \in Forwards /\ answers[f] \in Nat /\ req[w] \in Works
  BY <1>1 DEF DialogueInv, Inv, Remembers, TypeOK, Used
<1>3. /\ req'[w].pc = "view" /\ req'[w].forward = f
      /\ \A v \in Workers \ {w} : req'[v] = req[v]
  BY <1>1, <1>2, Replaced DEF TypeOK, Works
<1>4. /\ link' \in [Forwards -> Nat] /\ answers' \in [Forwards -> Nat]
      /\ answers'[f] = answers[f] + 1
      /\ \A g \in Forwards : answers[g] \in Nat /\ (g # f => answers'[g] = answers[g])
  BY <1>1, <1>2 DEF TypeOK
<1>5. \A g \in Forwards : answers'[g] \in Nat /\ answers[g] <= answers'[g]
  BY <1>4
<1>6. ASSUME NEW v \in Workers PROVE Relies(v)'
  <2>1. CASE v = w
    BY <2>1, <1>2, <1>3, <1>4 DEF Relies, InTransaction
  <2>2. CASE v # w
    <3>1. Remembers(v) /\ Relies(v) /\ req'[v] = req[v]
      BY <1>3, <2>2 DEF DialogueInv, Inv
    <3>2. req[v].pc \notin InTransaction
      BY <1>1, <1>2, <2>2, Alone DEF InTransaction
    <3>3. \A g \in Used : answers[g] <= answers'[g]
      BY <1>5 DEF Used
    <3> QED
      BY <3>1, <3>2, <3>3, <1>1, <1>2, <1>4, OthersRely DEF mailVars
  <2> QED
    BY <2>1, <2>2
<1>7. EndsInUse'
  BY <1>1 DEF DialogueInv, EndsInUse, Used
<1>8. ToldIsThere'
  <2> SUFFICES ASSUME NEW g \in Forwards, NEW n \in told[g] PROVE n \in 1..answers'[g]
    BY <1>1 DEF ToldIsThere, mailVars
  <2>1. n \in 1..answers[g]
    BY DEF DialogueInv, ToldIsThere
  <2> QED
    BY <2>1, <1>4, <1>5
<1> QED
  BY <1>6, <1>7, <1>8

LEMMA ViewRelies ==
    ASSUME DialogueInv, NEW w \in Workers, View(w)
    PROVE  (\A v \in Workers : Relies(v))' /\ EndsInUse' /\ ToldIsThere'
<1> DEFINE f == req[w].forward
           r == [req[w] EXCEPT !.pc = "notify", !.version = answers[f]]
<1>1. req[w].pc = "view" /\ Becomes(w, r)
  BY DEF View, At, Viewed
<1>2. /\ req'[w] = r /\ r.pc = "notify" /\ r.version = answers[f] /\ r.forward = f
      /\ answers[f] > 0 /\ answers[f] \in Nat
  BY <1>1, Replaced DEF DialogueInv, Inv, TypeOK, Works, Relies, Remembers, Used
<1> HIDE DEF r
<1>3. Relies(w)'
  BY <1>2 DEF View, rowVars, Relies, InTransaction
<1>4. Used' = Used /\ revoked' \cup expired' \subseteq Used'
  BY DEF View, rowVars, Used, DialogueInv, EndsInUse
<1> QED
  BY <1>1, <1>3, <1>4, QuietRelies DEF View, rowVars, mailVars

LEMMA NotifyRelies ==
    ASSUME DialogueInv, NEW w \in Workers, Notify(w)
    PROVE  (\A v \in Workers : Relies(v))' /\ EndsInUse' /\ ToldIsThere'
<1> DEFINE f == req[w].forward
<1>1. /\ req[w].pc = "notify" /\ Becomes(w, Idle)
      /\ UNCHANGED <<quoteVars, rowVars, known>>
      /\ told' = [told EXCEPT ![f] = @ \cup {req[w].version}] \/ UNCHANGED told
  BY DEF Notify, At
<1>2. TypeOK /\ f \in Forwards /\ req[w].version \in 1..answers[f]
  BY <1>1 DEF DialogueInv, Inv, Relies, Remembers, Used
<1>3. req'[w].pc = "idle" /\ \A v \in Workers \ {w} : req'[v] = req[v]
  BY <1>1, <1>2, Replaced DEF TypeOK, Idle
<1>4. \A g \in Used : answers[g] \in Nat /\ answers[g] <= answers'[g]
  BY <1>1, <1>2 DEF TypeOK, Used, rowVars
<1>5. ASSUME NEW v \in Workers PROVE Relies(v)'
  <2>1. CASE v = w
    BY <2>1, <1>3 DEF Relies, InTransaction
  <2>2. CASE v # w
    <3>1. Remembers(v) /\ Relies(v) /\ req'[v] = req[v]
      BY <1>3, <2>2 DEF DialogueInv, Inv
    <3>2. req[v].pc \in InTransaction => UNCHANGED link /\ TakesAnswers'
      BY <3>1, <1>1 DEF Relies, TakesAnswers, quoteVars, rowVars
    <3>3. link' \in [Forwards -> Nat] /\ answers' \in [Forwards -> Nat]
      BY <1>1, <1>2 DEF TypeOK, rowVars
    <3> QED
      BY <3>1, <3>2, <3>3, <1>1, <1>2, <1>4, OthersRely DEF rowVars
  <2> QED
    BY <2>1, <2>2
<1>6. ToldIsThere'
  <2> SUFFICES ASSUME NEW g \in Forwards PROVE told'[g] \subseteq 1..answers[g]
    BY <1>1 DEF ToldIsThere, rowVars
  <2>1. told[g] \subseteq 1..answers[g]
    BY DEF DialogueInv, ToldIsThere
  <2>2. told'[g] \subseteq told[g] \cup (IF g = f THEN {req[w].version} ELSE {})
    BY <1>1, <1>2 DEF TypeOK
  <2> QED
    BY <2>1, <2>2, <1>2
<1> QED
  BY <1>1, <1>5, <1>6 DEF DialogueInv, EndsInUse, Used, rowVars

LEMMA AbortRelies ==
    ASSUME DialogueInv, NEW w \in Workers, Abort(w)
    PROVE  (\A v \in Workers : Relies(v))' /\ EndsInUse' /\ ToldIsThere'
<1>1. Becomes(w, Idle) /\ UNCHANGED <<quoteVars, rowVars, known, told>>
  BY DEF Abort
<1>2. req'[w].pc = "idle"
  BY <1>1, Replaced DEF DialogueInv, Inv, TypeOK, Idle
<1>3. Relies(w)'
  BY <1>2 DEF Relies, InTransaction
<1>4. Used' = Used /\ revoked' \cup expired' \subseteq Used'
  BY <1>1 DEF rowVars, Used, DialogueInv, EndsInUse
<1> QED
  BY <1>1, <1>3, <1>4, QuietRelies DEF rowVars

\* The quote turns only while no transaction is about it.
LEMMA AroundRelies ==
    ASSUME DialogueInv,
           \/ \E f \in Forwards : Revoke(f) \/ Expire(f)
           \/ \E p \in Partners : RemovePartner(p)
           \/ Close \/ Reopen \/ RemoveQuote
    PROVE  (\A v \in Workers : Relies(v))' /\ EndsInUse' /\ ToldIsThere'
<1>1. UNCHANGED <<offerOf, link, answers, known, told, req>>
  BY DEF Revoke, Expire, RemovePartner, Close, Reopen, RemoveQuote, rowVars, mailVars
<1>2. UNCHANGED quoteVars \/ \A w \in Workers : req[w].pc \notin InTransaction
  <2>1. CASE LockFree
    BY <2>1, CreditSupportAssumption DEF LockFree, DialogueInv, Inv, TypeOK
  <2> QED
    BY <2>1 DEF Revoke, Expire, RemovePartner, Close, Reopen, RemoveQuote
<1>3. revoked' \cup expired' \subseteq Used
  BY DEF Revoke, Expire, RemovePartner, Close, Reopen, RemoveQuote, rowVars, DialogueInv, EndsInUse
<1>4. ASSUME NEW v \in Workers PROVE Relies(v)'
  BY <1>1, <1>2 DEF DialogueInv, Relies, TakesAnswers, quoteVars
<1> QED
  BY <1>1, <1>3, <1>4 DEF DialogueInv, EndsInUse, ToldIsThere, Used

LEMMA DialogueNext == DialogueInv /\ [Next]_vars => DialogueInv'
<1> SUFFICES ASSUME DialogueInv, [Next]_vars PROVE DialogueInv'
  OBVIOUS
<1>1. Inv'
  BY NextKeeps DEF DialogueInv
<1>2. ASSUME NEW w \in Workers, Step(w)
      PROVE  (\A v \in Workers : Relies(v))' /\ EndsInUse' /\ ToldIsThere'
  BY <1>2, ForwardReadRelies, ForwardCommitRelies, ResendReadRelies, ResendCommitRelies,
     MailRelies, SubmitReadRelies, SubmitLockRelies, SubmitCommitRelies, ViewRelies,
     NotifyRelies, AbortRelies DEF Step
<1>3. CASE UNCHANGED vars
  BY <1>1, <1>3 DEF vars, quoteVars, rowVars, mailVars, DialogueInv, Relies, TakesAnswers, EndsInUse,
     ToldIsThere, Used
<1> QED
  BY <1>1, <1>2, <1>3, AroundRelies DEF DialogueInv, Next

LEMMA DialogueAlways == Spec => []DialogueInv
BY DialogueInit, DialogueNext, PTL DEF Spec

\* How Status and Quote follow the rows.
LEMMA StatusStays ==
    ASSUME UNCHANGED <<offerOf, revoked, expired>> PROVE Status' = Status /\ Used' = Used
BY DEF Status, Used

LEMMA QuoteStays == ASSUME UNCHANGED quoteVars PROVE Quote' = Quote
BY DEF Quote, quoteVars

LEMMA QuoteOpen == ASSUME TakesAnswers PROVE Quote = "open"
BY DEF Quote, TakesAnswers

LEMMA StatusIs ==
    ASSUME NEW f \in Forwards
    PROVE  /\ Status[f] = "unused" <=> f \notin Used
           /\ Status[f] = "live" <=> f \in Active
           /\ Status[f] = "lapsed" <=> f \in Used /\ f \notin revoked /\ f \in expired
           /\ Status[f] = "revoked" <=> f \in Used /\ f \in revoked
BY DEF Status, Active

DialogueStays == UNCHANGED <<Quote, offerOf, Status, link, known, answers, told>>
DialogueStep == Dialogue!Next \/ UNCHANGED Dialogue!vars

LEMMA Stutters == ASSUME DialogueStays PROVE DialogueStep
BY DEF DialogueStays, DialogueStep, Dialogue!vars

LEMMA RefInit == Init => Dialogue!Init
<1> SUFFICES ASSUME Init PROVE Dialogue!Init
  OBVIOUS
<1>1. Used = {} /\ Quote = "open"
  BY DEF Init, Used, Quote
<1>2. Status = [f \in Forwards |-> "unused"]
  BY <1>1 DEF Status
<1> QED
  BY <1>1, <1>2 DEF Init, Dialogue!Init

LEMMA RefForward ==
    ASSUME DialogueInv, NEW w \in Workers, ForwardCommit(w) PROVE DialogueStep
<1> DEFINE o == req[w].offer
<1>1. PICK f \in Forwards \ Used :
          /\ offerOf' = [offerOf EXCEPT ![f] = o]
          /\ link' = [link EXCEPT ![f] = 1]
  BY DEF ForwardCommit
<1>2. /\ req[w].pc = "forward"
      /\ UNCHANGED <<quoteVars, expired, revoked, answers, mailVars>>
  BY DEF ForwardCommit, At
<1>3. /\ o \in Offers /\ o # "none" /\ TypeOK /\ TakesAnswers /\ EndsInUse
      /\ \A g \in Active : offerOf[g] # o
  BY <1>2, CreditSupportAssumption DEF DialogueInv, Inv, Remembers, Relies, InTransaction
<1>4. Used' = Used \cup {f}
  BY <1>1, <1>3 DEF Used, TypeOK
<1>5. Status' = [Status EXCEPT ![f] = "live"]
  <2>1. f \notin revoked' \cup expired'
    BY <1>1, <1>2, <1>3 DEF EndsInUse
  <2> QED
    BY <2>1, <1>1, <1>2, <1>4 DEF Status
<1>6. \A g \in Forwards : Status[g] = "live" => offerOf[g] # o
  BY <1>3, StatusIs
<1>7. Quote = "open" /\ Quote' = Quote /\ Status[f] = "unused"
  BY <1>1, <1>2, <1>3, QuoteOpen, QuoteStays, StatusIs
<1>8. Dialogue!Forward(f, o)
  BY <1>1, <1>2, <1>5, <1>6, <1>7 DEF Dialogue!Forward, mailVars
<1> QED
  BY <1>1, <1>3, <1>8 DEF DialogueStep, Dialogue!Next

LEMMA RefRelink ==
    ASSUME DialogueInv, NEW w \in Workers, ResendCommit(w) PROVE DialogueStep
<1> DEFINE f == req[w].forward
<1>1. /\ req[w].pc = "resend"
      /\ expired' = expired \ {f} /\ known' = known \ {f}
      /\ UNCHANGED <<quoteVars, offerOf, revoked, answers, told>>
      /\ link' = [link EXCEPT ![f] = @ + 1]
  BY ResendCommitRelies DEF ResendCommit, At
<1>2. /\ f \in Used /\ f \in Forwards /\ answers[f] = 0 /\ TakesAnswers
  BY <1>1 DEF DialogueInv, Inv, Remembers, Relies, InTransaction, Used
<1> HIDE DEF f
<1>3. Used' = Used
  BY <1>1 DEF Used
<1>4. Status' = [Status EXCEPT ![f] = IF @ = "revoked" THEN @ ELSE "live"]
  BY <1>1, <1>2, <1>3 DEF Status
<1>5. Quote = "open" /\ Quote' = Quote /\ Status[f] # "unused"
  BY <1>1, <1>2, QuoteOpen, QuoteStays, StatusIs
<1>6. Dialogue!Relink(f)
  BY <1>1, <1>2, <1>4, <1>5 DEF Dialogue!Relink
<1> QED
  BY <1>2, <1>6 DEF DialogueStep, Dialogue!Next

LEMMA RefRevoke ==
    ASSUME DialogueInv, NEW fs, fs \subseteq Used, revoked' = revoked \cup fs,
           UNCHANGED <<quoteVars, offerOf, link, expired, answers, mailVars>>
    PROVE  DialogueStep
<1>1. fs \subseteq Forwards /\ Used' = Used
  BY DEF Used
<1>2. Status' = [f \in Forwards |-> IF f \in fs THEN "revoked" ELSE Status[f]]
  BY <1>1 DEF Status
<1>3. \A f \in fs : Status[f] # "unused"
  BY <1>1, StatusIs
<1>4. Dialogue!Revoke(fs)
  BY <1>2, <1>3, QuoteStays DEF Dialogue!Revoke, mailVars
<1> QED
  BY <1>1, <1>4 DEF DialogueStep, Dialogue!Next

\* A mail discloses the link it carries, if that is still the valid one.
LEMMA RefDisclose ==
    ASSUME DialogueInv, NEW w \in Workers, req[w].pc = "mail",
           known' \in {known, known \cup Delivered(w)},
           UNCHANGED <<quoteVars, rowVars, told>>
    PROVE  DialogueStep
<1> DEFINE f == req[w].forward
<1>1. f \in Used /\ f \in Forwards
  BY DEF DialogueInv, Inv, Remembers, Used
<1>2. Status' = Status /\ Quote' = Quote
  BY StatusStays, QuoteStays DEF rowVars
<1>3. CASE known' = known
  BY <1>2, <1>3, Stutters DEF DialogueStays, rowVars
<1>4. CASE known' = known \cup {f}
  <2>1. Status[f] # "unused"
    BY <1>1, StatusIs
  <2>2. Dialogue!Disclose(f)
    BY <1>2, <1>4, <2>1 DEF Dialogue!Disclose, rowVars
  <2> QED
    BY <1>1, <2>2 DEF DialogueStep, Dialogue!Next
<1> QED
  BY <1>3, <1>4 DEF Delivered

LEMMA RefMail ==
    ASSUME DialogueInv, NEW w \in Workers, Mail(w) \/ MailFails(w) PROVE DialogueStep
BY RefDisclose DEF Mail, MailFails, At

LEMMA RefUndo ==
    ASSUME DialogueInv, NEW w \in Workers, Undo(w) PROVE DialogueStep
<1>1. {req[w].forward} \subseteq Used
  BY DEF DialogueInv, Inv, Remembers, Undo, At
<1> QED
  BY <1>1, RefRevoke DEF Undo

LEMMA RefAnswer ==
    ASSUME DialogueInv, NEW w \in Workers, SubmitCommit(w) PROVE DialogueStep
<1> DEFINE f == req[w].forward
<1>1. /\ req[w].pc = "answer" /\ req[w].link = link[f] /\ f \notin revoked
      /\ answers' = [answers EXCEPT ![f] = @ + 1]
      /\ UNCHANGED <<quoteVars, offerOf, link, expired, revoked, mailVars>>
  BY DEF SubmitCommit, At, Accepts
<1>2. f \in Used /\ f \in Forwards /\ f \in known /\ TakesAnswers
  BY <1>1 DEF DialogueInv, Inv, Remembers, Relies, InTransaction, Used
<1>3. Status[f] \in {"live", "lapsed"}
  BY <1>1, <1>2, StatusIs DEF Active
<1>4. Quote = "open" /\ Quote' = Quote /\ Status' = Status
  BY <1>1, <1>2, QuoteOpen, QuoteStays, StatusStays
<1>5. Dialogue!Answer(f)
  BY <1>1, <1>2, <1>3, <1>4 DEF Dialogue!Answer, mailVars
<1> QED
  BY <1>2, <1>5 DEF DialogueStep, Dialogue!Next

LEMMA RefHear ==
    ASSUME DialogueInv, NEW w \in Workers, Notify(w) PROVE DialogueStep
<1> DEFINE f == req[w].forward
           n == req[w].version
<1>1. req[w].pc = "notify" /\ UNCHANGED <<quoteVars, rowVars, known>>
  BY DEF Notify, At
<1>2. f \in Forwards /\ n \in 1..answers[f]
  BY <1>1 DEF DialogueInv, Inv, Remembers, Relies, Used
<1>3. Status' = Status /\ Quote' = Quote
  BY <1>1, StatusStays, QuoteStays DEF rowVars
<1>4. CASE told' = [told EXCEPT ![f] = @ \cup {n}]
  <2>1. Dialogue!Hear(f, n)
    BY <1>1, <1>2, <1>3, <1>4 DEF Dialogue!Hear, rowVars
  <2> QED
    BY <1>2, <2>1 DEF DialogueStep, Dialogue!Next
<1>5. CASE UNCHANGED told
  BY <1>1, <1>3, <1>5, Stutters DEF DialogueStays, rowVars
<1> QED
  BY <1>4, <1>5 DEF Notify

\* Readings, and a request that ends, change nothing that anyone agreed on.
LEMMA RefQuiet ==
    ASSUME DialogueInv, NEW w \in Workers,
           \/ ForwardRead(w) \/ ResendRead(w) \/ SubmitRead(w) \/ SubmitLock(w)
           \/ View(w) \/ Abort(w)
    PROVE  DialogueStep
<1>1. UNCHANGED <<quoteVars, rowVars, known, told>>
  BY DEF ForwardRead, ResendRead, SubmitRead, SubmitLock, View, Abort, mailVars
<1>2. Status' = Status /\ Quote' = Quote
  BY <1>1, StatusStays, QuoteStays DEF rowVars
<1> QED
  BY <1>1, <1>2, Stutters DEF DialogueStays, rowVars

LEMMA RefExpire ==
    ASSUME DialogueInv, NEW f \in Forwards, Expire(f) PROVE DialogueStep
<1>1. /\ f \in Used /\ expired' = expired \cup {f} /\ f \notin expired
      /\ UNCHANGED <<quoteVars, offerOf, link, revoked, answers, mailVars>>
  BY DEF Expire
<1>2. Used' = Used /\ Quote' = Quote
  BY <1>1, QuoteStays DEF Used
<1>3. CASE f \in revoked
  <2>1. Status' = Status
    BY <1>1, <1>2, <1>3 DEF Status
  <2> QED
    BY <1>1, <1>2, <2>1, Stutters DEF DialogueStays, mailVars
<1>4. CASE f \notin revoked
  <2>1. Status' = [Status EXCEPT ![f] = "lapsed"] /\ Status[f] = "live"
    BY <1>1, <1>2, <1>4 DEF Status
  <2>2. Dialogue!Lapse(f)
    BY <1>1, <1>2, <2>1 DEF Dialogue!Lapse, mailVars
  <2> QED
    BY <2>2 DEF DialogueStep, Dialogue!Next
<1> QED
  BY <1>3, <1>4

LEMMA RefTurn ==
    ASSUME DialogueInv, Close \/ Reopen \/ RemoveQuote PROVE DialogueStep
<1>1. /\ UNCHANGED <<rowVars, mailVars>>
      /\ removed => removed'
  BY DEF Close, Reopen, RemoveQuote
<1>2. Quote' \in {"open", "closed", "removed"} /\ (Quote = "removed" => Quote' = "removed")
  BY <1>1 DEF Quote
<1>3. Status' = Status
  BY <1>1, StatusStays DEF rowVars
<1>4. Dialogue!Turn
  BY <1>1, <1>2, <1>3 DEF Dialogue!Turn, rowVars, mailVars
<1> QED
  BY <1>4 DEF DialogueStep, Dialogue!Next

LEMMA RefNext == DialogueInv /\ [Next]_vars => DialogueStep
<1> SUFFICES ASSUME DialogueInv, [Next]_vars PROVE DialogueStep
  OBVIOUS
<1>1. ASSUME NEW w \in Workers, Step(w) PROVE DialogueStep
  BY <1>1, RefForward, RefRelink, RefMail, RefUndo, RefAnswer, RefHear, RefQuiet DEF Step
<1>2. ASSUME NEW f \in Forwards, Revoke(f) PROVE DialogueStep
  <2>1. {f} \subseteq Used
    BY <1>2 DEF Revoke
  <2> QED
    BY <1>2, <2>1, RefRevoke DEF Revoke
<1>3. ASSUME NEW p \in Partners, RemovePartner(p) PROVE DialogueStep
  <2> DEFINE fs == {f \in Used : PartnerOf[offerOf[f]] = p}
  <2>1. fs \subseteq Used
    OBVIOUS
  <2>2. /\ revoked' = revoked \cup fs
        /\ UNCHANGED <<quoteVars, offerOf, link, expired, answers, mailVars>>
    BY <1>3 DEF RemovePartner
  <2> HIDE DEF fs
  <2> QED
    BY <2>1, <2>2, RefRevoke
<1>4. CASE UNCHANGED vars
  <2>1. Status' = Status /\ Quote' = Quote
    BY <1>4, StatusStays, QuoteStays DEF vars, rowVars
  <2> QED
    BY <1>4, <2>1, Stutters DEF vars, rowVars, mailVars, DialogueStays
<1> QED
  BY <1>1, <1>2, <1>3, <1>4, RefExpire, RefTurn DEF Next

\* Forwards, new links, answers, revocations and mails that overlap are a
\* dialogue of single steps: what CreditSupportService commits under the lock on
\* the quote, the WHERE of CreditPortalService.submit and what it reports agree.
THEOREM KeepsTheDialogue == Spec => ImplementsDialogue
<1>1. DialogueInv /\ [Next]_vars => [Dialogue!Next]_(Dialogue!vars)
  BY RefNext DEF DialogueStep
<1> QED
  BY <1>1, RefInit, DialogueAlways, PTL DEF Spec, ImplementsDialogue, Dialogue!Spec
===============================================================================
