---------------------------- MODULE CreditSupport ----------------------------
(***************************************************************************)
(* The forwards of one quote's proposals to credit partners and the portal *)
(* through which the partners answer (CreditSupportService,                *)
(* CreditPortalService).                                                   *)
(*                                                                         *)
(* A forward has one link, which only its mail discloses.  Forwarding,     *)
(* resending (which replaces the link) and answering are transactions that *)
(* lock the quote's row before they read; a revocation, the removal of a   *)
(* partner and the clock do not wait for that lock.  Mails go out after    *)
(* the commit.                                                             *)
(*                                                                         *)
(* A worker is an HTTP request in flight.  What a proposal says, prices    *)
(* and the award are left to Award: a proposal that changed or was removed *)
(* makes a transaction fail, which Abort shows.                            *)
(***************************************************************************)
EXTENDS Naturals

CONSTANTS
    Forwards,    \* ids of forwards
    Offers,      \* what can be forwarded: a proposal to a partner
    Partners,
    PartnerOf,   \* the partner of each offer
    Workers,     \* HTTP requests in flight at once
    MaxLinks,    \* bound: links of one forward
    MaxAnswers   \* bound: answers to one forward

ASSUME CreditSupportAssumption ==
    /\ PartnerOf \in [Offers -> Partners]
    /\ "none" \notin Forwards \cup Offers \cup Workers
    /\ MaxLinks \in Nat \ {0} /\ MaxAnswers \in Nat

VARIABLES
    open,      \* the quote takes answers
    removed,   \* the quote is soft-deleted
    gone,      \* partners that were removed
    offerOf,   \* what each forward is about
    link,      \* which of its links is the valid one, counted from 1
    expired,   \* forwards whose deadline has passed
    revoked,   \* forwards that were revoked
    answers,   \* responseVersion of each forward
    audited,   \* the versions that the audit log has of each forward
    known,     \* the forwards whose valid link the partner has
    lock,      \* who holds the lock on the quote's row
    req,       \* what each worker remembers
    revived,   \* forwards that were resent after their deadline
    told,      \* the versions that buyers got mails about
    silent     \* forwards for which such a mail was lost

quoteVars == <<open, removed>>
rowVars == <<gone, offerOf, link, expired, revoked, answers, audited, revived>>
mailVars == <<known, told, silent>>
vars == <<quoteVars, rowVars, mailVars, lock, req>>

InTransaction == {"forward", "resend", "answer"}
Stages == {"idle", "forward", "resend", "mail", "undo", "submit", "answer", "view", "notify"}
\* forward, offer, link: what the request is about; first: it is the forward
\* itself, not a resend; version: the answer it has read or reports.
Works == [pc: Stages, forward: Forwards \cup {"none"}, offer: Offers \cup {"none"},
          link: Nat, first: BOOLEAN, version: Nat]
Idle == [pc |-> "idle", forward |-> "none", offer |-> "none", link |-> 0, first |-> FALSE, version |-> 0]

Init ==
    /\ open = TRUE /\ removed = FALSE
    /\ gone = {}
    /\ offerOf = [f \in Forwards |-> "none"]
    /\ link = [f \in Forwards |-> 0]
    /\ expired = {} /\ revoked = {} /\ revived = {}
    /\ answers = [f \in Forwards |-> 0]
    /\ audited = [f \in Forwards |-> {}]
    /\ known = {}
    /\ lock = "none"
    /\ req = [w \in Workers |-> Idle]
    /\ told = [f \in Forwards |-> {}]
    /\ silent = {}

-----------------------------------------------------------------------------
At(w, pc) == req[w].pc = pc
Becomes(w, r) == req' = [req EXCEPT ![w] = r]
\* SELECT ... FOR NO KEY UPDATE on the quote, and the end of its transaction.
Unlocked == TRUE  \* mutant: without the lock
LockFree == lock = "none"
Locks(w) == LockFree /\ lock' = w
Unlocks == lock' = "none"

Used == {f \in Forwards : offerOf[f] # "none"}
Active == Used \ (revoked \cup expired)
TakesAnswers == open /\ ~ removed

-----------------------------------------------------------------------------
(* Forwarding and resending.                                               *)

\* One active forward of a proposal to a partner; the partner is not locked.
ForwardRead(w) ==
    /\ At(w, "idle")
    /\ Locks(w)
    /\ TakesAnswers
    /\ \E o \in Offers :
          /\ PartnerOf[o] \notin gone
          /\ \A f \in Active : offerOf[f] # o
          /\ Becomes(w, [Idle EXCEPT !.pc = "forward", !.offer = o])
    /\ UNCHANGED <<quoteVars, rowVars, mailVars>>

ForwardCommit(w) ==
    /\ At(w, "forward")
    /\ \E f \in Forwards \ Used :
          /\ offerOf' = [offerOf EXCEPT ![f] = req[w].offer]
          /\ link' = [link EXCEPT ![f] = 1]
          /\ Becomes(w, [Idle EXCEPT !.pc = "mail", !.forward = f, !.link = 1, !.first = TRUE])
    /\ Unlocks
    /\ UNCHANGED <<quoteVars, gone, expired, revoked, answers, audited, revived, mailVars>>

ResendRead(w) ==
    /\ At(w, "idle")
    /\ Locks(w)
    /\ TakesAnswers
    /\ \E f \in Used \ revoked :
          /\ answers[f] = 0 /\ link[f] < MaxLinks
          /\ PartnerOf[offerOf[f]] \notin gone
          /\ Becomes(w, [Idle EXCEPT !.pc = "resend", !.forward = f, !.link = link[f] + 1])
    /\ UNCHANGED <<quoteVars, rowVars, mailVars>>

\* The link is replaced by id; the deadline is new.
ResendCommit(w) ==
    /\ At(w, "resend")
    /\ LET f == req[w].forward
       IN /\ link' = [link EXCEPT ![f] = req[w].link]
          /\ expired' = expired \ {f}
          /\ revived' = IF f \in expired THEN revived \cup {f} ELSE revived
          /\ known' = known \ {f}
    /\ Becomes(w, [req[w] EXCEPT !.pc = "mail"])
    /\ Unlocks
    /\ UNCHANGED <<quoteVars, gone, offerOf, revoked, answers, audited, told, silent>>

\* A mail with a link that was replaced meanwhile is of no use.
Delivered(w) == {f \in {req[w].forward} : req[w].link = link[f]}

\* Some mail is delivered, and the buyer is shown the link as well.
Mail(w) ==
    /\ At(w, "mail")
    /\ known' = known \cup Delivered(w)
    /\ Becomes(w, Idle)
    /\ UNCHANGED <<quoteVars, rowVars, told, silent, lock>>

\* All mails are reported as failed, which one may not have been.
MailFails(w) ==
    /\ At(w, "mail")
    /\ known' \in {known, known \cup Delivered(w)}
    /\ Becomes(w, IF req[w].first THEN [req[w] EXCEPT !.pc = "undo"] ELSE Idle)
    /\ UNCHANGED <<quoteVars, rowVars, told, silent, lock>>

\* A forward that nobody got must not block the next one.
Undo(w) ==
    /\ At(w, "undo")
    /\ revoked' = revoked \cup {req[w].forward}
    /\ Becomes(w, Idle)
    /\ UNCHANGED <<quoteVars, gone, offerOf, link, expired, answers, audited, revived, mailVars, lock>>

-----------------------------------------------------------------------------
(* The partner's portal.                                                   *)

\* The link leads to a forward that is not revoked or expired.
Opens(f, n) == n = link[f] /\ f \notin revoked \cup expired

SubmitRead(w) ==
    /\ At(w, "idle")
    /\ TakesAnswers
    /\ \E f \in known :
          /\ Opens(f, link[f])
          /\ Becomes(w, [Idle EXCEPT !.pc = "submit", !.forward = f, !.link = link[f]])
    /\ UNCHANGED <<quoteVars, rowVars, mailVars, lock>>

\* All of it is read again under the lock; MaxAnswers is the bound of the model.
SubmitLock(w) ==
    /\ At(w, "submit")
    /\ Locks(w)
    /\ TakesAnswers
    /\ LET f == req[w].forward
       IN /\ Opens(f, req[w].link)
          /\ answers[f] < MaxAnswers
          /\ Becomes(w, [req[w] EXCEPT !.pc = "answer", !.version = answers[f]])
    /\ UNCHANGED <<quoteVars, rowVars, mailVars>>

AcceptsRevoked(w) == req[w].link = link[req[w].forward]  \* mutant: revokedAt is not in the WHERE
\* The WHERE of the update; its deadline is compared with the time of the reading.
Accepts(w) == req[w].link = link[req[w].forward] /\ req[w].forward \notin revoked

\* The row counts its versions, the audit log names the one after that read.
SubmitCommit(w) ==
    /\ At(w, "answer")
    /\ Accepts(w)
    /\ LET f == req[w].forward
       IN /\ answers' = [answers EXCEPT ![f] = @ + 1]
          /\ audited' = [audited EXCEPT ![f] = @ \cup {req[w].version + 1}]
    /\ Becomes(w, [req[w] EXCEPT !.pc = "view"])
    /\ Unlocks
    /\ UNCHANGED <<quoteVars, gone, offerOf, link, expired, revoked, revived, mailVars>>

ViewedBefore(w) == req[w].version  \* mutant: the version read before the answer
\* The version to report is read after the commit; the prices in the mail are
\* read once more and may be newer.
Viewed(w) == answers[req[w].forward]

View(w) ==
    /\ At(w, "view")
    /\ Becomes(w, [req[w] EXCEPT !.pc = "notify", !.version = Viewed(w)])
    /\ UNCHANGED <<quoteVars, rowVars, mailVars, lock>>

\* The buyer is told of that version, unless the mail is lost.
Notify(w) ==
    /\ At(w, "notify")
    /\ LET f == req[w].forward
       IN \/ told' = [told EXCEPT ![f] = @ \cup {req[w].version}] /\ UNCHANGED silent
          \/ silent' = silent \cup {f} /\ UNCHANGED told
    /\ Becomes(w, Idle)
    /\ UNCHANGED <<quoteVars, rowVars, known, lock>>

\* A request is refused, times out, or dies with its instance.
Abort(w) ==
    /\ ~ At(w, "idle")
    /\ Becomes(w, Idle)
    /\ lock' = IF lock = w THEN "none" ELSE lock
    /\ silent' = IF req[w].pc \in {"view", "notify"} THEN silent \cup {req[w].forward} ELSE silent
    /\ UNCHANGED <<quoteVars, rowVars, known, told>>

-----------------------------------------------------------------------------
(* What does not wait for these transactions, and the quote, which does.   *)

Revoke(f) ==
    /\ f \in Used \ revoked
    /\ revoked' = revoked \cup {f}
    /\ UNCHANGED <<quoteVars, gone, offerOf, link, expired, answers, audited, revived, mailVars, lock, req>>

\* The forwards to the partner that are there are revoked.
RemovePartner(p) ==
    /\ p \notin gone
    /\ gone' = gone \cup {p}
    /\ revoked' = revoked \cup {f \in Used : PartnerOf[offerOf[f]] = p}
    /\ UNCHANGED <<quoteVars, offerOf, link, expired, answers, audited, revived, mailVars, lock, req>>

Expire(f) ==
    /\ f \in Used \ expired
    /\ expired' = expired \cup {f}
    /\ UNCHANGED <<quoteVars, gone, offerOf, link, revoked, answers, audited, revived, mailVars, lock, req>>

Close ==
    /\ LockFree /\ open
    /\ open' = FALSE
    /\ UNCHANGED <<removed, rowVars, mailVars, lock, req>>

Reopen ==
    /\ LockFree /\ ~ open
    /\ open' = TRUE
    /\ UNCHANGED <<removed, rowVars, mailVars, lock, req>>

\* The forwards of a removed quote stay as they are; their links are refused.
RemoveQuote ==
    /\ LockFree /\ ~ removed
    /\ removed' = TRUE /\ open' = FALSE
    /\ UNCHANGED <<rowVars, mailVars, lock, req>>

-----------------------------------------------------------------------------
Step(w) ==
    \/ ForwardRead(w) \/ ForwardCommit(w) \/ ResendRead(w) \/ ResendCommit(w)
    \/ Mail(w) \/ MailFails(w) \/ Undo(w)
    \/ SubmitRead(w) \/ SubmitLock(w) \/ SubmitCommit(w) \/ View(w) \/ Notify(w)
    \/ Abort(w)

Next ==
    \/ \E w \in Workers : Step(w)
    \/ \E f \in Forwards : Revoke(f) \/ Expire(f)
    \/ \E p \in Partners : RemovePartner(p)
    \/ Close \/ Reopen \/ RemoveQuote

Spec == Init /\ [][Next]_vars

-----------------------------------------------------------------------------
\* The types of the rows and of what workers remember; who is between the
\* reading and the commit, and only he, holds the lock.
TypeOK ==
    /\ open \in BOOLEAN /\ removed \in BOOLEAN
    /\ gone \subseteq Partners
    /\ offerOf \in [Forwards -> Offers \cup {"none"}]
    /\ link \in [Forwards -> Nat]
    /\ expired \subseteq Forwards /\ revoked \subseteq Forwards /\ revived \subseteq Forwards
    /\ answers \in [Forwards -> Nat]
    /\ audited \in [Forwards -> SUBSET Nat]
    /\ known \subseteq Forwards
    /\ lock \in Workers \cup {"none"}
    /\ req \in [Workers -> Works]
    /\ told \in [Forwards -> SUBSET Nat]
    /\ silent \subseteq Forwards
    /\ \A w \in Workers : lock = w <=> req[w].pc \in InTransaction

\* "O parceiro ja respondeu por este link. Nao e possivel gerar novo link": the
\* link of a forward that was answered stays, and the partner may revise the
\* answer through it, however a resend and the first answer overlap.
AnsweredKeepsItsLink == [][\A f \in Forwards : answers[f] > 0 => link'[f] = link[f]]_vars

\* A revoked forward takes no answer, not even one under way ("links deixam de abrir").
RevokedTakesNothing == [][\A f \in revoked : answers'[f] = answers[f]]_vars

\* The audit log has every version of an answer once, however answers overlap.
AuditComplete == \A f \in Forwards : audited[f] = 1..answers[f]

\* "Ja existe encaminhamento ativo para este parceiro": two clicks do not make
\* two active forwards of a proposal to a partner.  (A resend of one
\* that had expired may, since resend looks for no other active one.)
Same(f, g) == f # g /\ offerOf[f] = offerOf[g]
OneActiveUnlessRevived ==
    \A f, g \in Active : Same(f, g) => f \in revived \/ g \in revived

\* When all requests are done, buyers were told of the latest answer, however
\* answers overlapped (unless a mail about that forward was lost).
LatestAnswerTold ==
    (\A w \in Workers : At(w, "idle")) =>
        \A f \in Forwards \ silent : answers[f] > 0 => answers[f] \in told[f]

-----------------------------------------------------------------------------
(* The same as CreditDialogue has it.                                      *)
Quote == IF removed THEN "removed" ELSE IF open THEN "open" ELSE "closed"
Status == [f \in Forwards |-> IF f \notin Used THEN "unused"
                              ELSE IF f \in revoked THEN "revoked"
                              ELSE IF f \in expired THEN "lapsed" ELSE "live"]

Dialogue == INSTANCE CreditDialogue WITH
    quote <- Quote, status <- Status, held <- known, heard <- told

\* However requests overlap, what is committed is a dialogue: nothing is taken
\* about a closed quote, answers come only through the link that is valid and
\* was sent, and buyers hear only of answers that are there.
ImplementsDialogue == Dialogue!Spec
==============================================================================
