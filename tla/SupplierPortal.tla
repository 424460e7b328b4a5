--------------------------- MODULE SupplierPortal ---------------------------
(***************************************************************************)
(* The portal links (SupplierPortalToken) of one supplier in one quote,    *)
(* the answers given through them (SupplierPortalResponse), their earlier  *)
(* versions (SupplierPortalResponseRevision) and the proposal buyers see   *)
(* (QuoteResponse).                                                        *)
(*                                                                         *)
(* Handlers read, then write under row locks.  A request that replaces     *)
(* links reads, starts the UPDATE that revokes (which sees the links of    *)
(* that moment and waits for those a transaction has locked), and commits. *)
(* A submission reads the answer of its link and writes at the end, where  *)
(* its last statement checks the link once more.  A request may fail or be *)
(* aborted at any time: restart, timeout, deadlock.                        *)
(***************************************************************************)
EXTENDS Naturals, FiniteSets

CONSTANTS
    Contacts,        \* contacts of the supplier
    Workers,         \* requests the server handles at the same time
    MaxTokens,       \* bound: links issued
    MaxSubmissions,  \* bound: submissions accepted
    MaxExpired,      \* bound: links that expire
    MaxEvents,       \* bound: links issued, submissions and expiries together
    None             \* no contact, link or answer

Ids == 1..MaxTokens
Answers == 1..MaxSubmissions  \* an answer is named by the submission that created it

ASSUME PortalAssumption ==
    /\ MaxTokens \in Nat /\ MaxSubmissions \in Nat /\ MaxEvents \in Nat
    /\ None \notin Ids \cup Answers \cup Contacts

VARIABLES
    quote,        \* "open", "closed" or "removed"
    proposal,     \* the QuoteResponse: "none", "live" or "deleted"
    token,        \* the links
    nextToken,    \* next id of the token table
    answer,       \* the answers
    past,         \* earlier versions of the answers
    submissions,  \* submissions accepted so far
    barred,       \* links that existed when a removal of the proposal revoked them
    req           \* what each worker remembers of the request it handles

vars == <<quote, proposal, token, nextToken, answer, past, submissions, barred, req>>

NoRow == [state |-> "none"]
Idle == [op |-> "idle"]

Tokens == [contact: Contacts, revoked: BOOLEAN, expired: BOOLEAN,
           responded: BOOLEAN, answer: Answers \cup {None}]
AnswerRows == [token: Ids, version: Nat, content: Answers]
Versions == [token: Ids, of: Answers, version: Nat, content: Answers]

Issuers == {"reply", "regenerate", "dispatch"}
Requests ==
    {Idle}
    \cup [op: Issuers, pc: {"read", "revoking", "revoked"}, contact: Contacts,
          previous: Ids \cup {None}, carried: Answers \cup {None},
          seen: 1..MaxTokens + 1, locks: SUBSET Ids]
    \cup [op: {"remove"}, pc: {"read", "revoking", "revoked"}, contact: {None},
          seen: 1..MaxTokens + 1, locks: SUBSET Ids]
    \cup [op: {"generate"}, contact: Contacts]
    \cup [op: {"submit"}, token: Ids, existing: {None}]
    \cup [op: {"submit"}, token: Ids, existing: Answers, version: Nat, content: Answers]

Init ==
    /\ quote = "open"
    /\ proposal = "none"
    /\ token = [t \in Ids |-> NoRow]
    /\ nextToken = 1
    /\ answer = [p \in Answers |-> NoRow]
    /\ past = {}
    /\ submissions = 0
    /\ barred = {}
    /\ req = [w \in Workers |-> Idle]

-----------------------------------------------------------------------------
Issued == {t \in Ids : token[t] # NoRow}
Unrevoked == {t \in Issued : ~token[t].revoked}
Expired == {t \in Issued : token[t].expired}
Room == nextToken + submissions + Cardinality(Expired) <= MaxEvents
OfContact(c) == {t \in Issued : c = None \/ token[t].contact = c}

Given == {p \in Answers : answer[p] # NoRow}
\* The newest of some answers or links: the one with the highest id.
Newest(S) == {x \in S : \A y \in S : y <= x}
\* The answer given through t.
Through(t) == {p \in Given : answer[p].token = t}

Begin(w, request) == req[w] = Idle /\ req' = [req EXCEPT ![w] = request]
Continue(w, request) == req' = [req EXCEPT ![w] = request]
Finish(w) == Continue(w, Idle)

At(w, op, pc) == req[w].op = op /\ req[w].pc = pc

\* Row locks that requests other than w hold from one step to another.
Revoking == Issuers \cup {"remove"}
LockedByOthers(w) ==
    UNION {IF req[v].op \in Revoking THEN req[v].locks ELSE {} : v \in Workers \ {w}}
ProposalFree(w) == \A v \in Workers \ {w} : req[v].op # "remove"

\* A new link of contact c, with the answer p it takes over, if any.
Link(c, p) == [contact |-> c, revoked |-> FALSE, expired |-> FALSE,
               responded |-> p # None, answer |-> p]
\* The links after those of S are revoked.
Revoked(S) == [t \in Ids |-> IF t \in S THEN [token[t] EXCEPT !.revoked = TRUE] ELSE token[t]]

-----------------------------------------------------------------------------
(* Revoking and issuing links.                                             *)

Replacing(op, c, previous, carried) ==
    [op |-> op, pc |-> "read", contact |-> c, previous |-> previous, carried |-> carried,
     seen |-> 1, locks |-> {}]

\* rotateTokenForReply looks for the link that carries the supplier's answer,
\* revoked or not, else for the newest one that is not revoked.
Previous ==
    IF Given # {} THEN {answer[p].token : p \in Newest(Given)}
    ELSE IF Unrevoked # {} THEN Newest(Unrevoked)
    ELSE {None}

\* A buyer replies to the proposal; the answer goes to a link of contact c.
ReplyRead(w, c) ==
    /\ quote = "open"
    /\ proposal = "live"
    /\ \E t \in Previous :
          Begin(w, Replacing("reply", c, t, IF t = None THEN None ELSE token[t].answer))
    /\ UNCHANGED <<quote, proposal, token, nextToken, answer, past, submissions, barred>>

\* regenerateToken refuses (409) a link that was answered through.
RegenerateRead(w, t) ==
    /\ quote # "removed"
    /\ t \in Issued
    /\ ~token[t].responded
    /\ Begin(w, Replacing("regenerate", token[t].contact, t, None))
    /\ UNCHANGED <<quote, proposal, token, nextToken, answer, past, submissions, barred>>

\* The quote is sent to contact c, once more perhaps.
DispatchRead(w, c) ==
    /\ quote = "open"
    /\ Begin(w, Replacing("dispatch", c, None, None))
    /\ UNCHANGED <<quote, proposal, token, nextToken, answer, past, submissions, barred>>

\* A buyer removes the proposal: the UPDATE re-checks all and locks it.
RemoveStart(w) ==
    /\ quote = "open"
    /\ proposal = "live"
    /\ ProposalFree(w)
    /\ Begin(w, [op |-> "remove", pc |-> "read", contact |-> None,
                 seen |-> 1, locks |-> {}])
    /\ UNCHANGED <<quote, proposal, token, nextToken, answer, past, submissions, barred>>

\* The UPDATE that revokes starts: it will not see links issued later,
RevokeStart(w) ==
    /\ req[w].op \in Revoking
    /\ req[w].pc = "read"
    /\ Continue(w, [req[w] EXCEPT !.pc = "revoking", !.seen = nextToken])
    /\ UNCHANGED <<quote, proposal, token, nextToken, answer, past, submissions, barred>>

\* and waits for the links that others have locked.
RevokeLock(w) ==
    /\ req[w].op \in Revoking
    /\ req[w].pc = "revoking"
    /\ LET mine == {t \in Unrevoked \cap OfContact(req[w].contact) : t < req[w].seen}
       IN  /\ mine \cap LockedByOthers(w) = {}
           /\ IF req[w].op = "dispatch"  \* outside a transaction: done at once
              THEN /\ token' = Revoked(mine)
                   /\ Continue(w, [req[w] EXCEPT !.pc = "revoked"])
              ELSE /\ Continue(w, [req[w] EXCEPT !.pc = "revoked", !.locks = mine])
                   /\ UNCHANGED token
    /\ UNCHANGED <<quote, proposal, nextToken, answer, past, submissions, barred>>

\* responseId is unique: the answer is on a link other than the previous one.
NeverTaken(q) == FALSE  \* mutant: responseId is not unique
Taken(q) ==
    q.carried # None /\ \E t \in Issued \ {q.previous} : token[t].answer = q.carried

\* The earlier versions that move with the answer.
MovedNone(q, new) == past  \* mutant: they stay with the previous link
Moved(q, new) ==
    {IF h.token = q.previous THEN [h EXCEPT !.token = new] ELSE h : h \in past}

\* The new link takes over the answer that was read, with its versions; the
\* previous link loses what it carries by now.
ReplyCommit(w) ==
    /\ At(w, "reply", "revoked")
    /\ nextToken <= MaxTokens /\ Room
    /\ LET q == req[w]
       IN  /\ q.previous \notin LockedByOthers(w)
           /\ IF Taken(q)
              THEN UNCHANGED <<token, nextToken, answer, past>>
              ELSE /\ token' = [t \in Ids |->
                         IF t = nextToken THEN Link(q.contact, q.carried)
                         ELSE IF t = q.previous
                              THEN [token[t] EXCEPT !.revoked = TRUE, !.answer = None]
                         ELSE Revoked(q.locks)[t]]
                   /\ nextToken' = nextToken + 1
                   /\ IF q.carried = None
                      THEN UNCHANGED <<answer, past>>
                      ELSE /\ answer' = [answer EXCEPT ![q.carried].token = nextToken]
                           /\ past' = Moved(q, nextToken)
    /\ Finish(w)
    /\ UNCHANGED <<quote, proposal, submissions, barred>>

RegenerateCommit(w) ==
    /\ At(w, "regenerate", "revoked")
    /\ nextToken <= MaxTokens /\ Room
    /\ token' = [Revoked(req[w].locks) EXCEPT ![nextToken] = Link(req[w].contact, None)]
    /\ nextToken' = nextToken + 1
    /\ Finish(w)
    /\ UNCHANGED <<quote, proposal, answer, past, submissions, barred>>

\* A link for a contact without one, expired or not.
GenerateRead(w, c) ==
    /\ quote # "removed"
    /\ Unrevoked \cap OfContact(c) = {}
    /\ Begin(w, [op |-> "generate", contact |-> c])
    /\ UNCHANGED <<quote, proposal, token, nextToken, answer, past, submissions, barred>>

\* The second half of a dispatch or a generation; nothing is re-checked.
Issue(w) ==
    /\ At(w, "dispatch", "revoked") \/ req[w].op = "generate"
    /\ nextToken <= MaxTokens /\ Room
    /\ token' = [token EXCEPT ![nextToken] = Link(req[w].contact, None)]
    /\ nextToken' = nextToken + 1
    /\ Finish(w)
    /\ UNCHANGED <<quote, proposal, answer, past, submissions, barred>>

RemoveCommit(w) ==
    /\ At(w, "remove", "revoked")
    /\ proposal' = "deleted"
    /\ token' = Revoked(req[w].locks)
    /\ barred' = barred \cup {t \in Issued : t < req[w].seen}
    /\ Finish(w)
    /\ UNCHANGED <<quote, nextToken, answer, past, submissions>>

\* A buyer revokes one link.
RevokeToken(w, t) ==
    /\ req[w] = Idle
    /\ t \in Unrevoked \ LockedByOthers(w)
    /\ token' = Revoked({t})
    /\ UNCHANGED <<quote, proposal, nextToken, answer, past, submissions, barred, req>>

-----------------------------------------------------------------------------
(* Answers.                                                                *)

\* validate, then the first read of the transaction: the answer to revise.
SubmitRead(w, t) ==
    /\ t \in Unrevoked
    /\ ~token[t].expired
    /\ \/ /\ Through(t) = {}
          /\ Begin(w, [op |-> "submit", token |-> t, existing |-> None])
       \/ \E p \in Through(t) :
             Begin(w, [op |-> "submit", token |-> t, existing |-> p,
                       version |-> answer[p].version, content |-> answer[p].content])
    /\ UNCHANGED <<quote, proposal, token, nextToken, answer, past, submissions, barred>>

\* The WHERE of the last statement, and the unique portalTokenId of a first answer.
AcceptsAsRead(q) == q.existing = None => Through(q.token) = {}  \* mutant: the link is not re-checked
Accepts(q) ==
    /\ q.token \in Unrevoked
    /\ ~token[q.token].expired
    /\ quote = "open"
    /\ q.existing = None => Through(q.token) = {}

\* The history, to which the version that was read has gone.
KeptNone(q, p) == past  \* mutant: the version is overwritten without a copy
Kept(q, p) ==
    past \cup {[token |-> q.token, of |-> p, version |-> q.version, content |-> q.content]}

\* A first answer, or a new version of the one that was read.
SubmitCommit(w) ==
    /\ req[w].op = "submit"
    /\ submissions < MaxSubmissions /\ Room
    /\ ProposalFree(w)
    /\ LET q == req[w]
           n == submissions + 1
           p == IF q.existing = None THEN n ELSE q.existing
       IN  /\ q.token \notin LockedByOthers(w)
           /\ IF Accepts(q)
              THEN /\ IF q.existing = None
                      THEN /\ answer' = [answer EXCEPT ![n] =
                                 [token |-> q.token, version |-> 1, content |-> n]]
                           /\ UNCHANGED past
                      ELSE /\ answer' = [answer EXCEPT
                                 ![p].version = q.version + 1, ![p].content = n]
                           /\ past' = Kept(q, p)
                   /\ token' = [token EXCEPT ![q.token].responded = TRUE, ![q.token].answer = p]
                   /\ proposal' = "live"
                   /\ submissions' = n
              ELSE UNCHANGED <<answer, past, token, proposal, submissions>>
    /\ Finish(w)
    /\ UNCHANGED <<quote, nextToken, barred>>

-----------------------------------------------------------------------------
(* The quote, time and failures.                                           *)

\* A buyer types the supplier's proposal in, or restores it.
TypeIn(w) ==
    /\ req[w] = Idle
    /\ quote = "open"
    /\ proposal # "live"
    /\ proposal' = "live"
    /\ UNCHANGED <<quote, token, nextToken, answer, past, submissions, barred, req>>

Close(w) ==
    /\ req[w] = Idle
    /\ quote = "open"
    /\ quote' = "closed"
    /\ UNCHANGED <<proposal, token, nextToken, answer, past, submissions, barred, req>>

Reopen(w) ==
    /\ req[w] = Idle
    /\ quote = "closed"
    /\ quote' = "open"
    /\ UNCHANGED <<proposal, token, nextToken, answer, past, submissions, barred, req>>

\* The quote is removed, its links are revoked.  Here it stays removed.
RemoveQuote(w) ==
    /\ req[w] = Idle
    /\ quote # "removed"
    /\ ProposalFree(w)
    /\ Unrevoked \cap LockedByOthers(w) = {}
    /\ quote' = "removed"
    /\ proposal' = IF proposal = "none" THEN "none" ELSE "deleted"
    /\ token' = Revoked(Unrevoked)
    /\ UNCHANGED <<nextToken, answer, past, submissions, barred, req>>

Expire(t) ==
    /\ t \in Issued
    /\ ~token[t].expired
    /\ Cardinality(Expired) < MaxExpired /\ Room
    /\ token' = [token EXCEPT ![t].expired = TRUE]
    /\ UNCHANGED <<quote, proposal, nextToken, answer, past, submissions, barred, req>>

Abort(w) ==
    /\ req[w] # Idle
    /\ Finish(w)
    /\ UNCHANGED <<quote, proposal, token, nextToken, answer, past, submissions, barred>>

-----------------------------------------------------------------------------
Replace(w) ==
    \/ \E c \in Contacts : ReplyRead(w, c) \/ DispatchRead(w, c) \/ GenerateRead(w, c)
    \/ \E t \in Ids : RegenerateRead(w, t) \/ RevokeToken(w, t)
    \/ RemoveStart(w) \/ RevokeStart(w) \/ RevokeLock(w)
    \/ ReplyCommit(w) \/ RegenerateCommit(w) \/ Issue(w) \/ RemoveCommit(w)

Submit(w) == SubmitCommit(w) \/ \E t \in Ids : SubmitRead(w, t)

Manage(w) == TypeIn(w) \/ Close(w) \/ Reopen(w) \/ RemoveQuote(w) \/ Abort(w)

Next ==
    \/ \E w \in Workers : Replace(w) \/ Submit(w) \/ Manage(w)
    \/ \E t \in Ids : Expire(t)

Spec == Init /\ [][Next]_vars

-----------------------------------------------------------------------------
(* Properties.                                                             *)

\* Every row and remembered request has the shape the schema and the handlers
\* give it.
TypeOK ==
    /\ quote \in {"open", "closed", "removed"}
    /\ proposal \in {"none", "live", "deleted"}
    /\ token \in [Ids -> Tokens \cup {NoRow}]
    /\ nextToken \in 1..MaxTokens + 1
    /\ answer \in [Answers -> AnswerRows \cup {NoRow}]
    /\ past \subseteq Versions
    /\ submissions \in 0..MaxSubmissions
    /\ barred \subseteq Ids
    /\ req \in [Workers -> Requests]

\* The two pointers between links and answers agree: a link that says it
\* carries an answer is the one the answer names, however rotations and
\* submissions overlap (the portal follows one, the buyer's screens the other).
CarrierAgrees ==
    \A t \in Issued : token[t].answer # None =>
        token[t].answer \in Given /\ answer[token[t].answer].token = t

\* The history follows the answer: the earlier versions of an answer are found
\* through the link that carries it, after any number of overlapping replies
\* ("migra a resposta do portal (e o historico de revisoes)").
HistoryFollows == \A h \in past : h.of \in Given /\ answer[h.of].token = h.token

\* "Os links existentes nao podem reativar uma proposta removida": a link that
\* existed when the removal revoked them never brings the proposal back, also
\* if its submission began before.
RemovedStaysRemoved ==
    [][\A w \in Workers :
          req[w].op = "submit" /\ submissions' > submissions /\ req'[w] = Idle
          => req[w].token \notin barred]_vars

\* "Migra a resposta do portal ... do token ativo anterior para o novo", "sem
\* isso o link novo abriria vazio": when a reply has read a previous link and
\* issues the one that replaces it, the new one carries the answer given through
\* the previous one, if there is one by then.
AnswerFollowsTheReply ==
    [][\A w \in Workers :
          /\ ReplyCommit(w) /\ nextToken' > nextToken
          /\ req[w].previous # None /\ Through(req[w].previous) # {}
          => token'[nextToken].answer \in Through(req[w].previous)]_vars

-----------------------------------------------------------------------------
(* The same as AnswerRecord has it.                                        *)
Links == [t \in Ids |-> IF t \notin Issued THEN "unused"
                       ELSE IF token[t].revoked THEN "revoked"
                       ELSE IF token[t].expired THEN "expired" ELSE "valid"]
Carrier == [p \in Answers |-> IF p \in Given THEN answer[p].token ELSE None]
Text == [p \in Answers |-> IF p \in Given THEN answer[p].content ELSE None]
\* The history as it is found through the link of the answer.
Earlier == [p \in Answers |->
               {h.content : h \in {g \in past : p \in Given /\ g.token = answer[p].token}}]

Revisers(p) == {w \in Workers : req[w].op = "submit" /\ req[w].existing = p}
Begun == [p \in Answers |-> {req[w].content : w \in Revisers(p)}]

Record == INSTANCE AnswerRecord WITH
    link <- Links, carrier <- Carrier, text <- Text, earlier <- Earlier, begun <- Begun,
    count <- submissions

\* However replies, revocations and submissions overlap, each answer is on one
\* link with every version that was kept of it, moves only to a new link as the
\* old one is revoked, is given and revised only through a valid one, and a
\* revision keeps the version it had read.  Not every version is kept: of two
\* revisions that read the same one, what the first to commit said is lost.
ImplementsRecord == Record!Spec
=============================================================================
