------------------------- MODULE SupplierPortal_proof -------------------------
(***************************************************************************)
(* Proofs about SupplierPortal: the answers of a supplier, their history   *)
(* and the links that carry them agree, and a link that a removal revoked  *)
(* never brings the proposal back, for any number of contacts, links,      *)
(* submissions and overlapping requests.                                   *)
(***************************************************************************)
EXTENDS SupplierPortal, TLAPS

\* Ids are given out in order, and rows are never taken out.
RowsInOrder ==
    /\ \A t \in Ids : t \in Issued <=> t < nextToken
    /\ \A p \in Given : p <= submissions /\ answer[p].token \in Issued

\* One answer per link (portalTokenId is unique); the link an answer names
\* carries it, unless a reply has replaced that link.
OneAnswerPerLink ==
    /\ \A p, r \in Given : answer[p].token = answer[r].token => p = r
    /\ \A p \in Given :
          \/ token[answer[p].token].answer = p
          \/ token[answer[p].token].revoked

BarredAreRevoked == \A t \in barred : t \in Issued /\ token[t].revoked

\* What a request remembers still points at rows.
FindsRows(q) ==
    /\ q.op \in Revoking => q.locks \subseteq Issued /\ q.seen <= nextToken
    /\ q.op = "reply" /\ q.previous # None => q.previous \in Issued
    /\ q.op = "reply" /\ q.carried # None => q.previous # None /\ q.carried \in Given
    /\ q.op = "submit" => q.token \in Issued
    /\ q.op = "submit" /\ q.existing # None => q.existing \in Given

\* The answer a reply has read is where it was, or a later link carries it.
CarriedOrMoved(q) ==
    q.op = "reply" /\ q.carried # None =>
        \/ answer[q.carried].token = q.previous
        \/ token[answer[q.carried].token].answer = q.carried

\* The answer a submission revises is still on its link, or the link is revoked.
RevisesItsLink(q) ==
    q.op = "submit" /\ q.existing # None =>
        \/ answer[q.existing].token = q.token
        \/ token[q.token].revoked

\* A removal about to commit has found every link of its snapshot.
RemovalFinds(q) ==
    q.op = "remove" /\ q.pc = "revoked" =>
        \A t \in Issued : t < q.seen => token[t].revoked \/ t \in q.locks

\* Of two replies that replace links, one that would empty the link of the
\* answer the other carries replaces the same link.
SameLink(q, r) ==
    q.op = "reply" /\ r.op = "reply" /\ q.carried # None /\ r.carried # q.carried
    /\ r.previous # None /\ answer[q.carried].token = r.previous
    => q.previous = r.previous

Rows == /\ RowsInOrder /\ OneAnswerPerLink /\ CarrierAgrees
        /\ HistoryFollows /\ BarredAreRevoked

Remembers(q) == FindsRows(q) /\ CarriedOrMoved(q) /\ RevisesItsLink(q) /\ RemovalFinds(q)

IInv ==
    /\ TypeOK
    /\ Rows
    /\ \A w \in Workers : Remembers(req[w])
    /\ \A v, w \in Workers : SameLink(req[v], req[w])

-----------------------------------------------------------------------------
\* A row is told from its absence.
LEMMA RowsAreNotNoRow == NoRow \notin Tokens /\ NoRow \notin AnswerRows
BY DEF NoRow, Tokens, AnswerRows

LEMMA RowFields ==
    ASSUME TypeOK
    PROVE  /\ \A t \in Ids : token[t] \in Tokens \/ token[t] = NoRow
           /\ \A t \in Issued : t \in Ids /\ token[t] \in Tokens
           /\ \A p \in Given : p \in Answers /\ answer[p] \in AnswerRows
BY DEF TypeOK, Issued, Given

\* What a request remembers, by its kind.
LEMMA RequestFields ==
    ASSUME NEW q \in Requests
    PROVE  /\ q.op \in Issuers =>
                /\ q \in [op: Issuers, pc: {"read", "revoking", "revoked"},
                          contact: Contacts, previous: Ids \cup {None},
                          carried: Answers \cup {None}, seen: 1..MaxTokens + 1,
                          locks: SUBSET Ids]
           /\ q.op = "remove" =>
                /\ q \in [op: {"remove"}, pc: {"read", "revoking", "revoked"},
                          contact: {None}, seen: 1..MaxTokens + 1, locks: SUBSET Ids]
           /\ q.op = "generate" => q.contact \in Contacts
           /\ q.op = "submit" =>
                /\ q.token \in Ids
                /\ q.existing \in Answers \cup {None}
                /\ q.existing # None => q.version \in Nat /\ q.content \in Answers
BY PortalAssumption DEF Requests, Idle, Issuers

\* An idle worker remembers a request without fields.
LEMMA IdleIsARequest == Idle \in Requests
BY DEF Requests

\* Revoking some issued links changes nothing else of the links.
LEMMA RevokedLinks ==
    ASSUME TypeOK, NEW S \in SUBSET Issued
    PROVE  /\ Revoked(S) \in [Ids -> Tokens \cup {NoRow}]
           /\ \A t \in Ids : Revoked(S)[t] = NoRow <=> token[t] = NoRow
           /\ \A t \in Issued :
                /\ Revoked(S)[t].answer = token[t].answer
                /\ Revoked(S)[t].revoked = (token[t].revoked \/ t \in S)
<1>1. \A t \in Issued : token[t] \in Tokens
  BY RowFields
<1>2. \A t \in S : t \in Ids /\ t \in Issued
  BY DEF Issued
<1>3. \A t \in S : [token[t] EXCEPT !.revoked = TRUE] \in Tokens
  BY <1>1, <1>2 DEF Tokens
<1>4. Revoked(S) \in [Ids -> Tokens \cup {NoRow}]
  BY <1>3, RowFields DEF Revoked
<1>5. \A t \in Ids : Revoked(S)[t] = NoRow <=> token[t] = NoRow
  BY <1>2, <1>3, RowsAreNotNoRow DEF Revoked, Issued
<1>6. ASSUME NEW t \in Issued
      PROVE  /\ Revoked(S)[t].answer = token[t].answer
             /\ Revoked(S)[t].revoked = (token[t].revoked \/ t \in S)
  <2>1. t \in Ids /\ token[t] \in Tokens
    BY <1>1 DEF Issued
  <2>2. CASE t \in S
    BY <2>1, <2>2 DEF Revoked, Tokens
  <2>3. CASE t \notin S
    BY <2>1, <2>3 DEF Revoked, Tokens
  <2> QED BY <2>2, <2>3
<1> QED BY <1>4, <1>5, <1>6

\* A new link is a row that carries what it is given.
LEMMA NewLink ==
    ASSUME NEW c \in Contacts, NEW p \in Answers \cup {None}
    PROVE  Link(c, p) \in Tokens /\ Link(c, p).answer = p /\ ~Link(c, p).revoked
BY DEF Link, Tokens

-----------------------------------------------------------------------------
\* Without rows and requests the invariant holds.
LEMMA InitIInv == Init => IInv
<1> SUFFICES ASSUME Init PROVE IInv
  OBVIOUS
<1>1. TypeOK
  BY PortalAssumption, IdleIsARequest DEF Init, TypeOK
<1>2. Issued = {} /\ Given = {}
  BY DEF Init, Issued, Given
<1>3. Rows
  BY <1>2, PortalAssumption
     DEF Init, Rows, RowsInOrder, OneAnswerPerLink, CarrierAgrees, HistoryFollows,
         BarredAreRevoked, Ids
<1>4. \A w \in Workers : req[w].op = "idle"
  BY DEF Init, Idle
<1> QED
  BY <1>1, <1>3, <1>4
     DEF IInv, Remembers, FindsRows, CarriedOrMoved, RevisesItsLink, RemovalFinds,
         SameLink, Revoking, Issuers

-----------------------------------------------------------------------------
\* A step that issues links without an answer, revokes some or lets them
\* expire: no answer moves.
LinksStep ==
    /\ UNCHANGED <<answer, past, submissions>>
    /\ nextToken' \in 1..MaxTokens + 1 /\ nextToken <= nextToken'
    /\ token' \in [Ids -> Tokens \cup {NoRow}]
    /\ \A t \in Ids : token'[t] # NoRow <=> t < nextToken'
    /\ \A t \in Issued :
          /\ token'[t].answer = token[t].answer
          /\ token[t].revoked => token'[t].revoked
    /\ \A t \in Ids \ Issued : token'[t] # NoRow => token'[t].answer = None
    /\ barred' \subseteq Ids
    /\ \A t \in barred' : t \in barred \/ (t \in Issued /\ token'[t].revoked)

\* What a step that writes rows does to what the requests remember.
MemoriesKept ==
    /\ \A q \in Requests :
          Remembers(q) /\ (\A w \in Workers : SameLink(q, req[w])) => Remembers(q)'
    /\ \A q, r \in Requests :
          Remembers(q) /\ Remembers(r) /\ SameLink(q, r) => SameLink(q, r)'

\* A links step takes no link away and no answer is given.
LEMMA IssuedStayIssued ==
    ASSUME IInv, LinksStep
    PROVE  Issued \subseteq Issued' /\ Given' = Given
BY DEF IInv, Rows, RowsInOrder, LinksStep, Issued, Given, TypeOK, Ids

\* A links step keeps the invariant of the rows.
LEMMA LinksStepKeepsRows ==
    ASSUME IInv, LinksStep
    PROVE  Rows'
<1>1. Issued \subseteq Issued' /\ Given' = Given
  BY IssuedStayIssued
<1>2. TypeOK /\ RowsInOrder /\ OneAnswerPerLink /\ CarrierAgrees /\ HistoryFollows /\ BarredAreRevoked
  BY DEF IInv, Rows
<1>3. RowsInOrder'
  BY <1>1, <1>2 DEF RowsInOrder, LinksStep, Issued
<1>4. OneAnswerPerLink'
  <2>1. \A p \in Given : answer[p].token \in Issued
    BY <1>2 DEF RowsInOrder
  <2> QED BY <1>1, <1>2, <2>1 DEF OneAnswerPerLink, LinksStep
<1>5. CarrierAgrees'
  <2> SUFFICES ASSUME NEW t \in Issued', token'[t].answer # None
               PROVE  token'[t].answer \in Given' /\ answer'[token'[t].answer].token = t
    BY DEF CarrierAgrees
  <2>1. t \in Issued
    BY DEF LinksStep, Issued
  <2> QED BY <1>1, <1>2, <2>1 DEF CarrierAgrees, LinksStep
<1>6. HistoryFollows'
  BY <1>1, <1>2 DEF HistoryFollows, LinksStep
<1>7. BarredAreRevoked'
  BY <1>1, <1>2 DEF BarredAreRevoked, LinksStep
<1> QED BY <1>3, <1>4, <1>5, <1>6, <1>7 DEF Rows

\* A links step keeps what the requests remember true.
LEMMA LinksStepKeepsMemories ==
    ASSUME IInv, LinksStep
    PROVE  MemoriesKept
<1>1. Issued \subseteq Issued' /\ Given' = Given
  BY IssuedStayIssued
<1>2. TypeOK /\ RowsInOrder
  BY DEF IInv, Rows
<1>3. ASSUME NEW q \in Requests, Remembers(q)
      PROVE  Remembers(q)'
  <2>1. FindsRows(q) /\ CarriedOrMoved(q) /\ RevisesItsLink(q) /\ RemovalFinds(q)
    BY <1>3 DEF Remembers
  <2>2. FindsRows(q)'
    <3>1. nextToken \in Nat /\ nextToken' \in Nat /\ nextToken <= nextToken'
      BY <1>2, PortalAssumption DEF LinksStep, TypeOK
    <3>2. q.op \in Revoking => q.seen \in Nat
      BY RequestFields, PortalAssumption DEF Revoking
    <3> QED BY <1>1, <2>1, <3>1, <3>2 DEF FindsRows
  <2>3. CarriedOrMoved(q)'
    <3>1. q.op = "reply" /\ q.carried # None => answer[q.carried].token \in Issued
      BY <1>2, <2>1 DEF FindsRows, RowsInOrder
    <3> QED BY <2>1, <3>1 DEF CarriedOrMoved, LinksStep
  <2>4. RevisesItsLink(q)'
    <3>1. q.op = "submit" => q.token \in Issued
      BY <2>1 DEF FindsRows
    <3> QED BY <2>1, <3>1 DEF RevisesItsLink, LinksStep
  <2>5. RemovalFinds(q)'
    <3> SUFFICES ASSUME q.op = "remove", q.pc = "revoked", NEW t \in Issued', t < q.seen
                 PROVE  token'[t].revoked \/ t \in q.locks
      BY DEF RemovalFinds
    <3>1. q.seen <= nextToken /\ q.seen \in Nat /\ nextToken \in Nat /\ t \in Ids
      BY <1>2, <2>1, RequestFields, PortalAssumption
         DEF FindsRows, Revoking, TypeOK, Issued
    <3>2. t \in Issued
      BY <1>2, <3>1, PortalAssumption DEF RowsInOrder, Ids
    <3> QED BY <2>1, <3>2 DEF RemovalFinds, LinksStep
  <2> QED BY <2>2, <2>3, <2>4, <2>5 DEF Remembers
<1>4. ASSUME NEW q \in Requests, NEW r \in Requests, SameLink(q, r)
      PROVE  SameLink(q, r)'
  BY <1>4 DEF SameLink, LinksStep
<1> QED BY <1>3, <1>4 DEF MemoriesKept

-----------------------------------------------------------------------------
(* A reply that moves the answer it has read.                              *)

\* What the step writes, row by row.
LEMMA ReplyWrites ==
    ASSUME IInv, NEW w \in Workers, ReplyCommit(w), ~Taken(req[w])
    PROVE  LET u == req[w].previous
               p == req[w].carried
           IN  /\ req[w] \in Requests /\ req[w].op = "reply"
               /\ nextToken \in Ids /\ nextToken' = nextToken + 1
               /\ token' \in [Ids -> Tokens \cup {NoRow}]
               /\ \A t \in Ids : token'[t] # NoRow <=> t < nextToken'
               /\ token'[nextToken].answer = p
               /\ \A t \in Issued : t # u => token'[t].answer = token[t].answer
               /\ \A t \in Issued : token[t].revoked => token'[t].revoked
               /\ u # None => u \in Issued /\ token'[u].answer = None /\ token'[u].revoked
               /\ Given' = Given
               /\ answer' \in [Answers -> AnswerRows \cup {NoRow}]
               /\ \A r \in Given : r # p => answer'[r] = answer[r]
               /\ p # None => p \in Given /\ u # None /\ answer'[p].token = nextToken
               /\ p = None => past' = past
               /\ p # None => past' = Moved(req[w], nextToken)
               /\ UNCHANGED <<submissions, barred>>
<1> DEFINE u == req[w].previous
           p == req[w].carried
           c == req[w].contact
           L == req[w].locks
<1>1. TypeOK /\ RowsInOrder /\ FindsRows(req[w]) /\ req[w] \in Requests /\ req[w].op = "reply"
  BY DEF IInv, Rows, Remembers, ReplyCommit, At, TypeOK
<1>2. /\ c \in Contacts /\ p \in Answers \cup {None} /\ u \in Ids \cup {None}
      /\ L \in SUBSET Issued
  BY <1>1, RequestFields DEF Issuers, FindsRows, Revoking
<1>3. nextToken \in Ids /\ nextToken' = nextToken + 1
  <2>1. nextToken' = nextToken + 1 /\ nextToken <= MaxTokens
    BY DEF ReplyCommit
  <2>2. nextToken \in 1..MaxTokens + 1
    BY <1>1 DEF TypeOK
  <2> QED BY <2>1, <2>2, PortalAssumption DEF Ids
<1>4. u # None => u \in Issued
  BY <1>1 DEF FindsRows
<1>5. p # None => p \in Given /\ u # None
  BY <1>1 DEF FindsRows
<1>6. nextToken \notin Issued
  BY <1>1, <1>3 DEF RowsInOrder, Ids
<1>7. token' = [t \in Ids |->
                  IF t = nextToken THEN Link(c, p)
                  ELSE IF t = u THEN [token[t] EXCEPT !.revoked = TRUE, !.answer = None]
                  ELSE Revoked(L)[t]]
  BY DEF ReplyCommit
<1>8. Link(c, p) \in Tokens /\ Link(c, p).answer = p
  BY <1>2, NewLink
<1>9. ASSUME u # None
      PROVE  LET row == [token[u] EXCEPT !.revoked = TRUE, !.answer = None]
             IN  row \in Tokens /\ row.answer = None /\ row.revoked
  BY <1>1, <1>4, <1>9, RowFields DEF Tokens
<1>10. token' \in [Ids -> Tokens \cup {NoRow}]
  <2>1. Revoked(L) \in [Ids -> Tokens \cup {NoRow}]
    BY <1>1, <1>2, RevokedLinks
  <2>2. ASSUME NEW t \in Ids
        PROVE  (IF t = nextToken THEN Link(c, p)
                ELSE IF t = u THEN [token[t] EXCEPT !.revoked = TRUE, !.answer = None]
                ELSE Revoked(L)[t]) \in Tokens \cup {NoRow}
    <3>1. t = u => u # None
      BY PortalAssumption
    <3> QED BY <1>8, <1>9, <2>1, <3>1
  <2> QED BY <1>7, <2>2
<1>11. ASSUME NEW t \in Ids
       PROVE  token'[t] # NoRow <=> t < nextToken'
  <2>1. t < nextToken' <=> t = nextToken \/ t \in Issued
    BY <1>1, <1>3 DEF RowsInOrder, Ids
  <2>2. CASE t = nextToken
    BY <1>7, <1>8, <2>1, <2>2, RowsAreNotNoRow
  <2>3. CASE t # nextToken /\ t = u
    BY <1>2, <1>4, <1>7, <1>9, <2>1, <2>3, RowsAreNotNoRow, PortalAssumption
  <2>4. CASE t # nextToken /\ t # u
    <3>1. token'[t] = Revoked(L)[t]
      BY <1>7, <2>4
    <3>2. token'[t] = NoRow <=> token[t] = NoRow
      BY <1>1, <1>2, <3>1, RevokedLinks
    <3> QED BY <2>1, <2>4, <3>2 DEF Issued
  <2> QED BY <2>2, <2>3, <2>4
<1>12. token'[nextToken].answer = p
  BY <1>3, <1>7, <1>8
<1>13. ASSUME NEW t \in Issued
       PROVE  /\ t # u => token'[t].answer = token[t].answer
              /\ token[t].revoked => token'[t].revoked
  <2>1. t \in Ids /\ t # nextToken
    BY <1>6 DEF Issued
  <2>2. CASE t = u
    BY <1>7, <1>9, <2>1, <2>2, PortalAssumption
  <2>3. CASE t # u
    BY <1>1, <1>2, <1>7, <2>1, <2>3, RevokedLinks
  <2> QED BY <2>2, <2>3
<1>14. u # None => u \in Issued /\ token'[u].answer = None /\ token'[u].revoked
  BY <1>4, <1>6, <1>7, <1>9 DEF Issued
<1>15. /\ p = None => answer' = answer /\ past' = past
       /\ p # None => /\ answer' = [answer EXCEPT ![p].token = nextToken]
                      /\ past' = Moved(req[w], nextToken)
  BY DEF ReplyCommit
<1>16. ASSUME p # None
       PROVE  /\ [answer[p] EXCEPT !.token = nextToken] \in AnswerRows
              /\ answer'[p].token = nextToken
  BY <1>1, <1>3, <1>5, <1>15, <1>16, RowFields DEF AnswerRows, Given, TypeOK
<1>17. answer' \in [Answers -> AnswerRows \cup {NoRow}]
  BY <1>1, <1>15, <1>16 DEF TypeOK
<1>18. Given' = Given
  BY <1>1, <1>5, <1>15, <1>16, RowsAreNotNoRow DEF TypeOK, Given
<1>19. \A r \in Given : r # p => answer'[r] = answer[r]
  BY <1>1, <1>15 DEF TypeOK, Given
<1>20. UNCHANGED <<submissions, barred>>
  BY DEF ReplyCommit
<1> QED
  BY <1>1, <1>3, <1>5, <1>10, <1>11, <1>12, <1>13, <1>14, <1>15, <1>16, <1>17, <1>18,
     <1>19, <1>20

\* The answer that moves is still on the link it was read on.
LEMMA MovedFromPrevious ==
    ASSUME IInv, NEW w \in Workers, ReplyCommit(w), ~Taken(req[w]), req[w].carried # None
    PROVE  answer[req[w].carried].token = req[w].previous
<1> DEFINE p == req[w].carried
           t == answer[p].token
<1>1. p \in Given /\ t \in Issued
  BY ReplyWrites DEF IInv, Rows, RowsInOrder
<1>2. t = req[w].previous \/ token[t].answer = p
  BY ReplyWrites DEF IInv, Remembers, CarriedOrMoved
<1> QED BY <1>1, <1>2 DEF Taken

\* A reply keeps the invariant of the rows.
LEMMA ReplyKeepsRows ==
    ASSUME IInv, NEW w \in Workers, ReplyCommit(w), ~Taken(req[w])
    PROVE  Rows'
<1> DEFINE u == req[w].previous
           p == req[w].carried
<1>1. TypeOK /\ RowsInOrder /\ OneAnswerPerLink /\ CarrierAgrees /\ HistoryFollows /\ BarredAreRevoked
  BY DEF IInv, Rows
<1>2. nextToken \in Ids /\ nextToken \in Nat /\ nextToken \notin Issued /\ nextToken' = nextToken + 1
  BY <1>1, ReplyWrites, PortalAssumption DEF RowsInOrder, Ids, TypeOK
<1>3. \A t \in Ids : t \in Issued' <=> t \in Issued \/ t = nextToken
  BY <1>1, <1>2, ReplyWrites, PortalAssumption DEF RowsInOrder, Issued, Ids
<1>4. \A r \in Given : answer[r].token \in Issued
  BY <1>1 DEF RowsInOrder
<1>5. Given' = Given
  BY ReplyWrites
<1>6. p # None => answer[p].token = u /\ p \in Given /\ u # None /\ answer'[p].token = nextToken
  BY MovedFromPrevious, ReplyWrites
<1>7. \A r \in Given : r # p => answer'[r] = answer[r]
  BY ReplyWrites
<1>8. \A r \in Given : r = p => p # None
  BY PortalAssumption DEF Given
<1>9. RowsInOrder'
  <2>1. \A t \in Ids : t \in Issued' <=> t < nextToken'
    BY ReplyWrites DEF Issued
  <2>2. ASSUME NEW r \in Given
        PROVE  r <= submissions' /\ answer'[r].token \in Issued'
    <3>1. answer'[r].token \in Issued \/ answer'[r].token = nextToken
      BY <1>4, <1>6, <1>7, <1>8
    <3>2. answer'[r].token \in Issued'
      BY <1>2, <1>3, <3>1 DEF Issued
    <3>3. r <= submissions'
      BY <1>1, ReplyWrites DEF RowsInOrder
    <3> QED BY <3>2, <3>3
  <2> QED BY <1>5, <2>1, <2>2 DEF RowsInOrder
<1>10. OneAnswerPerLink'
  <2>1. \A r, s \in Given : answer'[r].token = answer'[s].token => r = s
    BY <1>1, <1>2, <1>4, <1>6, <1>7, <1>8 DEF OneAnswerPerLink
  <2>2. ASSUME NEW r \in Given
        PROVE  token'[answer'[r].token].answer = r \/ token'[answer'[r].token].revoked
    <3>1. CASE r = p
      BY <1>6, <1>8, <3>1, ReplyWrites
    <3>2. CASE r # p
      <4>1. token[answer[r].token].answer = r \/ token[answer[r].token].revoked
        BY <1>1 DEF OneAnswerPerLink
      <4>2. answer[r].token \in Issued /\ answer'[r].token = answer[r].token
        BY <1>4, <1>7, <3>2
      <4>3. CASE answer[r].token = u
        BY <4>2, <4>3, ReplyWrites, PortalAssumption DEF Issued
      <4>4. CASE answer[r].token # u
        BY <4>1, <4>2, <4>4, ReplyWrites
      <4> QED BY <4>3, <4>4
    <3> QED BY <3>1, <3>2
  <2> QED BY <1>5, <2>1, <2>2 DEF OneAnswerPerLink
<1>11. CarrierAgrees'
  <2> SUFFICES ASSUME NEW t \in Ids, t \in Issued', token'[t].answer # None
               PROVE  /\ token'[t].answer \in Given
                      /\ answer'[token'[t].answer].token = t
    BY <1>5 DEF CarrierAgrees, Issued
  <2>1. CASE t = nextToken
    BY <1>6, <2>1, ReplyWrites
  <2>2. CASE t # nextToken
    <3>1. t \in Issued /\ t # u
      BY <1>3, <2>2, ReplyWrites, PortalAssumption
    <3>2. token'[t].answer = token[t].answer
      BY <3>1, ReplyWrites
    <3>3. token[t].answer \in Given /\ answer[token[t].answer].token = t
      BY <1>1, <3>1, <3>2 DEF CarrierAgrees
    <3>4. token[t].answer # p
      BY <1>6, <1>8, <3>1, <3>3
    <3> QED BY <1>7, <3>2, <3>3, <3>4
  <2> QED BY <2>1, <2>2
<1>12. HistoryFollows'
  <2>1. CASE p = None
    <3>1. \A h \in past : h.of \in Given /\ answer'[h.of] = answer[h.of]
      BY <1>1, <1>7, <1>8, <2>1 DEF HistoryFollows
    <3> QED BY <1>1, <1>5, <2>1, <3>1, ReplyWrites DEF HistoryFollows
  <2>2. CASE p # None
    <3>1. past' = Moved(req[w], nextToken)
      BY <2>2, ReplyWrites
    <3>2. ASSUME NEW k \in past'
          PROVE  k.of \in Given /\ answer'[k.of].token = k.token
      <4>1. PICK h \in past : k = IF h.token = u THEN [h EXCEPT !.token = nextToken] ELSE h
        BY <3>1 DEF Moved
      <4>2. h \in Versions /\ h.of \in Given /\ answer[h.of].token = h.token
        BY <1>1 DEF HistoryFollows, TypeOK
      <4>3. CASE h.token = u
        <5>1. h.of = p
          BY <1>1, <1>6, <2>2, <4>2, <4>3 DEF OneAnswerPerLink
        <5>2. k.token = nextToken /\ k.of = h.of
          BY <4>1, <4>2, <4>3 DEF Versions
        <5> QED BY <1>6, <2>2, <4>2, <5>1, <5>2
      <4>4. CASE h.token # u
        <5>1. k = h /\ h.of # p
          BY <1>6, <2>2, <4>1, <4>2, <4>4
        <5> QED BY <1>7, <4>2, <5>1
      <4> QED BY <4>3, <4>4
    <3> QED BY <1>5, <3>2 DEF HistoryFollows
  <2> QED BY <2>1, <2>2
<1>13. BarredAreRevoked'
  BY <1>1, <1>3, ReplyWrites DEF BarredAreRevoked, Issued
<1> QED BY <1>9, <1>10, <1>11, <1>12, <1>13 DEF Rows

\* A reply keeps what the other requests remember true.
LEMMA ReplyKeepsMemories ==
    ASSUME IInv, NEW w \in Workers, ReplyCommit(w), ~Taken(req[w])
    PROVE  MemoriesKept
<1> DEFINE u == req[w].previous
           p == req[w].carried
<1>1. TypeOK /\ RowsInOrder /\ OneAnswerPerLink
  BY DEF IInv, Rows
<1>2. nextToken \in Ids /\ nextToken \in Nat /\ nextToken \notin Issued /\ nextToken' = nextToken + 1
  BY <1>1, ReplyWrites, PortalAssumption DEF RowsInOrder, Ids, TypeOK
<1>3. \A t \in Ids : t \in Issued' <=> t \in Issued \/ t = nextToken
  BY <1>1, <1>2, ReplyWrites, PortalAssumption DEF RowsInOrder, Issued, Ids
<1>4. \A r \in Given : answer[r].token \in Issued
  BY <1>1 DEF RowsInOrder
<1>5. Given' = Given /\ Issued \subseteq Issued'
  BY <1>3, ReplyWrites DEF Issued
<1>6. p # None => answer[p].token = u /\ answer'[p].token = nextToken
  BY MovedFromPrevious, ReplyWrites
<1>7. \A r \in Given : r # p => answer'[r] = answer[r]
  BY ReplyWrites
<1>8. ASSUME NEW q \in Requests, Remembers(q), \A v \in Workers : SameLink(q, req[v])
      PROVE  Remembers(q)'
  <2>1. FindsRows(q) /\ CarriedOrMoved(q) /\ RevisesItsLink(q) /\ RemovalFinds(q) /\ SameLink(q, req[w])
    BY <1>8 DEF Remembers
  <2>2. q.op \in Revoking => q.seen \in Nat
    BY RequestFields, PortalAssumption DEF Revoking
  <2>3. FindsRows(q)'
    BY <1>2, <1>5, <2>1, <2>2 DEF FindsRows
  <2>4. CarriedOrMoved(q)'
    <3> SUFFICES ASSUME q.op = "reply", q.carried # None
                 PROVE  \/ answer'[q.carried].token = q.previous
                        \/ token'[answer'[q.carried].token].answer = q.carried
      BY DEF CarriedOrMoved
    <3>1. q.carried \in Given
      BY <2>1 DEF FindsRows
    <3>2. CASE q.carried = p
      BY <1>6, <3>2, ReplyWrites
    <3>3. CASE q.carried # p /\ answer[q.carried].token = u
      <4>1. u # None
        BY <1>4, <3>1, <3>3, PortalAssumption DEF Issued
      <4>2. q.previous = u
        BY <2>1, <3>3, <4>1, ReplyWrites DEF SameLink
      <4> QED BY <1>7, <3>1, <3>3, <4>2
    <3>4. CASE q.carried # p /\ answer[q.carried].token # u
      BY <1>4, <1>7, <2>1, <3>1, <3>4, ReplyWrites DEF CarriedOrMoved
    <3> QED BY <3>2, <3>3, <3>4
  <2>5. RevisesItsLink(q)'
    <3> SUFFICES ASSUME q.op = "submit", q.existing # None
                 PROVE  answer'[q.existing].token = q.token \/ token'[q.token].revoked
      BY DEF RevisesItsLink
    <3>1. q.token \in Issued /\ q.existing \in Given
      BY <2>1 DEF FindsRows
    <3>2. CASE token[q.token].revoked
      BY <3>1, <3>2, ReplyWrites
    <3>3. CASE answer[q.existing].token = q.token /\ q.existing # p
      BY <1>7, <3>1, <3>3
    <3>4. CASE answer[q.existing].token = q.token /\ q.existing = p
      BY <1>6, <3>4, ReplyWrites
    <3> QED BY <2>1, <3>2, <3>3, <3>4 DEF RevisesItsLink
  <2>6. RemovalFinds(q)'
    <3> SUFFICES ASSUME q.op = "remove", q.pc = "revoked", NEW t \in Issued', t < q.seen
                 PROVE  token'[t].revoked \/ t \in q.locks
      BY DEF RemovalFinds
    <3>1. q.seen <= nextToken /\ q.seen \in Nat /\ t \in Ids
      BY <2>1, <2>2 DEF FindsRows, Revoking, Issued
    <3>2. t \in Issued
      BY <1>2, <1>3, <3>1, PortalAssumption DEF Ids
    <3> QED BY <2>1, <3>2, ReplyWrites DEF RemovalFinds
  <2> QED BY <2>3, <2>4, <2>5, <2>6 DEF Remembers
<1>9. ASSUME NEW q \in Requests, NEW r \in Requests, Remembers(q), Remembers(r), SameLink(q, r)
      PROVE  SameLink(q, r)'
  <2> SUFFICES ASSUME q.op = "reply", r.op = "reply", q.carried # None, r.carried # q.carried,
                      r.previous # None, answer'[q.carried].token = r.previous
               PROVE  q.previous = r.previous
    BY DEF SameLink
  <2>1. q.carried \in Given /\ r.previous \in Issued
    BY <1>9 DEF Remembers, FindsRows
  <2>2. q.carried # p
    BY <1>2, <1>6, <2>1
  <2> QED BY <1>7, <1>9, <2>1, <2>2 DEF SameLink
<1> QED BY <1>8, <1>9 DEF MemoriesKept

-----------------------------------------------------------------------------
(* A submission that is accepted.                                          *)

\* What the step writes, row by row: p is the answer created or revised.
LEMMA SubmitWrites ==
    ASSUME IInv, NEW w \in Workers, SubmitCommit(w), Accepts(req[w])
    PROVE  \E p \in Answers :
              /\ req[w] \in Requests /\ req[w].op = "submit"
              /\ req[w].token \in Unrevoked
              /\ UNCHANGED <<nextToken, barred>>
              /\ submissions' = submissions + 1 /\ submissions' \in Answers
              /\ p \in Given => /\ answer[p].token = req[w].token
                                /\ \A h \in past' \ past : h.of = p /\ h.token = req[w].token
              /\ p \notin Given => /\ p = submissions + 1
                                   /\ Through(req[w].token) = {}
                                   /\ past' = past
              /\ past \subseteq past' /\ past' \subseteq Versions
              /\ answer' \in [Answers -> AnswerRows \cup {NoRow}]
              /\ Given' = Given \cup {p} /\ answer'[p].token = req[w].token
              /\ \A r \in Given : r # p => answer'[r] = answer[r]
              /\ token' \in [Ids -> Tokens \cup {NoRow}]
              /\ Issued' = Issued
              /\ \A t \in Issued : /\ token'[t].revoked = token[t].revoked
                                   /\ t # req[w].token => token'[t].answer = token[t].answer
              /\ token'[req[w].token].answer = p
<1> DEFINE q == req[w]
           n == submissions + 1
           p == IF q.existing = None THEN n ELSE q.existing
           row == [token[q.token] EXCEPT !.responded = TRUE, !.answer = p]
<1>1. TypeOK /\ RowsInOrder /\ Remembers(q) /\ q \in Requests /\ q.op = "submit"
  BY DEF IInv, Rows, SubmitCommit, TypeOK
<1>2. q.token \in Unrevoked /\ q.token \in Issued /\ q.token \in Ids
  BY DEF Accepts, Unrevoked, Issued
<1>3. n \in Answers /\ submissions' = n /\ submissions \in Nat
  <2>1. submissions < MaxSubmissions /\ submissions' = submissions + 1
    BY DEF SubmitCommit
  <2>2. submissions \in 0..MaxSubmissions
    BY <1>1 DEF TypeOK
  <2> QED BY <2>1, <2>2, PortalAssumption DEF Answers
<1>4. q.existing # None => q.existing \in Given /\ q.existing \in Answers
  BY <1>1 DEF Remembers, FindsRows, Given
<1>5. n \notin Given
  BY <1>1, <1>3 DEF RowsInOrder
<1>6. p \in Answers /\ (p \in Given <=> q.existing # None)
  BY <1>3, <1>4, <1>5
<1>7. p \in Given => answer[p].token = q.token
  BY <1>1, <1>2, <1>6 DEF Remembers, RevisesItsLink, Unrevoked
<1>8. p \notin Given => p = n /\ Through(q.token) = {}
  BY <1>6 DEF Accepts
<1>9. /\ q.existing = None => /\ answer' = [answer EXCEPT ![n] =
                                    [token |-> q.token, version |-> 1, content |-> n]]
                              /\ past' = past
      /\ q.existing # None =>
           /\ answer' = [answer EXCEPT ![p].version = q.version + 1, ![p].content = n]
           /\ past' = past \cup {[token |-> q.token, of |-> p,
                                  version |-> q.version, content |-> q.content]}
      /\ token' = [token EXCEPT ![q.token].responded = TRUE, ![q.token].answer = p]
      /\ UNCHANGED <<nextToken, barred>>
  BY DEF SubmitCommit, Kept
<1>10. row \in Tokens /\ row.revoked = token[q.token].revoked /\ row.answer = p
  BY <1>1, <1>2, <1>6, RowFields DEF Tokens
<1>11. token' = [token EXCEPT ![q.token] = row]
  BY <1>1, <1>2, <1>9 DEF TypeOK
<1>12. /\ token' \in [Ids -> Tokens \cup {NoRow}]
       /\ Issued' = Issued
  BY <1>1, <1>2, <1>10, <1>11, RowsAreNotNoRow DEF TypeOK, Issued
<1>13. \A t \in Issued : /\ token'[t].revoked = token[t].revoked
                         /\ t # q.token => token'[t].answer = token[t].answer
  BY <1>1, <1>2, <1>10, <1>11 DEF TypeOK, Issued
<1>14. token'[q.token].answer = p
  BY <1>1, <1>2, <1>10, <1>11 DEF TypeOK
<1>15. CASE q.existing = None
  <2>1. [token |-> q.token, version |-> 1, content |-> n] \in AnswerRows
    BY <1>2, <1>3 DEF AnswerRows
  <2>2. /\ answer' \in [Answers -> AnswerRows \cup {NoRow}]
        /\ Given' = Given \cup {p} /\ answer'[p].token = q.token
        /\ \A r \in Given : r # p => answer'[r] = answer[r]
    BY <1>1, <1>3, <1>9, <1>15, <2>1, RowsAreNotNoRow DEF TypeOK, Given
  <2>3. past' = past /\ past \subseteq Versions
    BY <1>1, <1>9, <1>15 DEF TypeOK
  <2>4. p \notin Given
    BY <1>6, <1>15
  <2>5. UNCHANGED <<nextToken, barred>>
    BY <1>9
  <2> p \in Answers
    BY <1>6
  <2> HIDE DEF p, row
  <2> WITNESS p \in Answers
  <2> QED
    BY <1>1, <1>2, <1>3, <1>8, <1>12, <1>13, <1>14, <2>2, <2>3, <2>4, <2>5
<1>16. CASE q.existing # None
  <2>1. answer[p] \in AnswerRows /\ q.version \in Nat /\ q.content \in Answers
    BY <1>1, <1>4, <1>16, RowFields, RequestFields
  <2> DEFINE new == [answer[p] EXCEPT !.version = q.version + 1, !.content = n]
             h == [token |-> q.token, of |-> p, version |-> q.version, content |-> q.content]
  <2>2. new \in AnswerRows /\ new.token = answer[p].token
    <3>1. ASSUME NEW a \in AnswerRows, NEW v \in Nat, NEW c \in Answers
          PROVE  /\ [a EXCEPT !.version = v, !.content = c] \in AnswerRows
                 /\ [a EXCEPT !.version = v, !.content = c].token = a.token
      BY DEF AnswerRows
    <3>2. q.version + 1 \in Nat
      BY <2>1
    <3> HIDE DEF p, n
    <3> QED BY <1>3, <2>1, <3>1, <3>2
  <2>3. answer' = [answer EXCEPT ![p] = new]
    BY <1>1, <1>6, <1>9, <1>16 DEF TypeOK
  <2>4. /\ answer' \in [Answers -> AnswerRows \cup {NoRow}]
        /\ Given' = Given \cup {p}
        /\ \A r \in Given : r # p => answer'[r] = answer[r]
    BY <1>1, <1>6, <1>16, <2>2, <2>3, RowsAreNotNoRow DEF TypeOK, Given
  <2>5. answer'[p].token = q.token
    BY <1>1, <1>6, <1>7, <1>16, <2>2, <2>3 DEF TypeOK
  <2>6. h \in Versions /\ h.of = p /\ h.token = q.token
    BY <1>2, <1>6, <2>1 DEF Versions
  <2>7. past' = past \cup {h} /\ past \subseteq Versions
    BY <1>1, <1>9, <1>16 DEF TypeOK
  <2>8. past \subseteq past' /\ past' \subseteq Versions
        /\ \A k \in past' \ past : k.of = p /\ k.token = q.token
    BY <2>6, <2>7
  <2>9. p \in Given
    BY <1>6, <1>16
  <2>10. UNCHANGED <<nextToken, barred>>
    BY <1>9
  <2> p \in Answers
    BY <1>6
  <2> HIDE DEF p, h, new, row
  <2> WITNESS p \in Answers
  <2> QED
    BY <1>1, <1>2, <1>3, <1>7, <1>12, <1>13, <1>14, <2>4, <2>5, <2>8, <2>9, <2>10
<1> QED BY <1>15, <1>16

\* A submission keeps both.
LEMMA SubmitKeeps ==
    ASSUME IInv, NEW w \in Workers, SubmitCommit(w), Accepts(req[w])
    PROVE  Rows' /\ MemoriesKept
<1> DEFINE s == req[w].token
<1>1. TypeOK /\ RowsInOrder /\ OneAnswerPerLink /\ CarrierAgrees /\ HistoryFollows /\ BarredAreRevoked
  BY DEF IInv, Rows
<1>2. PICK p \in Answers :
         /\ req[w] \in Requests /\ req[w].op = "submit"
         /\ s \in Unrevoked
         /\ UNCHANGED <<nextToken, barred>>
         /\ submissions' = submissions + 1 /\ submissions' \in Answers
         /\ p \in Given => /\ answer[p].token = s
                           /\ \A h \in past' \ past : h.of = p /\ h.token = s
         /\ p \notin Given => /\ p = submissions + 1
                              /\ Through(s) = {}
                              /\ past' = past
         /\ past \subseteq past' /\ past' \subseteq Versions
         /\ answer' \in [Answers -> AnswerRows \cup {NoRow}]
         /\ Given' = Given \cup {p} /\ answer'[p].token = s
         /\ \A r \in Given : r # p => answer'[r] = answer[r]
         /\ token' \in [Ids -> Tokens \cup {NoRow}]
         /\ Issued' = Issued
         /\ \A t \in Issued : /\ token'[t].revoked = token[t].revoked
                              /\ t # s => token'[t].answer = token[t].answer
         /\ token'[s].answer = p
  BY SubmitWrites
<1>3. s \in Issued /\ ~token[s].revoked
  BY <1>2 DEF Unrevoked
<1>4. \A r \in Given : answer[r].token \in Issued /\ answer'[r].token = answer[r].token
  BY <1>1, <1>2 DEF RowsInOrder
<1>5. \A r \in Given : answer[r].token = s => r = p
  BY <1>1, <1>2 DEF OneAnswerPerLink, Through
<1>6. submissions \in Nat /\ submissions' \in Nat
  BY <1>1, <1>2, PortalAssumption DEF TypeOK, Answers
<1>7. RowsInOrder'
  <2>1. \A t \in Ids : t \in Issued' <=> t < nextToken'
    BY <1>1, <1>2 DEF RowsInOrder
  <2>2. \A r \in Given : r \in Nat /\ r <= submissions
    BY <1>1, PortalAssumption DEF RowsInOrder, Given, Answers
  <2>3. \A r \in Given' : r <= submissions' /\ answer'[r].token \in Issued'
    BY <1>2, <1>3, <1>4, <1>6, <2>2
  <2> QED BY <2>1, <2>3 DEF RowsInOrder
<1>8. OneAnswerPerLink'
  <2>1. \A r, t \in Given' : answer'[r].token = answer'[t].token => r = t
    BY <1>1, <1>2, <1>4, <1>5 DEF OneAnswerPerLink
  <2>2. ASSUME NEW r \in Given'
        PROVE  token'[answer'[r].token].answer = r \/ token'[answer'[r].token].revoked
    <3>1. CASE r = p
      BY <1>2, <3>1
    <3>2. CASE r # p
      <4>1. r \in Given /\ answer[r].token # s /\ answer[r].token \in Issued
        BY <1>2, <1>4, <1>5, <3>2
      <4>2. token[answer[r].token].answer = r \/ token[answer[r].token].revoked
        BY <1>1, <4>1 DEF OneAnswerPerLink
      <4> QED BY <1>2, <1>4, <4>1, <4>2
    <3> QED BY <3>1, <3>2
  <2> QED BY <2>1, <2>2 DEF OneAnswerPerLink
<1>9. CarrierAgrees'
  <2> SUFFICES ASSUME NEW t \in Issued, token'[t].answer # None
               PROVE  /\ token'[t].answer \in Given'
                      /\ answer'[token'[t].answer].token = t
    BY <1>2 DEF CarrierAgrees
  <2>1. CASE t = s
    BY <1>2, <2>1
  <2>2. CASE t # s
    BY <1>1, <1>2, <1>4, <2>2 DEF CarrierAgrees
  <2> QED BY <2>1, <2>2
<1>10. HistoryFollows'
  <2> SUFFICES ASSUME NEW h \in past'
               PROVE  h.of \in Given' /\ answer'[h.of].token = h.token
    BY DEF HistoryFollows
  <2>1. CASE h \in past
    BY <1>1, <1>2, <1>4, <2>1 DEF HistoryFollows
  <2>2. CASE h \notin past
    BY <1>2, <2>2
  <2> QED BY <2>1, <2>2
<1>11. BarredAreRevoked'
  BY <1>1, <1>2 DEF BarredAreRevoked
<1>12. ASSUME NEW q \in Requests, Remembers(q)
       PROVE  Remembers(q)'
  <2>1. FindsRows(q) /\ CarriedOrMoved(q) /\ RevisesItsLink(q) /\ RemovalFinds(q)
    BY <1>12 DEF Remembers
  <2>2. FindsRows(q)'
    BY <1>2, <2>1 DEF FindsRows
  <2>3. CarriedOrMoved(q)'
    <3> SUFFICES ASSUME q.op = "reply", q.carried # None
                 PROVE  \/ answer'[q.carried].token = q.previous
                        \/ token'[answer'[q.carried].token].answer = q.carried
      BY DEF CarriedOrMoved
    <3>1. q.carried \in Given
      BY <2>1 DEF FindsRows
    <3>2. \/ answer[q.carried].token = q.previous
          \/ token[answer[q.carried].token].answer = q.carried
      BY <2>1 DEF CarriedOrMoved
    <3>3. CASE answer[q.carried].token = s
      BY <1>2, <1>4, <1>5, <3>1, <3>3
    <3>4. CASE answer[q.carried].token # s
      BY <1>2, <1>4, <3>1, <3>2, <3>4
    <3> QED BY <3>3, <3>4
  <2>4. RevisesItsLink(q)'
    BY <1>2, <1>4, <2>1 DEF RevisesItsLink, FindsRows
  <2>5. RemovalFinds(q)'
    BY <1>2, <2>1 DEF RemovalFinds
  <2> QED BY <2>2, <2>3, <2>4, <2>5 DEF Remembers
<1>13. ASSUME NEW q \in Requests, NEW r \in Requests, Remembers(q), SameLink(q, r)
       PROVE  SameLink(q, r)'
  BY <1>4, <1>13 DEF SameLink, Remembers, FindsRows
<1> QED
  BY <1>7, <1>8, <1>9, <1>10, <1>11, <1>12, <1>13 DEF Rows, MemoriesKept

-----------------------------------------------------------------------------
(* The requests after a step.                                              *)

USE DEF Begin, Continue, Finish

\* Worker w goes on to remember q; q names no other reply than before.
LEMMA RequestsKeep ==
    ASSUME IInv, TypeOK', Rows', MemoriesKept,
           NEW w \in Workers, NEW q \in Requests, req' = [req EXCEPT ![w] = q],
           Remembers(q)',
           q.op = "reply" => /\ req[w].op = "reply"
                             /\ q.previous = req[w].previous
                             /\ q.carried = req[w].carried
    PROVE  IInv'
<1>1. \A v \in Workers : req[v] \in Requests /\ Remembers(req[v])
  BY DEF IInv, TypeOK
<1>2. \A v \in Workers : req'[v] = IF v = w THEN q ELSE req[v]
  BY DEF IInv, TypeOK
<1>3. ASSUME NEW v \in Workers
      PROVE  Remembers(req[v])'
  <2>1. CASE v = w
    BY <1>2, <2>1 DEF Remembers, FindsRows, CarriedOrMoved, RevisesItsLink, RemovalFinds
  <2>2. CASE v # w
    <3>1. PICK r \in Requests : r = req[v]
      BY <1>1
    <3>2. Remembers(r) /\ \A u \in Workers : SameLink(r, req[u])
      BY <1>1, <3>1 DEF IInv
    <3>3. Remembers(r)'
      BY <3>2 DEF MemoriesKept
    <3>4. req'[v] = r
      BY <1>2, <2>2, <3>1
    <3> QED
      BY <3>3, <3>4 DEF Remembers, FindsRows, CarriedOrMoved, RevisesItsLink, RemovalFinds
  <2> QED BY <2>1, <2>2
<1>4. ASSUME NEW u \in Workers, NEW v \in Workers
      PROVE  SameLink(req[u], req[v])'
  <2>1. PICK r \in Requests : r = req[u]
    BY <1>1
  <2>2. PICK s \in Requests : s = req[v]
    BY <1>1
  <2>3. Remembers(r) /\ Remembers(s) /\ SameLink(r, s)
    BY <1>1, <2>1, <2>2 DEF IInv
  <2>4. SameLink(r, s)'
    BY <2>3 DEF MemoriesKept
  <2>5. /\ req'[u].op = "reply" => r.op = "reply" /\ req'[u].previous = r.previous
                                  /\ req'[u].carried = r.carried
        /\ req'[v].op = "reply" => s.op = "reply" /\ req'[v].previous = s.previous
                                  /\ req'[v].carried = s.carried
    BY <1>2, <2>1, <2>2
  <2> QED BY <2>4, <2>5 DEF SameLink
<1> QED BY <1>3, <1>4 DEF IInv

\* The same for a step that no worker takes.
LEMMA NoRequestChanges ==
    ASSUME IInv, TypeOK', Rows', MemoriesKept, UNCHANGED req
    PROVE  IInv'
<1>1. ASSUME NEW w \in Workers
      PROVE  IInv'
  <2>1. PICK q \in Requests : q = req[w]
    BY DEF IInv, TypeOK
  <2>2. Remembers(q) /\ \A v \in Workers : SameLink(q, req[v])
    BY <2>1 DEF IInv
  <2>3. Remembers(q)'
    BY <2>2 DEF MemoriesKept
  <2>4. req' = [req EXCEPT ![w] = q]
    BY <2>1 DEF IInv, TypeOK
  <2> QED BY <2>1, <2>3, <2>4, RequestsKeep
<1>2. CASE Workers = {}
  BY <1>2 DEF IInv
<1> QED BY <1>1, <1>2

\* An idle worker remembers nothing that could become false.
LEMMA IdleRemembersNothing == Remembers(Idle)'
BY DEF Idle, Remembers, FindsRows, CarriedOrMoved, RevisesItsLink, RemovalFinds,
       Revoking, Issuers

\* A step that changes no row is a links step.
LEMMA NothingIsALinksStep ==
    ASSUME IInv, UNCHANGED <<token, nextToken, answer, past, submissions, barred>>
    PROVE  LinksStep
BY DEF IInv, TypeOK, Rows, RowsInOrder, LinksStep, Issued

\* A links step and what its worker goes on to remember.
LEMMA LinksStepKeepsIInv ==
    ASSUME IInv, LinksStep,
           quote' \in {"open", "closed", "removed"},
           proposal' \in {"none", "live", "deleted"},
           NEW w \in Workers, NEW q \in Requests, req' = [req EXCEPT ![w] = q],
           Remembers(q)',
           q.op = "reply" => /\ req[w].op = "reply"
                             /\ q.previous = req[w].previous
                             /\ q.carried = req[w].carried
    PROVE  IInv'
<1>1. TypeOK'
  BY DEF IInv, TypeOK, LinksStep
<1> QED BY <1>1, LinksStepKeepsRows, LinksStepKeepsMemories, RequestsKeep

\* The same when no request changes.
LEMMA QuietLinksStep ==
    ASSUME IInv, LinksStep, UNCHANGED req,
           quote' \in {"open", "closed", "removed"},
           proposal' \in {"none", "live", "deleted"}
    PROVE  IInv'
<1>1. TypeOK'
  BY DEF IInv, TypeOK, LinksStep
<1> QED BY <1>1, LinksStepKeepsRows, LinksStepKeepsMemories, NoRequestChanges

-----------------------------------------------------------------------------
(* The actions.                                                            *)

\* A step that changes no row and remembers q, which names no new reply.
LEMMA ReadKeepsIInv ==
    ASSUME IInv,
           UNCHANGED <<quote, proposal, token, nextToken, answer, past, submissions, barred>>,
           NEW w \in Workers, NEW q \in Requests, req' = [req EXCEPT ![w] = q],
           Remembers(q),
           q.op = "reply" => /\ req[w].op = "reply"
                             /\ q.previous = req[w].previous
                             /\ q.carried = req[w].carried
    PROVE  IInv'
<1>1. LinksStep
  BY NothingIsALinksStep
<1>2. Remembers(q)'
  BY DEF Remembers, FindsRows, CarriedOrMoved, RevisesItsLink, RemovalFinds, Issued, Given
<1>3. quote' \in {"open", "closed", "removed"} /\ proposal' \in {"none", "live", "deleted"}
  BY DEF IInv, TypeOK
<1> QED BY <1>1, <1>2, <1>3, LinksStepKeepsIInv

\* A reply reads; this is where SameLink could fail.
LEMMA ReplyReadKeeps ==
    ASSUME IInv, NEW w \in Workers, NEW c \in Contacts, ReplyRead(w, c)
    PROVE  IInv'
<1>1. TypeOK /\ RowsInOrder /\ OneAnswerPerLink /\ CarrierAgrees
  BY DEF IInv, Rows
<1>2. PICK t \in Previous :
         req' = [req EXCEPT ![w] = Replacing("reply", c, t,
                                      IF t = None THEN None ELSE token[t].answer)]
  BY DEF ReplyRead
<1> DEFINE p == IF t = None THEN None ELSE token[t].answer
           q == Replacing("reply", c, t, p)
<1>3. t = None \/ t \in Issued
  BY <1>1 DEF Previous, Newest, Unrevoked, RowsInOrder
<1>4. p = None \/ (p \in Given /\ answer[p].token = t /\ t # None)
  BY <1>1, <1>3 DEF CarrierAgrees
<1>5. p \in Answers \cup {None} /\ t \in Ids \cup {None} /\ 1 \in 1..MaxTokens + 1
      /\ 1 <= nextToken
  BY <1>1, <1>3, <1>4, PortalAssumption DEF Given, Issued, TypeOK
<1>6. q \in Requests
  BY <1>5 DEF Replacing, Requests, Issuers
<1>7. Remembers(q)
  BY <1>3, <1>4, <1>5
     DEF Replacing, Remembers, FindsRows, CarriedOrMoved, RevisesItsLink, RemovalFinds
<1>8. UNCHANGED <<quote, proposal, token, nextToken, answer, past, submissions, barred>>
  BY DEF ReplyRead
<1>9. q.op = "reply" /\ q.previous = t /\ q.carried = p
  BY DEF Replacing
<1>10. \A v \in Workers : req'[v] = IF v = w THEN q ELSE req[v]
  BY <1>1, <1>2 DEF TypeOK
<1>11. TypeOK'
  BY <1>1, <1>2, <1>6, <1>8 DEF TypeOK
<1>12. Rows'
  BY <1>8, NothingIsALinksStep, LinksStepKeepsRows
<1>13. \A v \in Workers : Remembers(req[v])
  BY DEF IInv
<1>14. \A v \in Workers : Remembers(req[v])'
  BY <1>7, <1>8, <1>10, <1>13
     DEF Remembers, FindsRows, CarriedOrMoved, RevisesItsLink, RemovalFinds, Issued, Given
<1>15. ASSUME NEW v \in Workers
       PROVE  SameLink(q, req[v]) /\ SameLink(req[v], q)
  <2>1. SameLink(q, req[v])
    BY <1>4, <1>9 DEF SameLink
  <2>2. SameLink(req[v], q)
    <3> SUFFICES ASSUME req[v].op = "reply", req[v].carried # None, p # req[v].carried,
                        t # None, answer[req[v].carried].token = t
                 PROVE  req[v].previous = t
      BY <1>9 DEF SameLink
    <3>1. token[t].answer # req[v].carried
      OBVIOUS
    <3> QED BY <1>13, <3>1 DEF Remembers, CarriedOrMoved
  <2> QED BY <2>1, <2>2
<1>16. \A u, v \in Workers : SameLink(req[u], req[v])
  BY DEF IInv
<1>17. SameLink(q, q)
  BY DEF SameLink
<1>18. \A u, v \in Workers : SameLink(req[u], req[v])'
  BY <1>8, <1>10, <1>15, <1>16, <1>17 DEF SameLink
<1> QED BY <1>11, <1>12, <1>14, <1>18 DEF IInv

\* The other reads, and the steps at which nothing is written.
LEMMA ReadsKeep ==
    ASSUME IInv, NEW w \in Workers,
           \/ \E c \in Contacts : DispatchRead(w, c) \/ GenerateRead(w, c)
           \/ \E t \in Ids : RegenerateRead(w, t) \/ SubmitRead(w, t)
           \/ RemoveStart(w) \/ RevokeStart(w) \/ Abort(w)
    PROVE  IInv'
<1> USE DEF Remembers, FindsRows, CarriedOrMoved, RevisesItsLink, RemovalFinds
<1>1. TypeOK /\ RowsInOrder /\ req[w] \in Requests /\ Remembers(req[w])
  BY DEF IInv, TypeOK, Rows
<1>2. 1 \in 1..MaxTokens + 1 /\ 1 <= nextToken /\ nextToken \in 1..MaxTokens + 1
      /\ nextToken <= nextToken
  BY <1>1, PortalAssumption DEF TypeOK
<1>3. ASSUME NEW c \in Contacts, NEW t \in Ids \cup {None}, NEW op \in {"dispatch", "regenerate"},
             req' = [req EXCEPT ![w] = Replacing(op, c, t, None)],
             UNCHANGED <<quote, proposal, token, nextToken, answer, past, submissions, barred>>
      PROVE  IInv'
  <2>1. Replacing(op, c, t, None) \in Requests /\ Replacing(op, c, t, None).op = op
    BY <1>2 DEF Replacing, Requests, Issuers
  <2>2. Remembers(Replacing(op, c, t, None))
    BY <1>2 DEF Replacing
  <2> QED BY <1>3, <2>1, <2>2, ReadKeepsIInv
<1>4. CASE \E c \in Contacts : DispatchRead(w, c)
  BY <1>3, <1>4 DEF DispatchRead
<1>5. CASE \E t \in Ids : RegenerateRead(w, t)
  <2>1. PICK t \in Ids : RegenerateRead(w, t)
    BY <1>5
  <2>2. token[t].contact \in Contacts
    BY <1>1, <2>1, RowFields DEF RegenerateRead, Tokens
  <2> QED BY <1>3, <2>1, <2>2 DEF RegenerateRead
<1>6. CASE \E c \in Contacts : GenerateRead(w, c)
  <2>1. PICK c \in Contacts : GenerateRead(w, c)
    BY <1>6
  <2> DEFINE q == [op |-> "generate", contact |-> c]
  <2>2. q \in Requests /\ q.op = "generate"
    BY DEF Requests
  <2>3. Remembers(q)
    BY <2>2 DEF Revoking, Issuers
  <2> QED BY <2>1, <2>2, <2>3, ReadKeepsIInv DEF GenerateRead
<1>7. CASE \E t \in Ids : SubmitRead(w, t)
  <2>1. PICK t \in Ids : SubmitRead(w, t)
    BY <1>7
  <2>2. t \in Issued
    BY <2>1 DEF SubmitRead, Unrevoked
  <2>3. CASE Begin(w, [op |-> "submit", token |-> t, existing |-> None])
    <3> DEFINE q == [op |-> "submit", token |-> t, existing |-> None]
    <3>1. q \in Requests /\ q.op = "submit"
      BY DEF Requests
    <3>2. Remembers(q)
      BY <2>2 DEF Revoking, Issuers
    <3> QED BY <2>1, <2>3, <3>1, <3>2, ReadKeepsIInv DEF SubmitRead
  <2>4. CASE \E p \in Through(t) :
                Begin(w, [op |-> "submit", token |-> t, existing |-> p,
                          version |-> answer[p].version, content |-> answer[p].content])
    <3>1. PICK p \in Through(t) :
             Begin(w, [op |-> "submit", token |-> t, existing |-> p,
                       version |-> answer[p].version, content |-> answer[p].content])
      BY <2>4
    <3> DEFINE q == [op |-> "submit", token |-> t, existing |-> p,
                     version |-> answer[p].version, content |-> answer[p].content]
    <3>2. p \in Given /\ p \in Answers /\ answer[p].token = t
      BY <3>1 DEF Through, Given
    <3>3. answer[p].version \in Nat /\ answer[p].content \in Answers
      BY <1>1, <3>2, RowFields DEF AnswerRows
    <3>4. q \in Requests /\ q.op = "submit"
      BY <3>2, <3>3 DEF Requests
    <3>5. Remembers(q)
      BY <2>2, <3>2 DEF Revoking, Issuers
    <3> QED BY <2>1, <3>1, <3>4, <3>5, ReadKeepsIInv DEF SubmitRead
  <2> QED BY <2>1, <2>3, <2>4 DEF SubmitRead
<1>8. CASE RemoveStart(w)
  <2> DEFINE q == [op |-> "remove", pc |-> "read", contact |-> None, seen |-> 1, locks |-> {}]
  <2>1. q \in Requests /\ q.op = "remove"
    BY <1>2 DEF Requests
  <2>2. Remembers(q)
    BY <1>2 DEF Revoking
  <2> QED BY <1>8, <2>1, <2>2, ReadKeepsIInv DEF RemoveStart
<1>9. CASE RevokeStart(w)
  <2> DEFINE q == [req[w] EXCEPT !.pc = "revoking", !.seen = nextToken]
  <2>1. req[w].op \in Issuers \/ req[w].op = "remove"
    BY <1>9 DEF RevokeStart, Revoking
  <2>2. /\ q \in Requests /\ q.op = req[w].op /\ q.pc = "revoking" /\ q.seen = nextToken
        /\ q.locks = req[w].locks
        /\ q.op = "reply" => q.previous = req[w].previous /\ q.carried = req[w].carried
    <3>1. CASE req[w].op \in Issuers
      BY <1>1, <1>2, <3>1, RequestFields DEF Requests, Issuers
    <3>2. CASE req[w].op = "remove"
      BY <1>1, <1>2, <3>2, RequestFields DEF Requests
    <3> QED BY <2>1, <3>1, <3>2
  <2>3. Remembers(q)
    BY <1>1, <1>2, <1>9, <2>2 DEF RevokeStart, Revoking, Issuers
  <2> QED BY <1>9, <2>2, <2>3, ReadKeepsIInv DEF RevokeStart
<1>10. CASE Abort(w)
  <2>1. Remembers(Idle) /\ Idle.op = "idle"
    BY DEF Idle, Revoking, Issuers
  <2> QED BY <1>10, <2>1, IdleIsARequest, ReadKeepsIInv DEF Abort
<1> QED BY <1>4, <1>5, <1>6, <1>7, <1>8, <1>9, <1>10

\* Revoking issued links is a links step.
LEMMA RevokingIsALinksStep ==
    ASSUME IInv, NEW S \in SUBSET Issued, token' = Revoked(S),
           UNCHANGED <<nextToken, answer, past, submissions>>,
           barred' \subseteq Ids,
           \A t \in barred' : t \in barred \/ (t \in Issued /\ (token[t].revoked \/ t \in S))
    PROVE  LinksStep
<1>1. TypeOK /\ RowsInOrder
  BY DEF IInv, Rows
<1>2. \A t \in Issued : token'[t].revoked = (token[t].revoked \/ t \in S)
  BY <1>1, RevokedLinks
<1>3. \A t \in Ids : token'[t] # NoRow <=> t < nextToken'
  BY <1>1, RevokedLinks DEF RowsInOrder, Issued
<1>4. token' \in [Ids -> Tokens \cup {NoRow}]
  BY <1>1, RevokedLinks
<1>5. ASSUME NEW t \in Issued
      PROVE  token'[t].answer = token[t].answer /\ (token[t].revoked => token'[t].revoked)
  <2>1. token'[t].answer = token[t].answer
    BY <1>1, RevokedLinks
  <2>2. token[t].revoked => token'[t].revoked
    BY <1>2
  <2> QED BY <2>1, <2>2
<1>6. \A t \in Ids \ Issued : token'[t] # NoRow => token'[t].answer = None
  BY <1>1, <1>3 DEF RowsInOrder
<1>7. nextToken' \in 1..MaxTokens + 1 /\ nextToken <= nextToken'
  BY <1>1, PortalAssumption DEF TypeOK
<1>8. \A t \in barred' : t \in barred \/ (t \in Issued /\ token'[t].revoked)
  BY <1>2
<1> QED BY <1>3, <1>4, <1>5, <1>6, <1>7, <1>8 DEF LinksStep

\* So is the issue of a link without an answer.
LEMMA IssuingIsALinksStep ==
    ASSUME IInv, NEW S \in SUBSET Issued, NEW c \in Contacts, nextToken <= MaxTokens,
           token' = [Revoked(S) EXCEPT ![nextToken] = Link(c, None)],
           nextToken' = nextToken + 1,
           UNCHANGED <<answer, past, submissions, barred>>
    PROVE  LinksStep
<1>1. TypeOK /\ RowsInOrder
  BY DEF IInv, Rows
<1>2. nextToken \in Ids /\ nextToken \notin Issued /\ nextToken' \in 1..MaxTokens + 1
      /\ nextToken \in Nat
  BY <1>1, PortalAssumption DEF TypeOK, RowsInOrder, Ids
<1>3. Revoked(S) \in [Ids -> Tokens \cup {NoRow}]
  BY <1>1, RevokedLinks
<1>4. \A t \in Ids : token'[t] = IF t = nextToken THEN Link(c, None) ELSE Revoked(S)[t]
  BY <1>3
<1>5. Link(c, None) \in Tokens /\ Link(c, None).answer = None /\ Link(c, None) # NoRow
  BY NewLink, RowsAreNotNoRow
<1>6. token' \in [Ids -> Tokens \cup {NoRow}]
  BY <1>2, <1>3, <1>5
<1>7. ASSUME NEW t \in Ids
      PROVE  token'[t] # NoRow <=> t < nextToken'
  <2>1. t < nextToken' <=> t < nextToken \/ t = nextToken
    BY <1>2 DEF Ids
  <2>2. t # nextToken => (token'[t] # NoRow <=> t \in Issued)
    BY <1>1, <1>4, RevokedLinks DEF Issued
  <2> QED BY <1>1, <1>4, <1>5, <2>1, <2>2 DEF RowsInOrder
<1>8. ASSUME NEW t \in Issued
      PROVE  token'[t].answer = token[t].answer /\ (token[t].revoked => token'[t].revoked)
  <2>1. t \in Ids /\ token'[t] = Revoked(S)[t]
    BY <1>2, <1>4 DEF Issued
  <2>2. Revoked(S)[t].answer = token[t].answer
    BY <1>1, RevokedLinks
  <2>3. Revoked(S)[t].revoked = (token[t].revoked \/ t \in S)
    BY <1>1, RevokedLinks
  <2>4. token[t].revoked => token'[t].revoked
    BY <2>1, <2>3
  <2> QED BY <2>1, <2>2, <2>4
<1>9. ASSUME NEW t \in Ids \ Issued, token'[t] # NoRow
      PROVE  token'[t].answer = None
  <2>1. token[t] = NoRow
    BY DEF Issued
  <2>2. t = nextToken
    BY <1>1, <1>4, <1>9, <2>1, RevokedLinks
  <2> QED BY <1>4, <1>5, <2>2
<1>10. nextToken <= nextToken' /\ barred' \subseteq Ids
  BY <1>1, <1>2 DEF TypeOK
<1> QED BY <1>2, <1>6, <1>7, <1>8, <1>9, <1>10 DEF LinksStep

\* Links that are not revoked are issued.
LEMMA UnrevokedLinks == Unrevoked \subseteq Issued
BY DEF Unrevoked

\* The steps that revoke.
LEMMA RevokesKeep ==
    ASSUME IInv, NEW w \in Workers,
           \/ RevokeLock(w) \/ RemoveCommit(w) \/ RemoveQuote(w)
           \/ \E t \in Ids : RevokeToken(w, t)
    PROVE  IInv'
<1>1. TypeOK /\ RowsInOrder /\ BarredAreRevoked /\ req[w] \in Requests /\ Remembers(req[w])
  BY DEF IInv, TypeOK, Rows
<1>2. quote \in {"open", "closed", "removed"} /\ proposal \in {"none", "live", "deleted"}
      /\ barred \subseteq Ids
  BY <1>1 DEF TypeOK
<1>3. CASE RevokeLock(w)
  <2> DEFINE mine == {t \in Unrevoked \cap OfContact(req[w].contact) : t < req[w].seen}
  <2>1. mine \in SUBSET Issued /\ mine \in SUBSET Ids
    BY DEF Unrevoked, Issued
  <2>2. req[w].op \in Issuers \/ req[w].op = "remove"
    BY <1>3 DEF RevokeLock, Revoking
  <2>3. CASE req[w].op = "dispatch"
    <3>0. PICK q \in Requests : q = [req[w] EXCEPT !.pc = "revoked"]
      BY <1>1, <2>3, RequestFields DEF Requests, Issuers
    <3>1. q.op = "dispatch" /\ q.locks = req[w].locks /\ q.seen = req[w].seen
      BY <1>1, <2>3, <3>0, RequestFields DEF Issuers
    <3>2. token' = Revoked(mine) /\ req' = [req EXCEPT ![w] = q]
          /\ UNCHANGED <<quote, proposal, nextToken, answer, past, submissions, barred>>
      BY <1>3, <2>3, <3>0 DEF RevokeLock
    <3>3. LinksStep
      BY <1>2, <2>1, <3>2, RevokingIsALinksStep
    <3>4. Issued \subseteq Issued' /\ nextToken' = nextToken
      BY <3>2, <3>3, IssuedStayIssued
    <3>5. Remembers(q)'
      <4>1. req[w].locks \subseteq Issued /\ req[w].seen <= nextToken
        BY <1>1, <2>3 DEF Remembers, FindsRows, Revoking, Issuers
      <4>2. FindsRows(q)'
        BY <3>1, <3>4, <4>1 DEF FindsRows
      <4>3. CarriedOrMoved(q)' /\ RevisesItsLink(q)' /\ RemovalFinds(q)'
        BY <3>1 DEF CarriedOrMoved, RevisesItsLink, RemovalFinds
      <4> QED BY <4>2, <4>3 DEF Remembers
    <3>6. quote' = quote /\ proposal' = proposal
      BY <3>2
    <3>7. req' = [req EXCEPT ![w] = q]
      BY <3>2
    <3> QED BY <1>2, <3>1, <3>3, <3>5, <3>6, <3>7, LinksStepKeepsIInv
  <2>4. CASE req[w].op # "dispatch"
    <3> DEFINE q == [req[w] EXCEPT !.pc = "revoked", !.locks = mine]
    <3>1. /\ q \in Requests /\ q.op = req[w].op /\ q.seen = req[w].seen /\ q.locks = mine
          /\ q.op = "reply" => q.previous = req[w].previous /\ q.carried = req[w].carried
      <4>1. CASE req[w].op \in Issuers
        BY <1>1, <2>1, <4>1, RequestFields DEF Requests, Issuers
      <4>2. CASE req[w].op = "remove"
        BY <1>1, <2>1, <4>2, RequestFields DEF Requests
      <4> QED BY <2>2, <4>1, <4>2
    <3>2. req' = [req EXCEPT ![w] = q]
          /\ UNCHANGED <<quote, proposal, token, nextToken, answer, past, submissions, barred>>
      BY <1>3, <2>4 DEF RevokeLock
    <3>3. q.op = "remove" => \A t \in Issued : t < q.seen => token[t].revoked \/ t \in q.locks
      <4>1. q.op = "remove" => req[w].contact = None
        BY <1>1, <3>1, RequestFields
      <4>2. q.op = "remove" => OfContact(req[w].contact) = Issued
        BY <4>1 DEF OfContact
      <4> QED BY <3>1, <4>2 DEF Unrevoked
    <3>4. FindsRows(q) /\ CarriedOrMoved(q) /\ RevisesItsLink(q)
      BY <1>1, <2>1, <2>2, <3>1
         DEF Remembers, FindsRows, CarriedOrMoved, RevisesItsLink, Revoking, Issuers
    <3>5. Remembers(q)
      BY <3>3, <3>4 DEF Remembers, RemovalFinds
    <3> QED BY <3>1, <3>2, <3>5, ReadKeepsIInv
  <2> QED BY <2>3, <2>4
<1>4. CASE RemoveCommit(w)
  <2> DEFINE L == req[w].locks
             B == {t \in Issued : t < req[w].seen}
  <2>1. req[w].op = "remove" /\ req[w].pc = "revoked"
    BY <1>4 DEF RemoveCommit, At
  <2>2. L \in SUBSET Issued
    BY <1>1, <2>1 DEF Remembers, FindsRows, Revoking
  <2>3. \A t \in B : t \in Issued /\ t \in Ids /\ (token[t].revoked \/ t \in L)
    BY <1>1, <2>1 DEF Remembers, RemovalFinds, Issued
  <2>4. /\ token' = Revoked(L) /\ barred' = barred \cup B /\ req' = [req EXCEPT ![w] = Idle]
        /\ proposal' = "deleted"
        /\ UNCHANGED <<quote, nextToken, answer, past, submissions>>
    BY <1>4 DEF RemoveCommit
  <2>5. LinksStep
    BY <1>2, <2>2, <2>3, <2>4, RevokingIsALinksStep
  <2>6. Idle.op = "idle"
    BY DEF Idle
  <2> QED
    BY <1>2, <2>4, <2>5, <2>6, IdleIsARequest, IdleRemembersNothing, LinksStepKeepsIInv
<1>5. CASE RemoveQuote(w)
  <2>1. LinksStep
    BY <1>2, <1>5, UnrevokedLinks, RevokingIsALinksStep DEF RemoveQuote
  <2>2. quote' = "removed" /\ proposal' \in {"none", "deleted"} /\ UNCHANGED req
    BY <1>5 DEF RemoveQuote
  <2> QED BY <2>1, <2>2, QuietLinksStep
<1>6. CASE \E t \in Ids : RevokeToken(w, t)
  <2>1. PICK t \in Ids : RevokeToken(w, t)
    BY <1>6
  <2>2. {t} \in SUBSET Issued
    BY <2>1, UnrevokedLinks DEF RevokeToken
  <2>3. LinksStep
    BY <1>2, <2>1, <2>2, RevokingIsALinksStep DEF RevokeToken
  <2> QED BY <1>2, <2>1, <2>3, QuietLinksStep DEF RevokeToken
<1> QED BY <1>3, <1>4, <1>5, <1>6

\* The steps that issue a link without an answer.
LEMMA IssuesKeep ==
    ASSUME IInv, NEW w \in Workers, RegenerateCommit(w) \/ Issue(w)
    PROVE  IInv'
<1>1. TypeOK /\ req[w] \in Requests /\ Remembers(req[w])
  BY DEF IInv, TypeOK
<1>2. quote \in {"open", "closed", "removed"} /\ proposal \in {"none", "live", "deleted"}
  BY <1>1 DEF TypeOK
<1>3. LinksStep
  <2>1. CASE RegenerateCommit(w)
    <3>1. req[w].op = "regenerate"
      BY <2>1 DEF RegenerateCommit, At
    <3>2. req[w].contact \in Contacts /\ req[w].locks \in SUBSET Issued
      BY <1>1, <3>1, RequestFields DEF Remembers, FindsRows, Revoking, Issuers
    <3> QED BY <2>1, <3>2, IssuingIsALinksStep DEF RegenerateCommit
  <2>2. CASE Issue(w)
    <3>1. req[w].op = "dispatch" \/ req[w].op = "generate"
      BY <2>2 DEF Issue, At
    <3>2. req[w].contact \in Contacts
      BY <1>1, <3>1, RequestFields DEF Issuers
    <3>3. Revoked({}) = token
      BY <1>1 DEF Revoked, TypeOK
    <3>4. token' = [Revoked({}) EXCEPT ![nextToken] = Link(req[w].contact, None)]
      BY <2>2, <3>3 DEF Issue
    <3>5. {} \in SUBSET Issued
      OBVIOUS
    <3> QED BY <2>2, <3>2, <3>4, <3>5, IssuingIsALinksStep DEF Issue
  <2> QED BY <2>1, <2>2
<1>4. req' = [req EXCEPT ![w] = Idle] /\ UNCHANGED <<quote, proposal>>
  BY DEF RegenerateCommit, Issue
<1>5. Idle.op = "idle"
  BY DEF Idle
<1> QED
  BY <1>2, <1>3, <1>4, <1>5, IdleIsARequest, IdleRemembersNothing, LinksStepKeepsIInv

\* The commits that move or write an answer.
LEMMA AnswersKeep ==
    ASSUME IInv, NEW w \in Workers, ReplyCommit(w) \/ SubmitCommit(w)
    PROVE  IInv'
<1>1. TypeOK /\ Idle.op = "idle"
  BY DEF IInv, Idle
<1>2. req' = [req EXCEPT ![w] = Idle]
  BY DEF ReplyCommit, SubmitCommit
<1>3. CASE ReplyCommit(w) /\ ~Taken(req[w])
  <2>1. past' \subseteq Versions
    <3>1. nextToken \in Ids
      BY <1>3, ReplyWrites
    <3>2. \A h \in past : h \in Versions /\ [h EXCEPT !.token = nextToken] \in Versions
      BY <1>1, <3>1 DEF TypeOK, Versions
    <3>3. Moved(req[w], nextToken) \subseteq Versions
      BY <3>2 DEF Moved
    <3> QED BY <1>1, <1>3, <3>3, ReplyWrites DEF TypeOK
  <2>2. nextToken' \in 1..MaxTokens + 1
    BY <1>3, ReplyWrites, PortalAssumption DEF Ids
  <2>3. UNCHANGED <<quote, proposal>>
    BY <1>3 DEF ReplyCommit
  <2>4. TypeOK'
    BY <1>1, <1>2, <1>3, <2>1, <2>2, <2>3, ReplyWrites, IdleIsARequest DEF TypeOK
  <2> QED
    BY <1>1, <1>2, <1>3, <2>4, ReplyKeepsRows, ReplyKeepsMemories, IdleIsARequest,
       IdleRemembersNothing, RequestsKeep
<1>4. CASE SubmitCommit(w) /\ Accepts(req[w])
  <2>1. quote' = quote /\ proposal' = "live"
    BY <1>4 DEF SubmitCommit
  <2>2. submissions' \in 0..MaxSubmissions
    BY <1>4, SubmitWrites, PortalAssumption DEF Answers
  <2>3. TypeOK'
    BY <1>1, <1>2, <1>4, <2>1, <2>2, SubmitWrites, IdleIsARequest DEF TypeOK
  <2> QED
    BY <1>1, <1>2, <1>4, <2>3, SubmitKeeps, IdleIsARequest, IdleRemembersNothing, RequestsKeep
<1>5. CASE \/ ReplyCommit(w) /\ Taken(req[w])
           \/ SubmitCommit(w) /\ ~Accepts(req[w])
  <2>1. UNCHANGED <<quote, proposal, token, nextToken, answer, past, submissions, barred>>
    BY <1>5 DEF ReplyCommit, SubmitCommit
  <2>2. Remembers(Idle)
    BY <1>1 DEF Remembers, FindsRows, CarriedOrMoved, RevisesItsLink, RemovalFinds,
                Revoking, Issuers
  <2> QED BY <1>1, <1>2, <2>1, <2>2, IdleIsARequest, ReadKeepsIInv
<1> QED BY <1>3, <1>4, <1>5

\* The steps of the quote, of time, and stuttering.
LEMMA OthersKeep ==
    ASSUME IInv,
           \/ \E w \in Workers : TypeIn(w) \/ Close(w) \/ Reopen(w)
           \/ \E t \in Ids : Expire(t)
           \/ UNCHANGED vars
    PROVE  IInv'
<1>1. TypeOK /\ RowsInOrder
  BY DEF IInv, Rows
<1>2. CASE \/ \E w \in Workers : TypeIn(w) \/ Close(w) \/ Reopen(w)
           \/ UNCHANGED vars
  <2>1. UNCHANGED <<token, nextToken, answer, past, submissions, barred, req>>
    BY <1>2 DEF TypeIn, Close, Reopen, vars
  <2>2. quote' \in {"open", "closed", "removed"} /\ proposal' \in {"none", "live", "deleted"}
    BY <1>1, <1>2 DEF TypeIn, Close, Reopen, vars, TypeOK
  <2> QED BY <2>1, <2>2, NothingIsALinksStep, QuietLinksStep
<1>3. CASE \E t \in Ids : Expire(t)
  <2>1. PICK t \in Ids : Expire(t)
    BY <1>3
  <2> DEFINE row == [token[t] EXCEPT !.expired = TRUE]
  <2>2. t \in Issued /\ token' = [token EXCEPT ![t] = row]
        /\ UNCHANGED <<quote, proposal, nextToken, answer, past, submissions, barred, req>>
    BY <2>1 DEF Expire
  <2>3. row \in Tokens /\ row.answer = token[t].answer /\ row.revoked = token[t].revoked
    BY <1>1, <2>2, RowFields DEF Tokens
  <2>4. token' \in [Ids -> Tokens \cup {NoRow}]
    BY <1>1, <2>2, <2>3 DEF TypeOK
  <2>5. \A u \in Ids : token'[u] # NoRow <=> u < nextToken'
    BY <1>1, <2>2, <2>3, RowsAreNotNoRow DEF TypeOK, RowsInOrder, Issued
  <2>6. \A u \in Issued : token'[u].answer = token[u].answer
                          /\ token'[u].revoked = token[u].revoked
    BY <1>1, <2>2, <2>3 DEF TypeOK, Issued
  <2>7. \A u \in Ids \ Issued : token'[u] # NoRow => token'[u].answer = None
    BY <1>1, <2>2, <2>5 DEF RowsInOrder
  <2>8. nextToken' \in 1..MaxTokens + 1 /\ nextToken <= nextToken' /\ barred' \subseteq Ids
    BY <1>1, <2>2, PortalAssumption DEF TypeOK
  <2>9. LinksStep
    BY <2>2, <2>4, <2>5, <2>6, <2>7, <2>8 DEF LinksStep
  <2>10. quote' \in {"open", "closed", "removed"} /\ proposal' \in {"none", "live", "deleted"}
    BY <1>1, <2>2 DEF TypeOK
  <2> QED BY <2>2, <2>9, <2>10, QuietLinksStep
<1> QED BY <1>2, <1>3

\* Every step keeps the invariant.
LEMMA NextIInv == IInv /\ [Next]_vars => IInv'
<1> SUFFICES ASSUME IInv, [Next]_vars PROVE IInv'
  OBVIOUS
<1>1. CASE \E w \in Workers : Replace(w) \/ Submit(w) \/ Manage(w)
  <2>1. PICK w \in Workers : Replace(w) \/ Submit(w) \/ Manage(w)
    BY <1>1
  <2>2. CASE Replace(w)
    BY <2>2, ReplyReadKeeps, ReadsKeep, RevokesKeep, AnswersKeep, IssuesKeep DEF Replace
  <2>3. CASE Submit(w)
    BY <2>3, ReadsKeep, AnswersKeep DEF Submit
  <2>4. CASE Manage(w)
    BY <2>4, ReadsKeep, RevokesKeep, OthersKeep DEF Manage
  <2> QED BY <2>1, <2>2, <2>3, <2>4
<1>2. CASE (\E t \in Ids : Expire(t)) \/ UNCHANGED vars
  BY <1>2, OthersKeep
<1> QED BY <1>1, <1>2 DEF Next

-----------------------------------------------------------------------------
(* The theorems.                                                           *)

\* The inductive invariant.
THEOREM InductiveInvariant == Spec => []IInv
BY InitIInv, NextIInv, PTL DEF Spec

\* Rows and requests keep their shape.
THEOREM TypeCorrect == Spec => []TypeOK
<1>1. IInv => TypeOK
  BY DEF IInv
<1> QED BY <1>1, InductiveInvariant, PTL

\* However requests overlap, the two pointers between links and answers agree.
THEOREM CarriersAgree == Spec => []CarrierAgrees
<1>1. IInv => CarrierAgrees
  BY DEF IInv, Rows
<1> QED BY <1>1, InductiveInvariant, PTL

\* The earlier versions of an answer are always found through its link.
THEOREM HistoryIsKeptTogether == Spec => []HistoryFollows
<1>1. IInv => HistoryFollows
  BY DEF IInv, Rows
<1> QED BY <1>1, InductiveInvariant, PTL

\* No submission through a link that a removal revoked is accepted, also if it
\* began before.
THEOREM RemovalIsFinal == Spec => RemovedStaysRemoved
<1> DEFINE Barred == \A w \in Workers :
                        req[w].op = "submit" /\ submissions' > submissions /\ req'[w] = Idle
                        => req[w].token \notin barred
<1>1. IInv /\ [Next]_vars => [Barred]_vars
  <2> SUFFICES ASSUME IInv, Next, NEW w \in Workers, req[w].op = "submit",
                      submissions' > submissions, req'[w] = Idle
               PROVE  req[w].token \notin barred
    OBVIOUS
  <2>1. TypeOK /\ BarredAreRevoked
    BY DEF IInv, Rows
  <2>2. submissions \in Nat
    BY <2>1, PortalAssumption DEF TypeOK
  <2>3. PICK v \in Workers : SubmitCommit(v)
    <3>1. submissions' # submissions
      BY <2>2
    <3> QED
      BY <3>1
         DEF Next, Replace, Submit, Manage, ReplyRead, DispatchRead, GenerateRead,
             RegenerateRead, RevokeToken, RemoveStart, RevokeStart, RevokeLock,
             ReplyCommit, RegenerateCommit, Issue, RemoveCommit, SubmitRead, TypeIn,
             Close, Reopen, RemoveQuote, Abort, Expire
  <2>4. v = w
    <3>1. req' = [req EXCEPT ![v] = Idle]
      BY <2>3 DEF SubmitCommit
    <3>2. Idle.op = "idle"
      BY DEF Idle
    <3> QED BY <2>1, <3>1, <3>2 DEF TypeOK
  <2>5. Accepts(req[w])
    BY <2>2, <2>3, <2>4 DEF SubmitCommit
  <2> QED BY <2>1, <2>5 DEF Accepts, Unrevoked, BarredAreRevoked
<1> QED BY <1>1, InductiveInvariant, PTL DEF Spec, RemovedStaysRemoved

-----------------------------------------------------------------------------
(* The refinement of AnswerRecord.                                         *)

\* What an answer said: the row says it, its history, or a submission that has
\* read it and is to put it there.
Says(p, c) ==
    \/ p \in Given /\ answer[p].content = c
    \/ \E h \in past : h.of = p /\ h.content = c
    \/ \E w \in Workers : req[w].op = "submit" /\ req[w].existing = p /\ req[w].content = c

\* Nothing is said by two answers.
OwnWords ==
    \A p, c \in Answers : Says(p, c) =>
        c <= submissions /\ \A r \in Answers : Says(r, c) => r = p

\* The proposal is there while it is being removed, and is removed once.
RemovesAlone ==
    \A w \in Workers : req[w].op = "remove" =>
        proposal = "live" /\ \A v \in Workers \ {w} : req[v].op # "remove"

RecordInv == IInv /\ OwnWords /\ RemovesAlone

LEMMA RecordInit == Init => RecordInv
<1> SUFFICES ASSUME Init PROVE RecordInv
  OBVIOUS
<1>1. Given = {} /\ past = {} /\ \A w \in Workers : req[w].op = "idle"
  BY DEF Init, Given, Idle
<1> QED
  BY <1>1, InitIInv DEF RecordInv, OwnWords, Says, RemovesAlone

\* A step after which answers say what they said, but for one that says
\* what was submitted last.
LEMMA OwnWordsKept ==
    ASSUME RecordInv, NEW P \in Answers, submissions' \in Nat, submissions <= submissions',
           \A p, c \in Answers : Says(p, c)' =>
               \/ Says(p, c)
               \/ p = P /\ c = submissions + 1 /\ submissions' = submissions + 1
    PROVE  OwnWords'
<1>1. submissions \in Nat /\ \A c \in Answers : c \in Nat
  BY DEF RecordInv, IInv, TypeOK, Answers
<1> SUFFICES ASSUME NEW p \in Answers, NEW c \in Answers, Says(p, c)'
             PROVE  c <= submissions' /\ \A r \in Answers : Says(r, c)' => r = p
  BY DEF OwnWords
<1>2. CASE Says(p, c)
  <2>1. c <= submissions
    BY <1>2 DEF RecordInv, OwnWords
  <2>2. c # submissions + 1 /\ c <= submissions'
    BY <1>1, <2>1
  <2> QED
    BY <1>2, <2>2 DEF RecordInv, OwnWords
<1>3. CASE ~ Says(p, c)
  <2>1. p = P /\ c = submissions + 1 /\ submissions' = submissions + 1
    BY <1>3
  <2>2. ~ (c <= submissions)
    BY <1>1, <2>1
  <2>3. \A r \in Answers : ~ Says(r, c)
    BY <2>2 DEF RecordInv, OwnWords
  <2> QED
    BY <1>1, <2>1, <2>3
<1> QED
  BY <1>2, <1>3

\* The same, if no row is written: a request has at most read what a row says.
LEMMA OwnWordsUnwritten ==
    ASSUME RecordInv, UNCHANGED <<answer, past, submissions>>,
           \A v \in Workers : req'[v].op = "submit" =>
               \/ req'[v] = req[v]
               \/ req'[v].existing = None
               \/ req'[v].existing \in Given /\ req'[v].content = answer[req'[v].existing].content
    PROVE  OwnWords'
<1>1. Given' = Given
  BY DEF Given
<1>2. submissions \in Nat
  BY DEF RecordInv, IInv, TypeOK
<1>3. ASSUME NEW p \in Answers, NEW c \in Answers, Says(p, c)' PROVE Says(p, c)
  <2>1. p # None
    BY PortalAssumption
  <2>2. CASE \E w \in Workers : req'[w].op = "submit" /\ req'[w].existing = p /\ req'[w].content = c
    BY <2>1, <2>2 DEF Says
  <2>3. CASE p \in Given' /\ answer'[p].content = c
    BY <1>1, <2>3 DEF Says
  <2>4. CASE \E h \in past' : h.of = p /\ h.content = c
    BY <2>4 DEF Says
  <2> QED
    BY <1>3, <2>2, <2>3, <2>4 DEF Says
<1>4. CASE Answers = {}
  BY <1>4 DEF OwnWords
<1>5. CASE Answers # {}
  <2>1. PICK P \in Answers : TRUE
    BY <1>5
  <2> QED
    BY <1>2, <1>3, <2>1, OwnWordsKept
<1> QED
  BY <1>4, <1>5

\* What a reply does to the answers and their history.
LEMMA ReplyKeepsWords ==
    ASSUME IInv, NEW w \in Workers, ReplyCommit(w), ~Taken(req[w])
    PROVE  /\ \A r \in Given : answer'[r].content = answer[r].content
           /\ \A p \in Answers :
                {h.content : h \in {g \in past' : g.of = p}}
                = {h.content : h \in {g \in past : g.of = p}}
<1> DEFINE p == req[w].carried
           u == req[w].previous
<1>1. TypeOK /\ nextToken \in Ids /\ (p # None => p \in Given) /\ UNCHANGED submissions
  BY ReplyWrites DEF IInv
<1>2. CASE p = None
  <2>1. UNCHANGED <<answer, past>>
    BY <1>2 DEF ReplyCommit
  <2> QED
    BY <2>1
<1>3. CASE p # None
  <2>1. answer' = [answer EXCEPT ![p].token = nextToken] /\ past' = Moved(req[w], nextToken)
    BY <1>3 DEF ReplyCommit
  <2>2. \A r \in Given : r \in Answers /\ answer[r] \in AnswerRows
    BY <1>1, RowFields
  <2>3. \A r \in Given : answer'[r].content = answer[r].content
    BY <1>1, <1>3, <2>1, <2>2 DEF TypeOK, AnswerRows
  <2>4. \A h \in past : /\ h \in Versions
                        /\ [h EXCEPT !.token = nextToken].of = h.of
                        /\ [h EXCEPT !.token = nextToken].content = h.content
    BY <1>1 DEF TypeOK, Versions
  <2>5. ASSUME NEW h \in past'
        PROVE  \E g \in past : g.of = h.of /\ g.content = h.content
    BY <2>1, <2>4 DEF Moved
  <2>6. ASSUME NEW g \in past
        PROVE  \E h \in past' : g.of = h.of /\ g.content = h.content
    BY <2>1, <2>4 DEF Moved
  <2> QED
    BY <2>3, <2>5, <2>6
<1> QED
  BY <1>2, <1>3

\* What a submission does to them: P is the answer created or revised.
SubmitsFor(w, P) ==
    LET q == req[w]
        n == submissions + 1
    IN  /\ P = IF q.existing = None THEN n ELSE q.existing
        /\ P \in Answers /\ n \in Answers /\ submissions' = n
        /\ Given' = Given \cup {P}
        /\ answer'[P].token = q.token /\ answer'[P].content = n
        /\ \A r \in Given : r # P => answer'[r] = answer[r]
        /\ q.existing = None => P \notin Given /\ past' = past
        /\ q.existing # None =>
             /\ P \in Given /\ answer[P].token = q.token /\ q.content \in Answers
             /\ \E h : h.of = P /\ h.content = q.content /\ past' = past \cup {h}

LEMMA SubmitKeepsWords ==
    ASSUME IInv, NEW w \in Workers, SubmitCommit(w), Accepts(req[w])
    PROVE  \E P \in Answers : SubmitsFor(w, P)
<1> DEFINE q == req[w]
           n == submissions + 1
           P == IF q.existing = None THEN n ELSE q.existing
           h == [token |-> q.token, of |-> P, version |-> q.version, content |-> q.content]
<1>1. TypeOK /\ RowsInOrder /\ Remembers(q) /\ q \in Requests /\ q.op = "submit"
  BY DEF IInv, Rows, SubmitCommit, TypeOK
<1>2. n \in Answers /\ submissions' = n
  <2>1. submissions < MaxSubmissions /\ submissions' = submissions + 1 /\ submissions \in 0..MaxSubmissions
    BY <1>1 DEF SubmitCommit, TypeOK
  <2> QED
    BY <2>1, PortalAssumption DEF Answers
<1>3. n \notin Given
  <2>1. submissions \in Nat
    BY <1>1 DEF TypeOK
  <2> QED
    BY <1>1, <2>1 DEF RowsInOrder
<1>4. q.existing # None => q.existing \in Given /\ q.existing \in Answers
                           /\ answer[q.existing].token = q.token /\ q.content \in Answers
  BY <1>1, RequestFields DEF Remembers, FindsRows, Given, RevisesItsLink, Accepts, Unrevoked
<1>5. P \in Answers
  BY <1>2, <1>4
<1>6. CASE q.existing = None
  <2>1. /\ answer' = [answer EXCEPT ![n] = [token |-> q.token, version |-> 1, content |-> n]]
        /\ past' = past
    BY <1>6 DEF SubmitCommit
  <2>2. /\ Given' = Given \cup {n} /\ answer'[n].token = q.token /\ answer'[n].content = n
        /\ \A r \in Given : r # n => answer'[r] = answer[r]
    BY <1>1, <1>2, <2>1 DEF TypeOK, Given, NoRow
  <2>3. P = n
    BY <1>6
  <2> QED
    BY <1>2, <1>3, <1>5, <1>6, <2>1, <2>2, <2>3 DEF SubmitsFor
<1>7. CASE q.existing # None
  <2>1. /\ answer' = [answer EXCEPT ![P].version = q.version + 1, ![P].content = n]
        /\ past' = past \cup {h}
    BY <1>7 DEF SubmitCommit, Kept
  <2>2. P = q.existing /\ P \in Given /\ answer[P] \in AnswerRows
    BY <1>1, <1>4, <1>7, RowFields
  <2> HIDE DEF P
  <2>3. /\ Given' = Given \cup {P} /\ answer'[P].token = answer[P].token /\ answer'[P].content = n
        /\ \A r \in Given : r # P => answer'[r] = answer[r]
    <3> DEFINE row == [answer[P] EXCEPT !.version = q.version + 1, !.content = n]
    <3>1. answer' = [answer EXCEPT ![P] = row]
      BY <1>1, <1>5, <2>1 DEF TypeOK
    <3>2. row.token = answer[P].token /\ row.content = n /\ row # NoRow
      BY <2>2 DEF AnswerRows, NoRow
    <3> HIDE DEF row
    <3> QED
      BY <1>1, <1>5, <2>2, <3>1, <3>2 DEF TypeOK, Given
  <2>4. h.of = P /\ h.content = q.content
    OBVIOUS
  <2> HIDE DEF h
  <2>5. \E k : k.of = P /\ k.content = q.content /\ past' = past \cup {k}
    BY <2>1, <2>4
  <2> QED
    BY <1>2, <1>4, <1>5, <1>7, <2>2, <2>3, <2>5 DEF SubmitsFor, P
<1> QED
  BY <1>6, <1>7

\* A submission lets its answer say what is submitted, and nothing else changes.
LEMMA SubmitKeepsOwnWords ==
    ASSUME RecordInv, NEW w \in Workers, SubmitCommit(w), Accepts(req[w])
    PROVE  OwnWords'
<1> DEFINE q == req[w]
<1>1. PICK P \in Answers : SubmitsFor(w, P)
  BY SubmitKeepsWords DEF RecordInv
<1>2. TypeOK /\ q.op = "submit" /\ req' = [req EXCEPT ![w] = Idle] /\ Idle.op = "idle"
  BY DEF RecordInv, IInv, SubmitCommit, Idle
<1>3. \A v \in Workers : req'[v].op = "submit" => req'[v] = req[v]
  BY <1>2 DEF TypeOK
<1>4. submissions \in Nat /\ submissions' = submissions + 1
  BY <1>1, <1>2 DEF SubmitsFor, TypeOK
<1>5. ASSUME NEW p \in Answers, NEW c \in Answers, Says(p, c)'
      PROVE  Says(p, c) \/ (p = P /\ c = submissions + 1 /\ submissions' = submissions + 1)
  <2>1. CASE p \in Given' /\ answer'[p].content = c
    BY <1>1, <1>4, <2>1 DEF SubmitsFor, Says
  <2>2. CASE \E h \in past' : h.of = p /\ h.content = c
    <3>1. PICK h \in past' : h.of = p /\ h.content = c
      BY <2>2
    <3>2. CASE h \in past
      BY <3>1, <3>2 DEF Says
    <3>3. CASE h \notin past
      <4>1. q.existing # None /\ P = q.existing /\ p = P /\ c = q.content
        BY <1>1, <3>1, <3>3 DEF SubmitsFor
      <4> QED
        BY <1>2, <4>1 DEF Says
    <3> QED
      BY <3>2, <3>3
  <2>3. CASE \E v \in Workers : req'[v].op = "submit" /\ req'[v].existing = p /\ req'[v].content = c
    BY <1>3, <2>3 DEF Says
  <2> QED
    BY <1>5, <2>1, <2>2, <2>3 DEF Says
<1>6. submissions' \in Nat /\ submissions <= submissions'
  BY <1>4
<1> QED
  BY <1>1, <1>5, <1>6, OwnWordsKept

LEMMA ReplyKeepsOwnWords ==
    ASSUME RecordInv, NEW w \in Workers, ReplyCommit(w), ~Taken(req[w])
    PROVE  OwnWords'
<1>1. /\ Given' = Given /\ UNCHANGED submissions /\ nextToken \in Ids
      /\ \A r \in Given : answer'[r].content = answer[r].content
      /\ \A p \in Answers :
           {h.content : h \in {g \in past' : g.of = p}} = {h.content : h \in {g \in past : g.of = p}}
  BY ReplyWrites, ReplyKeepsWords DEF RecordInv
<1>2. TypeOK /\ req' = [req EXCEPT ![w] = Idle] /\ Idle.op = "idle"
  BY DEF RecordInv, IInv, ReplyCommit, Idle
<1>3. \A v \in Workers : req'[v].op = "submit" => req'[v] = req[v]
  BY <1>2 DEF TypeOK
<1>4. ASSUME NEW p \in Answers, NEW c \in Answers, Says(p, c)' PROVE Says(p, c)
  <2>1. CASE p \in Given' /\ answer'[p].content = c
    BY <1>1, <2>1 DEF Says
  <2>2. CASE \E h \in past' : h.of = p /\ h.content = c
    <3>1. c \in {h.content : h \in {g \in past' : g.of = p}}
      BY <2>2
    <3>2. c \in {h.content : h \in {g \in past : g.of = p}}
      BY <1>1, <3>1
    <3> QED
      BY <3>2 DEF Says
  <2>3. CASE \E v \in Workers : req'[v].op = "submit" /\ req'[v].existing = p /\ req'[v].content = c
    BY <1>3, <2>3 DEF Says
  <2> QED
    BY <1>4, <2>1, <2>2, <2>3 DEF Says
<1>5. submissions' \in Nat /\ submissions <= submissions'
  BY <1>1, <1>2 DEF TypeOK
<1>6. CASE Answers = {}
  BY <1>6 DEF OwnWords
<1>7. CASE Answers # {}
  <2>1. PICK P \in Answers : TRUE
    BY <1>7
  <2> QED
    BY <1>4, <1>5, <2>1, OwnWordsKept
<1> QED
  BY <1>6, <1>7

\* The request that w handles after a step.
LEMMA RevokingGoesOn ==
    ASSUME TypeOK, NEW w \in Workers, RevokeStart(w) \/ RevokeLock(w)
    PROVE  req'[w].op = req[w].op /\ req[w].op # "submit"
<1>1. req[w] \in Requests /\ (req[w].op \in Issuers \/ req[w].op = "remove")
  BY DEF RevokeStart, RevokeLock, Revoking, TypeOK
<1>2. /\ [req[w] EXCEPT !.pc = "revoking", !.seen = nextToken].op = req[w].op
      /\ [req[w] EXCEPT !.pc = "revoked"].op = req[w].op
      /\ \A S : [req[w] EXCEPT !.pc = "revoked", !.locks = S].op = req[w].op
  BY <1>1, RequestFields
<1>3. \/ Continue(w, [req[w] EXCEPT !.pc = "revoking", !.seen = nextToken])
      \/ Continue(w, [req[w] EXCEPT !.pc = "revoked"])
      \/ \E S : Continue(w, [req[w] EXCEPT !.pc = "revoked", !.locks = S])
  BY DEF RevokeStart, RevokeLock
<1>4. ASSUME NEW r, Continue(w, r) PROVE req'[w] = r
  BY <1>4 DEF Continue, TypeOK
<1>5. req'[w].op = req[w].op
  BY <1>2, <1>3, <1>4
<1> QED
  BY <1>1, <1>5 DEF Issuers

LEMMA OthersGoOn ==
    ASSUME TypeOK, NEW w \in Workers, Replace(w) \/ Submit(w) \/ Manage(w),
           ~ RevokeStart(w), ~ RevokeLock(w)
    PROVE  \/ UNCHANGED req
           \/ req'[w].op \in {"idle", "generate"} \cup Issuers
           \/ RemoveStart(w) /\ req'[w].op = "remove"
           \/ (\E t \in Ids : SubmitRead(w, t)) /\ req'[w].op = "submit"
<1>1. \A r : req' = [req EXCEPT ![w] = r] => req'[w] = r
  BY DEF TypeOK
<1>2. CASE \/ ReplyCommit(w) \/ RegenerateCommit(w) \/ Issue(w) \/ RemoveCommit(w)
           \/ SubmitCommit(w) \/ Abort(w)
  <2>1. req' = [req EXCEPT ![w] = Idle] /\ Idle.op = "idle"
    BY <1>2 DEF ReplyCommit, RegenerateCommit, Issue, RemoveCommit, SubmitCommit, Abort, Finish,
       Continue, Idle
  <2> QED
    BY <1>1, <2>1
<1>3. CASE TypeIn(w) \/ Close(w) \/ Reopen(w) \/ RemoveQuote(w) \/ \E t \in Ids : RevokeToken(w, t)
  BY <1>3 DEF TypeIn, Close, Reopen, RemoveQuote, RevokeToken
<1>4. CASE \/ \E c \in Contacts : ReplyRead(w, c) \/ DispatchRead(w, c)
           \/ \E t \in Ids : RegenerateRead(w, t)
  <2>1. PICK op \in Issuers : \E c, t, p : req' = [req EXCEPT ![w] = Replacing(op, c, t, p)]
    BY <1>4 DEF ReplyRead, DispatchRead, RegenerateRead, Begin, Issuers
  <2>2. PICK c, t, p : req' = [req EXCEPT ![w] = Replacing(op, c, t, p)]
    BY <2>1
  <2>3. req'[w] = Replacing(op, c, t, p) /\ Replacing(op, c, t, p).op = op
    BY <1>1, <2>2 DEF Replacing
  <2> QED
    BY <2>1, <2>3
<1>5. ASSUME NEW c \in Contacts, GenerateRead(w, c) PROVE req'[w].op = "generate"
  BY <1>1, <1>5 DEF GenerateRead, Begin
<1>6. CASE RemoveStart(w)
  BY <1>1, <1>6 DEF RemoveStart, Begin
<1>7. ASSUME NEW t \in Ids, SubmitRead(w, t) PROVE req'[w].op = "submit"
  BY <1>1, <1>7 DEF SubmitRead, Begin
<1> QED
  BY <1>2, <1>3, <1>4, <1>5, <1>6, <1>7 DEF Replace, Submit, Manage

\* A submission reads what the row of its answer says.
LEMMA SubmitReadKeepsOwnWords ==
    ASSUME RecordInv, NEW w \in Workers, NEW t \in Ids, SubmitRead(w, t) PROVE OwnWords'
<1>1. UNCHANGED <<answer, past, submissions>> /\ TypeOK
  BY DEF SubmitRead, RecordInv, IInv
<1>2. \A v \in Workers \ {w} : req'[v] = req[v]
  BY <1>1 DEF SubmitRead, Begin, TypeOK
<1>3. \/ req'[w].existing = None
      \/ req'[w].existing \in Given /\ req'[w].content = answer[req'[w].existing].content
  <2>1. CASE Begin(w, [op |-> "submit", token |-> t, existing |-> None])
    BY <1>1, <2>1 DEF Begin, TypeOK
  <2>2. ASSUME NEW p \in Through(t),
               Begin(w, [op |-> "submit", token |-> t, existing |-> p,
                         version |-> answer[p].version, content |-> answer[p].content])
        PROVE  req'[w].existing \in Given /\ req'[w].content = answer[req'[w].existing].content
    BY <1>1, <2>2 DEF Begin, TypeOK, Through
  <2> QED
    BY <2>1, <2>2 DEF SubmitRead
<1> QED
  BY <1>1, <1>2, <1>3, OwnWordsUnwritten

\* The steps that write no answer.
Unwriting(w) ==
    \/ \E c \in Contacts : ReplyRead(w, c) \/ DispatchRead(w, c) \/ GenerateRead(w, c)
    \/ \E t \in Ids : RegenerateRead(w, t) \/ RevokeToken(w, t)
    \/ RemoveStart(w) \/ RevokeStart(w) \/ RevokeLock(w)
    \/ RegenerateCommit(w) \/ Issue(w) \/ RemoveCommit(w)
    \/ Manage(w)
    \/ ReplyCommit(w) /\ Taken(req[w])
    \/ SubmitCommit(w) /\ ~Accepts(req[w])

LEMMA UnwritingKeepsOwnWords ==
    ASSUME RecordInv, NEW w \in Workers, Unwriting(w) PROVE OwnWords'
<1>1. UNCHANGED <<answer, past, submissions>>
  BY DEF Unwriting, Manage, ReplyRead, DispatchRead, GenerateRead, RegenerateRead, RevokeToken,
     RemoveStart, RevokeStart, RevokeLock, RegenerateCommit, Issue, RemoveCommit, TypeIn, Close,
     Reopen, RemoveQuote, Abort, ReplyCommit, SubmitCommit
<1>2. TypeOK /\ req[w] \in Requests
  BY DEF RecordInv, IInv, TypeOK
<1>3. \A v \in Workers \ {w} : req'[v] = req[v]
  BY <1>2 DEF Unwriting, Manage, ReplyRead, DispatchRead, GenerateRead, RegenerateRead, RevokeToken,
     RemoveStart, RevokeStart, RevokeLock, RegenerateCommit, Issue, RemoveCommit, TypeIn, Close,
     Reopen, RemoveQuote, Abort, ReplyCommit, SubmitCommit, Begin, Continue, Finish, TypeOK
<1>4. CASE \E t \in Ids : SubmitRead(w, t)
  BY <1>4, SubmitReadKeepsOwnWords
<1>5. CASE ~ \E t \in Ids : SubmitRead(w, t)
  <2>1. Replace(w) \/ Submit(w) \/ Manage(w)
    BY DEF Unwriting, Replace, Submit
  <2>2. req'[w] = req[w] \/ req'[w].op # "submit"
    BY <1>2, <1>5, <2>1, RevokingGoesOn, OthersGoOn DEF Issuers
  <2> QED
    BY <1>1, <1>3, <2>2, OwnWordsUnwritten
<1> QED
  BY <1>4, <1>5

LEMMA RemovesAloneKept ==
    ASSUME RecordInv, NEW w \in Workers, Replace(w) \/ Submit(w) \/ Manage(w)
    PROVE  RemovesAlone'
<1>1. TypeOK /\ req[w] \in Requests
  BY DEF RecordInv, IInv, TypeOK
<1>2. CASE RemoveStart(w)
  <2>1. /\ req' = [req EXCEPT ![w] = [op |-> "remove", pc |-> "read", contact |-> None,
                                      seen |-> 1, locks |-> {}]]
        /\ proposal = "live" /\ proposal' = "live"
        /\ \A v \in Workers \ {w} : req[v].op # "remove"
    BY <1>2 DEF RemoveStart, Begin, ProposalFree
  <2>2. \A v \in Workers \ {w} : req'[v] = req[v]
    BY <1>1, <2>1 DEF TypeOK
  <2> QED
    BY <2>1, <2>2 DEF RemovesAlone
<1>3. CASE ~ RemoveStart(w)
  <2>1. \A v \in Workers \ {w} : req'[v] = req[v]
    BY <1>1 DEF Replace, Submit, Manage, ReplyRead, DispatchRead, GenerateRead, RegenerateRead,
       RevokeToken, RemoveStart, RevokeStart, RevokeLock, ReplyCommit, RegenerateCommit, Issue,
       RemoveCommit, SubmitRead, SubmitCommit, TypeIn, Close, Reopen, RemoveQuote, Abort, Begin,
       Continue, Finish, TypeOK
  <2>2. req'[w].op = "remove" => req[w].op = "remove"
    BY <1>1, <1>3, RevokingGoesOn, OthersGoOn DEF Issuers
  <2>3. \/ proposal' = proposal \/ proposal' = "live"
        \/ req'[w].op # "remove" /\ \A v \in Workers \ {w} : req[v].op # "remove"
    <3>1. CASE RemoveCommit(w)
      <4>1. req[w].op = "remove" /\ req' = [req EXCEPT ![w] = Idle] /\ Idle.op = "idle"
        BY <3>1 DEF RemoveCommit, At, Finish, Continue, Idle
      <4> QED
        BY <1>1, <4>1 DEF RecordInv, RemovesAlone, TypeOK
    <3>2. CASE RemoveQuote(w)
      BY <3>2 DEF RemoveQuote, ProposalFree, Idle
    <3>3. CASE ~ (RemoveCommit(w) \/ RemoveQuote(w))
      BY <3>3 DEF Replace, Submit, Manage, ReplyRead, DispatchRead, GenerateRead, RegenerateRead,
         RevokeToken, RemoveStart, RevokeStart, RevokeLock, ReplyCommit, RegenerateCommit, Issue,
         SubmitRead, SubmitCommit, TypeIn, Close, Reopen, Abort
    <3> QED
      BY <3>1, <3>2, <3>3
  <2> QED
    BY <2>1, <2>2, <2>3 DEF RecordInv, RemovesAlone
<1> QED
  BY <1>2, <1>3

LEMMA RecordNext == RecordInv /\ [Next]_vars => RecordInv'
<1> SUFFICES ASSUME RecordInv, [Next]_vars PROVE RecordInv'
  OBVIOUS
<1>1. IInv'
  BY NextIInv DEF RecordInv
<1>2. ASSUME NEW w \in Workers, Replace(w) \/ Submit(w) \/ Manage(w) PROVE OwnWords'
  BY <1>2, SubmitKeepsOwnWords, ReplyKeepsOwnWords, UnwritingKeepsOwnWords, SubmitReadKeepsOwnWords
     DEF Replace, Submit, Unwriting
<1>3. CASE (\E t \in Ids : Expire(t)) \/ UNCHANGED vars
  <2>1. UNCHANGED <<answer, past, submissions, proposal, req>>
    BY <1>3 DEF Expire, vars
  <2>2. OwnWords'
    BY <2>1, OwnWordsUnwritten
  <2>3. RemovesAlone'
    BY <2>1 DEF RecordInv, RemovesAlone
  <2> QED
    BY <1>1, <2>2, <2>3 DEF RecordInv
<1> QED
  BY <1>1, <1>2, <1>3, RemovesAloneKept DEF RecordInv, Next

LEMMA RecordAlways == Spec => []RecordInv
BY RecordInit, RecordNext, PTL DEF Spec

\* Whatever overlaps, no two answers share a word: not in their rows, not in what
\* is kept of them, not in what a submission under way has read
\* (SupplierPortalResponseService.submit, rotateTokenForReply).
THEOREM NoBorrowedWords == Spec => []OwnWords
<1>1. RecordInv => OwnWords
  BY DEF RecordInv
<1> QED
  BY <1>1, RecordAlways, PTL

\* The history of an answer, found through its link, is its own.
LEMMA EarlierIsOwn ==
    ASSUME IInv
    PROVE  Earlier = [p \in Answers |-> {h.content : h \in {g \in past : g.of = p}}]
<1>1. /\ HistoryFollows
      /\ \A p, r \in Given : answer[p].token = answer[r].token => p = r
  BY DEF IInv, Rows, OneAnswerPerLink
<1>2. ASSUME NEW p \in Answers
      PROVE  {g \in past : p \in Given /\ g.token = answer[p].token} = {g \in past : g.of = p}
  BY <1>1 DEF HistoryFollows
<1> QED
  BY <1>2 DEF Earlier

LEMMA EarlierStaysOwn ==
    ASSUME IInv'
    PROVE  Earlier' = [p \in Answers |-> {h.content : h \in {g \in past' : g.of = p}}]
<1>1. /\ HistoryFollows'
      /\ \A p, r \in Given' : answer'[p].token = answer'[r].token => p = r
  BY DEF IInv, Rows, OneAnswerPerLink
<1>2. ASSUME NEW p \in Answers
      PROVE  {g \in past' : p \in Given' /\ g.token = answer'[p].token} = {g \in past' : g.of = p}
  BY <1>1 DEF HistoryFollows
<1> QED
  BY <1>2 DEF Earlier

\* The state of a link of which only the revocation may have changed.
LEMMA LinkGoesOn ==
    ASSUME TypeOK, TypeOK', NEW u \in Ids, u \in Issued' <=> u \in Issued,
           u \in Issued => /\ token'[u].expired = token[u].expired
                           /\ token[u].revoked => token'[u].revoked
    PROVE  Links'[u] = Links[u] \/ (Links[u] # "unused" /\ Links'[u] = "revoked")
<1>1. u \in Issued => token[u].revoked \in BOOLEAN /\ token'[u].revoked \in BOOLEAN
                      /\ token[u].expired \in BOOLEAN
  <2>1. u \in Issued => token[u] \in Tokens
    BY RowFields
  <2>2. u \in Issued' => token'[u] \in Tokens
    BY DEF TypeOK, Issued
  <2> QED
    BY <2>1, <2>2 DEF Tokens
<1>2. CASE u \notin Issued
  BY <1>2 DEF Links
<1>3. CASE u \in Issued
  BY <1>1, <1>3 DEF Links
<1> QED
  BY <1>2, <1>3

LEMMA RevokedKeepsExpiry ==
    ASSUME TypeOK, NEW S \in SUBSET Issued, NEW t \in Issued
    PROVE  Revoked(S)[t].expired = token[t].expired
<1>1. t \in Ids /\ token[t] \in Tokens
  BY RowFields
<1>2. CASE t \in S
  BY <1>1, <1>2 DEF Revoked, Tokens
<1>3. CASE t \notin S
  BY <1>1, <1>3 DEF Revoked
<1> QED
  BY <1>2, <1>3

RecordStep == Record!Next \/ UNCHANGED Record!vars

\* Who does not submit, before or after, has no part in the revisions under way.
LEMMA BegunKept ==
    ASSUME NEW w \in Workers, \A v \in Workers \ {w} : req'[v] = req[v],
           req[w].op # "submit", req'[w].op # "submit"
    PROVE  Begun' = Begun
<1>1. ASSUME NEW p \in Answers
      PROVE  {req'[v].content : v \in Revisers(p)'} = {req[v].content : v \in Revisers(p)}
  BY DEF Revisers
<1> QED
  BY <1>1 DEF Begun

LEMMA BegunUnread == UNCHANGED req => Begun' = Begun
BY DEF Begun, Revisers

LEMMA UnsubmittedBegun ==
    ASSUME TypeOK, NEW w \in Workers,
           Replace(w) \/ TypeIn(w) \/ Close(w) \/ Reopen(w) \/ RemoveQuote(w)
    PROVE  Begun' = Begun
<1>1. CASE TypeIn(w) \/ Close(w) \/ Reopen(w) \/ RemoveQuote(w) \/ \E t \in Ids : RevokeToken(w, t)
  BY <1>1, BegunUnread DEF TypeIn, Close, Reopen, RemoveQuote, RevokeToken
<1>2. CASE ~ (TypeIn(w) \/ Close(w) \/ Reopen(w) \/ RemoveQuote(w) \/ \E t \in Ids : RevokeToken(w, t))
  <2>1. \A v \in Workers \ {w} : req'[v] = req[v]
    BY <1>2 DEF Replace, ReplyRead, DispatchRead, GenerateRead, RegenerateRead,
       RemoveStart, RevokeStart, RevokeLock, ReplyCommit, RegenerateCommit, Issue,
       RemoveCommit, Begin, Continue, Finish, TypeOK
  <2>2. CASE RevokeStart(w) \/ RevokeLock(w)
    BY <2>1, <2>2, RevokingGoesOn, BegunKept DEF Issuers
  <2>3. CASE ReplyCommit(w) \/ RegenerateCommit(w) \/ Issue(w) \/ RemoveCommit(w)
    <3>1. req[w].op # "submit" /\ req'[w] = Idle
      BY <2>3 DEF ReplyCommit, RegenerateCommit, Issue, RemoveCommit, At, Finish, Continue, TypeOK
    <3> QED
      BY <2>1, <3>1, BegunKept DEF Idle
  <2>4. ASSUME NEW r, Begin(w, r), r.op # "submit" PROVE Begun' = Begun
    <3>1. req[w] = Idle /\ req'[w] = r
      BY <2>4 DEF Begin, TypeOK
    <3> QED
      BY <2>1, <2>4, <3>1, BegunKept DEF Idle
  <2>5. CASE \E c \in Contacts : ReplyRead(w, c) \/ DispatchRead(w, c)
    <3>1. PICK op \in Issuers : \E c, t, p : Begin(w, Replacing(op, c, t, p))
      BY <2>5 DEF ReplyRead, DispatchRead, Issuers
    <3>2. PICK c, t, p : Begin(w, Replacing(op, c, t, p))
      BY <3>1
    <3>3. Replacing(op, c, t, p).op # "submit"
      BY DEF Replacing, Issuers
    <3> QED
      BY <2>4, <3>2, <3>3
  <2>6. CASE \E t \in Ids : RegenerateRead(w, t)
    <3>1. PICK c, t, p : Begin(w, Replacing("regenerate", c, t, p))
      BY <2>6 DEF RegenerateRead
    <3>2. Replacing("regenerate", c, t, p).op # "submit"
      BY DEF Replacing
    <3> QED
      BY <2>4, <3>1, <3>2
  <2>7. CASE RemoveStart(w) \/ \E c \in Contacts : GenerateRead(w, c)
    <3>1. CASE RemoveStart(w)
      <4> DEFINE r == [op |-> "remove", pc |-> "read", contact |-> None, seen |-> 1, locks |-> {}]
      <4>1. Begin(w, r) /\ r.op # "submit"
        BY <3>1 DEF RemoveStart
      <4> HIDE DEF r
      <4> QED
        BY <2>4, <4>1
    <3>2. ASSUME NEW c \in Contacts, GenerateRead(w, c) PROVE Begun' = Begun
      <4> DEFINE r == [op |-> "generate", contact |-> c]
      <4>1. Begin(w, r) /\ r.op # "submit"
        BY <3>2 DEF GenerateRead
      <4> HIDE DEF r
      <4> QED
        BY <2>4, <4>1
    <3> QED
      BY <2>7, <3>1, <3>2
  <2> QED
    BY <1>2, <2>2, <2>3, <2>5, <2>6, <2>7 DEF Replace
<1> QED
  BY <1>1, <1>2

\* A revision that ends is one of those that began.
LEMMA BegunEnds ==
    ASSUME TypeOK, NEW w \in Workers, req[w].op = "submit", req' = [req EXCEPT ![w] = Idle]
    PROVE  LET P == req[w].existing
               k == req[w].content
           IN  \/ P = None /\ Begun' = Begun
               \/ /\ P \in Answers /\ k \in Begun[P]
                  /\ Begun' \in {Begun, [Begun EXCEPT ![P] = @ \ {k}]}
<1> DEFINE P == req[w].existing
           k == req[w].content
<1>1. P \in Answers \cup {None}
  BY RequestFields DEF TypeOK
<1>2. \A p \in Answers : Revisers(p)' = Revisers(p) \ {w}
  BY DEF Revisers, TypeOK, Idle
<1>3. \A v \in Workers \ {w} : req'[v] = req[v]
  BY DEF TypeOK
<1>4. \A p \in Answers : {req'[v].content : v \in Revisers(p)'} = {req[v].content : v \in Revisers(p) \ {w}}
  BY <1>2, <1>3 DEF Revisers
<1>5. \A p \in Answers \ {P} : Begun'[p] = Begun[p]
  <2>1. \A p \in Answers \ {P} : w \notin Revisers(p)
    BY DEF Revisers
  <2>2. \A p \in Answers \ {P} : Revisers(p) \ {w} = Revisers(p)
    BY <2>1
  <2> QED
    BY <1>4, <2>2 DEF Begun
<1>6. CASE P = None
  <2>1. \A p \in Answers : Begun'[p] = Begun[p]
    BY <1>5, <1>6, PortalAssumption
  <2>2. Begun' = Begun
    BY <2>1 DEF Begun
  <2> QED
    BY <1>6, <2>2
<1>7. CASE P \in Answers
  <2>1. w \in Revisers(P)
    BY DEF Revisers
  <2>2. k \in Begun[P]
    BY <1>7, <2>1 DEF Begun
  <2>3. Begun[P] = {req[v].content : v \in Revisers(P) \ {w}} \cup {k}
    BY <1>7, <2>1 DEF Begun
  <2>4. Begun'[P] = {req[v].content : v \in Revisers(P) \ {w}}
    BY <1>4, <1>7 DEF Begun
  <2>5. Begun'[P] = Begun[P] \/ Begun'[P] = Begun[P] \ {k}
    BY <2>3, <2>4
  <2>6. CASE Begun'[P] = Begun[P]
    <3>1. Begun' = Begun
      BY <1>5, <2>6 DEF Begun
    <3> QED
      BY <1>7, <2>2, <3>1
  <2>7. CASE Begun'[P] = Begun[P] \ {k}
    <3>1. Begun' = [Begun EXCEPT ![P] = @ \ {k}]
      BY <1>5, <1>7, <2>7 DEF Begun
    <3> QED
      BY <1>7, <2>2, <3>1
  <2> QED
    BY <2>5, <2>6, <2>7
<1> QED
  BY <1>1, <1>6, <1>7

LEMMA UnwrittenWords ==
    ASSUME UNCHANGED <<answer, past>>
    PROVE  Carrier' = Carrier /\ Text' = Text /\ Earlier' = Earlier
BY DEF Carrier, Text, Earlier, Given

LEMMA RefRecordStutter ==
    ASSUME UNCHANGED <<quote, proposal, token, answer, past, submissions>>, Begun' = Begun
    PROVE  RecordStep
<1>1. Links' = Links
  BY DEF Links, Issued
<1> QED
  BY <1>1, UnwrittenWords DEF RecordStep, Record!vars

LEMMA RefRecordInit == Init => Record!Init
<1> SUFFICES ASSUME Init PROVE Record!Init
  OBVIOUS
<1>1. Issued = {} /\ Given = {}
  BY DEF Init, Issued, Given
<1>2. Links = [t \in Ids |-> "unused"]
  BY <1>1 DEF Links
<1>3. Carrier = [p \in Answers |-> None] /\ Text = [p \in Answers |-> None]
  BY <1>1 DEF Carrier, Text
<1>4. Earlier = [p \in Answers |-> {}]
  BY <1>1 DEF Earlier
<1>5. Begun = [p \in Answers |-> {}]
  <2>1. \A p \in Answers : Revisers(p) = {}
    BY DEF Init, Revisers, Idle
  <2> QED
    BY <2>1 DEF Begun
<1> QED
  BY <1>2, <1>3, <1>4, <1>5 DEF Init, Record!Init

\* Links in use are revoked and no row of an answer is written.
LEMMA RefRevoked ==
    ASSUME IInv, IInv', NEW S \in SUBSET Issued, token' = Revoked(S)
    PROVE  /\ Record!SomeRevoked({})
           /\ \A t \in S : Links'[t] = "revoked"
           /\ Issued' = Issued
<1>1. TypeOK /\ TypeOK'
  BY DEF IInv
<1>2. Issued' = Issued
  BY <1>1, RevokedLinks DEF Issued
<1>3. ASSUME NEW u \in Ids
      PROVE  Links'[u] = Links[u] \/ (Links[u] # "unused" /\ Links'[u] = "revoked")
  <2>1. u \in Issued => /\ token'[u].expired = token[u].expired
                        /\ token'[u].revoked = (token[u].revoked \/ u \in S)
    BY <1>1, RevokedLinks, RevokedKeepsExpiry
  <2>2. u \in Issued /\ token[u].revoked => token'[u].revoked
    BY <2>1
  <2> QED
    BY <1>1, <1>2, <2>1, <2>2, LinkGoesOn
<1>4. ASSUME NEW t \in S PROVE Links'[t] = "revoked"
  <2>1. t \in Ids /\ t \in Issued
    BY DEF Issued
  <2>2. token'[t].revoked
    BY <1>1, <2>1, RevokedLinks
  <2> QED
    BY <1>2, <2>1, <2>2 DEF Links
<1> QED
  BY <1>2, <1>3, <1>4 DEF Record!SomeRevoked

LEMMA RefRevoke ==
    ASSUME IInv, IInv', NEW S \in SUBSET Issued, token' = Revoked(S),
           UNCHANGED <<quote, proposal, answer, past, submissions>>, Begun' = Begun
    PROVE  RecordStep
<1>1. Record!Revoke
  BY RefRevoked, UnwrittenWords DEF Record!Revoke
<1> QED
  BY <1>1 DEF RecordStep, Record!Next

\* A new link, and the others as after a revocation.
LEMMA RefNew ==
    ASSUME IInv, IInv', nextToken \in Ids, NEW c \in Contacts, NEW p \in Answers \cup {None},
           token' \in [Ids -> Tokens \cup {NoRow}],
           token'[nextToken] = Link(c, p), nextToken' = nextToken + 1,
           \A u \in Issued : /\ token'[u].expired = token[u].expired
                             /\ token[u].revoked => token'[u].revoked,
           UNCHANGED <<quote, proposal, submissions>>, Text' = Text, Earlier' = Earlier, Begun' = Begun
    PROVE  Record!NewLink(nextToken)
<1>1. TypeOK /\ TypeOK' /\ RowsInOrder /\ RowsInOrder'
  BY DEF IInv, Rows
<1>2. nextToken \in Nat /\ \A u \in Ids : u \in Nat
  BY <1>1, PortalAssumption DEF TypeOK, Ids
<1>3. nextToken \notin Issued /\ \A u \in Ids : u \in Issued' <=> u \in Issued \/ u = nextToken
  BY <1>1, <1>2 DEF RowsInOrder
<1>4. Links[nextToken] = "unused"
  BY <1>3 DEF Links
<1>5. Links'[nextToken] = "valid"
  <2>1. ~ token'[nextToken].revoked /\ ~ token'[nextToken].expired
    BY DEF Link
  <2> QED
    BY <1>3, <2>1 DEF Links
<1>6. ASSUME NEW u \in Ids \ {nextToken}
      PROVE  Links'[u] = Links[u] \/ (Links[u] # "unused" /\ Links'[u] = "revoked")
  BY <1>1, <1>3, LinkGoesOn
<1> QED
  BY <1>4, <1>5, <1>6 DEF Record!NewLink, Record!SomeRevoked

LEMMA RefIssue ==
    ASSUME IInv, IInv', nextToken <= MaxTokens, NEW c \in Contacts, NEW S \in SUBSET Issued,
           token' = [Revoked(S) EXCEPT ![nextToken] = Link(c, None)], nextToken' = nextToken + 1,
           UNCHANGED <<quote, proposal, answer, past, submissions>>, Begun' = Begun
    PROVE  RecordStep
<1>1. TypeOK /\ RowsInOrder
  BY DEF IInv, Rows
<1>2. nextToken \in Ids /\ nextToken \notin Issued
  BY <1>1, PortalAssumption DEF TypeOK, RowsInOrder, Ids
<1>3. Revoked(S) \in [Ids -> Tokens \cup {NoRow}]
  BY <1>1, RevokedLinks
<1>4. /\ token' \in [Ids -> Tokens \cup {NoRow}]
      /\ token'[nextToken] = Link(c, None)
      /\ \A u \in Issued : token'[u] = Revoked(S)[u]
  BY <1>2, <1>3, NewLink DEF Issued
<1>5. \A u \in Issued : /\ token'[u].expired = token[u].expired
                        /\ token[u].revoked => token'[u].revoked
  <2>1. \A u \in Issued : /\ Revoked(S)[u].expired = token[u].expired
                          /\ Revoked(S)[u].revoked = (token[u].revoked \/ u \in S)
    BY <1>1, RevokedLinks, RevokedKeepsExpiry
  <2> QED
    BY <1>4, <2>1
<1>6. Record!Issue(nextToken)
  BY <1>2, <1>4, <1>5, RefNew, UnwrittenWords DEF Record!Issue
<1> QED
  BY <1>2, <1>6 DEF RecordStep, Record!Next

LEMMA RefIssues ==
    ASSUME IInv, IInv', NEW w \in Workers, RegenerateCommit(w) \/ Issue(w) PROVE RecordStep
<1>1. TypeOK /\ req[w] \in Requests /\ Remembers(req[w]) /\ Begun' = Begun
  <2>1. TypeOK /\ req[w] \in Requests /\ Remembers(req[w])
    BY DEF IInv, TypeOK
  <2> QED
    BY <2>1, UnsubmittedBegun DEF Replace
<1>2. CASE RegenerateCommit(w)
  <2>1. req[w].op = "regenerate"
    BY <1>2 DEF RegenerateCommit, At
  <2>2. req[w].contact \in Contacts /\ req[w].locks \in SUBSET Issued
    BY <1>1, <2>1, RequestFields DEF Remembers, FindsRows, Revoking, Issuers
  <2> QED
    BY <1>1, <1>2, <2>2, RefIssue DEF RegenerateCommit
<1>3. CASE Issue(w)
  <2>1. req[w].contact \in Contacts
    BY <1>1, <1>3, RequestFields DEF Issue, At, Issuers
  <2>2. Revoked({}) = token /\ {} \in SUBSET Issued
    BY <1>1 DEF Revoked, TypeOK
  <2>3. token' = [Revoked({}) EXCEPT ![nextToken] = Link(req[w].contact, None)]
    BY <1>3, <2>2 DEF Issue
  <2> QED
    BY <1>1, <1>3, <2>1, <2>2, <2>3, RefIssue DEF Issue
<1> QED
  BY <1>2, <1>3

\* A reply issues a link, and moves the answer it has read there.
LEMMA RefReply ==
    ASSUME IInv, IInv', NEW w \in Workers, ReplyCommit(w), ~Taken(req[w]) PROVE RecordStep
<1> DEFINE u == req[w].previous
           p == req[w].carried
           c == req[w].contact
           L == req[w].locks
<1>1. TypeOK /\ FindsRows(req[w]) /\ req[w] \in Requests /\ req[w].op = "reply"
  BY DEF IInv, Remembers, ReplyCommit, At, TypeOK
<1>2. c \in Contacts /\ p \in Answers \cup {None} /\ u \in Ids \cup {None} /\ L \in SUBSET Issued
  BY <1>1, RequestFields DEF Issuers, FindsRows, Revoking
<1>3. /\ nextToken \in Ids /\ nextToken' = nextToken + 1
      /\ token' \in [Ids -> Tokens \cup {NoRow}]
      /\ \A t \in Issued : token[t].revoked => token'[t].revoked
      /\ u # None => u \in Issued /\ token'[u].revoked
      /\ p # None => p \in Given /\ u # None /\ answer'[p].token = nextToken
      /\ Given' = Given
      /\ \A r \in Given : r # p => answer'[r] = answer[r]
      /\ UNCHANGED submissions
  BY ReplyWrites
<1>4. UNCHANGED <<quote, proposal>> /\ Begun' = Begun
  BY <1>1, UnsubmittedBegun DEF ReplyCommit, Replace
<1>5. token' = [t \in Ids |->
                  IF t = nextToken THEN Link(c, p)
                  ELSE IF t = u THEN [token[t] EXCEPT !.revoked = TRUE, !.answer = None]
                  ELSE Revoked(L)[t]]
  BY DEF ReplyCommit
<1>6. token'[nextToken] = Link(c, p)
  BY <1>3, <1>5
<1>7. ASSUME NEW t \in Issued PROVE token'[t].expired = token[t].expired
  <2>1. t \in Ids /\ token[t] \in Tokens /\ t # nextToken
    <3>1. RowsInOrder
      BY DEF IInv, Rows
    <3> QED
      BY <1>1, <3>1, RowFields DEF RowsInOrder, TypeOK, Ids
  <2>2. Revoked(L)[t].expired = token[t].expired
    BY <1>1, <1>2, RevokedKeepsExpiry
  <2>3. [token[t] EXCEPT !.revoked = TRUE, !.answer = None].expired = token[t].expired
    BY <2>1 DEF Tokens
  <2> QED
    BY <1>5, <2>1, <2>2, <2>3
<1>8. Text' = Text
  <2>1. \A r \in Given : answer'[r].content = answer[r].content
    BY ReplyKeepsWords
  <2> QED
    BY <1>3, <2>1 DEF Text
<1>9. Earlier' = Earlier
  <2>1. Earlier = [r \in Answers |-> {h.content : h \in {g \in past : g.of = r}}]
    BY EarlierIsOwn
  <2>2. Earlier' = [r \in Answers |-> {h.content : h \in {g \in past' : g.of = r}}]
    BY EarlierStaysOwn
  <2> QED
    BY <2>1, <2>2, ReplyKeepsWords
<1>10. Record!NewLink(nextToken)
  BY <1>2, <1>3, <1>4, <1>6, <1>7, <1>8, <1>9, RefNew
<1>11. CASE p = None
  <2>1. Carrier' = Carrier
    BY <1>11, UnwrittenWords DEF ReplyCommit
  <2> QED
    BY <1>3, <1>10, <2>1 DEF RecordStep, Record!Next, Record!Issue
<1>12. CASE p # None
  <2>1. answer[p].token = u /\ p \in Answers /\ u \in Issued /\ u \in Ids /\ u # None
    BY <1>2, <1>3, <1>12, MovedFromPrevious
  <2>2. Carrier[p] = u
    BY <1>3, <1>12, <2>1 DEF Carrier
  <2>3. Links'[u] = "revoked"
    <3>1. u < nextToken /\ nextToken \in Nat /\ u \in Nat
      BY <1>1, <1>3, <2>1 DEF IInv, Rows, RowsInOrder, Ids
    <3>2. u < nextToken'
      BY <1>3, <3>1
    <3>3. u \in Issued'
      BY <2>1, <3>2 DEF IInv, Rows, RowsInOrder
    <3> QED
      BY <1>3, <2>1, <3>3 DEF Links
  <2>4. Carrier' = [Carrier EXCEPT ![p] = nextToken]
    BY <1>3, <1>12, <2>1 DEF Carrier
  <2>5. Record!Move(p, nextToken)
    BY <1>10, <2>1, <2>2, <2>3, <2>4 DEF Record!Move
  <2> QED
    BY <1>3, <2>1, <2>5 DEF RecordStep, Record!Next
<1> QED
  BY <1>11, <1>12

LEMMA RefSubmit ==
    ASSUME IInv, IInv', NEW w \in Workers, SubmitCommit(w), Accepts(req[w])
    PROVE  RecordStep
<1> DEFINE q == req[w]
           n == submissions + 1
<1>1. TypeOK /\ q.op = "submit"
  BY DEF IInv, SubmitCommit
<1>2. PICK P \in Answers : SubmitsFor(w, P)
  BY <1>1, SubmitKeepsWords
<1>3. /\ q.token \in Issued /\ q.token \in Ids /\ ~ token[q.token].revoked
      /\ ~ token[q.token].expired /\ quote = "open"
  BY DEF Accepts, Unrevoked, Issued
<1>4. Links[q.token] = "valid"
  BY <1>3 DEF Links
<1>5. Links' = Links
  <2> DEFINE row == [token[q.token] EXCEPT !.responded = TRUE,
                                           !.answer = IF q.existing = None THEN n ELSE q.existing]
  <2>1. token[q.token] \in Tokens
    BY <1>1, <1>3, RowFields
  <2>2. row.revoked = token[q.token].revoked /\ row.expired = token[q.token].expired /\ row # NoRow
    BY <2>1 DEF Tokens, NoRow
  <2>3. token' = [token EXCEPT ![q.token] = row]
    BY <1>1, <1>3 DEF SubmitCommit, TypeOK
  <2> HIDE DEF row
  <2>4. \A t \in Ids : /\ token'[t].revoked = token[t].revoked /\ token'[t].expired = token[t].expired
                       /\ token'[t] = NoRow <=> token[t] = NoRow
    BY <1>1, <1>3, <2>2, <2>3 DEF TypeOK, Issued
  <2> QED
    BY <2>4 DEF Links, Issued
<1>6. submissions' = n /\ quote' = quote /\ proposal' = "live"
  BY DEF SubmitCommit
<1>7. Record!Submission(q.token)
  BY <1>3, <1>4, <1>5, <1>6 DEF Record!Submission
<1>8. /\ P \in Answers /\ Given' = Given \cup {P} /\ answer'[P].token = q.token /\ answer'[P].content = n
      /\ \A r \in Given : r # P => answer'[r] = answer[r]
  BY <1>2 DEF SubmitsFor
<1>9. Text' = [Text EXCEPT ![P] = n]
  BY <1>8 DEF Text
<1>10. \/ q.existing = None /\ Begun' = Begun
       \/ /\ q.existing \in Answers /\ q.content \in Begun[q.existing]
          /\ Begun' \in {Begun, [Begun EXCEPT ![q.existing] = @ \ {q.content}]}
  <2>1. req' = [req EXCEPT ![w] = Idle]
    BY DEF SubmitCommit, Finish, Continue
  <2> QED
    BY <1>1, <2>1, BegunEnds
<1>11. /\ Earlier = [r \in Answers |-> {h.content : h \in {g \in past : g.of = r}}]
       /\ Earlier' = [r \in Answers |-> {h.content : h \in {g \in past' : g.of = r}}]
  BY EarlierIsOwn, EarlierStaysOwn
<1>12. CASE q.existing = None
  <2>1. P = n /\ P \notin Given /\ past' = past
    BY <1>2, <1>12 DEF SubmitsFor
  <2>2. \A p \in Answers : Carrier[p] # q.token
    BY <1>3, <1>12, PortalAssumption DEF Accepts, Through, Carrier
  <2>3. Carrier' = [Carrier EXCEPT ![P] = q.token]
    BY <1>8 DEF Carrier
  <2>4. Earlier' = Earlier
    BY <1>11, <2>1
  <2>5. Record!FirstAnswer(q.token)
    BY <1>6, <1>7, <1>9, <1>10, <1>12, <2>1, <2>2, <2>3, <2>4, PortalAssumption DEF Record!FirstAnswer
  <2> QED
    BY <1>3, <2>5 DEF RecordStep, Record!Next
<1>13. CASE q.existing # None
  <2> DEFINE k == q.content
  <2>1. P = q.existing /\ P \in Given /\ answer[P].token = q.token /\ k \in Answers
    BY <1>2, <1>13 DEF SubmitsFor
  <2>2. PICK h : h.of = P /\ h.content = k /\ past' = past \cup {h}
    BY <1>2, <1>13 DEF SubmitsFor
  <2>3. Carrier' = Carrier /\ Carrier[P] = q.token
    BY <1>8, <2>1 DEF Carrier
  <2>4. Earlier' = [Earlier EXCEPT ![P] = @ \cup {k}]
    <3>1. \A r \in Answers \ {P} : {g \in past' : g.of = r} = {g \in past : g.of = r}
      BY <2>2
    <3>2. {g \in past' : g.of = P} = {g \in past : g.of = P} \cup {h}
      BY <2>2
    <3>3. {g.content : g \in {i \in past : i.of = P} \cup {h}}
          = {g.content : g \in {i \in past : i.of = P}} \cup {k}
      BY <2>2
    <3> QED
      BY <1>8, <1>11, <3>1, <3>2, <3>3
  <2>5. k \in Begun[P] /\ Begun' \in {Begun, [Begun EXCEPT ![P] = @ \ {k}]}
    BY <1>10, <1>13, <2>1
  <2>6. q.token # None
    BY <1>3, PortalAssumption
  <2>7. Record!Revise(P, k)
    BY <1>6, <1>7, <1>9, <2>3, <2>4, <2>5, <2>6 DEF Record!Revise
  <2> QED
    BY <2>5, <2>7 DEF RecordStep, Record!Next
<1> QED
  BY <1>12, <1>13

LEMMA RefSubmitRead ==
    ASSUME IInv, NEW w \in Workers, NEW t \in Ids, SubmitRead(w, t) PROVE RecordStep
<1>1. /\ TypeOK /\ req[w] = Idle /\ req[w].op # "submit"
      /\ UNCHANGED <<quote, proposal, token, answer, past, submissions>>
  BY DEF IInv, SubmitRead, Begin, Idle
<1>2. \A v \in Workers \ {w} : req'[v] = req[v]
  BY <1>1 DEF SubmitRead, Begin, TypeOK
<1>3. CASE Begin(w, [op |-> "submit", token |-> t, existing |-> None])
  <2>1. req'[w].op = "submit" /\ req'[w].existing = None
    BY <1>1, <1>3 DEF Begin, TypeOK
  <2>2. \A p \in Answers : Revisers(p)' = Revisers(p) /\ w \notin Revisers(p)
    BY <1>1, <1>2, <2>1, PortalAssumption DEF Revisers
  <2>3. \A p \in Answers : {req'[v].content : v \in Revisers(p)'} = {req[v].content : v \in Revisers(p)}
    BY <1>2, <2>2 DEF Revisers
  <2>4. Begun' = Begun
    BY <2>3 DEF Begun
  <2> QED
    BY <1>1, <2>4, RefRecordStutter
<1>4. ASSUME NEW p \in Through(t),
             Begin(w, [op |-> "submit", token |-> t, existing |-> p,
                       version |-> answer[p].version, content |-> answer[p].content])
      PROVE  RecordStep
  <2>1. /\ req'[w].op = "submit" /\ req'[w].existing = p /\ req'[w].content = answer[p].content
        /\ p \in Answers /\ p \in Given /\ answer[p].token = t
    BY <1>1, <1>4 DEF Begin, TypeOK, Through, Given
  <2>2. /\ Carrier[p] = t /\ t # None /\ Text[p] = answer[p].content
        /\ Links[t] = "valid"
    BY <2>1, PortalAssumption DEF Carrier, Text, Links, SubmitRead, Unrevoked, Issued
  <2>3. \A r \in Answers \ {p} : Revisers(r)' = Revisers(r) /\ w \notin Revisers(r)
    BY <1>1, <1>2, <2>1 DEF Revisers
  <2>4. Revisers(p)' = Revisers(p) \cup {w} /\ w \notin Revisers(p)
    BY <1>1, <1>2, <2>1 DEF Revisers
  <2>5. \A r \in Answers \ {p} : Begun'[r] = Begun[r]
    <3>1. \A r \in Answers \ {p} :
              {req'[v].content : v \in Revisers(r)'} = {req[v].content : v \in Revisers(r)}
      BY <1>2, <2>3 DEF Revisers
    <3> QED
      BY <3>1 DEF Begun
  <2>6. Begun'[p] = Begun[p] \cup {Text[p]}
    <3>1. {req'[v].content : v \in Revisers(p) \cup {w}} = {req[v].content : v \in Revisers(p)} \cup {Text[p]}
      BY <1>2, <2>1, <2>2, <2>4 DEF Revisers
    <3> QED
      BY <2>1, <2>4, <3>1 DEF Begun
  <2>7. Begun' = [Begun EXCEPT ![p] = @ \cup {Text[p]}]
    BY <2>1, <2>5, <2>6 DEF Begun
  <2>8. Links' = Links
    BY <1>1 DEF Links, Issued
  <2>9. Record!Begin(p)
    BY <1>1, <2>2, <2>7, <2>8, UnwrittenWords DEF Record!Begin
  <2> QED
    BY <2>1, <2>9 DEF RecordStep, Record!Next
<1> QED
  BY <1>3, <1>4 DEF SubmitRead

\* A request that ends without a trace, a submission perhaps.
LEMMA RefEnds ==
    ASSUME IInv, NEW w \in Workers, Finish(w),
           UNCHANGED <<quote, proposal, token, answer, past, submissions>>
    PROVE  RecordStep
<1>1. TypeOK /\ req' = [req EXCEPT ![w] = Idle]
  BY DEF IInv, Finish, Continue
<1>2. CASE req[w].op # "submit"
  <2>1. (\A v \in Workers \ {w} : req'[v] = req[v]) /\ req'[w].op # "submit"
    BY <1>1 DEF TypeOK, Idle
  <2> QED
    BY <1>2, <2>1, BegunKept, RefRecordStutter
<1>3. CASE req[w].op = "submit"
  <2> DEFINE P == req[w].existing
             k == req[w].content
  <2>1. \/ Begun' = Begun
        \/ P \in Answers /\ k \in Begun[P] /\ Begun' = [Begun EXCEPT ![P] = @ \ {k}]
    BY <1>1, <1>3, BegunEnds
  <2>2. CASE Begun' = Begun
    BY <2>2, RefRecordStutter
  <2>3. CASE P \in Answers /\ k \in Begun[P] /\ Begun' = [Begun EXCEPT ![P] = @ \ {k}]
    <3>1. Links' = Links
      BY DEF Links, Issued
    <3>2. Record!GiveUp(P, k)
      BY <2>3, <3>1, UnwrittenWords DEF Record!GiveUp
    <3> QED
      BY <2>3, <3>2 DEF RecordStep, Record!Next
  <2> QED
    BY <2>1, <2>2, <2>3
<1> QED
  BY <1>2, <1>3

LEMMA RefRevokes ==
    ASSUME RecordInv, RecordInv', NEW w \in Workers,
           \/ RevokeLock(w) \/ RemoveCommit(w) \/ RemoveQuote(w)
           \/ \E t \in Ids : RevokeToken(w, t)
    PROVE  RecordStep
<1>1. TypeOK /\ IInv /\ IInv' /\ req[w] \in Requests /\ Remembers(req[w])
  BY DEF RecordInv, IInv, TypeOK
<1>2. Begun' = Begun
  BY <1>1, UnsubmittedBegun DEF Replace
<1>3. CASE RevokeLock(w)
  <2> DEFINE mine == {t \in Unrevoked \cap OfContact(req[w].contact) : t < req[w].seen}
  <2>1. mine \in SUBSET Issued
    BY DEF Unrevoked
  <2>2. token' = Revoked(mine) \/ UNCHANGED token
    BY <1>3 DEF RevokeLock
  <2>3. UNCHANGED <<quote, proposal, answer, past, submissions>>
    BY <1>3 DEF RevokeLock
  <2> HIDE DEF mine
  <2> QED
    BY <1>1, <1>2, <2>1, <2>2, <2>3, RefRevoke, RefRecordStutter
<1>4. CASE RemoveCommit(w)
  <2>1. /\ req[w].op = "remove" /\ proposal = "live" /\ proposal' = "deleted"
        /\ token' = Revoked(req[w].locks) /\ UNCHANGED <<quote, answer, past, submissions>>
    BY <1>4 DEF RemoveCommit, At, RecordInv, RemovesAlone
  <2>2. req[w].locks \in SUBSET Issued
    BY <1>1, <2>1 DEF Remembers, FindsRows, Revoking
  <2>3. Record!Remove
    BY <1>1, <1>2, <2>1, <2>2, RefRevoked, UnwrittenWords DEF Record!Remove
  <2> QED
    BY <2>3 DEF RecordStep, Record!Next
<1>5. CASE RemoveQuote(w)
  <2>1. /\ quote' = "removed" /\ proposal' = IF proposal = "none" THEN "none" ELSE "deleted"
        /\ token' = Revoked(Unrevoked) /\ UNCHANGED <<answer, past, submissions>>
    BY <1>5 DEF RemoveQuote
  <2>2. Unrevoked \in SUBSET Issued
    BY UnrevokedLinks
  <2>3. Links' = [t \in Ids |-> IF Links[t] = "unused" THEN "unused" ELSE "revoked"]
    <3>1. Issued' = Issued /\ \A t \in Issued : token'[t].revoked = (token[t].revoked \/ t \in Unrevoked)
      BY <1>1, <2>1, <2>2, RevokedLinks, RefRevoked
    <3>2. \A t \in Issued : token'[t].revoked
      BY <3>1 DEF Unrevoked
    <3> QED
      BY <3>1, <3>2 DEF Links
  <2>4. Record!RemoveQuote
    BY <1>2, <2>1, <2>3, UnwrittenWords DEF Record!RemoveQuote
  <2> QED
    BY <2>4 DEF RecordStep, Record!Next
<1>6. ASSUME NEW t \in Ids, RevokeToken(w, t) PROVE RecordStep
  <2>1. {t} \in SUBSET Issued
    BY <1>6, UnrevokedLinks DEF RevokeToken
  <2> QED
    BY <1>1, <1>6, <1>2, <2>1, RefRevoke DEF RevokeToken
<1> QED
  BY <1>3, <1>4, <1>5, <1>6

LEMMA RefExpire ==
    ASSUME IInv, IInv', NEW t \in Ids, Expire(t) PROVE RecordStep
<1> DEFINE row == [token[t] EXCEPT !.expired = TRUE]
<1>1. /\ TypeOK /\ t \in Issued /\ ~ token[t].expired /\ token' = [token EXCEPT ![t] = row]
      /\ UNCHANGED <<quote, proposal, answer, past, submissions>> /\ Begun' = Begun
  BY BegunUnread DEF IInv, Expire
<1>2. row.expired = TRUE /\ row.revoked = token[t].revoked /\ row # NoRow
  BY <1>1, RowFields DEF Tokens, NoRow
<1> HIDE DEF row
<1>3. /\ Issued' = Issued /\ token'[t] = row
      /\ \A u \in Ids \ {t} : token'[u] = token[u]
  BY <1>1, <1>2 DEF TypeOK, Issued
<1>4. CASE token[t].revoked
  <2>1. Links' = Links
    BY <1>1, <1>2, <1>3, <1>4 DEF Links
  <2> QED
    BY <1>1, <2>1, UnwrittenWords DEF RecordStep, Record!vars
<1>5. CASE ~ token[t].revoked
  <2>1. Links[t] = "valid" /\ Links' = [Links EXCEPT ![t] = "expired"]
    BY <1>1, <1>2, <1>3, <1>5 DEF Links
  <2>2. Record!Expire(t)
    BY <1>1, <2>1, UnwrittenWords DEF Record!Expire
  <2> QED
    BY <2>2 DEF RecordStep, Record!Next
<1> QED
  BY <1>4, <1>5

LEMMA RefManage ==
    ASSUME NEW w \in Workers, TypeIn(w) \/ Close(w) \/ Reopen(w) PROVE RecordStep
<1>1. UNCHANGED <<token, answer, past, submissions>> /\ Begun' = Begun
  BY BegunUnread DEF TypeIn, Close, Reopen
<1>2. Links' = Links
  BY <1>1 DEF Links, Issued
<1>3. Record!TypeIn \/ Record!Turn
  BY <1>1, <1>2, UnwrittenWords DEF TypeIn, Close, Reopen, Record!TypeIn, Record!Turn
<1> QED
  BY <1>3 DEF RecordStep, Record!Next

LEMMA RefRecordNext == RecordInv /\ RecordInv' /\ [Next]_vars => RecordStep
<1> SUFFICES ASSUME RecordInv, RecordInv', [Next]_vars PROVE RecordStep
  OBVIOUS
<1>1. IInv /\ IInv'
  BY DEF RecordInv
<1>2. ASSUME NEW w \in Workers, Replace(w) PROVE RecordStep
  <2>1. CASE \/ \E c \in Contacts : ReplyRead(w, c) \/ DispatchRead(w, c) \/ GenerateRead(w, c)
             \/ \E t \in Ids : RegenerateRead(w, t)
             \/ RemoveStart(w) \/ RevokeStart(w) \/ (ReplyCommit(w) /\ Taken(req[w]))
    <3>1. Begun' = Begun
      BY <1>1, <1>2, UnsubmittedBegun DEF IInv
    <3> QED
      BY <2>1, <3>1, RefRecordStutter DEF ReplyRead, DispatchRead, GenerateRead, RegenerateRead,
         RemoveStart, RevokeStart, ReplyCommit
  <2> QED
    BY <1>1, <1>2, <2>1, RefRevokes, RefReply, RefIssues DEF Replace
<1>3. ASSUME NEW w \in Workers, Submit(w) PROVE RecordStep
  <2>1. CASE SubmitCommit(w) /\ ~Accepts(req[w])
    BY <1>1, <2>1, RefEnds DEF SubmitCommit
  <2> QED
    BY <1>1, <1>3, <2>1, RefSubmit, RefSubmitRead DEF Submit
<1>4. ASSUME NEW w \in Workers, Manage(w) PROVE RecordStep
  BY <1>1, <1>4, RefManage, RefRevokes, RefEnds DEF Manage, Abort
<1>5. CASE UNCHANGED vars
  BY <1>5, BegunUnread, RefRecordStutter DEF vars
<1> QED
  BY <1>1, <1>2, <1>3, <1>4, <1>5, RefExpire DEF Next

\* Replies, rotations, revocations and submissions that overlap, and steps that
\* fail half way, amount to single steps on links and answers: each answer is on
\* one link with all that is kept of it, and a revision keeps the version it had
\* read; what another wrote in between is lost, which the record allows
\* (SupplierPortalService, rotateTokenForReply, SupplierPortalResponseService.submit).
THEOREM KeepsTheRecord == Spec => ImplementsRecord
<1>1. RecordInv /\ RecordInv' /\ [Next]_vars => [Record!Next]_(Record!vars)
  BY RefRecordNext DEF RecordStep
<1> QED
  BY <1>1, RefRecordInit, RecordAlways, PTL DEF Spec, ImplementsRecord, Record!Spec
=============================================================================
