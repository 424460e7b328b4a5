--------------------------- MODULE CommercialRequests ---------------------------
(***************************************************************************)
(* What sales asks for and what buying makes of it                         *)
(* (CommercialRequestWorkflowService, CommercialRequestPriceService).      *)
(*                                                                         *)
(* A request is pending until it is linked to a quote (a new one or one    *)
(* that is open), and then fulfilled when the quote's winner has a price   *)
(* for it, or rejected on the way.  The transactions that link lock the    *)
(* rows of the quote and of the requests, in that order; the others rely   *)
(* on the status in their WHERE clause.  The requester is told of each     *)
(* change after the commit.  The rows of a quote, its winner and its       *)
(* status are changed meanwhile by routes that know nothing of requests.   *)
(*                                                                         *)
(* A worker is an HTTP request in flight.  Catalog items stay active here: *)
(* an inactive one is refused, as Abort shows.                             *)
(***************************************************************************)
EXTENDS Naturals, FiniteSets, Functions

CONSTANTS
    Requests,   \* ids of commercial requests, which are numbers
    Lines,      \* the items of all requests
    RequestOf,  \* the request of each line
    NewLines,   \* lines for something that is not in the catalog yet
    Catalog,    \* catalog items
    Quotes,     \* ids of quotes
    Rows,       \* ids of quote items
    Workers,    \* HTTP requests in flight at once
    MaxEdits    \* bound: changes that buyers make to quotes and their items, closing aside

ASSUME CommercialRequestsAssumption ==
    /\ Requests \subseteq Nat /\ IsFiniteSet(Requests)
    /\ RequestOf \in [Lines -> Requests] /\ NewLines \subseteq Lines
    /\ "none" \notin Catalog \cup Quotes \cup Rows /\ "gone" \notin Quotes
    /\ MaxEdits \in Nat

VARIABLES
    status,     \* of each request
    quoteOf,    \* the quote a request is linked to
    catalogOf,  \* the catalog item of each line
    rowOf,      \* the quote item of each line
    quote,      \* status and soft deletion of each quote
    row,        \* quote and catalog item of each quote item
    priced,     \* the quote items for which a quote's winner has a price
    edited,     \* quote items that were given another catalog item
    edits,      \* how many such changes there have been
    req,        \* what each worker remembers
    mailed      \* how many mails about each status each requester got

requestVars == <<status, quoteOf, catalogOf, rowOf>>
quoteVars == <<quote, row, priced, edited, edits>>
vars == <<requestVars, quoteVars, req, mailed>>

Statuses == {"pending", "quoting", "fulfilled", "rejected"}
QuoteRows == [state: {"unused", "open", "closed"}, removed: BOOLEAN]
\* unused: not created yet; gone: deleted
ItemRows == [quote: Quotes \cup {"none", "gone"}, item: Catalog \cup {"none"}]
Stages == {"idle", "createLock", "createCommit", "linkQuote", "linkRequest", "linkCommit",
           "fulfillPrice", "fulfillCommit", "notify"}
\* held, quoteHeld: the row locks; seen, found: what was read of the lines and of
\* the quote items that match them; told: the status to report.
Works == [pc: Stages, requests: SUBSET Requests, items: SUBSET Catalog, quote: Quotes \cup {"none"},
          held: SUBSET Requests, quoteHeld: SUBSET Quotes, seen: [Lines -> Catalog \cup {"none"}],
          found: [Lines -> Rows \cup {"none"}], told: Statuses]

Nothing == [l \in Lines |-> "none"]
Idle == [pc |-> "idle", requests |-> {}, items |-> {}, quote |-> "none", held |-> {}, quoteHeld |-> {},
         seen |-> Nothing, found |-> Nothing, told |-> "pending"]

LinesOf(r) == {l \in Lines : RequestOf[l] = r}
\* A catalog item is at most once in a request.
Distinct(items) == \A l, k \in Lines : l # k /\ RequestOf[l] = RequestOf[k] /\ items[l] # "none"
                                       => items[l] # items[k]

Init ==
    /\ status = [r \in Requests |-> "pending"]
    /\ quoteOf = [r \in Requests |-> "none"]
    /\ catalogOf \in [Lines -> Catalog \cup {"none"}]
    /\ \A l \in Lines : l \in NewLines <=> catalogOf[l] = "none"
    /\ Distinct(catalogOf)
    /\ rowOf = Nothing
    /\ quote = [q \in Quotes |-> [state |-> "unused", removed |-> FALSE]]
    /\ row = [i \in Rows |-> [quote |-> "none", item |-> "none"]]
    /\ priced = [q \in Quotes |-> {}]
    /\ edited = {}
    /\ edits = 0
    /\ req = [w \in Workers |-> Idle]
    /\ mailed = [r \in Requests |-> [s \in Statuses |-> 0]]

-----------------------------------------------------------------------------
At(w, pc) == req[w].pc = pc
Becomes(w, r) == req' = [req EXCEPT ![w] = r]
Unlocked(r) == TRUE  \* mutant: without FOR NO KEY UPDATE
Free(r) == \A w \in Workers : r \notin req[w].held
QuoteUnlocked(q) == TRUE  \* mutant: the same for the quote
QuoteFree(q) == \A w \in Workers : q \notin req[w].quoteHeld
RowsOf(q) == {i \in Rows : row[i].quote = q}
Unused == RowsOf("none")
\* The transaction has committed; the requesters are still to be told.
Tells(w, requests, s) ==
    Becomes(w, [Idle EXCEPT !.pc = "notify", !.requests = requests, !.told = s])

-----------------------------------------------------------------------------
(* Linking.                                                                *)

CreateStart(w) ==
    /\ At(w, "idle")
    /\ \E requests \in (SUBSET Requests) \ {{}} :
          Becomes(w, [Idle EXCEPT !.pc = "createLock", !.requests = requests])
    /\ UNCHANGED <<requestVars, quoteVars, mailed>>

AnyOrder(w) == req[w].requests \ req[w].held  \* mutant: without ORDER BY id
\* Locks are taken in the order of the ids.
NextLock(w) == {r \in req[w].requests \ req[w].held : \A s \in req[w].requests \ req[w].held : r <= s}

CreateLock(w) ==
    /\ At(w, "createLock")
    /\ \E r \in NextLock(w) :
          /\ Free(r)
          /\ Becomes(w, [req[w] EXCEPT !.held = @ \cup {r}])
    /\ UNCHANGED <<requestVars, quoteVars, mailed>>

\* What the transaction of w reads of its lines.
Read(w) == [l \in Lines |-> IF RequestOf[l] \in req[w].requests THEN catalogOf[l] ELSE "none"]

\* What a transaction that links requires of each request, read under its lock.
Quotable(r) == status[r] = "pending" /\ \A l \in LinesOf(r) : catalogOf[l] # "none"

\* The items that the new quote is to have are first needed here.
CreateRead(w) ==
    /\ At(w, "createLock")
    /\ req[w].held = req[w].requests
    /\ \E items \in SUBSET Catalog :
          /\ \A r \in req[w].requests :
                Quotable(r) /\ \E l \in LinesOf(r) : catalogOf[l] \in items
          /\ Becomes(w, [req[w] EXCEPT !.pc = "createCommit", !.items = items, !.seen = Read(w)])
    /\ UNCHANGED <<requestVars, quoteVars, mailed>>

\* The requests of w become quoting in quote q, which gets a new item for each
\* of the wanted; their lines refer to the items found before, or to the new ones.
Links(w, q, wanted) ==
    /\ \A r \in req[w].requests : status[r] = "pending"
    /\ \E new \in SUBSET Unused : \E is \in Bijection(new, wanted), at \in [wanted -> new] :
          /\ \A c \in wanted : is[at[c]] = c
          /\ row' = [i \in Rows |-> IF i \in new THEN [quote |-> q, item |-> is[i]] ELSE row[i]]
          /\ rowOf' = [l \in Lines |->
                         IF RequestOf[l] \notin req[w].requests THEN rowOf[l]
                         ELSE IF req[w].seen[l] \in wanted THEN at[req[w].seen[l]] ELSE req[w].found[l]]
    /\ status' = [r \in Requests |-> IF r \in req[w].requests THEN "quoting" ELSE status[r]]
    /\ quoteOf' = [r \in Requests |-> IF r \in req[w].requests THEN q ELSE quoteOf[r]]
    /\ Tells(w, req[w].requests, "quoting")

CreateCommit(w) ==
    /\ At(w, "createCommit")
    /\ \E q \in Quotes :
          /\ quote[q].state = "unused"
          /\ quote' = [quote EXCEPT ![q].state = "open"]
          /\ Links(w, q, req[w].items)
    /\ UNCHANGED <<catalogOf, priced, edited, edits, mailed>>

LinkStart(w) ==
    /\ At(w, "idle")
    /\ \E r \in Requests, q \in Quotes :
          Becomes(w, [Idle EXCEPT !.pc = "linkQuote", !.requests = {r}, !.quote = q])
    /\ UNCHANGED <<requestVars, quoteVars, mailed>>

LinkLockQuote(w) ==
    /\ At(w, "linkQuote")
    /\ QuoteFree(req[w].quote)
    /\ quote[req[w].quote].state = "open" /\ ~ quote[req[w].quote].removed
    /\ Becomes(w, [req[w] EXCEPT !.pc = "linkRequest", !.quoteHeld = {req[w].quote}])
    /\ UNCHANGED <<requestVars, quoteVars, mailed>>

\* Items of the quote that are for the same thing as line l.
Same(q, l) == {i \in RowsOf(q) : row[i].item = catalogOf[l]}

LinkLockRequest(w) ==
    /\ At(w, "linkRequest")
    /\ \A r \in req[w].requests : Free(r) /\ Quotable(r)
    /\ \E found \in [Lines -> Rows \cup {"none"}] :
          /\ \A l \in Lines :
                IF RequestOf[l] \in req[w].requests /\ Same(req[w].quote, l) # {}
                THEN found[l] \in Same(req[w].quote, l) ELSE found[l] = "none"
          /\ Becomes(w, [req[w] EXCEPT !.pc = "linkCommit", !.held = req[w].requests,
                                       !.seen = Read(w), !.found = found])
    /\ UNCHANGED <<requestVars, quoteVars, mailed>>

\* The foreign key refuses an item that was removed since it was found.
LinkCommit(w) ==
    /\ At(w, "linkCommit")
    /\ \A l \in Lines : req[w].found[l] # "none" => row[req[w].found[l]].quote # "gone"
    /\ Links(w, req[w].quote, {req[w].seen[l] : l \in {k \in Lines :
                                  RequestOf[k] \in req[w].requests /\ req[w].found[k] = "none"}})
    /\ UNCHANGED <<catalogOf, quote, priced, edited, edits, mailed>>

\* A new thing is given its catalog item, or another one, while it is pending.
LinkItem(l) ==
    /\ l \in NewLines
    /\ Free(RequestOf[l])
    /\ status[RequestOf[l]] = "pending"
    /\ \E c \in Catalog : catalogOf' = [catalogOf EXCEPT ![l] = c]
    /\ Distinct(catalogOf')
    /\ UNCHANGED <<status, quoteOf, rowOf, quoteVars, req, mailed>>

-----------------------------------------------------------------------------
(* The end of a request.                                                   *)

\* The request and its quote are read; an admin may do without a price.
FulfillStart(w) ==
    /\ At(w, "idle")
    /\ \E r \in Requests :
          /\ status[r] = "quoting"
          /\ \/ Becomes(w, [Idle EXCEPT !.pc = "fulfillCommit", !.requests = {r}])
             \/ /\ ~ quote[quoteOf[r]].removed
                /\ Becomes(w, [Idle EXCEPT !.pc = "fulfillPrice", !.requests = {r}, !.quote = quoteOf[r],
                                  !.found = [l \in Lines |-> IF l \in LinesOf(r) THEN rowOf[l] ELSE "none"]])
    /\ UNCHANGED <<requestVars, quoteVars, mailed>>

\* The winner has a price for some line (a quote without one has no prices); the
\* quote is not locked, so this may no longer be so when the transaction commits.
FulfillPrice(w) ==
    /\ At(w, "fulfillPrice")
    /\ \E l \in Lines : req[w].found[l] \in priced[req[w].quote]
    /\ Becomes(w, [req[w] EXCEPT !.pc = "fulfillCommit", !.quote = "none", !.found = Nothing])
    /\ UNCHANGED <<requestVars, quoteVars, mailed>>

AnyStatus(r) == TRUE  \* mutant: updated by id
StillQuoting(r) == status[r] = "quoting"

FulfillCommit(w) ==
    /\ At(w, "fulfillCommit")
    /\ \A r \in req[w].requests : Free(r) /\ StillQuoting(r)
    /\ status' = [r \in Requests |-> IF r \in req[w].requests THEN "fulfilled" ELSE status[r]]
    /\ Tells(w, req[w].requests, "fulfilled")
    /\ UNCHANGED <<quoteOf, catalogOf, rowOf, quoteVars, mailed>>

\* What ties the request to its quote is kept.
Reject(w) ==
    /\ At(w, "idle")
    /\ \E r \in Requests :
          /\ Free(r)
          /\ status[r] \in {"pending", "quoting"}
          /\ status' = [status EXCEPT ![r] = "rejected"]
          /\ Tells(w, {r}, "rejected")
    /\ UNCHANGED <<quoteOf, catalogOf, rowOf, quoteVars, mailed>>

\* The requester is told what was changed, not what the row says by now; a mail
\* that fails is dropped.
Notify(w) ==
    /\ At(w, "notify")
    /\ \E r \in req[w].requests :
          /\ mailed' \in {mailed, [mailed EXCEPT ![r][req[w].told] = @ + 1]}
          /\ Becomes(w, IF req[w].requests = {r} THEN Idle ELSE [req[w] EXCEPT !.requests = @ \ {r}])
    /\ UNCHANGED <<requestVars, quoteVars>>

\* A request is refused, times out, is chosen to break a deadlock, or dies.
Abort(w) ==
    /\ ~ At(w, "idle")
    /\ Becomes(w, Idle)
    /\ UNCHANGED <<requestVars, quoteVars, mailed>>

-----------------------------------------------------------------------------
(* Quotes.  Their items are changed without the lock, and what the routes  *)
(* check of the quote is not checked again.                                *)

Edits == edits < MaxEdits /\ edits' = edits + 1

\* A quote that no request asked for.
NewQuote(q) ==
    /\ quote[q].state = "unused"
    /\ quote' = [quote EXCEPT ![q].state = "open"]
    /\ UNCHANGED <<requestVars, row, priced, edited, edits, req, mailed>>

Close(q) ==
    /\ quote[q].state = "open" /\ QuoteFree(q)
    /\ quote' = [quote EXCEPT ![q].state = "closed"]
    /\ UNCHANGED <<requestVars, row, priced, edited, edits, req, mailed>>

Reopen(q) ==
    /\ Edits
    /\ quote[q].state = "closed" /\ QuoteFree(q)
    /\ quote' = [quote EXCEPT ![q].state = "open"]
    /\ priced' = [priced EXCEPT ![q] = {}]
    /\ UNCHANGED <<requestVars, row, edited, req, mailed>>

\* A partner's offer keeps its flag in a removed quote.
Remove(q) ==
    /\ Edits
    /\ quote[q].state # "unused" /\ ~ quote[q].removed /\ QuoteFree(q)
    /\ quote' = [quote EXCEPT ![q] = [state |-> "closed", removed |-> TRUE]]
    /\ \E left \in {{}, priced[q]} : priced' = [priced EXCEPT ![q] = left]
    /\ UNCHANGED <<requestVars, row, edited, req, mailed>>

\* A comparison, an approval, a choice, an edit, an answer: see Award.
Decide(q) ==
    /\ Edits
    /\ quote[q].state = "open" /\ ~ quote[q].removed
    /\ \E prices \in SUBSET RowsOf(q) : priced' = [priced EXCEPT ![q] = prices]
    /\ UNCHANGED <<requestVars, quote, row, edited, req, mailed>>

AddRow(q) ==
    /\ Edits
    /\ quote[q].state # "unused"
    /\ \E i \in Unused, c \in Catalog \cup {"none"} : row' = [row EXCEPT ![i] = [quote |-> q, item |-> c]]
    /\ UNCHANGED <<requestVars, quote, priced, edited, req, mailed>>

EditRow(i) ==
    /\ Edits
    /\ row[i].quote \in Quotes
    /\ \E c \in Catalog \cup {"none"} : row' = [row EXCEPT ![i].item = c]
    /\ edited' = edited \cup {i}
    /\ UNCHANGED <<requestVars, quote, priced, req, mailed>>

\* Lines and prices that refer to the item go with it (ON DELETE).
RemoveRow(i) ==
    /\ Edits
    /\ row[i].quote \in Quotes
    /\ row' = [row EXCEPT ![i] = [quote |-> "gone", item |-> "none"]]
    /\ rowOf' = [l \in Lines |-> IF rowOf[l] = i THEN "none" ELSE rowOf[l]]
    /\ priced' = [q \in Quotes |-> priced[q] \ {i}]
    /\ UNCHANGED <<status, quoteOf, catalogOf, quote, edited, req, mailed>>

-----------------------------------------------------------------------------
Step(w) ==
    \/ CreateStart(w) \/ CreateLock(w) \/ CreateRead(w) \/ CreateCommit(w)
    \/ LinkStart(w) \/ LinkLockQuote(w) \/ LinkLockRequest(w) \/ LinkCommit(w)
    \/ FulfillStart(w) \/ FulfillPrice(w) \/ FulfillCommit(w) \/ Reject(w)
    \/ Notify(w) \/ Abort(w)

Next ==
    \/ \E w \in Workers : Step(w)
    \/ \E l \in Lines : LinkItem(l)
    \/ \E q \in Quotes : NewQuote(q) \/ Close(q) \/ Reopen(q) \/ Remove(q) \/ Decide(q) \/ AddRow(q)
    \/ \E i \in Rows : EditRow(i) \/ RemoveRow(i)

Spec == Init /\ [][Next]_vars

-----------------------------------------------------------------------------
\* The types of the rows and of what workers remember; only the transactions
\* that link hold locks, and mails are sent after the commit ("APOS o commit").
TypeOK ==
    /\ status \in [Requests -> Statuses]
    /\ quoteOf \in [Requests -> Quotes \cup {"none"}]
    /\ catalogOf \in [Lines -> Catalog \cup {"none"}]
    /\ rowOf \in [Lines -> Rows \cup {"none"}]
    /\ quote \in [Quotes -> QuoteRows]
    /\ row \in [Rows -> ItemRows]
    /\ priced \in [Quotes -> SUBSET Rows]
    /\ edited \subseteq Rows
    /\ edits \in 0..MaxEdits
    /\ req \in [Workers -> Works]
    /\ \A w \in Workers :
          /\ req[w].held \subseteq req[w].requests
          /\ req[w].held # {} => req[w].pc \in {"createLock", "createCommit", "linkCommit"}
          /\ req[w].quoteHeld # {} => req[w].pc \in {"linkRequest", "linkCommit"}
    /\ mailed \in [Requests -> [Statuses -> Nat]]

\* "Invariante: nenhum item de cotacao da solicitacao diverge do vinculo final":
\* a line refers to an item of the quote its request is linked to, for the thing
\* the line is for (unless a buyer has given that item another since), however
\* the choice of the catalog item and the linking overlap.
LinkedAsAgreed ==
    \A l \in Lines : rowOf[l] # "none" =>
        /\ status[RequestOf[l]] # "pending"
        /\ row[rowOf[l]].quote = quoteOf[RequestOf[l]]
        /\ row[rowOf[l]].item = catalogOf[l] \/ rowOf[l] \in edited

\* "Duas mudancas rapidas nao geram dois e-mails do mesmo status", and the
\* requester is not told of an end that another change has overtaken.
MailsTellTheTruth ==
    \A r \in Requests :
        /\ \A s \in Statuses : mailed[r][s] <= 1
        /\ mailed[r]["quoting"] > 0 => status[r] # "pending"
        /\ \A s \in {"fulfilled", "rejected"} : mailed[r][s] > 0 => status[r] = s

\* Transactions do not wait for one another in a circle ("ids em ordem crescente
\* para nao gerar deadlock"): of any that wait, one waits for none of the others.
WaitsFor(w, v) ==
    \/ At(w, "createLock") /\ NextLock(w) \cap req[v].held # {}
    \/ At(w, "linkQuote") /\ req[w].quote \in req[v].quoteHeld
    \/ At(w, "linkRequest") /\ req[w].requests \cap req[v].held # {}
NoCircle ==
    \A group \in SUBSET Workers : group # {} =>
        \E w \in group : \A v \in group \ {w} : ~ WaitsFor(w, v)

\* A removed quote is shut whatever its status.
Stage == [q \in Quotes |-> IF quote[q].state = "unused" THEN "unused"
                           ELSE IF quote[q].state = "open" /\ ~ quote[q].removed THEN "open" ELSE "shut"]
Unheard == UNION {req[w].requests \X {req[w].told} : w \in {v \in Workers : At(v, "notify")}}

Book == INSTANCE RequestBook WITH itemOf <- catalogOf, stage <- Stage, unheard <- Unheard

\* Whatever overlaps, requests are taken into a quote together, while it is open
\* and with their lines settled, keep it, and end once; each change is told at
\* most once.
ImplementsBook == Book!Spec
===============================================================================
