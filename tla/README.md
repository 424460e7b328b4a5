# IntelliQuote: specifications and proofs

IntelliQuote (`src/programa`) is a web application for buying: a quote request is sent to suppliers,
who answer through a portal or whose answers a buyer types in; credit partners may price an answer;
proposals are compared and one is awarded; the quote's items are grouped in purchase orders (POs);
sales asks for items that are quoted on its behalf; jobs remind suppliers and warn the team about
documents that expire; spreadsheets feed a forecast whose products refer to the catalog. The backend
is Express and Prisma over PostgreSQL. Cloud Run starts and stops instances of it as it likes, so two
requests, or two runs of a job, overlap at every `await`.

That is what this project is about. The code has few data structures and many *handlers* that read,
decide and write; what is hard to get right, and hard to test, is what happens when another handler,
a restart or a failed call comes between two of those steps.

## 1. Inventory

| Part | State | Operations | Module |
|---|---|---|---|
| Comparison and award (`QuoteResponseController`, `ComparisonCandidateService`, `QuoteComparisonService`) | `QuoteResponse` and `CreditSupportRequest` rows with an `isWinner` flag each, `QuoteComparison` with its result rows | compare, approve, choose by hand, create / restore / edit / remove a proposal | `Award`, which implements `AwardRegister` |
| Quote requests (`QuoteRequestController`) | `status`, `deletedAt` | create, edit, close, reopen, remove | close, reopen, remove where they matter: `Award`, `PurchaseOrders`, `SupplierPortal`, `CreditSupport`, `CommercialRequests` |
| Purchase orders (`QuotePurchaseOrderService`) | PO rows with a position, `purchaseOrderId` of the items, the lock on the quote row | create, group, reorder, delete with reallocation, move an item | `PurchaseOrders`, which implements `OrderList` |
| Document expiry alerts (`SupplierDocumentAlertService`) | a row per document, alert cycle and milestone, claimed by a run or sent; `MailLog` | the daily sweep: settle orphans, select, claim, mail, log, mark, release | `DocumentAlerts` |
| Supplier documents (`SupplierDocumentService`) | expiry date, alert cycle | create, update, replace file, remove | `DocumentAlerts` (what the sweep reads) |
| Supplier portal and dispatch (`SupplierPortalService`, `SupplierPortalResponseService`, `DispatchController`) | tokens, responses and their versions | issue, regenerate, rotate, revoke, submit, revise | `SupplierPortal`, which implements `AnswerRecord`; the arrival of an answer in `Award` |
| Portal reminders (`SupplierPortalReminderService`) | claims per address and per pair and day, fresh tokens | the sweep under its two time budgets | `Reminders`, which implements `ReminderLedger` |
| Credit support (`CreditSupportService`, `CreditPortalService`, `CreditPartnerController`) | forwards with a link, an answer version, audit rows | forward, resend, answer, revoke, remove a partner, notify | `CreditSupport`, which implements `CreditDialogue`; the offer as the comparison sees it in `Award` |
| Commercial requests (`CommercialRequestWorkflowService`, `CommercialRequestPriceService`) | pending, quoting, fulfilled, rejected; lines linked to quote items | new quote, link to a quote, choose a catalog item, fulfil, reject, notify | `CommercialRequests`, which implements `RequestBook` |
| Forecast register (`ForecastProductService`, `ForecastProductCadastroService`, `ForecastSnapshotService`) | products, their codes with packaging, fortnights, the advisory lock `forecast:import` | import a workbook or reports, create, reactivate, add a code, edit packaging, delete a fortnight | `ForecastRegister` |
| Catalog items (`CatalogItemController`, `CatalogItemForecastLinkService`, `CatalogItemImportController`) | DBCorp code, active flag, the link from a forecast code | create, edit, import, remove, link; the scripts that link older items | `ForecastRegister` |
| Mailer | `MailLog` | log, send, log again | as the callers meet it in `DocumentAlerts`, `Reminders`, `CreditSupport` |
| Internal jobs | none; the Scheduler calls and retries | one route per job | `Start` in `DocumentAlerts` and `Reminders` |
| Forecast engine, sales history, equivalence groups, purchase decisions | spreadsheets, snapshots, decisions | statistics, imports, decisions | not modelled |
| Suppliers, users, attachments, audit, reports, exchange rates, web client | records | one transaction per route | not modelled |

**How they interact.** The parts share rows, not messages. A proposal that arrives through the
portal, an edit by a buyer and an answer by a credit partner all take the winner's flag away; a
decision puts it somewhere else; closing, reopening and removing a quote change what every handler
may do. The reminder sweep issues and revokes the same links as the office and its replies. A request
of sales is tied to the items of a quote that buyers go on editing, and is fulfilled by the quote's
award. An import rewrites the register that catalog routes link to. Jobs and routes meet through the
claims of a sweep. The only outside events are calls from browsers, portals and the Scheduler, and mails
that go out.

**What makes each part correct.** *Award*: at most one winner over two tables; the winner is still an
acceptable proposal; the approval threshold cannot be walked around; what is removed is not awarded.
*POs*: numbered 1..n, never a single one left by a deletion, items follow the neighbour. *Alerts*:
every due alert goes out, none recorded as delivered goes out again, nothing is called delivered that
was not. *Portal*: answers and their versions follow a rotation, a removed proposal stays removed.
*Reminders*: one mail per address and day, no link dies unannounced, nobody due is forgotten.
*Credit support*: no two active forwards of one thing, the link of an answer stays, buyers hear of the
latest answer. *Commercial requests*: lines bought as agreed, each status told once, no deadlock.
*Forecast register*: an import and the screens do not undo each other, a code is linked to the item
that has it. The hazards, each at its line, are in `PROJECT.json`.

A *worker* (a *sweep*, a *slot*) is one request or run in flight, and `req[w]` (`run[s]`) what its handler
remembers between two steps. A handler that reads before its transaction is two actions: the
first checks and remembers, the second re-checks exactly what the transaction re-checks. `Abort`,
`Crash` and `Dies` end a request at any step: a refusal, a timeout, a restart, or PostgreSQL breaking a
deadlock. No safety property depends on a request reaching its end.

## 2. `Award`: who wins a quote

One quote, its proposals, the forwards of proposals to credit partners, the comparisons, and the set
`winners` of candidates whose `isWinner` column is true. `CompareRead` / `CompareCommit`, `ManualRead` /
`ManualCommit` and so on are the two halves of handlers. Handlers whose last
statement re-checks all they depend on are one action (`PortalSubmit`, `DeleteResponse`). What an edit
does *after* its transaction is separate (`ClearUnavailable`, `FindStale`, `ClearStale`), so a restart
(`Crash`) can lose it.

The content of a proposal is abstracted to what the code branches on: complete and below or above the
approval threshold (`low`, `high`), an item unavailable, an item missing, an item the quote does not
have. The score is abstracted: a comparison may elect *any* ranked candidate, so the properties hold
for every weighting.

**`AwardRegister`** says what all of this promises, without tables and transactions: a register that is
empty or holds one candidate, entered only by a decision that judged that candidate before, and
otherwise only emptied. `ImplementsRegister` maps its `winner` to the flags readers see
(`VisibleWinners`: a removed proposal may keep a flag nobody sees) and `judged` to the
candidates of decisions in flight. The one place where the hidden flag could come back into view
without a decision is a proposal restored by a new answer, which clears its flag as it comes back
(`QuoteResponseController.ts:204`).

## 3. `PurchaseOrders`: POs and their items

Every operation checks the quote (`Check`), then opens a transaction whose first statement is
`SELECT ... FOR NO KEY UPDATE` on the quote row and reads the POs (`LockAndRead`), then writes and commits
(`CreateCommit`, `GroupNone`, ...). `lock` is that row lock. Items are added and removed without it, so they fall
between the two writes of a deletion (`DeleteMoves`, `DeleteCommit`), where `ON DELETE SET NULL` decides
what happens to an item added in between. Labels are left out: nothing refers to a PO by its label.

**`OrderList`** says what this amounts to: a list of POs that each operation changes at once, and for each item
a home in the list or none. `ImplementsList` maps the list to the rows in the order of their positions (`InOrder`) and
the homes to the column `purchaseOrderId`. A position is then a place in the list, so renumbering, reading under the lock and
the two halves of a deletion are all below what it sees; what is left to see is which PO the items of a deleted one
follow, that the items added during the deletion are left loose, and that grouping gives two POs and keeps no item loose.

## 4. `DocumentAlerts`: the daily sweep

`alert[k]` is the row of key `k` (document, cycle, milestone): no row, claimed by a run, or sent. Each
slot is a run and `run[s].pc` the statement it has reached; each statement of `runExpiryAlertSweep` is an
action, so runs overlap, calls fail (`ClaimingFails`, `MailFails`, `LogFails`, `MarkFails`) and the
instance dies (`Dies`) between any two. `mails`, `traced` and `failures` are history: mails
that went out, deliveries the database has recorded at some time, and failures so far. `MailFails` lets
the provider take the mail and still report a failure.

Time appears once: `Age` says fifteen minutes have passed since a run *ended*. The code measures the age
of the claim instead; that the two agree is the one timing assumption, and it holds because a run is cut off
by the request timeout of five minutes (`ALERT_ORPHAN_MINUTES` is documented so). A slot is used
again only when nothing refers to the run that had it (ids of runs are random and never reused).

## 5. `SupplierPortal`: links and answers

One supplier in one quote. `token` is its links over all contacts, `answer` the answers given through them,
`past` the earlier versions. The pointer between a link and its answer exists twice in the schema
(`SupplierPortalToken.responseId`, `SupplierPortalResponse.portalTokenId`), and the code follows one in some places and
the other in others; `CarrierAgrees` is about that. An answer is named by the submission that created it, its content
by the submission that wrote it.

A request that replaces links goes through three steps: it reads (`ReplyRead`, `RegenerateRead`, `DispatchRead`,
`RemoveStart`), its `UPDATE` takes its snapshot (`RevokeStart`: links issued later are not seen) and, when no other
transaction has locked one of them, locks the links it found (`RevokeLock`); the locks are held to the commit
(`ReplyCommit`, `RegenerateCommit`, `RemoveCommit`). A dispatch has no transaction: it revokes at once and issues in a
later step (`Issue`). A submission reads (`SubmitRead`) and writes with its last statement (`SubmitCommit`), whose `WHERE`
is `Accepts`; its own row locks are merged into that step, so an order in which PostgreSQL would break a deadlock
appears as an `Abort`. What a reply checks of the proposal is read together with the links it replaces. A removed quote
stays removed here. The steps of the reminder sweep on these links are in `Reminders`.

**`AnswerRecord`** is what a supplier and the buyers may rely on, one step for each thing done: an answer is on one link with
every version that was kept of it; it moves only to a new link, in the step that revokes the old one; it is given, and
revised, only through a valid link while the quote is open; and a revision keeps the version the answer had when that
revision began. It does *not* promise that every version is kept, since the code does not: of two revisions that began
with the same version, what the first to commit said is in no row afterwards (section 11). The record tells this case from
the others: `begun` holds what the revisions under way began with, and `Revise` keeps one of those and nothing else, so a
revision that overlaps with none keeps the version it replaces. `ImplementsRecord` maps the rows to it: `Links` puts
revocation before expiry, `Begun` is what the submissions under way have read, and `Earlier` finds the history of an answer
the way the code does, through the link the answer is on, so a version left behind or one that came along with somebody
else's answer is a step the record does not have.

## 6. `Reminders`: links the office did not issue

Only the hash of a link is stored, so a reminder issues a fresh link, mails it, and then revokes the ones it
replaces. `run[s]` goes through the stages of one address: `TakeAddress` claims it for the day, `ClaimPair` and
`Revalidate` claim its (quote, contact) pairs and read everything again, `Issue` makes the links, `GoAhead` or `Cancel`
decides, `Mail`, `Suppressed` or `MailFails` is what the mailer says, `Settle` records and revokes, `Undo` takes the
fresh links back. `claim`, `taken` and the dates of links are per day; two keys are enough because a run is cut off
after minutes, so none of the day before yesterday is alive. The rule that spares links less than ten hours
old is `OldEnough`, and `HoursPass` and `NewDay` age them; its point is a run over midnight.

`World(p)` is everyone else: the office takes and issues links (`OfficeRevokes`, `OfficeIssues`, `OfficeMails`), the
supplier answers, a deadline passes, a contact changes address. `held` says that the supplier was given the link, so
`SupplierKeepsALink` can ask whether a supplier is ever left with none; `owed` excuses those a buyer or
the deadline took back, and `crossed` the case that is finding 2.

**`ReminderLedger`** is the book one clerk would keep of the day: an address is taken on once, a pair is claimed once, one
letter goes to an address about pairs that are claimed and were in none, and the outcome of a claim is written once and is
true (`sent` only of what went out, `skipped` and `suppressed` only of what did not; `failed` may be either, as the code
records it when it does not know). Its variables are those of `Reminders` that others can see; runs, links and
stages are hidden, so `ImplementsLedger` says that no step of any sweep writes into another's page, also after midnight,
when the pages of two days are open at once.

## 7. `CommercialRequests`: from sales to buying and back

A request is pending, then tied to a quote, then fulfilled or rejected. `CreateLock` takes the rows of the
requests in the order of their ids, one by one; `LinkLockQuote` and `LinkLockRequest` take the quote's row first; the
status is checked under those locks. `Links` is the heart: each line gets an item of the quote for its catalog item, one
that was there or a new one. `LinkItem` chooses a catalog item for a line while its request is pending, in one conditional update that waits for
those locks.
`FulfillPrice` reads the winner's price and locks nothing of the quote, `FulfillCommit` relies on the status in its
`WHERE`. The mails go out after the commit (`Notify`) and say what was changed, not what the row says by then. Quotes
change meanwhile through routes that know nothing of requests (`AddRow`, `EditRow`, `RemoveRow`, `Decide`, ...).

**`RequestBook`** says what is left when locks, transactions and workers are taken away: a book in which requests are linked together,
all at once, to a quote that is open (or opened for them) and only when every line is for something; fulfilled from quoting and
rejected from pending or quoting, for good; and a list `unheard` of changes that are still to be told, each told at most once or
lost. `ImplementsBook` maps `unheard` to what the workers that are past their commit still have to mail, and the stage of a
quote to its status and its soft deletion. That a quote is still open when a link commits is what its row lock is for: the mutant
without it breaks only this property.

## 8. `CreditSupport`: the partner's portal

The forwards of one quote. Forwarding, resending and answering lock the quote's row before they read what they
depend on (`ForwardRead`, `ResendRead`, `SubmitLock`) and hold it to the commit; `Revoke`, `RemovePartner` and the clock
do not wait for it, so they come in between. `link[f]` counts the links a forward has had: a resend replaces it, and
a forward whose first mail fails is revoked (`Undo`), so that it does not block the next one. An answer is checked before the lock (`SubmitRead`), under it (`SubmitLock`) and by the `WHERE` of
its update (`SubmitCommit`). The notice to buyers reads the version after the commit (`View`), when
others may have answered.

**`CreditDialogue`** is what buyers, partners and the quote agree on: an offer is forwarded once while it is live, a new link
is the next one and comes before the first answer, an answer comes only through the valid link that was sent and while the
quote is open, what is revoked stays so, and buyers hear only of answers that are there. `ImplementsDialogue` maps the rows to
it: `Status` puts revocation before the deadline (a resend replaces the link of a forward that was revoked meanwhile, and does
not bring it back), `Quote` puts the removal before the status, the mails and the latest versions are as they are.

## 9. `ForecastRegister`: imports against screens

All that write products or codes hold the advisory lock `forecast:import` for the whole transaction. An import reads
(`ImportPlan`, `ImportRead`) and writes much later (`ImportCommit`), so it is three steps under one lock; the others are short
and are one action that needs the lock to be free. Three things go around the lock and are what the properties are about: a catalog
route decides from the row it read *before* the lock (`ChangeRead`, then `UpdatePlain`, `UpdateLinked` or `LinkItem`); a
route that leaves the code of an item alone does not take it; the items an import links codes to are those it
found at its start, and an item may be removed meanwhile. `overtaken` is history: items a request wrote to that had changed since it read
them. `Sheets` are the workbooks: which products they list and whose each code is.

## 10. The runs

| Run | Instance | What it shows |
|---|---|---|
| `award_race` | 2 proposals, 1 forward, 2 workers, 1 comparison, 1 restart | `AtMostOneWinner`, `RemovedNeverAwarded` and the refinement `ImplementsRegister` under every overlap of two requests. Two flags need two tables and two requests, so two workers and one candidate of each kind (and one to spare) reach the interesting cases; the content of the proposals plays no part there, so `Offers` is `low` |
| `award_serial` | 1 worker, offers `high`, `unavailable`, 2 comparisons, 1 restart | sequences of requests: `WinnerStillStands`, `LatestComparisonAgrees`, `AboveThresholdNeedsManager`. A restart after the commit of an edit may leave the flag on an offer made for what the proposal said before (`WinnerStillStands` says so, and that nothing else is lost). An offer with an item missing is one more that can be chosen and not ranked, like one that arrives after the comparison: the proofs cover it. About 1.2 million states |
| `purchase_orders` | 2 items, 3 PO ids, 2 workers | numbering, dissolution, grouping, fate of the items, and the refinement `ImplementsList`. Three POs are the fewest for which a deletion has a neighbour on both sides and two overlapping deletions meet at a single PO |
| `alerts` | 1 document, 2 runs, 1 milestone, 1 renewal, 1 failure, under `FairSpec` | the safety properties and `DueEventuallyMailed`. Two runs are one that works and one that is dead or in its way; a renewal makes a second key for the same document |
| `portal` | 1 contact, 2 workers, up to 3 links, 3 submissions and 1 expiry, 5 of these together (`MaxEvents`) | `CarrierAgrees`, `HistoryFollows`, `RemovedStaysRemoved` and the refinement `ImplementsRecord`. Two overlapping replies need a link each and the one they replace, and a history needs a second submission; two revisions that overlap need a link and three submissions. Other contacts add links that a revocation passes over: the proofs cover them |
| `portal_reply` | as `portal` | **violation** `AnswerFollowsTheReply` (finding 1) |
| `reminders` | 1 pair, 2 addresses, 2 sweeps, 2 calls a day, 1 failure, a contact who moves | `OneLetterADay`, `ClaimsTellTheTruth`, `SupplierKeepsALink` and the refinement `ImplementsLedger`. Two sweeps meet at an address, or at a pair whose contact changed address between them, also over midnight |
| `reminders_live` | 1 pair, 2 addresses of which the mailer refuses one, 1 sweep, 1 failure, under `FairSpec` | `KeepsReminding`: claims left behind by a dead or failed sweep do not silence the days after |
| `reminders_links` | 1 pair, 1 address, 1 sweep | **violation** `LinkHolds` (finding 2) |
| `commercial` | 2 requests of a line each, one of them not in the catalog yet, 2 catalog items, 1 quote with 2 items, 2 workers, 1 edit | `LinkedAsAgreed`, `MailsTellTheTruth`, `NoCircle` and the refinement `ImplementsBook`. Two requests are what two transactions can lock in opposite orders |
| `credit` | 2 forwards of one offer, 2 workers, 2 links and 2 answers each | `AuditComplete`, `OneActiveUnlessRevived`, `LatestAnswerTold`, `AnsweredKeepsItsLink`, `RevokedTakesNothing` and the refinement `ImplementsDialogue`. About 1.1 million states |
| `forecast` | 2 products, 2 codes, 1 item, 1 label, 2 workers, 1 import that rewrites the register | `OneFortnight`, `LinkedAsNamed`, `PackagingKept`, `ImportSettles`, `SavedIsRegistered`. Imports of a fortnight alone are not bounded. Both codes of a product fit (`MaxCodes` is 2), so the limit of codes is never the reason for a refusal here; no property is about it |

Type invariants are proved and not listed among the invariants of the runs (section 12).

Deadlock is checked except in `award_race`, `purchase_orders`, `portal` and `portal_reply`, which stop when a bound is used
up (comparisons, PO ids, links) or the quote is closed or removed. Symmetry is used where it is listed in the cfg and never
in a run with a liveness property.

`WinnerStillStands`, `LatestComparisonAgrees` and `AboveThresholdNeedsManager` speak of requests handled one
after the other. They do not hold when requests overlap, because the transactions re-check
less than the handlers read; nothing in the repository promises more, so these are stated for the
sequential system.

**Fairness.** In `alerts`: `WF(\E s : Start(s))`, for Cloud Scheduler calls every day and retries an
answer of 503; `WF(Advance(s))`, for an instance that is not stopped runs on; `WF(Age(s))`, for time passes. In
`reminders_live`: the same for `Start` and `Advance`, and `WF(NewDay)`. Failures are not part of
`Advance` and are finitely many (`MaxFailures`), for with a database that fails every day nothing
can be promised. No fairness is assumed of documents, recipients, buyers and suppliers: an alert that stops being due
or has nobody to receive it is excused by the property itself, and so is a pair that does not stay
remindable. All other runs are about safety and assume none.

## 11. Findings

With a run each:

1. **A reply can leave the answer behind** (`portal_reply`). A reply has read the link it is to replace, which carries no
   answer; the supplier's first submission through that link commits before the reply revokes it. The reply clears the
   pointer of the old link and moves nothing: the link mailed with the reply opens empty, and what the supplier sends
   through it is a second answer. `AnswerFollowsTheReply` is about the step in which this reply issues its link, and about
   the answer that was given through the link it had read.
2. **A reminder can take the link a buyer has just sent** (`reminders_links`). A sweep issues its link, a dispatch revokes
   it, issues its own and mails it; then the sweep mails its dead link and revokes every other link of the pair. The
   supplier is left with two mails and no link that works.

Met while modelling and contained in the modules; that they do not happen is stated by no property that is checked:

- Two revisions through one link that overlap read the same version; the first to commit is overwritten and the history
  keeps the older version twice (`SupplierPortalResponseService.ts:155`, `SubmitRead` / `SubmitCommit`), although the manual
  says that each revision becomes a new version of the history (`src/programa/web/src/pages/Manual/dados.ts:263`).
  `ImplementsRecord` bounds the loss: it takes two revisions of one answer that overlap, and the version they began with
  is kept.
- A manual choice of a partner's offer overtakes a revocation that commits between its check and its transaction
  (`QuoteResponseController.ts:2210`, `ManualRead` / `ManualCommit`).
- The removal of a quote leaves a proposal that arrives after the ids were read (`QuoteRequestController.ts:535`).
- The POs of a quote that is closed between the check and the lock can still change.
- If the database fails for both records of a delivered alert, the next sweep frees its claims and mails again
  (`SupplierDocumentAlertService.ts:276`); so does a mail the provider took and reported as failed.
- A request can be fulfilled by a winner that a reopening has just taken away (`CommercialRequestWorkflowService.ts:599`).
- A forward under way when its partner is removed survives the removal (`CreditPartnerController.ts:299`).
- A resend of an expired forward does not ask for another active one, so two may become active
  (`CreditSupportService.ts:963`); `OneActiveUnlessRevived` excepts these.
- Two editions of a catalog item that overlap may release and link by what the item was; the code is then linked to an item
  that has another, or an active item has its code unregistered (`CatalogItemController.ts:196`). `LinkedAsNamed` and
  `SavedIsRegistered` except the items in `overtaken`.

## 12. Proofs

Each `_proof` module proves its theorems for *every* value of the constants, assuming only the `ASSUME`s of
the module it extends. Each goes by an inductive invariant, with one lemma per action or group of actions.

- **`Award_proof`**: `TypeCorrect`, `OneWinner`, `NoAwardToRemoved`, `RefinesRegister`, `WinnersStand`,
  `ComparisonsAgree`, `HighNeedsManager`. `TypeOK` alone is not inductive: the
  removal of a quote marks the ids it remembered, and if one of them had no row the step would leave the type of
  the rows. `RemovalFindsRows` says remembered ids have rows. The heart of the argument: every decision
  clears all visible flags in the transaction that sets its own, and no other step sets a flag
  (`DecisionsSetOneWinner`, `OthersFlagNothing`); a restored proposal is the one step that could bring an old flag
  back into view, and it clears its own. The refinement maps each step of each handler to a step of the register or to a
  stutter. The last three theorems state the sequential properties of `award_serial` and assume `OneAtATime`: one worker,
  as in that run, but any number of proposals, partners, kinds of offers, comparisons and restarts. Their invariant says that
  what a decision remembers is still so, and that an edit which leaves a flag on the offer of a partner still has that offer on
  its list (`LeftTo`), unless a restart has taken the list away (`Holds`).
- **`PurchaseOrders_proof`**: `TypeCorrect`, `PositionsStayContiguous`, `NoSingleAfterDeletion`, `GroupsAreTwo`,
  `ItemsStayBeside`, `HomesExist`, `RefinesList`. The strengthening:
  `LockedReadsStand` (what a transaction read under the lock is still the state, and only the holder of the lock is
  past it), `MovesAreDeletions` (only a deletion of a PO that exists has moved items) and `FreshIds` (ids not given out
  have no row). The lemmas count: `GapClosed` (renumbering after a deletion), `AppendNumbered`, `ReorderNumbered`,
  `TargetIsNeighbour`. `GroupsAreTwo` and `ItemsStayBeside` are about single steps: what a locked request read is what is there, so a
  grouping that saw no second PO leaves two, and the PO a deletion chose for the items is still the neighbour (`OthersRemember`:
  nothing a request does disturbs what another remembers). `RefinesList` rests on one fact about numbering: rows numbered
  1..n by `pos` are a list (`ListIs`: a sequence with the right PO at every place is that list), so each commit has only to say
  which PO is at which place afterwards. `HomesExist` (no item belongs to a PO that is gone, which the foreign key promises) needs
  to know that a deletion that has moved the items leaves none behind but late ones (`MovedStand`).
- **`DocumentAlerts_proof`**: `TypeCorrect`, `SentIsMailed`, `ClaimsAreKept`, `NoRepeatedMail`, `NothingForgotten`. The
  strengthening: `Owns` (a live run owns exactly the rows it remembers), `OnlyDeadSettled` (only claims of
  ended runs are old or being settled), `RecordedMailed`, `TraceKept` (a recorded delivery stays recorded, in the row
  or in the `MailLog` of the run that still has the claim), `Accounted` (a run that met nothing in flight has accounted
  for all it found due) and `Undecided`. `Owns` and `OnlyDeadSettled` together are why settling orphans
  cannot take a row from a live run.
- **`SupplierPortal_proof`**: `TypeCorrect`, `CarriersAgree`, `HistoryIsKeptTogether`, `RemovalIsFinal`, `NoBorrowedWords`, `KeepsTheRecord`. Nothing in a reply checks that
  the answer it read is still where it was; that it is follows from the unique `responseId`, by an argument about *pairs* of
  requests. `CarriedOrMoved`: the answer a reply has read is still on its previous link, or a later link carries it (and
  then the unique index aborts the commit). What could break this is a second reply that empties that later link
  without moving the answer; `SameLink` says that such a reply replaces the same link as the first. The rest is
  `OneAnswerPerLink`, `RevisesItsLink` (a revision still finds its answer on its link unless that is revoked) and
  `RemovalFinds` (a removal about to commit has found every link of its snapshot). `NoBorrowedWords`: no
  word is said by two answers (`OwnWords`), whether in the row, in its history or in a submission that has read it.
  `KeepsTheRecord`, the refinement, needs besides these rows that a removal under way is the only one and the proposal is
  still there (`RemovesAlone`); `BegunEnds` is its lemma about `Begun`: a revision that ends is one of those that began,
  and another that has read the same version keeps it in `Begun`.
- **`Reminders_proof`**: `TypeCorrect`, `OneLetter`, `TruthfulClaims`, `SuppliersKeepTheirLinks`, `KeepsTheLedger`. `Owns` (a run that is past its claims has the rows of
  the pairs it calls its own and the address it works on), `Apart` (two runs of one day have different addresses and different
  pairs) and `Claimed` give that nobody else can mail to an address in hand; `Tells` relates each stage to
  what has been mailed so far. The claims of yesterday's runs stay theirs over `NewDay`, which recycles only
  the day nobody works on. For the links, `Kept` has one conjunct per carrier of the risk: `HasItsLink` (between the
  cancellation of the old links and the mail, the fresh one is with the sweep that issued it), `OfficeHasIts` (the same for an
  issue of the office) and `HasOne` (else the supplier was mailed one that is still good). Two sweeps could undo each other's
  only over midnight, as claims keep those of one day apart; `Young` and `Overtaken` say that a pair whose
  letter is still in hand has no link old enough for the reminder of the next day. `KeepsTheLedger`, the refinement, needs
  that what a run has still to settle is among the pairs it calls its own and still open (`Owns`), so that no outcome is
  written over another.
- **`CommercialRequests_proof`**: `TypeCorrect`, `Linked`, `TruthfulMails`, `NoDeadlock`, `KeepsTheBook`. `Fresh`: what a linking transaction has read
  of its lines is still so, as `LinkItem` waits for its locks, and the quote items it found are still for the same
  thing, or edited, or gone (and then the foreign key refuses). `Untold`: what a worker is about to tell is true and was not told.
  `Upwards` says locks are taken in the order of the ids; `NoDeadlock` then takes, of the workers of a group that wait for request locks,
  the one with the greatest next lock: whoever holds it would wait for a greater one still. `KeepsTheBook`, the refinement, needs two
  more facts about workers, `Engaged` (the lines a commit is about were seen with an item; who fulfils does so for one request) and
  `Welcome` (a quote that is held is open: closing, reopening and removing wait for its lock), and that no quote is removed
  before it is used (`UnusedKept`). Nobody else has a change to tell that a worker has (`Apart`), so each mail takes one entry off
  the list.
- **`CreditSupport_proof`**: `TypeCorrect`, `AuditIsComplete`, `ForwardsDoNotDouble`, `LatestAnswerIsTold`, `AnsweredLinkStays`,
  `RevokedIsClosed`, `KeepsTheDialogue`. `Remembers(w)`: inside a transaction, what was read is still so. `ToldOrTelling`: the latest answer was told,
  its mail was lost, or some request still has to tell it; that is inductive where `LatestAnswerTold`, which only
  speaks of quiet states, is not. `KeepsTheDialogue`, the refinement, needs what a request relies on besides (`Relies`): a
  transaction is about a quote that takes answers, since whoever closes it waits for the lock; a new link is one more than
  the last; and who submits with a link that is still valid got it by mail, since every replacement makes it a different one.
- **`ForecastRegister_proof`**: `TypeCorrect`, `LabelsAreUnique`, `LinksAreNamed`, `PackagingIsKept`, `ImportsSettle`,
  `SavedAreRegistered`. `Memory(w)`: what an import has read of products, labels and codes is still so when it writes, and the
  items it means to link still have their codes or were overtaken. `ActiveExist` says only what exists is
  active. `PackagingIsKept` and `ImportsSettle` follow because what an import remembers *is* the register;
  `SavedAreRegistered` because an edition that saw the item as it is decides from what it writes.

**Only model-checked**: liveness (`DueEventuallyMailed`, `KeepsReminding`), out of the prover's reach. Of overlapping requests the
three sequential properties of `award_serial` say nothing.

## 13. Not modelled

- The web client and the layout of spreadsheets, mails and reports are more than half of the code; they keep no
  state that two requests share, so there is nothing in them for a state machine to be about.
- The forecast engine: real-valued statistics over spreadsheets, pure functions that golden tests cover. Of the forecast's
  data: sales history and its sources, the flag of the main packaging, equivalence groups, purchase decisions, and what a
  fortnight freezes of the register.
- Record keeping with one transaction per route (suppliers, contacts, users, templates, families, exchange rates), reports, help,
  attachments, deployment: no state shared between steps.
- Authentication: a guard's role is a Boolean where a property needs it.
- The mail of a PO: one mail and one update of a date that is shown and decides nothing.
- PostgreSQL itself: a transaction is atomic at its commit and waits for row locks. Deadlocks are broken by
  aborting one transaction, which the modules show as a request without effect; only `CommercialRequests` states
  that there are none.

## 14. What is left

1. Equivalence groups and purchase decisions of the forecast, over the codes of `ForecastRegister`.
2. `SupplierPortal` and `Reminders` in one composition: `Reminders` now has the office as an environment of its own.
