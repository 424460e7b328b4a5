-------------------------------- MODULE Award --------------------------------
(***************************************************************************)
(* The award of one quote request: its proposals (QuoteResponse), the      *)
(* offers of credit partners on those proposals (CreditSupportRequest),    *)
(* the comparisons that were run (QuoteComparison) and the isWinner flags. *)
(*                                                                         *)
(* A worker is one HTTP request in flight.  A handler that reads outside   *)
(* its transaction is two steps: a read step that checks and remembers     *)
(* what it saw, and a commit step that re-checks only what the WHERE       *)
(* clauses of the transaction re-check.  A handler that does everything    *)
(* inside one transaction is one step.  A transaction commits atomically:  *)
(* the first statement of every award locks all live proposals.            *)
(***************************************************************************)
EXTENDS Naturals, Sequences, FiniteSets

CONSTANTS
    Responses,       \* proposals, one per supplier that may answer
    Credits,         \* forwards to credit partners, one per partner
    Workers,         \* requests the server handles at the same time
    Offers,          \* contents a proposal may have, a subset of AllOffers
    None,            \* no candidate, or no items sent
    MaxComparisons,  \* bound: comparisons of the quote
    MaxCrashes       \* bound: handlers cut short by a restart

\* What classifyForComparison and requiresAwardApproval say of a proposal:
\* complete and below / above the approval threshold, with an unavailable item,
\* with a requested item missing, with an item the quote does not have.
AllOffers == {"low", "high", "unavailable", "missing", "extra"}

ASSUME SetsAssumption ==
    /\ Offers \subseteq AllOffers
    /\ Responses \cap Credits = {}
    /\ None \notin Responses \cup Credits \cup AllOffers

ASSUME BoundsAssumption == MaxComparisons \in Nat /\ MaxCrashes \in Nat

\* A winner is a proposal or the offer of a partner: never both at once.
Candidates == Responses \cup Credits
Prices == {"low", "high"}
Ranked == {"low", "high"}

VARIABLES
    quote,        \* [status, deleted] of the QuoteRequest
    resp,         \* the QuoteResponse rows
    credit,       \* the CreditSupportRequest rows
    winners,      \* candidates whose isWinner column is true
    comparisons,  \* the QuoteComparison rows, oldest first
    req,          \* what each worker remembers of the request it handles
    crashes       \* restarts so far

vars == <<quote, resp, credit, winners, comparisons, req, crashes>>

NoRow == [state |-> "none"]
Idle == [op |-> "idle"]

ResponseRows == {NoRow} \cup [state: {"live", "deleted"}, offer: Offers]
CreditRows ==
    {NoRow} \cup [state: {"sent", "responded", "revoked"}, origin: Responses,
                  snap: Offers, price: Prices]
Comparisons ==
    [winner: Candidates, rows: SUBSET Candidates, flagged: Candidates \cup {None},
     approval: {"pending", "approved", "not_required"}]
Requests ==
    {Idle, [op |-> "reopen"]}
    \cup [op: {"compare"}, rows: SUBSET Candidates, winner: Candidates, pending: BOOLEAN]
    \cup [op: {"approve"}, n: Nat, winner: Candidates]
    \cup [op: {"manual"}, n: Nat, winner: Candidates, exceeds: BOOLEAN, manager: BOOLEAN]
    \cup [op: {"create"}, r: Responses, offer: Offers, restore: BOOLEAN]
    \cup [op: {"update"}, r: Responses, offer: Offers \cup {None}]
    \cup [op: {"clearUnavailable", "findStale"}, r: Responses]
    \cup [op: {"clearStale"}, ids: SUBSET Credits]
    \cup [op: {"deleteQuote"}, ids: SUBSET Responses]

Init ==
    /\ quote = [status |-> "open", deleted |-> FALSE]
    /\ resp = [r \in Responses |-> NoRow]
    /\ credit = [c \in Credits |-> NoRow]
    /\ winners = {}
    /\ comparisons = <<>>
    /\ req = [w \in Workers |-> Idle]
    /\ crashes = 0

-----------------------------------------------------------------------------
(* What the handlers read.                                                 *)

Live == {r \in Responses : resp[r].state = "live"}
CreditsOf(r) == {c \in Credits : credit[c].state # "none" /\ credit[c].origin = r}

\* computeIsStale: the proposal changed since it was forwarded, or is gone.
Stale(c) ==
    \/ credit[c].origin \notin Live
    \/ resp[credit[c].origin].offer # credit[c].snap

Answered == {c \in Credits : credit[c].state = "responded"}
FreshAnswers == {c \in Answered : ~Stale(c)}

\* The candidates that enter the ranking, and those that are only listed.
RankedCandidates ==
    {r \in Live : resp[r].offer \in Ranked}
        \cup {c \in FreshAnswers : credit[c].snap \in Ranked}
ListedCandidates == Live \cup Answered

\* The basket a candidate is judged by, and whether its price needs an approval.
BasketOf(x) == IF x \in Responses THEN resp[x].offer ELSE credit[x].snap
AboveThreshold(x) ==
    IF x \in Responses THEN resp[x].offer = "high" ELSE credit[x].price = "high"

\* A credit answer may be awarded while it is answered and not stale.
CreditAwardable(c) == c \in FreshAnswers

Begin(w, request) == req[w] = Idle /\ req' = [req EXCEPT ![w] = request]
Continue(w, request) == req' = [req EXCEPT ![w] = request]
Finish(w) == req' = [req EXCEPT ![w] = Idle]

\* updateMany over the live proposals and clearCreditWinners: what a decision
\* resets before it sets its own winner.
ClearedDirectOnly == winners \ Live  \* mutant: the partners' flags are forgotten
Cleared == winners \ (Live \cup Credits)

\* A proposal that is answered again or removed takes the flag from itself and
\* from its credit alternatives.
UnflaggedDirectOnly(r) == winners \ {r}  \* mutant: the alternatives keep it
Unflagged(r) == winners \ ({r} \cup CreditsOf(r))

\* The result row of a comparison that carries its isWinner flag.
FlaggedRow(x, rows) == IF x \in rows THEN x ELSE None

-----------------------------------------------------------------------------
(* Comparison.                                                             *)

\* Reads the candidates and ranks them.  Any ranked candidate may come first:
\* the scores depend on prices, terms and weights this module does not keep.
CompareRead(w) ==
    /\ Len(comparisons) < MaxComparisons
    /\ ~quote.deleted
    /\ Live # {}
    /\ Cardinality(ListedCandidates) >= 2
    /\ Cardinality(RankedCandidates) >= 2
    /\ \E x \in RankedCandidates :
          Begin(w, [op |-> "compare", rows |-> RankedCandidates, winner |-> x,
                    pending |-> AboveThreshold(x)])
    /\ UNCHANGED <<quote, resp, credit, winners, comparisons, crashes>>

\* The winner is set by id alone: nothing is re-read.
CompareCommit(w) ==
    /\ req[w].op = "compare"
    /\ Len(comparisons) < MaxComparisons
    /\ LET q == req[w]
           new == IF q.pending THEN {} ELSE {q.winner}
       IN  /\ winners' = Cleared \cup new
           /\ comparisons' = Append(comparisons,
                 [winner |-> q.winner, rows |-> q.rows,
                  flagged |-> FlaggedRow(q.winner, IF q.pending THEN {} ELSE q.rows),
                  approval |-> IF q.pending THEN "pending" ELSE "not_required"])
    /\ Finish(w)
    /\ UNCHANGED <<quote, resp, credit, crashes>>

\* approveAward, before its transaction: the comparison is pending and the
\* latest one, and its winner is still acceptable.  A removed proposal is not
\* judged here: the transaction refuses it.
ApproveRead(w) ==
    /\ comparisons # <<>>
    /\ LET n == Len(comparisons)
           x == comparisons[n].winner
       IN  /\ comparisons[n].approval = "pending"
           /\ \/ x \in Credits /\ CreditAwardable(x)
              \/ x \in Responses
           /\ \/ x \in Responses \ Live
              \/ ~quote.deleted /\ BasketOf(x) \notin {"unavailable", "extra"}
           /\ Begin(w, [op |-> "approve", n |-> n, winner |-> x])
    /\ UNCHANGED <<quote, resp, credit, winners, comparisons, crashes>>

\* The WHERE of the direct winner: still live, quote not removed.
ApproveMatches(x) == x \in Credits \/ (x \in Live /\ ~quote.deleted)

ApproveCommit(w) ==
    /\ req[w].op = "approve"
    /\ LET q == req[w]
       IN  IF ApproveMatches(q.winner)
           THEN /\ winners' = Cleared \cup {q.winner}
                /\ comparisons' = [comparisons EXCEPT
                      ![q.n].approval = "approved",
                      ![q.n].flagged = FlaggedRow(q.winner, comparisons[q.n].rows)]
           ELSE UNCHANGED <<winners, comparisons>>
    /\ Finish(w)
    /\ UNCHANGED <<quote, resp, credit, crashes>>

\* Above the threshold only a manager chooses.
AnyoneMayChoose(x, manager) == TRUE  \* mutant: the role is not asked
MayChoose(x, manager) == AboveThreshold(x) => manager

\* setManualWinner, before its transaction.
ManualRead(w) ==
    /\ ~quote.deleted
    /\ \E x \in Live \cup {c \in Credits : CreditAwardable(c)}, manager \in BOOLEAN :
          /\ BasketOf(x) \notin {"unavailable", "extra"}
          /\ MayChoose(x, manager)
          /\ Begin(w, [op |-> "manual", n |-> Len(comparisons), winner |-> x,
                       exceeds |-> AboveThreshold(x), manager |-> manager])
    /\ UNCHANGED <<quote, resp, credit, winners, comparisons, crashes>>

\* A direct winner must still be live; the offer of a partner is set by id.
ManualById(x) == TRUE  \* mutant: deletedAt is not in the WHERE
ManualMatches(x) == x \in Credits \cup Live

\* The latest comparison takes the choice over.
ChosenRowsOnly(q) ==  \* mutant: the comparison keeps its old winner
    IF q.n = 0 THEN comparisons
    ELSE [comparisons EXCEPT ![q.n].flagged = FlaggedRow(q.winner, comparisons[q.n].rows)]
Chosen(q) ==
    IF q.n = 0 THEN comparisons
    ELSE [comparisons EXCEPT
            ![q.n].winner = q.winner,
            ![q.n].flagged = FlaggedRow(q.winner, comparisons[q.n].rows),
            ![q.n].approval = IF q.exceeds THEN "approved" ELSE "not_required"]

ManualCommit(w) ==
    /\ req[w].op = "manual"
    /\ LET q == req[w]
       IN  IF ManualMatches(q.winner)
           THEN winners' = Cleared \cup {q.winner} /\ comparisons' = Chosen(q)
           ELSE UNCHANGED <<winners, comparisons>>
    /\ Finish(w)
    /\ UNCHANGED <<quote, resp, credit, crashes>>

-----------------------------------------------------------------------------
(* Proposals.                                                              *)

\* A supplier answers or answers again through the portal: everything the
\* submission depends on is re-checked by its last statement.
PortalSubmit(w, r, offer) ==
    /\ req[w] = Idle
    /\ quote = [status |-> "open", deleted |-> FALSE]
    /\ offer # "extra"
    /\ resp' = [resp EXCEPT ![r] = [state |-> "live", offer |-> offer]]
    /\ winners' = Unflagged(r)
    /\ UNCHANGED <<quote, credit, comparisons, req, crashes>>

\* A buyer types a proposal in, or restores a removed one.
CreateRead(w, r, offer) ==
    /\ quote.status = "open"
    /\ r \notin Live
    /\ Begin(w, [op |-> "create", r |-> r, offer |-> offer,
                 restore |-> resp[r].state = "deleted"])
    /\ UNCHANGED <<quote, resp, credit, winners, comparisons, crashes>>

\* The restore asks for a removed row, the insert for no row (unique key).
CreateMatches(q) == resp[q.r].state = IF q.restore THEN "deleted" ELSE "none"

\* A removed proposal may still be flagged, by a comparison that came too late.
RestoredAsWas(q) == winners  \* mutant: the restore keeps isWinner
Restored(q) == winners \ {q.r}

CreateCommit(w) ==
    /\ req[w].op = "create"
    /\ LET q == req[w]
       IN  IF CreateMatches(q)
           THEN /\ resp' = [resp EXCEPT ![q.r] = [state |-> "live", offer |-> q.offer]]
                /\ winners' = Restored(q)
           ELSE UNCHANGED <<resp, winners>>
    /\ Finish(w)
    /\ UNCHANGED <<quote, credit, comparisons, crashes>>

\* A buyer edits a live proposal; an edit that sends no items (None) keeps them.
UpdateRead(w, r, offer) ==
    /\ quote.status = "open"
    /\ r \in Live
    /\ Begin(w, [op |-> "update", r |-> r, offer |-> offer])
    /\ UNCHANGED <<quote, resp, credit, winners, comparisons, crashes>>

\* The row after an edit.
Edited(r, offer) == IF offer = None THEN resp[r] ELSE [resp[r] EXCEPT !.offer = offer]

\* An unavailable item takes the flag away; what follows the transaction
\* (ClearUnavailable, FindStale, ClearStale) is not part of it.
UpdateCommit(w) ==
    /\ req[w].op = "update"
    /\ LET q == req[w]
           lost == q.offer = "unavailable"
       IN  IF q.r \in Live
           THEN /\ resp' = [resp EXCEPT ![q.r] = Edited(q.r, q.offer)]
                /\ winners' = IF lost THEN winners \ {q.r} ELSE winners
                /\ Continue(w, [op |-> IF lost THEN "clearUnavailable" ELSE "findStale",
                                r |-> q.r])
           ELSE Finish(w) /\ UNCHANGED <<resp, winners>>
    /\ UNCHANGED <<quote, credit, comparisons, crashes>>

ClearUnavailable(w) ==
    /\ req[w].op = "clearUnavailable"
    /\ winners' = winners \ CreditsOf(req[w].r)
    /\ Continue(w, [op |-> "findStale", r |-> req[w].r])
    /\ UNCHANGED <<quote, resp, credit, comparisons, crashes>>

FindStale(w) ==
    /\ req[w].op = "findStale"
    /\ LET ids == {c \in CreditsOf(req[w].r) \cap winners : Stale(c)}
       IN  IF ids = {} THEN Finish(w)
           ELSE Continue(w, [op |-> "clearStale", ids |-> ids])
    /\ UNCHANGED <<quote, resp, credit, winners, comparisons, crashes>>

ClearStale(w) ==
    /\ req[w].op = "clearStale"
    /\ winners' = winners \ req[w].ids
    /\ Finish(w)
    /\ UNCHANGED <<quote, resp, credit, comparisons, crashes>>

\* A buyer removes a proposal: its WHERE re-checks all that was read before.
DeleteResponse(w, r) ==
    /\ req[w] = Idle
    /\ r \in Live
    /\ quote = [status |-> "open", deleted |-> FALSE]
    /\ resp' = [resp EXCEPT ![r].state = "deleted"]
    /\ winners' = Unflagged(r)
    /\ UNCHANGED <<quote, credit, comparisons, req, crashes>>

-----------------------------------------------------------------------------
(* Credit support.                                                         *)

\* A proposal is forwarded to a partner; its offer is frozen in the forward.
Forward(w, c, r) ==
    /\ req[w] = Idle
    /\ credit[c] = NoRow
    /\ quote = [status |-> "open", deleted |-> FALSE]
    /\ r \in Live
    /\ credit' = [credit EXCEPT ![c] =
          [state |-> "sent", origin |-> r, snap |-> resp[r].offer, price |-> "low"]]
    /\ UNCHANGED <<quote, resp, winners, comparisons, req, crashes>>

\* The partner prices the forward, or prices it again.
PartnerSubmit(w, c, price) ==
    /\ req[w] = Idle
    /\ credit[c].state \in {"sent", "responded"}
    /\ quote = [status |-> "open", deleted |-> FALSE]
    /\ credit' = [credit EXCEPT ![c].state = "responded", ![c].price = price]
    /\ winners' = winners \ {c}
    /\ UNCHANGED <<quote, resp, comparisons, req, crashes>>

\* The forward is revoked, alone or because its partner is removed.
Revoke(w, c) ==
    /\ req[w] = Idle
    /\ credit[c].state \in {"sent", "responded"}
    /\ credit' = [credit EXCEPT ![c].state = "revoked"]
    /\ winners' = winners \ {c}
    /\ UNCHANGED <<quote, resp, comparisons, req, crashes>>

-----------------------------------------------------------------------------
(* The quote.                                                              *)

Close(w) ==
    /\ req[w] = Idle
    /\ quote.status = "open"
    /\ quote' = [quote EXCEPT !.status = "closed"]
    /\ UNCHANGED <<resp, credit, winners, comparisons, req, crashes>>

\* The status is read before the transaction and never again, and a removed
\* quote is found as well: the lookup does not filter deletedAt.
ReopenRead(w) ==
    /\ quote.status = "closed"
    /\ Begin(w, [op |-> "reopen"])
    /\ UNCHANGED <<quote, resp, credit, winners, comparisons, crashes>>

ReopenCommit(w) ==
    /\ req[w].op = "reopen"
    /\ winners' = {}
    /\ quote' = [quote EXCEPT !.status = "open"]
    /\ Finish(w)
    /\ UNCHANGED <<resp, credit, comparisons, crashes>>

\* Soft delete: the ids of the proposals are read before the transaction.
DeleteQuoteRead(w) ==
    /\ ~quote.deleted
    /\ Begin(w, [op |-> "deleteQuote", ids |-> {r \in Responses : resp[r] # NoRow}])
    /\ UNCHANGED <<quote, resp, credit, winners, comparisons, crashes>>

DeleteQuoteCommit(w) ==
    /\ req[w].op = "deleteQuote"
    /\ resp' = [r \in Responses |->
          IF r \in req[w].ids THEN [resp[r] EXCEPT !.state = "deleted"] ELSE resp[r]]
    /\ quote' = [status |-> "closed", deleted |-> TRUE]
    /\ Finish(w)
    /\ UNCHANGED <<credit, winners, comparisons, crashes>>

\* The server restarts: a request that did not commit is lost, and so is what
\* an edit had left to do after its commit.
Crash(w) ==
    /\ crashes < MaxCrashes
    /\ req[w] # Idle
    /\ Finish(w)
    /\ crashes' = crashes + 1
    /\ UNCHANGED <<quote, resp, credit, winners, comparisons>>

-----------------------------------------------------------------------------
Decide(w) ==
    \/ CompareRead(w) \/ CompareCommit(w)
    \/ ApproveRead(w) \/ ApproveCommit(w)
    \/ ManualRead(w) \/ ManualCommit(w)

Propose(w) ==
    \/ \E r \in Responses, offer \in Offers :
          PortalSubmit(w, r, offer) \/ CreateRead(w, r, offer)
    \/ \E r \in Responses, offer \in Offers \cup {None} : UpdateRead(w, r, offer)
    \/ CreateCommit(w) \/ UpdateCommit(w)
    \/ ClearUnavailable(w) \/ FindStale(w) \/ ClearStale(w)
    \/ \E r \in Responses : DeleteResponse(w, r)

Support(w) ==
    \E c \in Credits :
        \/ \E r \in Responses : Forward(w, c, r)
        \/ \E price \in Prices : PartnerSubmit(w, c, price)
        \/ Revoke(w, c)

Manage(w) ==
    \/ Close(w) \/ ReopenRead(w) \/ ReopenCommit(w)
    \/ DeleteQuoteRead(w) \/ DeleteQuoteCommit(w)
    \/ Crash(w)

Next == \E w \in Workers : Decide(w) \/ Propose(w) \/ Support(w) \/ Manage(w)

Spec == Init /\ [][Next]_vars

-----------------------------------------------------------------------------
(* Properties.                                                             *)

\* Every row, flag and remembered request has the shape the schema and the
\* handlers give it.
TypeOK ==
    /\ quote \in [status: {"open", "closed"}, deleted: BOOLEAN]
    /\ resp \in [Responses -> ResponseRows]
    /\ credit \in [Credits -> CreditRows]
    /\ winners \subseteq Candidates
    /\ comparisons \in Seq(Comparisons)
    /\ req \in [Workers -> Requests]
    /\ crashes \in Nat

\* "No maximo UMA entre QuoteResponse.isWinner e CreditSupportRequest.isWinner
\* fica true por cotacao": among the rows the readers look at (live proposals
\* and partner offers) two are never flagged, whatever requests overlap.
VisibleWinners == winners \cap (Live \cup Credits)
AtMostOneWinner == \A x, y \in VisibleWinners : x = y

\* The tables implement a register: a winner the readers see was judged by the
\* comparison, approval or choice that set it, and nothing else brings one
\* into view, not a restored proposal that was flagged while it was removed.
Judged == {req[w].winner : w \in {v \in Workers : req[v].op \in {"compare", "approve", "manual"}}}
Register == INSTANCE AwardRegister WITH winner <- VisibleWinners, judged <- Judged
ImplementsRegister == Register!Spec

\* An approval or a manual choice never flags a proposal that was removed
\* after the request read it ("uma proposta removida nao pode voltar a vencer
\* por uma aprovacao antiga"); only a comparison may.
RemovedNeverAwarded ==
    [][\A r \in Responses :
          (r \in winners' \ winners /\ resp'[r].state = "deleted")
             => \E w \in Workers : req[w].op = "compare" /\ req'[w] = Idle]_vars

Quiet == \A w \in Workers : req[w] = Idle

\* With requests handled one after the other, a flagged winner of a quote that
\* was not removed is a live proposal without unavailable items, or an answered,
\* unrevoked offer of a partner; and the proposal of that partner's offer did not
\* change, unless a restart kept an edit from clearing the flag after its commit.
WinnerStillStands ==
    (Quiet /\ ~quote.deleted) =>
        \A x \in winners :
            /\ BasketOf(x) # "unavailable"
            /\ x \in Responses => x \in Live
            /\ x \in Credits => x \in Answered /\ (crashes = 0 => ~Stale(x))

\* With requests handled one after the other, the latest comparison tells the
\* same story as the flags: it names the winner, is not pending, and its result
\* rows flag that winner (the reports read the rows).
LatestComparisonAgrees ==
    (Quiet /\ comparisons # <<>> /\ winners # {}) =>
        LET last == comparisons[Len(comparisons)]
        IN  /\ winners = {last.winner}
            /\ last.approval # "pending"
            /\ last.flagged = IF last.winner \in last.rows THEN last.winner ELSE None

\* With requests handled one after the other, a candidate above the threshold
\* becomes the winner only by an approval or by the choice of a manager.
AboveThresholdNeedsManager ==
    [][\A x \in winners' \ winners :
          AboveThreshold(x) =>
             \E w \in Workers :
                /\ req'[w] = Idle
                /\ \/ req[w].op = "approve"
                   \/ req[w].op = "manual" /\ req[w].manager]_vars
=============================================================================
