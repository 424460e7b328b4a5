----------------------------- MODULE Award_proof -----------------------------
(***************************************************************************)
(* Proofs about Award: type correctness, at most one winner per quote, and *)
(* no award to a removed proposal, for any number of proposals, partners   *)
(* and overlapping requests; and, of requests that run one after the       *)
(* other, what the code states of a single handler.                        *)
(***************************************************************************)
EXTENDS Award, SequenceTheorems, TLAPS

\* Rows are never taken out of the tables, so a removal that remembered an id
\* still finds its row: without this TypeOK is not inductive.
RemovalFindsRows ==
    \A w \in Workers : req[w].op = "deleteQuote" => \A r \in req[w].ids : resp[r] # NoRow

IInv == TypeOK /\ RemovalFindsRows /\ AtMostOneWinner

-----------------------------------------------------------------------------
\* What a worker remembers, by the request it handles.
LEMMA RequestFields ==
    ASSUME TypeOK, NEW w \in Workers
    PROVE  /\ req[w].op = "compare" =>
                /\ req[w].rows \in SUBSET Candidates
                /\ req[w].winner \in Candidates
                /\ req[w].pending \in BOOLEAN
           /\ req[w].op = "approve" => req[w].n \in Nat /\ req[w].winner \in Candidates
           /\ req[w].op = "manual" =>
                /\ req[w].n \in Nat
                /\ req[w].winner \in Candidates
                /\ req[w].exceeds \in BOOLEAN
           /\ req[w].op = "create" => req[w].r \in Responses /\ req[w].offer \in Offers
           /\ req[w].op = "update" =>
                req[w].r \in Responses /\ req[w].offer \in Offers \cup {None}
           /\ req[w].op \in {"clearUnavailable", "findStale"} => req[w].r \in Responses
           /\ req[w].op = "clearStale" => req[w].ids \in SUBSET Credits
           /\ req[w].op = "deleteQuote" => req[w].ids \in SUBSET Responses
BY DEF TypeOK, Requests, Idle

\* A live proposal is a row with an offer; so is a forward in any state.
LEMMA RowFields ==
    ASSUME TypeOK
    PROVE  /\ \A r \in Live : r \in Responses /\ resp[r].offer \in Offers
           /\ \A c \in Credits :
                 credit[c].state # "none" =>
                    /\ credit[c].origin \in Responses
                    /\ credit[c].snap \in Offers
                    /\ credit[c].price \in Prices
                    /\ credit[c].state \in {"sent", "responded", "revoked"}
           /\ Live \subseteq Responses
BY DEF TypeOK, Live, ResponseRows, CreditRows, NoRow

\* Replacing a comparison of the sequence keeps it a sequence of comparisons.
LEMMA ReplaceComparison ==
    ASSUME NEW s \in Seq(Comparisons), NEW n \in Nat, NEW c,
           n \in DOMAIN s => c \in Comparisons
    PROVE  [s EXCEPT ![n] = c] \in Seq(Comparisons)
<1>1. CASE n \in DOMAIN s
  BY <1>1, ExceptSeq, n \in 1..Len(s)
<1>2. CASE n \notin DOMAIN s
  <2>1. s = [i \in DOMAIN s |-> s[i]]
    OBVIOUS
  <2>2. [s EXCEPT ![n] = c] = s
    BY <1>2, <2>1
  <2> QED BY <2>2
<1> QED BY <1>1, <1>2

\* Continue and Finish put the record of another step in the worker's place.
LEMMA RequestReplaced ==
    ASSUME TypeOK, NEW w \in Workers, NEW q \in Requests, Continue(w, q)
    PROVE  req' \in [Workers -> Requests]
BY DEF TypeOK, Continue

LEMMA IdleIsARequest == Idle \in Requests
BY DEF Requests

\* The last comparison is one of the sequence.
LEMMA LastComparison ==
    ASSUME TypeOK, comparisons # <<>>
    PROVE  Len(comparisons) \in Nat /\ comparisons[Len(comparisons)] \in Comparisons
BY DEF TypeOK

-----------------------------------------------------------------------------
LEMMA InitIInv == Init => IInv
BY BoundsAssumption
   DEF Init, IInv, TypeOK, RemovalFindsRows, AtMostOneWinner, VisibleWinners,
       ResponseRows, CreditRows, NoRow, Requests, Idle

\* A read step remembers well-formed values and changes nothing else.
LEMMA ReadsKeepTypes ==
    ASSUME IInv, NEW w \in Workers,
           \/ CompareRead(w) \/ ApproveRead(w) \/ ManualRead(w)
           \/ \E r \in Responses, offer \in Offers : CreateRead(w, r, offer)
           \/ \E r \in Responses, offer \in Offers \cup {None} : UpdateRead(w, r, offer)
           \/ FindStale(w) \/ ReopenRead(w) \/ DeleteQuoteRead(w)
    PROVE  /\ UNCHANGED <<quote, resp, credit, winners, comparisons, crashes>>
           /\ \E q \in Requests :
                 /\ Continue(w, q)
                 /\ q.op = "deleteQuote" => \A r \in q.ids : resp[r] # NoRow
<1> USE DEF Begin, Continue, Finish
<1>1. TypeOK
  BY DEF IInv
<1>2. CASE CompareRead(w)
  <2>1. RankedCandidates \in SUBSET Candidates
    BY <1>1, RowFields DEF RankedCandidates, Candidates, FreshAnswers, Answered
  <2>2. PICK x \in RankedCandidates :
           Begin(w, [op |-> "compare", rows |-> RankedCandidates, winner |-> x,
                     pending |-> AboveThreshold(x)])
    BY <1>2 DEF CompareRead
  <2>3. AboveThreshold(x) \in BOOLEAN
    BY DEF AboveThreshold
  <2>4. [op |-> "compare", rows |-> RankedCandidates, winner |-> x,
         pending |-> AboveThreshold(x)] \in Requests
    BY <2>1, <2>3 DEF Requests
  <2> QED BY <1>2, <2>2, <2>4 DEF CompareRead
<1>3. CASE ApproveRead(w)
  <2> DEFINE n == Len(comparisons)
             x == comparisons[n].winner
  <2>1. n \in Nat /\ x \in Candidates
    BY <1>1, <1>3, LastComparison DEF ApproveRead, Comparisons
  <2>2. [op |-> "approve", n |-> n, winner |-> x] \in Requests
    BY <2>1 DEF Requests
  <2> QED BY <1>3, <2>2 DEF ApproveRead
<1>4. CASE ManualRead(w)
  <2>1. PICK x \in Live \cup {c \in Credits : CreditAwardable(c)}, manager \in BOOLEAN :
           Begin(w, [op |-> "manual", n |-> Len(comparisons), winner |-> x,
                     exceeds |-> AboveThreshold(x), manager |-> manager])
    BY <1>4 DEF ManualRead
  <2>2. x \in Candidates /\ Len(comparisons) \in Nat
    BY <1>1, RowFields DEF Candidates, TypeOK
  <2>3. AboveThreshold(x) \in BOOLEAN
    BY DEF AboveThreshold
  <2>4. [op |-> "manual", n |-> Len(comparisons), winner |-> x,
         exceeds |-> AboveThreshold(x), manager |-> manager] \in Requests
    BY <2>2, <2>3 DEF Requests
  <2> QED BY <1>4, <2>1, <2>4 DEF ManualRead
<1>5. CASE \E r \in Responses, offer \in Offers : CreateRead(w, r, offer)
  <2>1. PICK r \in Responses, offer \in Offers : CreateRead(w, r, offer)
    BY <1>5
  <2>2. (resp[r].state = "deleted") \in BOOLEAN
    OBVIOUS
  <2>3. [op |-> "create", r |-> r, offer |-> offer, restore |-> resp[r].state = "deleted"]
           \in Requests
    BY <2>2 DEF Requests
  <2> QED BY <2>1, <2>3 DEF CreateRead
<1>6. CASE \E r \in Responses, offer \in Offers \cup {None} : UpdateRead(w, r, offer)
  <2>1. PICK r \in Responses, offer \in Offers \cup {None} : UpdateRead(w, r, offer)
    BY <1>6
  <2>2. [op |-> "update", r |-> r, offer |-> offer] \in Requests
    BY DEF Requests
  <2> QED BY <2>1, <2>2 DEF UpdateRead
<1>7. CASE FindStale(w)
  <2> DEFINE ids == {c \in CreditsOf(req[w].r) \cap winners : Stale(c)}
  <2>1. ids \in SUBSET Credits
    BY DEF CreditsOf
  <2>2. Idle \in Requests /\ [op |-> "clearStale", ids |-> ids] \in Requests
    BY <2>1 DEF Requests
  <2> QED BY <1>7, <2>2 DEF FindStale, Idle
<1>8. CASE ReopenRead(w)
  <2>1. [op |-> "reopen"] \in Requests
    BY DEF Requests
  <2> QED BY <1>8, <2>1 DEF ReopenRead
<1>9. CASE DeleteQuoteRead(w)
  <2>1. [op |-> "deleteQuote", ids |-> {r \in Responses : resp[r] # NoRow}] \in Requests
    BY DEF Requests
  <2> QED BY <1>9, <2>1 DEF DeleteQuoteRead
<1> QED BY <1>2, <1>3, <1>4, <1>5, <1>6, <1>7, <1>8, <1>9

\* A step that takes no row away and starts no removal keeps RemovalFindsRows.
LEMMA RowsStay ==
    ASSUME IInv, NEW w \in Workers,
           req' = req \/ (\E q \in Requests : q.op # "deleteQuote" /\ Continue(w, q)),
           \A r \in Responses : resp[r] # NoRow => resp'[r] # NoRow
    PROVE  RemovalFindsRows'
<1>1. \A v \in Workers : req[v].op = "deleteQuote" => req[v].ids \in SUBSET Responses
  BY RequestFields DEF IInv
<1>2. \A v \in Workers : req'[v].op = "deleteQuote" => req'[v] = req[v]
  BY DEF IInv, TypeOK, Continue
<1> QED BY <1>1, <1>2 DEF IInv, RemovalFindsRows

LEMMA FinishIsContinue == ASSUME NEW w, Finish(w) PROVE Continue(w, Idle)
BY DEF Finish, Continue

\* Decisions: the comparison, the approval and the manual choice.
LEMMA DecisionsKeepTypes ==
    ASSUME IInv, NEW w \in Workers,
           CompareCommit(w) \/ ApproveCommit(w) \/ ManualCommit(w)
    PROVE  TypeOK' /\ RemovalFindsRows'
<1>1. TypeOK
  BY DEF IInv
<1>2. Finish(w) /\ UNCHANGED <<quote, resp, credit, crashes>>
  BY DEF CompareCommit, ApproveCommit, ManualCommit
<1>3. req' \in [Workers -> Requests] /\ RemovalFindsRows'
  BY <1>1, <1>2, FinishIsContinue, IdleIsARequest, RequestReplaced, RowsStay DEF Idle
<1>4. ASSUME NEW x, NEW rows \in SUBSET Candidates
      PROVE  FlaggedRow(x, rows) \in Candidates \cup {None}
  BY <1>4 DEF FlaggedRow
<1>5. Cleared \subseteq Candidates
  BY <1>1 DEF Cleared, TypeOK
<1>6. winners' \subseteq Candidates /\ comparisons' \in Seq(Comparisons)
  <2>1. CASE CompareCommit(w)
    <3> DEFINE q == req[w]
               c == [winner |-> q.winner, rows |-> q.rows,
                     flagged |-> FlaggedRow(q.winner, IF q.pending THEN {} ELSE q.rows),
                     approval |-> IF q.pending THEN "pending" ELSE "not_required"]
    <3>1. q.winner \in Candidates /\ q.rows \in SUBSET Candidates
      BY <1>1, <2>1, RequestFields DEF CompareCommit
    <3>2. FlaggedRow(q.winner, IF q.pending THEN {} ELSE q.rows) \in Candidates \cup {None}
      BY <1>4, <3>1
    <3>3. c \in Comparisons
      BY <3>1, <3>2 DEF Comparisons
    <3>4. comparisons' = Append(comparisons, c)
      BY <2>1 DEF CompareCommit
    <3> QED BY <1>1, <1>5, <2>1, <3>1, <3>3, <3>4 DEF CompareCommit, TypeOK
  <2>2. CASE ApproveCommit(w)
    <3> DEFINE q == req[w]
               s == comparisons
               c == [s[q.n] EXCEPT !.approval = "approved",
                                   !.flagged = FlaggedRow(q.winner, s[q.n].rows)]
    <3>1. q.winner \in Candidates /\ q.n \in Nat
      BY <1>1, <2>2, RequestFields DEF ApproveCommit
    <3>2. ASSUME q.n \in DOMAIN s PROVE c \in Comparisons
      <4>1. s[q.n] \in Comparisons
        BY <1>1, <3>2 DEF TypeOK
      <4>2. FlaggedRow(q.winner, s[q.n].rows) \in Candidates \cup {None}
        BY <1>4, <4>1 DEF Comparisons
      <4> QED BY <4>1, <4>2 DEF Comparisons
    <3>3. [s EXCEPT ![q.n] = c] \in Seq(Comparisons)
      BY <1>1, <3>1, <3>2, ReplaceComparison DEF TypeOK
    <3>4. [s EXCEPT ![q.n].approval = "approved",
                    ![q.n].flagged = FlaggedRow(q.winner, s[q.n].rows)]
            = [s EXCEPT ![q.n] = c]
      BY <1>1, <3>1 DEF TypeOK
    <3>5. comparisons' \in {s, [s EXCEPT ![q.n] = c]}
      BY <2>2, <3>4 DEF ApproveCommit
    <3> QED BY <1>1, <1>5, <2>2, <3>1, <3>3, <3>5 DEF ApproveCommit, TypeOK
  <2>3. CASE ManualCommit(w)
    <3> DEFINE q == req[w]
               s == comparisons
               c == [s[q.n] EXCEPT !.winner = q.winner,
                                   !.flagged = FlaggedRow(q.winner, s[q.n].rows),
                                   !.approval = IF q.exceeds THEN "approved"
                                                ELSE "not_required"]
    <3>1. q.winner \in Candidates /\ q.n \in Nat
      BY <1>1, <2>3, RequestFields DEF ManualCommit
    <3>2. ASSUME q.n \in DOMAIN s PROVE c \in Comparisons
      <4>1. s[q.n] \in Comparisons
        BY <1>1, <3>2 DEF TypeOK
      <4>2. FlaggedRow(q.winner, s[q.n].rows) \in Candidates \cup {None}
        BY <1>4, <4>1 DEF Comparisons
      <4> QED BY <3>1, <4>1, <4>2 DEF Comparisons
    <3>3. [s EXCEPT ![q.n] = c] \in Seq(Comparisons)
      BY <1>1, <3>1, <3>2, ReplaceComparison DEF TypeOK
    <3>4. Chosen(q) \in {s, [s EXCEPT ![q.n] = c]}
      BY <1>1, <3>1 DEF Chosen, TypeOK
    <3> QED BY <1>1, <1>5, <2>3, <3>1, <3>3, <3>4 DEF ManualCommit, TypeOK
  <2> QED BY <2>1, <2>2, <2>3
<1> QED BY <1>1, <1>2, <1>3, <1>6 DEF TypeOK

\* Proposals: submitted, typed in, edited, removed.
LEMMA ProposalsKeepTypes ==
    ASSUME IInv, NEW w \in Workers,
           \/ \E r \in Responses, offer \in Offers : PortalSubmit(w, r, offer)
           \/ CreateCommit(w) \/ UpdateCommit(w) \/ ClearUnavailable(w) \/ ClearStale(w)
           \/ \E r \in Responses : DeleteResponse(w, r)
    PROVE  TypeOK' /\ RemovalFindsRows'
<1> USE DEF NoRow
<1>1. TypeOK
  BY DEF IInv
<1>2. \A r \in Responses : Unflagged(r) \subseteq winners
  BY DEF Unflagged
<1>3. winners' \subseteq winners /\ UNCHANGED <<quote, credit, comparisons, crashes>>
  BY <1>2 DEF PortalSubmit, CreateCommit, Restored, UpdateCommit, ClearUnavailable,
              ClearStale, DeleteResponse
<1>4. req' = req \/ \E q \in Requests : q.op # "deleteQuote" /\ Continue(w, q)
  <2>1. Idle \in Requests /\ Idle.op # "deleteQuote"
    BY DEF Idle, Requests
  <2>2. ASSUME NEW r \in Responses, NEW op \in {"clearUnavailable", "findStale"}
        PROVE  [op |-> op, r |-> r] \in Requests
    BY DEF Requests
  <2>3. CASE UpdateCommit(w)
    <3>1. req[w].r \in Responses
      BY <1>1, <2>3, RequestFields DEF UpdateCommit
    <3> QED BY <2>1, <2>2, <2>3, <3>1, FinishIsContinue DEF UpdateCommit
  <2>4. CASE ClearUnavailable(w)
    <3>1. req[w].r \in Responses
      BY <1>1, <2>4, RequestFields DEF ClearUnavailable
    <3> QED BY <2>2, <2>4, <3>1 DEF ClearUnavailable
  <2> QED BY <2>1, <2>3, <2>4, FinishIsContinue
          DEF PortalSubmit, CreateCommit, ClearStale, DeleteResponse
<1>5. /\ resp' \in [Responses -> ResponseRows]
      /\ \A r \in Responses : resp[r] # NoRow => resp'[r] # NoRow
  <2>1. CASE \E r \in Responses, offer \in Offers : PortalSubmit(w, r, offer)
    BY <1>1, <2>1 DEF PortalSubmit, TypeOK, ResponseRows
  <2>2. CASE CreateCommit(w)
    <3>1. req[w].r \in Responses /\ req[w].offer \in Offers
      BY <1>1, <2>2, RequestFields DEF CreateCommit
    <3>2. [state |-> "live", offer |-> req[w].offer] \in ResponseRows
      BY <3>1 DEF ResponseRows
    <3>3. resp' = resp \/ resp' = [resp EXCEPT ![req[w].r] = [state |-> "live", offer |-> req[w].offer]]
      BY <2>2 DEF CreateCommit
    <3> QED BY <1>1, <3>1, <3>2, <3>3 DEF TypeOK
  <2>3. CASE UpdateCommit(w)
    <3> DEFINE r == req[w].r
               offer == req[w].offer
    <3>1. r \in Responses /\ offer \in Offers \cup {None}
      BY <1>1, <2>3, RequestFields DEF UpdateCommit
    <3>2. r \in Live => Edited(r, offer) \in ResponseRows \ {NoRow}
      BY <1>1, <3>1 DEF Edited, Live, TypeOK, ResponseRows
    <3> QED BY <1>1, <2>3, <3>1, <3>2 DEF UpdateCommit, TypeOK
  <2>4. CASE \E r \in Responses : DeleteResponse(w, r)
    BY <1>1, <2>4 DEF DeleteResponse, Live, TypeOK, ResponseRows
  <2>5. CASE ClearUnavailable(w) \/ ClearStale(w)
    BY <1>1, <2>5 DEF ClearUnavailable, ClearStale, TypeOK
  <2> QED BY <2>1, <2>2, <2>3, <2>4, <2>5
<1>6. req' \in [Workers -> Requests]
  BY <1>1, <1>4, RequestReplaced DEF TypeOK
<1>7. RemovalFindsRows'
  BY <1>4, <1>5, RowsStay
<1> QED BY <1>1, <1>3, <1>5, <1>6, <1>7 DEF TypeOK

\* Credit support and the quote itself: forwarded, priced, revoked, closed,
\* reopened, removed; and a restart.
LEMMA OtherStepsKeepTypes ==
    ASSUME IInv, NEW w \in Workers,
           \/ Support(w)
           \/ Close(w) \/ ReopenCommit(w) \/ DeleteQuoteCommit(w) \/ Crash(w)
    PROVE  TypeOK' /\ RemovalFindsRows'
<1> USE DEF NoRow
<1>1. TypeOK
  BY DEF IInv
<1>2. CASE Support(w)
  <2>1. PICK c \in Credits :
           \/ \E r \in Responses : Forward(w, c, r)
           \/ \E price \in Prices : PartnerSubmit(w, c, price)
           \/ Revoke(w, c)
    BY <1>2 DEF Support
  <2>2. credit' \in [Credits -> CreditRows]
    <3>1. CASE \E r \in Responses : Forward(w, c, r)
      <4>1. PICK r \in Responses : Forward(w, c, r)
        BY <3>1
      <4>2. resp[r].offer \in Offers /\ "low" \in Prices
        BY <1>1, <4>1, RowFields DEF Forward, Prices
      <4>3. [state |-> "sent", origin |-> r, snap |-> resp[r].offer, price |-> "low"]
              \in CreditRows
        BY <4>2 DEF CreditRows
      <4> QED BY <1>1, <4>1, <4>3 DEF Forward, TypeOK
    <3>2. CASE \E price \in Prices : PartnerSubmit(w, c, price)
      <4>1. PICK price \in Prices : PartnerSubmit(w, c, price)
        BY <3>2
      <4>2. credit[c] \in [state: {"sent", "responded", "revoked"}, origin: Responses,
                           snap: Offers, price: Prices]
        BY <1>1, <4>1 DEF PartnerSubmit, TypeOK, CreditRows
      <4>3. [credit[c] EXCEPT !.state = "responded", !.price = price] \in CreditRows
        BY <4>2 DEF CreditRows
      <4>4. credit' = [credit EXCEPT
                         ![c] = [credit[c] EXCEPT !.state = "responded", !.price = price]]
        BY <1>1, <4>1 DEF PartnerSubmit, TypeOK
      <4> QED BY <1>1, <4>3, <4>4 DEF TypeOK
    <3>3. CASE Revoke(w, c)
      <4>1. credit[c] \in [state: {"sent", "responded", "revoked"}, origin: Responses,
                           snap: Offers, price: Prices] \/ credit' = credit
        BY <1>1, <3>3 DEF Revoke, TypeOK, CreditRows
      <4>2. [credit[c] EXCEPT !.state = "revoked"] \in CreditRows \/ credit' = credit
        BY <4>1 DEF CreditRows
      <4>3. credit' = [credit EXCEPT ![c] = [credit[c] EXCEPT !.state = "revoked"]] \/ credit' = credit
        BY <1>1, <3>3 DEF Revoke, TypeOK
      <4> QED BY <1>1, <4>2, <4>3 DEF TypeOK
    <3> QED BY <2>1, <3>1, <3>2, <3>3
  <2>3. UNCHANGED <<quote, resp, comparisons, req, crashes>> /\ winners' \subseteq winners
    BY <2>1 DEF Forward, PartnerSubmit, Revoke
  <2> QED BY <1>1, <2>2, <2>3, RowsStay DEF TypeOK
<1>3. CASE Close(w)
  BY <1>1, <1>3, RowsStay DEF Close, TypeOK
<1>4. CASE ReopenCommit(w)
  <2>1. req' \in [Workers -> Requests] /\ RemovalFindsRows'
    BY <1>1, <1>4, FinishIsContinue, IdleIsARequest, RequestReplaced, RowsStay
       DEF ReopenCommit, Idle
  <2> QED BY <1>1, <1>4, <2>1 DEF ReopenCommit, TypeOK
<1>5. CASE DeleteQuoteCommit(w)
  <2>1. /\ resp' \in [Responses -> ResponseRows]
        /\ \A r \in Responses : resp[r] # NoRow => resp'[r] # NoRow
    BY <1>1, <1>5 DEF DeleteQuoteCommit, TypeOK, ResponseRows, IInv, RemovalFindsRows
  <2>2. req' \in [Workers -> Requests] /\ RemovalFindsRows'
    BY <1>1, <1>5, <2>1, FinishIsContinue, IdleIsARequest, RequestReplaced, RowsStay
       DEF DeleteQuoteCommit, Idle
  <2> QED BY <1>1, <1>5, <2>1, <2>2 DEF DeleteQuoteCommit, TypeOK
<1>6. CASE Crash(w)
  <2>1. req' \in [Workers -> Requests] /\ RemovalFindsRows'
    BY <1>1, <1>6, FinishIsContinue, IdleIsARequest, RequestReplaced, RowsStay
       DEF Crash, Idle
  <2> QED BY <1>1, <1>6, <2>1 DEF Crash, TypeOK
<1> QED BY <1>2, <1>3, <1>4, <1>5, <1>6

LEMMA ReadStepsKeepTypes ==
    ASSUME IInv, NEW w \in Workers, NEW q \in Requests, Continue(w, q),
           q.op = "deleteQuote" => \A r \in q.ids : resp[r] # NoRow,
           UNCHANGED <<quote, resp, credit, winners, comparisons, crashes>>
    PROVE  TypeOK' /\ RemovalFindsRows'
<1>1. req' \in [Workers -> Requests]
  BY RequestReplaced DEF IInv
<1>2. RemovalFindsRows'
  BY <1>1 DEF IInv, TypeOK, RemovalFindsRows, Continue
<1> QED BY <1>1, <1>2 DEF IInv, TypeOK

\* The actions of Next, in the groups the lemmas are about.
LEMMA StepsOfNext ==
    ASSUME Next
    PROVE  \E w \in Workers :
              \/ CompareRead(w) \/ ApproveRead(w) \/ ManualRead(w)
              \/ \E r \in Responses, offer \in Offers : CreateRead(w, r, offer)
              \/ \E r \in Responses, offer \in Offers \cup {None} : UpdateRead(w, r, offer)
              \/ FindStale(w) \/ ReopenRead(w) \/ DeleteQuoteRead(w)
              \/ CompareCommit(w) \/ ApproveCommit(w) \/ ManualCommit(w)
              \/ \E r \in Responses, offer \in Offers : PortalSubmit(w, r, offer)
              \/ CreateCommit(w) \/ UpdateCommit(w) \/ ClearUnavailable(w) \/ ClearStale(w)
              \/ \E r \in Responses : DeleteResponse(w, r)
              \/ Support(w)
              \/ Close(w) \/ ReopenCommit(w) \/ DeleteQuoteCommit(w) \/ Crash(w)
BY DEF Next, Decide, Propose, Manage

LEMMA NextKeepsTypes ==
    ASSUME IInv, Next
    PROVE  TypeOK' /\ RemovalFindsRows'
BY StepsOfNext, ReadsKeepTypes, ReadStepsKeepTypes, DecisionsKeepTypes, ProposalsKeepTypes,
   OtherStepsKeepTypes

-----------------------------------------------------------------------------
\* A decision leaves its own winner alone among the visible ones: everything
\* it could share the flag with is cleared first.
LEMMA DecisionsSetOneWinner ==
    ASSUME IInv, NEW w \in Workers,
           CompareCommit(w) \/ ApproveCommit(w) \/ ManualCommit(w)
    PROVE  VisibleWinners' = VisibleWinners \/ VisibleWinners' \subseteq {req[w].winner}
<1>1. Live' = Live
  BY DEF CompareCommit, ApproveCommit, ManualCommit, Live
<1>2. winners' = winners \/ winners' \subseteq Cleared \cup {req[w].winner}
  BY DEF CompareCommit, ApproveCommit, ManualCommit
<1> QED BY <1>1, <1>2 DEF VisibleWinners, Cleared

\* Every other step flags nothing, and a proposal that becomes live loses the
\* flag in the same transaction.
LEMMA OthersFlagNothing ==
    ASSUME IInv, NEW w \in Workers,
           \/ \E r \in Responses, offer \in Offers : PortalSubmit(w, r, offer)
           \/ CreateCommit(w) \/ UpdateCommit(w) \/ ClearUnavailable(w) \/ ClearStale(w)
           \/ \E r \in Responses : DeleteResponse(w, r)
           \/ Support(w)
           \/ Close(w) \/ ReopenCommit(w) \/ DeleteQuoteCommit(w) \/ Crash(w)
    PROVE  VisibleWinners' \subseteq VisibleWinners
<1> USE DEF VisibleWinners, Live
<1>1. TypeOK
  BY DEF IInv
<1>2. CASE \E r \in Responses, offer \in Offers : PortalSubmit(w, r, offer)
  BY <1>1, <1>2 DEF PortalSubmit, Unflagged, TypeOK
<1>3. CASE CreateCommit(w)
  BY <1>1, <1>3, RequestFields DEF CreateCommit, Restored, TypeOK
<1>4. CASE UpdateCommit(w)
  <2>1. req[w].r \in Responses
    BY <1>1, <1>4, RequestFields DEF UpdateCommit
  <2>2. \A r \in Responses : resp'[r].state = resp[r].state
    BY <1>1, <1>4, <2>1 DEF UpdateCommit, Edited, TypeOK, ResponseRows, NoRow
  <2>3. winners' \subseteq winners
    BY <1>4 DEF UpdateCommit
  <2> QED BY <2>2, <2>3
<1>5. CASE ClearUnavailable(w) \/ ClearStale(w)
  BY <1>5 DEF ClearUnavailable, ClearStale
<1>6. CASE \E r \in Responses : DeleteResponse(w, r)
  BY <1>1, <1>6 DEF DeleteResponse, Unflagged, TypeOK, ResponseRows, NoRow
<1>7. CASE Support(w)
  BY <1>7 DEF Support, Forward, PartnerSubmit, Revoke
<1>8. CASE Close(w) \/ ReopenCommit(w) \/ Crash(w)
  BY <1>8 DEF Close, ReopenCommit, Crash
<1>9. CASE DeleteQuoteCommit(w)
  BY <1>1, <1>9 DEF DeleteQuoteCommit, TypeOK, ResponseRows, NoRow
<1> QED BY <1>2, <1>3, <1>4, <1>5, <1>6, <1>7, <1>8, <1>9

LEMMA NextKeepsOneWinner == ASSUME IInv, Next PROVE AtMostOneWinner'
<1>1. PICK w \in Workers :
         \/ /\ UNCHANGED <<resp, winners>>
         \/ CompareCommit(w) \/ ApproveCommit(w) \/ ManualCommit(w)
         \/ VisibleWinners' \subseteq VisibleWinners
  BY StepsOfNext, ReadsKeepTypes, OthersFlagNothing
<1>2. \/ VisibleWinners' \subseteq VisibleWinners
      \/ VisibleWinners' \subseteq {req[w].winner}
  BY <1>1, DecisionsSetOneWinner DEF VisibleWinners, Live
<1> QED BY <1>2 DEF IInv, AtMostOneWinner

-----------------------------------------------------------------------------
\* The inductive invariant holds in every reachable state.
THEOREM Invariance == Spec => []IInv
<1>1. IInv /\ [Next]_vars => IInv'
  <2> SUFFICES ASSUME IInv, [Next]_vars PROVE IInv'
    OBVIOUS
  <2>1. CASE Next
    BY <2>1, NextKeepsTypes, NextKeepsOneWinner DEF IInv
  <2>2. CASE UNCHANGED vars
    <3>1. TypeOK' /\ RemovalFindsRows'
      BY <2>2 DEF vars, IInv, TypeOK, RemovalFindsRows
    <3>2. AtMostOneWinner'
      BY <2>2 DEF vars, IInv, AtMostOneWinner, VisibleWinners, Live
    <3> QED BY <3>1, <3>2 DEF IInv
  <2> QED BY <2>1, <2>2
<1> QED BY <1>1, InitIInv, PTL DEF Spec

\* Every row, flag and remembered request keeps the shape the schema gives it.
THEOREM TypeCorrect == Spec => []TypeOK
BY Invariance, PTL DEF IInv

\* Whatever requests overlap, at most one visible row of a quote is flagged as
\* winner (the comment of QuoteResponseController on its award transactions).
THEOREM OneWinner == Spec => []AtMostOneWinner
BY Invariance, PTL DEF IInv

\* Only a comparison may flag a proposal that was removed in the meantime: the
\* WHERE clauses of the approval and of the manual choice refuse it.
THEOREM NoAwardToRemoved == Spec => RemovedNeverAwarded
<1> DEFINE Refused == \A r \in Responses :
                        (r \in winners' \ winners /\ resp'[r].state = "deleted")
                          => \E w \in Workers : req[w].op = "compare" /\ req'[w] = Idle
<1>1. IInv /\ [Next]_vars => [Refused]_vars
  <2> SUFFICES ASSUME IInv, Next, NEW r \in Responses,
                      r \in winners' \ winners, resp'[r].state = "deleted"
               PROVE  \E w \in Workers : req[w].op = "compare" /\ req'[w] = Idle
    OBVIOUS
  <2>1. TypeOK
    BY DEF IInv
  <2>2. PICK w \in Workers : CompareCommit(w) \/ ApproveCommit(w) \/ ManualCommit(w)
    <3>1. ASSUME NEW w \in Workers,
                 \/ \E p \in Responses, offer \in Offers : PortalSubmit(w, p, offer)
                 \/ CreateCommit(w) \/ UpdateCommit(w) \/ ClearUnavailable(w)
                 \/ ClearStale(w)
                 \/ \E p \in Responses : DeleteResponse(w, p)
                 \/ Support(w)
                 \/ Close(w) \/ ReopenCommit(w) \/ DeleteQuoteCommit(w) \/ Crash(w)
          PROVE  winners' \subseteq winners
      BY <3>1 DEF PortalSubmit, CreateCommit, UpdateCommit, ClearUnavailable, ClearStale,
                  DeleteResponse, Support, Forward, PartnerSubmit, Revoke, Close,
                  ReopenCommit, DeleteQuoteCommit, Crash, Unflagged, Restored
    <3> QED BY <3>1, StepsOfNext, ReadsKeepTypes
  <2>3. CASE CompareCommit(w)
    BY <2>1, <2>3 DEF CompareCommit, Finish, TypeOK
  <2>4. CASE ApproveCommit(w)
    <3>1. r = req[w].winner /\ ApproveMatches(r) /\ resp' = resp
      BY <2>4 DEF ApproveCommit, Cleared
    <3> QED BY <3>1, SetsAssumption DEF ApproveMatches, Live
  <2>5. CASE ManualCommit(w)
    <3>1. r = req[w].winner /\ ManualMatches(r) /\ resp' = resp
      BY <2>5 DEF ManualCommit, Cleared
    <3> QED BY <3>1, SetsAssumption DEF ManualMatches, Live
  <2> QED BY <2>2, <2>3, <2>4, <2>5
<1> QED BY <1>1, Invariance, PTL DEF Spec, RemovedNeverAwarded

-----------------------------------------------------------------------------
(* Refinement of AwardRegister.                                            *)

Decisions == {"compare", "approve", "manual"}

\* A worker that is not deciding before or after a step takes no part in Judged.
LEMMA JudgedStays ==
    ASSUME TypeOK, NEW w \in Workers, req[w].op \notin Decisions,
           req' = req \/ (\E q \in Requests : q.op \notin Decisions /\ Continue(w, q))
    PROVE  Judged' = Judged
<1>1. \A v \in Workers : req'[v].op \in Decisions <=> req[v].op \in Decisions
  BY DEF TypeOK, Continue
<1>2. \A v \in Workers : req[v].op \in Decisions => req'[v] = req[v]
  BY DEF TypeOK, Continue
<1>3. {v \in Workers : req'[v].op \in Decisions} = {v \in Workers : req[v].op \in Decisions}
  BY <1>1
<1> QED BY <1>2, <1>3 DEF Judged, Decisions

\* A decision begins: its candidate joins the judged.
LEMMA JudgedJoins ==
    ASSUME TypeOK, NEW w \in Workers, NEW q, q.op \in Decisions, Begin(w, q)
    PROVE  Judged' = Judged \cup {q.winner}
<1>1. req[w].op \notin Decisions /\ req'[w] = q /\ \A v \in Workers \ {w} : req'[v] = req[v]
  BY DEF Begin, Idle, Decisions, TypeOK
<1>2. {v \in Workers : req'[v].op \in Decisions}
        = {v \in Workers : req[v].op \in Decisions} \cup {w}
  BY <1>1
<1> QED BY <1>1, <1>2 DEF Judged, Decisions

\* A decision ends: its candidate leaves, unless another decision is about it.
LEMMA JudgedLeaves ==
    ASSUME TypeOK, NEW w \in Workers, req[w].op \in Decisions, Finish(w)
    PROVE  Register!Over(req[w].winner)
<1> DEFINE x == req[w].winner
<1>1. x \in Judged
  BY DEF Judged, Decisions
<1>2. req'[w].op \notin Decisions /\ \A v \in Workers \ {w} : req'[v] = req[v]
  BY DEF Finish, Idle, Decisions, TypeOK
<1>3. Judged' \subseteq Judged
  BY <1>2 DEF Judged, Decisions
<1>4. Judged \ {x} \subseteq Judged'
  BY <1>2 DEF Judged, Decisions
<1>5. Judged' \in {Judged, Judged \ {x}}
  <2>1. CASE x \in Judged'
    BY <1>1, <1>3, <1>4, <2>1
  <2>2. CASE x \notin Judged'
    BY <1>3, <1>4, <2>2
  <2> QED BY <2>1, <2>2
<1> QED BY <1>1, <1>5 DEF Register!Over

\* With at most one winner in view, what shrinks is unchanged or empty.
LEMMA ShrinksToNothing ==
    ASSUME AtMostOneWinner, VisibleWinners' \subseteq VisibleWinners
    PROVE  VisibleWinners' = VisibleWinners \/ VisibleWinners' = {}
BY DEF AtMostOneWinner

LEMMA ReadsRefine ==
    ASSUME IInv, NEW w \in Workers,
           \/ CompareRead(w) \/ ApproveRead(w) \/ ManualRead(w)
           \/ \E r \in Responses, offer \in Offers : CreateRead(w, r, offer)
           \/ \E r \in Responses, offer \in Offers \cup {None} : UpdateRead(w, r, offer)
           \/ FindStale(w) \/ ReopenRead(w) \/ DeleteQuoteRead(w)
    PROVE  Register!Next \/ UNCHANGED Register!vars
<1>1. TypeOK
  BY DEF IInv
<1>2. VisibleWinners' = VisibleWinners
  BY ReadsKeepTypes DEF VisibleWinners, Live
<1>3. PICK q \in Requests : Continue(w, q)
  BY ReadsKeepTypes
<1>4. CASE CompareRead(w) \/ ApproveRead(w) \/ ManualRead(w)
  <2>1. \E p : p.op \in Decisions /\ Begin(w, p)
    <3>1. CASE CompareRead(w)
      BY <3>1 DEF CompareRead, Decisions
    <3>2. CASE ApproveRead(w)
      BY <3>2 DEF ApproveRead, Decisions
    <3>3. CASE ManualRead(w)
      BY <3>3 DEF ManualRead, Decisions
    <3> QED BY <1>4, <3>1, <3>2, <3>3
  <2>2. PICK p : p.op \in Decisions /\ Begin(w, p)
    BY <2>1
  <2>3. req'[w] = p /\ req'[w] = q
    BY <1>1, <1>3, <2>2 DEF Begin, Continue, TypeOK
  <2>4. p.winner \in Candidates
    BY <2>2, <2>3 DEF Requests, Idle, Decisions
  <2>5. Register!Judge(p.winner)
    BY <1>1, <1>2, <2>2, JudgedJoins DEF Register!Judge
  <2> QED BY <2>4, <2>5 DEF Register!Next
<1>5. CASE ~ (CompareRead(w) \/ ApproveRead(w) \/ ManualRead(w))
  <2>1. req[w].op \notin Decisions /\ req'[w].op \notin Decisions
    BY <1>1, <1>5 DEF CreateRead, UpdateRead, FindStale, ReopenRead, DeleteQuoteRead, Begin,
                      Continue, Finish, Idle, Decisions, TypeOK
  <2>2. q.op \notin Decisions
    BY <1>1, <1>3, <2>1 DEF Continue, TypeOK
  <2>3. Judged' = Judged
    BY <1>1, <1>3, <2>1, <2>2, JudgedStays
  <2> QED BY <1>2, <2>3 DEF Register!vars
<1> QED BY <1>4, <1>5

LEMMA DecisionsRefine ==
    ASSUME IInv, NEW w \in Workers,
           CompareCommit(w) \/ ApproveCommit(w) \/ ManualCommit(w)
    PROVE  Register!Next
<1> DEFINE x == req[w].winner
<1>1. TypeOK /\ req[w].op \in Decisions /\ Finish(w)
  BY DEF IInv, CompareCommit, ApproveCommit, ManualCommit, Decisions
<1>2. x \in Candidates
  BY <1>1, RequestFields DEF Decisions
<1>3. Register!Over(x)
  BY <1>1, JudgedLeaves
<1>4. VisibleWinners' \in {VisibleWinners, {}, {x}}
  BY DecisionsSetOneWinner
<1>5. Register!Elect(x) \/ Register!Dismiss(x)
  BY <1>3, <1>4 DEF Register!Elect, Register!Dismiss
<1> QED BY <1>2, <1>5 DEF Register!Next

LEMMA OthersRefine ==
    ASSUME IInv, NEW w \in Workers,
           \/ \E r \in Responses, offer \in Offers : PortalSubmit(w, r, offer)
           \/ CreateCommit(w) \/ UpdateCommit(w) \/ ClearUnavailable(w) \/ ClearStale(w)
           \/ \E r \in Responses : DeleteResponse(w, r)
           \/ Support(w)
           \/ Close(w) \/ ReopenCommit(w) \/ DeleteQuoteCommit(w) \/ Crash(w)
    PROVE  Register!Next \/ UNCHANGED Register!vars
<1>1. TypeOK
  BY DEF IInv
<1>2. VisibleWinners' = VisibleWinners \/ VisibleWinners' = {}
  BY OthersFlagNothing, ShrinksToNothing DEF IInv
<1>3. req' = req \/ \E q \in {Idle} \cup {p \in Requests : p.op \notin Decisions} : Continue(w, q)
  <2>1. CASE UpdateCommit(w) \/ ClearUnavailable(w)
    <3>1. req[w].r \in Responses
      BY <1>1, <2>1, RequestFields DEF UpdateCommit, ClearUnavailable
    <3>2. ASSUME NEW op \in {"clearUnavailable", "findStale"}
          PROVE  [op |-> op, r |-> req[w].r] \in {p \in Requests : p.op \notin Decisions}
      BY <3>1 DEF Requests, Decisions
    <3> QED BY <2>1, <3>2 DEF UpdateCommit, ClearUnavailable, Finish, Continue
  <2>2. CASE ~ (UpdateCommit(w) \/ ClearUnavailable(w))
    BY <2>2 DEF PortalSubmit, CreateCommit, ClearStale, DeleteResponse, Support, Forward,
                PartnerSubmit, Revoke, Close, ReopenCommit, DeleteQuoteCommit, Crash,
                Finish, Continue
  <2> QED BY <2>1, <2>2
<1>4. CASE req[w].op \notin Decisions
  <2>1. Idle \in Requests /\ Idle.op \notin Decisions
    BY DEF Idle, Requests, Decisions
  <2>2. Judged' = Judged
    BY <1>1, <1>3, <1>4, <2>1, JudgedStays
  <2> QED BY <1>2, <2>2 DEF Register!Next, Register!Withdraw, Register!vars
<1>5. CASE req[w].op \in Decisions
  <2>1. Crash(w)
    <3>1. CASE \/ \E r \in Responses, offer \in Offers : PortalSubmit(w, r, offer)
               \/ \E r \in Responses : DeleteResponse(w, r)
               \/ Support(w) \/ Close(w)
      <4>1. req[w] = Idle
        BY <3>1 DEF PortalSubmit, DeleteResponse, Support, Forward, PartnerSubmit, Revoke, Close
      <4> QED BY <1>5, <4>1 DEF Idle, Decisions
    <3>2. CASE \/ CreateCommit(w) \/ UpdateCommit(w) \/ ClearUnavailable(w) \/ ClearStale(w)
               \/ ReopenCommit(w) \/ DeleteQuoteCommit(w)
      BY <1>5, <3>2 DEF CreateCommit, UpdateCommit, ClearUnavailable, ClearStale, ReopenCommit,
                        DeleteQuoteCommit, Decisions
    <3> QED BY <3>1, <3>2
  <2>2. Register!Over(req[w].winner) /\ req[w].winner \in Candidates
    BY <1>1, <1>5, <2>1, JudgedLeaves, RequestFields DEF Crash, Decisions
  <2>3. Register!Dismiss(req[w].winner)
    BY <1>2, <2>2 DEF Register!Dismiss
  <2> QED BY <2>2, <2>3 DEF Register!Next
<1> QED BY <1>4, <1>5

\* The award implements a register of at most one judged candidate: every step
\* of every handler is a step of AwardRegister or leaves it alone.
THEOREM RefinesRegister == Spec => ImplementsRegister
<1>1. Init => Register!Init
  BY DEF Init, Register!Init, VisibleWinners, Judged, Idle
<1>2. IInv /\ [Next]_vars => [Register!Next]_(Register!vars)
  <2> SUFFICES ASSUME IInv, [Next]_vars PROVE Register!Next \/ UNCHANGED Register!vars
    OBVIOUS
  <2>1. CASE Next
    BY <2>1, StepsOfNext, ReadsRefine, DecisionsRefine, OthersRefine
  <2>2. CASE UNCHANGED vars
    BY <2>2 DEF vars, Register!vars, VisibleWinners, Live, Judged
  <2> QED BY <2>1, <2>2
<1> QED BY <1>1, <1>2, Invariance, PTL DEF Spec, ImplementsRegister, Register!Spec

-----------------------------------------------------------------------------
(* One request at a time.  The properties the code states of a single      *)
(* handler hold of every sequence of handlers, restarts included.          *)

OneAtATime == \A v, w \in Workers : v = w

\* The worker still has to take the flag of a partner's offer.
LeftTo(w, c) ==
    \/ req[w].op \in {"clearUnavailable", "findStale"} /\ credit[c].origin = req[w].r
    \/ req[w].op = "clearStale" /\ c \in req[w].ids

\* What is asked of a flagged winner.
Stands(x) ==
    /\ BasketOf(x) # "unavailable"
    /\ x \in Responses => x \in Live
    /\ x \in Credits => x \in FreshAnswers

\* What a flag keeps when a restart may have cut an edit short.
Holds(x) ==
    /\ BasketOf(x) # "unavailable"
    /\ x \in Responses => x \in Live
    /\ x \in Credits => x \in Answered /\ (crashes = 0 => ~Stale(x))

\* A flagged winner holds, but for the offers an edit has yet to unflag.
StandsButFor ==
    ~quote.deleted =>
        \A x \in winners :
            /\ BasketOf(x) # "unavailable"
            /\ x \in Responses => x \in Live
            /\ x \in Credits => x \in Answered /\ (crashes = 0 /\ Stale(x) => \E w \in Workers : LeftTo(w, x))

\* The latest comparison tells what the flags tell, during a request too.
Agrees ==
    (comparisons # <<>> /\ winners # {}) =>
        LET last == comparisons[Len(comparisons)]
        IN  /\ winners = {last.winner}
            /\ last.approval # "pending"
            /\ last.flagged = IF last.winner \in last.rows THEN last.winner ELSE None

\* What a decision has read is still so.
Remembers(w) ==
    LET q == req[w]
    IN  /\ q.op \in Decisions =>
              \/ ~quote.deleted /\ Stands(q.winner)
              \/ q.op = "approve" /\ q.winner \in Responses \ Live
        /\ q.op \in {"approve", "manual"} => q.n = Len(comparisons)
        /\ q.op = "approve" => q.n # 0 /\ q.winner = comparisons[q.n].winner
        /\ q.op = "compare" => q.pending = AboveThreshold(q.winner)
        /\ q.op = "manual" => (AboveThreshold(q.winner) => q.manager)

SInv == IInv /\ StandsButFor /\ Agrees /\ \A w \in Workers : Remembers(w)

LEMMA InitSInv == Init => SInv
BY InitIInv DEF Init, SInv, StandsButFor, Agrees, Remembers, Idle, Decisions

\* The rows decide what a candidate is worth.
LEMMA SameRows ==
    ASSUME UNCHANGED <<resp, credit>>
    PROVE  /\ \A x : BasketOf(x)' = BasketOf(x) /\ AboveThreshold(x)' = AboveThreshold(x)
           /\ \A c : Stale(c)' = Stale(c)
           /\ Live' = Live /\ Answered' = Answered /\ FreshAnswers' = FreshAnswers
<1>1. Live' = Live /\ Answered' = Answered
  BY DEF Live, Answered
<1>2. \A c : Stale(c)' = Stale(c)
  BY <1>1 DEF Stale
<1>3. FreshAnswers' = FreshAnswers
  BY <1>1, <1>2 DEF FreshAnswers
<1> QED BY <1>1, <1>2, <1>3 DEF BasketOf, AboveThreshold

\* Flags that only shrink agree with the comparison that set them.
LEMMA ShrinkingAgrees ==
    ASSUME Agrees, winners' \subseteq winners, comparisons' = comparisons
    PROVE  Agrees'
BY DEF Agrees

\* While the only worker handles something else, every flagged winner stands.
LEMMA AllStand ==
    ASSUME OneAtATime, SInv, NEW w \in Workers, ~quote.deleted,
           req[w].op \notin {"clearUnavailable", "findStale", "clearStale"}
    PROVE  \A x \in winners : Holds(x)
<1>1. \A v \in Workers, c \in Credits : ~LeftTo(v, c)
  BY DEF OneAtATime, LeftTo
<1> QED BY <1>1 DEF SInv, StandsButFor, Holds

\* A decision of the only worker finds no flag it does not clear.
LEMMA NothingLeft ==
    ASSUME OneAtATime, SInv, NEW w \in Workers, req[w].op \in Decisions, ~quote.deleted
    PROVE  Cleared = {}
<1>1. \A x \in winners : Holds(x)
  BY AllStand DEF Decisions
<1> QED BY <1>1 DEF SInv, IInv, TypeOK, Cleared, Holds, Candidates

\* What a worker remembers when it is not deciding says nothing.
LEMMA IdleRemembers ==
    ASSUME OneAtATime, TypeOK, NEW w \in Workers, NEW q, q.op \notin Decisions, Continue(w, q)
    PROVE  \A v \in Workers : Remembers(v)'
<1>1. req'[w] = q /\ \A v \in Workers : v = w
  BY DEF OneAtATime, TypeOK, Continue
<1> QED BY <1>1 DEF Remembers, Decisions

\* A decision remembers what it has just read.
LEMMA DecisionsRemember ==
    ASSUME OneAtATime, SInv, NEW w \in Workers, CompareRead(w) \/ ApproveRead(w) \/ ManualRead(w)
    PROVE  \A v \in Workers : Remembers(v)'
<1>1. TypeOK /\ UNCHANGED <<quote, resp, credit, winners, comparisons, crashes>>
  BY ReadsKeepTypes DEF SInv, IInv
<1>2. \A v \in Workers : v = w
  BY DEF OneAtATime
<1>3. \A x : /\ Stands(x)' = Stands(x)
             /\ AboveThreshold(x)' = AboveThreshold(x)
  BY <1>1, SameRows DEF Stands
<1>4. Live' = Live
  BY <1>1, SameRows
<1>5. CASE CompareRead(w)
  <2>1. PICK x \in RankedCandidates :
           Begin(w, [op |-> "compare", rows |-> RankedCandidates, winner |-> x,
                     pending |-> AboveThreshold(x)])
    BY <1>5 DEF CompareRead
  <2>2. Stands(x)
    BY SetsAssumption DEF RankedCandidates, Ranked, Stands, BasketOf, FreshAnswers, Answered, Live
  <2>3. ~quote.deleted
    BY <1>5 DEF CompareRead
  <2>4. req'[w] = [op |-> "compare", rows |-> RankedCandidates, winner |-> x,
                   pending |-> AboveThreshold(x)]
    BY <1>1, <2>1 DEF Begin, TypeOK
  <2> QED BY <1>1, <1>2, <1>3, <2>2, <2>3, <2>4 DEF Remembers
<1>6. CASE ApproveRead(w)
  <2> DEFINE n == Len(comparisons)
             x == comparisons[n].winner
  <2>1. /\ req'[w] = [op |-> "approve", n |-> n, winner |-> x]
        /\ (x \in Credits /\ CreditAwardable(x)) \/ x \in Responses
        /\ x \in Responses \ Live \/ (~quote.deleted /\ BasketOf(x) \notin {"unavailable", "extra"})
    BY <1>1, <1>6 DEF ApproveRead, Begin, TypeOK
  <2>2. n # 0
    BY <1>1, <1>6 DEF ApproveRead, TypeOK
  <2>3. x \in Responses \ Live \/ (~quote.deleted /\ Stands(x))
    BY <2>1, SetsAssumption DEF Stands, CreditAwardable
  <2> QED BY <1>1, <1>2, <1>3, <1>4, <2>1, <2>2, <2>3 DEF Remembers
<1>7. CASE ManualRead(w)
  <2>1. PICK x \in Live \cup {c \in Credits : CreditAwardable(c)}, manager \in BOOLEAN :
           /\ BasketOf(x) \notin {"unavailable", "extra"}
           /\ MayChoose(x, manager)
           /\ Begin(w, [op |-> "manual", n |-> Len(comparisons), winner |-> x,
                        exceeds |-> AboveThreshold(x), manager |-> manager])
    BY <1>7 DEF ManualRead
  <2>2. ~quote.deleted /\ Stands(x)
    BY <1>7, <2>1, SetsAssumption DEF ManualRead, Stands, Live, CreditAwardable
  <2>3. req'[w] = [op |-> "manual", n |-> Len(comparisons), winner |-> x,
                   exceeds |-> AboveThreshold(x), manager |-> manager]
    BY <1>1, <2>1 DEF Begin, TypeOK
  <2> QED BY <1>1, <1>2, <1>3, <2>1, <2>2, <2>3 DEF Remembers, MayChoose
<1> QED BY <1>5, <1>6, <1>7

\* The other reads remember nothing of the flags, but for what an edit has left to clear.
LEMMA OtherReadsRemember ==
    ASSUME OneAtATime, SInv, NEW w \in Workers,
           \/ \E r \in Responses, offer \in Offers : CreateRead(w, r, offer)
           \/ \E r \in Responses, offer \in Offers \cup {None} : UpdateRead(w, r, offer)
           \/ FindStale(w) \/ ReopenRead(w) \/ DeleteQuoteRead(w)
    PROVE  \A v \in Workers : Remembers(v)'
<1>1. \E q : q.op \notin Decisions /\ Continue(w, q)
  BY DEF CreateRead, UpdateRead, FindStale, ReopenRead, DeleteQuoteRead, Begin, Continue, Finish,
         Idle, Decisions
<1> QED BY <1>1, IdleRemembers DEF SInv, IInv

LEMMA ReadsKeepStanding ==
    ASSUME OneAtATime, SInv, NEW w \in Workers,
           \/ CompareRead(w) \/ ApproveRead(w) \/ ManualRead(w)
           \/ \E r \in Responses, offer \in Offers : CreateRead(w, r, offer)
           \/ \E r \in Responses, offer \in Offers \cup {None} : UpdateRead(w, r, offer)
           \/ FindStale(w) \/ ReopenRead(w) \/ DeleteQuoteRead(w)
    PROVE  StandsButFor' /\ Agrees'
<1>1. TypeOK /\ UNCHANGED <<quote, resp, credit, winners, comparisons, crashes>>
  BY ReadsKeepTypes DEF SInv, IInv
<1>2. Agrees'
  BY <1>1, ShrinkingAgrees DEF SInv
<1>3. CASE FindStale(w)
  <2> DEFINE ids == {c \in CreditsOf(req[w].r) \cap winners : Stale(c)}
  <2> SUFFICES ASSUME ~quote.deleted, crashes = 0, NEW x \in winners, x \in Credits, Stale(x)
               PROVE  LeftTo(w, x)'
    BY <1>1, <1>2, SameRows DEF SInv, StandsButFor
  <2>1. x \in Answered /\ credit[x].origin = req[w].r
    BY <1>3 DEF SInv, StandsButFor, LeftTo, FindStale, OneAtATime
  <2>2. x \in ids
    BY <2>1 DEF CreditsOf, Answered
  <2>3. req'[w] = [op |-> "clearStale", ids |-> ids]
    BY <1>1, <1>3, <2>2 DEF FindStale, Continue, TypeOK
  <2> QED BY <2>2, <2>3 DEF LeftTo
<1>4. CASE ~FindStale(w)
  <2>1. req[w] = Idle
    BY <1>4 DEF CompareRead, ApproveRead, ManualRead, CreateRead, UpdateRead, ReopenRead,
                DeleteQuoteRead, Begin
  <2>2. ~quote.deleted => \A x \in winners : Holds(x)
    BY <2>1, AllStand DEF Idle
  <2> QED BY <1>1, <1>2, <2>2, SameRows DEF StandsButFor, Holds
<1> QED BY <1>3, <1>4

\* The last comparison is replaced.
LEMMA LastReplaced ==
    ASSUME NEW s \in Seq(Comparisons), NEW n \in Nat, n = Len(s), n # 0, NEW c
    PROVE  [s EXCEPT ![n] = c][Len([s EXCEPT ![n] = c])] = c
<1>1. n \in DOMAIN s
  OBVIOUS
<1>2. Len([s EXCEPT ![n] = c]) = Len(s)
  OBVIOUS
<1> QED BY <1>1, <1>2

\* A decision replaces the flags and tells the same to the comparison.
LEMMA DecisionsStand ==
    ASSUME OneAtATime, SInv, NEW w \in Workers,
           CompareCommit(w) \/ ApproveCommit(w) \/ ManualCommit(w)
    PROVE  /\ UNCHANGED <<winners, comparisons>>
              \/ (winners' \subseteq {req[w].winner} /\ Agrees' /\ ~quote.deleted /\ Stands(req[w].winner))
           /\ UNCHANGED <<quote, resp, credit, crashes>>
           /\ Finish(w)
<1> DEFINE q == req[w]
           x == q.winner
<1>1. TypeOK /\ Remembers(w) /\ q.op \in Decisions
  BY DEF SInv, IInv, CompareCommit, ApproveCommit, ManualCommit, Decisions
<1>2. UNCHANGED <<quote, resp, credit, crashes>> /\ Finish(w)
  BY DEF CompareCommit, ApproveCommit, ManualCommit
<1>3. Len(comparisons) \in Nat /\ x \in Candidates
  BY <1>1, RequestFields DEF TypeOK, Decisions
<1>4. CASE CompareCommit(w)
  <2>1. ~quote.deleted /\ Stands(x) /\ Cleared = {}
    BY <1>1, <1>4, NothingLeft DEF Remembers, CompareCommit
  <2> DEFINE c == [winner |-> x, rows |-> q.rows,
                   flagged |-> FlaggedRow(x, IF q.pending THEN {} ELSE q.rows),
                   approval |-> IF q.pending THEN "pending" ELSE "not_required"]
  <2>2. winners' = (IF q.pending THEN {} ELSE {x}) /\ comparisons' = Append(comparisons, c)
    BY <1>4, <2>1 DEF CompareCommit
  <2>3. comparisons'[Len(comparisons')] = c
    BY <1>1, <2>2 DEF TypeOK
  <2> QED BY <1>2, <2>1, <2>2, <2>3 DEF Agrees, FlaggedRow
<1>5. CASE ApproveCommit(w) /\ ApproveMatches(x)
  <2>1. ~quote.deleted /\ Stands(x)
    BY <1>1, <1>5, SetsAssumption DEF Remembers, ApproveMatches, Live
  <2>2. Cleared = {}
    BY <1>1, <2>1, NothingLeft
  <2>3. q.n = Len(comparisons) /\ q.n # 0 /\ x = comparisons[q.n].winner
    BY <1>1, <1>5 DEF Remembers, ApproveCommit
  <2> DEFINE c == [comparisons[q.n] EXCEPT !.approval = "approved",
                                           !.flagged = FlaggedRow(x, comparisons[q.n].rows)]
  <2>4. winners' = {x} /\ comparisons' = [comparisons EXCEPT ![q.n] = c]
    BY <1>1, <1>5, <2>2 DEF ApproveCommit, TypeOK
  <2>5. comparisons[q.n] \in Comparisons
    BY <1>1, <1>3, <2>3 DEF TypeOK
  <2>6. comparisons'[Len(comparisons')] = c
    <3>1. comparisons \in Seq(Comparisons) /\ q.n \in Nat
      BY <1>1, <1>3, <2>3 DEF TypeOK
    <3> HIDE DEF c
    <3> QED BY <2>3, <2>4, <3>1, LastReplaced
  <2>7. c.winner = x /\ c.approval = "approved" /\ c.rows = comparisons[q.n].rows
        /\ c.flagged = FlaggedRow(x, c.rows)
    BY <2>3, <2>5 DEF Comparisons
  <2> QED BY <1>2, <2>1, <2>4, <2>6, <2>7 DEF Agrees, FlaggedRow
<1>6. CASE ManualCommit(w) /\ ManualMatches(x)
  <2>1. ~quote.deleted /\ Stands(x) /\ q.n = Len(comparisons)
    BY <1>1, <1>6 DEF Remembers, ManualCommit
  <2>2. winners' = {x} /\ comparisons' = Chosen(q)
    BY <1>1, <1>6, <2>1, NothingLeft DEF ManualCommit
  <2>3. CASE comparisons = <<>>
    BY <1>2, <2>1, <2>2, <2>3 DEF Agrees, Chosen
  <2>4. CASE comparisons # <<>>
    <3> DEFINE c == [comparisons[q.n] EXCEPT !.winner = x,
                                             !.flagged = FlaggedRow(x, comparisons[q.n].rows),
                                             !.approval = IF q.exceeds THEN "approved"
                                                          ELSE "not_required"]
    <3>1. q.n \in Nat \ {0} /\ comparisons[q.n] \in Comparisons
      BY <1>1, <1>3, <2>1, <2>4 DEF TypeOK
    <3>2. Chosen(q) = [comparisons EXCEPT ![q.n] = c]
      BY <1>1, <3>1 DEF Chosen, TypeOK
    <3>3. comparisons'[Len(comparisons')] = c
      <4>1. comparisons \in Seq(Comparisons)
        BY <1>1 DEF TypeOK
      <4> HIDE DEF c
      <4> QED BY <2>1, <2>2, <3>1, <3>2, <4>1, LastReplaced
    <3>4. c.winner = x /\ c.approval # "pending" /\ c.rows = comparisons[q.n].rows
          /\ c.flagged = FlaggedRow(x, c.rows)
      BY <3>1 DEF Comparisons
    <3> QED BY <1>2, <2>1, <2>2, <3>3, <3>4 DEF Agrees, FlaggedRow
  <2> QED BY <2>3, <2>4
<1>7. CASE (ApproveCommit(w) /\ ~ApproveMatches(x)) \/ (ManualCommit(w) /\ ~ManualMatches(x))
  BY <1>2, <1>7 DEF ApproveCommit, ManualCommit
<1> QED BY <1>4, <1>5, <1>6, <1>7

LEMMA DecisionsKeepStanding ==
    ASSUME OneAtATime, SInv, NEW w \in Workers,
           CompareCommit(w) \/ ApproveCommit(w) \/ ManualCommit(w)
    PROVE  StandsButFor' /\ Agrees' /\ \A v \in Workers : Remembers(v)'
<1>1. TypeOK /\ Agrees
  BY DEF SInv, IInv
<1>2. UNCHANGED <<quote, resp, credit, crashes>> /\ Continue(w, Idle)
  BY DecisionsStand, FinishIsContinue
<1>3. \A v \in Workers : Remembers(v)'
  BY <1>1, <1>2, IdleRemembers DEF Idle, Decisions
<1>4. ~quote.deleted => \A x \in winners : Holds(x)
  BY AllStand DEF CompareCommit, ApproveCommit, ManualCommit
<1>5. ~quote.deleted => \A x \in winners' : Holds(x)
  BY <1>4, DecisionsStand DEF Stands, Holds, FreshAnswers
<1>6. StandsButFor'
  BY <1>2, <1>5, SameRows DEF StandsButFor, Holds
<1>7. Agrees'
  BY <1>1, DecisionsStand DEF Agrees
<1> QED BY <1>3, <1>6, <1>7

\* A step that is no decision may only lower flags, and leaves no decision behind.
LEMMA OthersLowerFlags ==
    ASSUME OneAtATime, SInv, NEW w \in Workers,
           \/ \E r \in Responses, offer \in Offers : PortalSubmit(w, r, offer)
           \/ CreateCommit(w) \/ UpdateCommit(w) \/ ClearUnavailable(w) \/ ClearStale(w)
           \/ \E r \in Responses : DeleteResponse(w, r)
           \/ Support(w)
           \/ Close(w) \/ ReopenCommit(w) \/ DeleteQuoteCommit(w)
    PROVE  /\ winners' \subseteq winners
           /\ Agrees'
           /\ \A v \in Workers : Remembers(v)'
<1>1. TypeOK
  BY DEF SInv, IInv
<1>2. winners' \subseteq winners /\ UNCHANGED comparisons
  BY DEF PortalSubmit, CreateCommit, Restored, UpdateCommit, ClearUnavailable, ClearStale,
         DeleteResponse, Unflagged, Support, Forward, PartnerSubmit, Revoke, Close, ReopenCommit,
         DeleteQuoteCommit
<1>3. \E q : q.op \notin Decisions /\ Continue(w, q)
  <2>1. Idle.op \notin Decisions
    BY DEF Idle, Decisions
  <2>2. CASE \/ \E r \in Responses, offer \in Offers : PortalSubmit(w, r, offer)
             \/ \E r \in Responses : DeleteResponse(w, r)
             \/ Support(w) \/ Close(w)
    <3>1. req[w] = Idle /\ req' = req
      BY <2>2 DEF PortalSubmit, DeleteResponse, Support, Forward, PartnerSubmit, Revoke, Close
    <3>2. Continue(w, Idle)
      BY <1>1, <3>1 DEF Continue, TypeOK
    <3> QED BY <2>1, <3>2
  <2>3. CASE \/ CreateCommit(w) \/ UpdateCommit(w) \/ ClearUnavailable(w) \/ ClearStale(w)
             \/ ReopenCommit(w) \/ DeleteQuoteCommit(w)
    BY <2>1, <2>3 DEF CreateCommit, UpdateCommit, ClearUnavailable, ClearStale, ReopenCommit,
                      DeleteQuoteCommit, Finish, Continue, Decisions
  <2> QED BY <2>2, <2>3
<1>4. \A v \in Workers : Remembers(v)'
  BY <1>1, <1>3, IdleRemembers
<1> QED BY <1>2, <1>4, ShrinkingAgrees DEF SInv

\* An edit that leaves flags on the partners' offers has them on its list.
LEMMA EditsKeepStanding ==
    ASSUME OneAtATime, SInv, NEW w \in Workers,
           UpdateCommit(w) \/ ClearUnavailable(w) \/ ClearStale(w)
    PROVE  StandsButFor'
<1>1. TypeOK
  BY DEF SInv, IInv
<1>2. \A v \in Workers : v = w
  BY DEF OneAtATime
<1>3. CASE UpdateCommit(w)
  <2> DEFINE r == req[w].r
             offer == req[w].offer
  <2>1. r \in Responses /\ offer \in Offers \cup {None}
    BY <1>1, <1>3, RequestFields DEF UpdateCommit
  <2>2. ~quote.deleted => \A x \in winners : Holds(x)
    BY <1>3, AllStand DEF UpdateCommit
  <2>3. CASE r \in Live
    <3>1. resp' = [resp EXCEPT ![r] = Edited(r, offer)]
      BY <1>3, <2>3 DEF UpdateCommit
    <3>2. Edited(r, offer).state = "live"
      BY <1>1, <2>3 DEF Edited, Live, TypeOK, ResponseRows, NoRow
    <3>3. Live' = Live
      BY <1>1, <2>1, <2>3, <3>1, <3>2 DEF Live, TypeOK
    <3>4. /\ UNCHANGED <<quote, credit, crashes>> /\ winners' \subseteq winners
          /\ offer = "unavailable" => r \notin winners'
          /\ req'[w].op \in {"clearUnavailable", "findStale"} /\ req'[w].r = r
      BY <1>1, <1>3, <2>3 DEF UpdateCommit, Continue, TypeOK
    <3> SUFFICES ASSUME ~quote.deleted, NEW x \in winners'
                 PROVE  /\ BasketOf(x)' # "unavailable"
                        /\ x \in Responses => x \in Live
                        /\ x \in Credits => x \in Answered' /\ (crashes' = 0 /\ Stale(x)' => LeftTo(w, x)')
      BY <3>3, <3>4 DEF StandsButFor
    <3>5. Holds(x)
      BY <2>2, <3>4
    <3>6. CASE x \in Responses
      <4>1. CASE x = r
        <5>1. offer # "unavailable"
          BY <3>4, <4>1
        <5>2. resp'[r].offer = IF offer = None THEN resp[r].offer ELSE offer
          BY <1>1, <2>1, <2>3, <3>1 DEF Edited, Live, TypeOK, ResponseRows, NoRow
        <5> QED BY <3>5, <3>6, <4>1, <5>1, <5>2, SetsAssumption DEF Holds, BasketOf
      <4>2. CASE x # r
        BY <1>1, <3>1, <3>5, <3>6, <4>2, SetsAssumption DEF Holds, BasketOf, TypeOK
      <4> QED BY <4>1, <4>2
    <3>7. CASE x \in Credits
      <4>1. x \notin Responses /\ BasketOf(x)' = BasketOf(x) /\ Answered' = Answered
        BY <3>4, <3>7, SetsAssumption DEF BasketOf, Answered
      <4>2. x \in Answered /\ (crashes = 0 => ~Stale(x))
        BY <3>5, <3>7 DEF Holds
      <4>3. crashes = 0 /\ Stale(x)' => credit[x].origin = r
        BY <1>1, <2>1, <3>1, <3>3, <3>4, <4>2 DEF Stale, Live, TypeOK
      <4>4. crashes' = 0 /\ Stale(x)' => LeftTo(w, x)'
        BY <3>4, <4>3 DEF LeftTo
      <4> QED BY <3>5, <4>1, <4>2, <4>4 DEF Holds
    <3> QED BY <1>1, <3>4, <3>6, <3>7 DEF TypeOK, Candidates
  <2>4. CASE r \notin Live
    BY <1>3, <2>2, <2>4, SameRows DEF UpdateCommit, StandsButFor, Holds
  <2> QED BY <2>3, <2>4
<1>4. CASE ClearUnavailable(w)
  <2>1. /\ UNCHANGED <<quote, resp, credit, crashes>> /\ winners' = winners \ CreditsOf(req[w].r)
        /\ req[w].op = "clearUnavailable"
    BY <1>4 DEF ClearUnavailable
  <2>2. \A x \in winners', v \in Workers : x \in Answered => ~LeftTo(v, x)
    BY <1>2, <2>1 DEF LeftTo, CreditsOf, Answered
  <2> QED BY <2>1, <2>2, SameRows DEF SInv, StandsButFor
<1>5. CASE ClearStale(w)
  <2>1. /\ UNCHANGED <<quote, resp, credit, crashes>> /\ winners' = winners \ req[w].ids
        /\ req[w].op = "clearStale"
    BY <1>5 DEF ClearStale
  <2>2. \A x \in winners', v \in Workers : ~LeftTo(v, x)
    BY <1>2, <2>1 DEF LeftTo
  <2> QED BY <2>1, <2>2, SameRows DEF SInv, StandsButFor
<1> QED BY <1>3, <1>4, <1>5

\* A proposal that is answered again, typed in or removed leaves no flag of a
\* partner's offer that was made for what it said before.
LEMMA AnswersKeepStanding ==
    ASSUME OneAtATime, SInv, NEW w \in Workers,
           \/ \E r \in Responses, offer \in Offers : PortalSubmit(w, r, offer)
           \/ CreateCommit(w)
           \/ \E r \in Responses : DeleteResponse(w, r)
    PROVE  StandsButFor'
<1>1. TypeOK
  BY DEF SInv, IInv
<1>2. ~quote.deleted => \A x \in winners : Holds(x)
  BY AllStand DEF PortalSubmit, CreateCommit, DeleteResponse, Idle
<1>3. ASSUME NEW r \in Responses, NEW x, Holds(x), x \in Candidates, x # r, UNCHANGED <<credit, crashes>>,
             crashes = 0 /\ x \in Credits => credit[x].origin # r,
             \A p \in Responses \ {r} : resp'[p] = resp[p]
      PROVE  Holds(x)'
  <2>1. CASE x \in Responses
    BY <1>3, <2>1, SetsAssumption DEF Holds, BasketOf, Live
  <2>2. CASE x \in Credits
    <3>1. /\ x \in Answered /\ x \in Answered'
          /\ crashes = 0 => ~Stale(x) /\ credit[x].origin \in Live
      BY <1>3, <2>2 DEF Holds, Answered, Stale
    <3>2. crashes = 0 => ~Stale(x)'
      BY <1>3, <2>2, <3>1 DEF Stale, Live
    <3> QED BY <1>3, <2>2, <3>1, <3>2, SetsAssumption DEF Holds, BasketOf
  <2> QED BY <1>3, <2>1, <2>2 DEF Candidates
<1>4. \A r \in Responses : \A x \in Unflagged(r) :
         Holds(x) /\ x \in Credits => credit[x].origin # r
  BY DEF Unflagged, CreditsOf, Holds, Answered
<1>5. \A r \in Responses, x \in winners :
         Holds(x) /\ r \notin Live => x # r /\ (crashes = 0 /\ x \in Credits => credit[x].origin # r)
  BY DEF Holds, Stale
<1>6. ~quote'.deleted => \A x \in winners' : Holds(x)'
  <2>1. CASE \E r \in Responses, offer \in Offers : PortalSubmit(w, r, offer)
    <3>1. PICK r \in Responses, offer \in Offers : PortalSubmit(w, r, offer)
      BY <2>1
    <3>2. \A p \in Responses \ {r} : resp'[p] = resp[p]
      BY <1>1, <3>1 DEF PortalSubmit, TypeOK
    <3>3. UNCHANGED <<quote, credit, crashes>> /\ winners' = Unflagged(r)
      BY <3>1 DEF PortalSubmit
    <3>4. \A x \in winners' : x \in winners /\ x # r /\ x \in Candidates
      BY <1>1, <3>3 DEF Unflagged, TypeOK
    <3> QED BY <1>2, <1>3, <1>4, <3>2, <3>3, <3>4
  <2>2. CASE CreateCommit(w)
    <3> DEFINE r == req[w].r
    <3>1. r \in Responses /\ UNCHANGED <<quote, credit, crashes>>
      BY <1>1, <2>2, RequestFields DEF CreateCommit
    <3>2. CASE CreateMatches(req[w])
      <4>1. r \notin Live
        BY <3>2 DEF CreateMatches, Live
      <4>2. \A p \in Responses \ {r} : resp'[p] = resp[p]
        BY <1>1, <2>2, <3>2 DEF CreateCommit, TypeOK
      <4>3. winners' \subseteq winners /\ winners \subseteq Candidates
        BY <1>1, <2>2 DEF CreateCommit, Restored, TypeOK
      <4> QED BY <1>2, <1>3, <1>5, <3>1, <4>1, <4>2, <4>3
    <3>3. CASE ~CreateMatches(req[w])
      BY <1>2, <2>2, <3>1, <3>3, SameRows DEF CreateCommit, Holds
    <3> QED BY <3>2, <3>3
  <2>3. CASE \E r \in Responses : DeleteResponse(w, r)
    <3>1. PICK r \in Responses : DeleteResponse(w, r)
      BY <2>3
    <3>2. \A p \in Responses \ {r} : resp'[p] = resp[p]
      BY <1>1, <3>1 DEF DeleteResponse, TypeOK
    <3>3. UNCHANGED <<quote, credit, crashes>> /\ winners' = Unflagged(r)
      BY <3>1 DEF DeleteResponse
    <3>4. \A x \in winners' : x \in winners /\ x # r /\ x \in Candidates
      BY <1>1, <3>3 DEF Unflagged, TypeOK
    <3> QED BY <1>2, <1>3, <1>4, <3>2, <3>3, <3>4
  <2> QED BY <2>1, <2>2, <2>3
<1> QED BY <1>6 DEF StandsButFor, Holds

\* An offer that is sent, priced or revoked is not flagged afterwards.
LEMMA SupportKeepsStanding ==
    ASSUME OneAtATime, SInv, NEW w \in Workers, Support(w)
    PROVE  StandsButFor'
<1>1. PICK c \in Credits :
         \/ \E r \in Responses : Forward(w, c, r)
         \/ \E price \in Prices : PartnerSubmit(w, c, price)
         \/ Revoke(w, c)
  BY DEF Support
<1>2. TypeOK /\ req[w] = Idle
  BY <1>1 DEF SInv, IInv, Forward, PartnerSubmit, Revoke
<1>3. ~quote.deleted => \A x \in winners : Holds(x)
  BY <1>2, AllStand DEF Idle
<1>4. /\ UNCHANGED <<quote, resp, crashes>> /\ winners' \subseteq winners
      /\ \A d \in Credits \ {c} : credit'[d] = credit[d]
  BY <1>1, <1>2 DEF Forward, PartnerSubmit, Revoke, TypeOK
<1>5. ~quote.deleted => c \notin winners'
  <2>1. CASE \E r \in Responses : Forward(w, c, r)
    BY <1>3, <1>4, <2>1 DEF Forward, Holds, Answered, NoRow
  <2>2. CASE ~ \E r \in Responses : Forward(w, c, r)
    BY <1>1, <2>2 DEF PartnerSubmit, Revoke
  <2> QED BY <2>1, <2>2
<1>6. ASSUME ~quote.deleted, NEW x \in winners' PROVE Holds(x)'
  <2>1. Holds(x) /\ x # c /\ x \in Candidates
    BY <1>2, <1>3, <1>4, <1>5, <1>6 DEF TypeOK
  <2>2. CASE x \in Responses
    BY <1>4, <2>1, <2>2, SetsAssumption DEF Holds, BasketOf, Live
  <2>3. CASE x \in Credits
    BY <1>4, <2>1, <2>3, SetsAssumption DEF Holds, BasketOf, Answered, Stale, Live
  <2> QED BY <2>1, <2>2, <2>3 DEF Candidates
<1> QED BY <1>4, <1>6 DEF StandsButFor, Holds

LEMMA ManagingKeepsStanding ==
    ASSUME OneAtATime, SInv, NEW w \in Workers, Close(w) \/ ReopenCommit(w) \/ DeleteQuoteCommit(w)
    PROVE  StandsButFor'
<1>1. CASE Close(w)
  <2>1. quote'.deleted = quote.deleted /\ UNCHANGED <<resp, credit, winners, req, crashes>>
    BY <1>1 DEF Close, SInv, IInv, TypeOK
  <2>2. ~quote.deleted => \A x \in winners : Holds(x)
    BY <1>1, AllStand DEF Close, Idle
  <2> QED BY <2>1, <2>2, SameRows DEF StandsButFor, Holds
<1>2. CASE ReopenCommit(w) \/ DeleteQuoteCommit(w)
  BY <1>2 DEF ReopenCommit, DeleteQuoteCommit, StandsButFor
<1> QED BY <1>1, <1>2

\* A restart leaves the flags as they are; what an edit still had to do is lost.
LEMMA CrashKeepsStanding ==
    ASSUME OneAtATime, SInv, NEW w \in Workers, Crash(w)
    PROVE  StandsButFor' /\ Agrees' /\ \A v \in Workers : Remembers(v)'
<1>1. /\ TypeOK /\ UNCHANGED <<quote, resp, credit, winners, comparisons>>
      /\ crashes' # 0 /\ Continue(w, Idle)
  BY FinishIsContinue DEF SInv, IInv, TypeOK, Crash
<1>2. \A v \in Workers : Remembers(v)'
  BY <1>1, IdleRemembers DEF Idle, Decisions
<1>3. Agrees'
  BY <1>1, ShrinkingAgrees DEF SInv
<1>4. StandsButFor'
  BY <1>1, SameRows DEF SInv, StandsButFor
<1> QED BY <1>2, <1>3, <1>4

LEMMA NextKeepsSInv ==
    ASSUME OneAtATime, SInv, Next
    PROVE  SInv'
<1>1. IInv'
  BY NextKeepsTypes, NextKeepsOneWinner DEF IInv, SInv
<1>2. PICK w \in Workers :
         \/ CompareRead(w) \/ ApproveRead(w) \/ ManualRead(w)
         \/ \E r \in Responses, offer \in Offers : CreateRead(w, r, offer)
         \/ \E r \in Responses, offer \in Offers \cup {None} : UpdateRead(w, r, offer)
         \/ FindStale(w) \/ ReopenRead(w) \/ DeleteQuoteRead(w)
         \/ CompareCommit(w) \/ ApproveCommit(w) \/ ManualCommit(w)
         \/ \E r \in Responses, offer \in Offers : PortalSubmit(w, r, offer)
         \/ CreateCommit(w) \/ UpdateCommit(w) \/ ClearUnavailable(w) \/ ClearStale(w)
         \/ \E r \in Responses : DeleteResponse(w, r)
         \/ Support(w)
         \/ Close(w) \/ ReopenCommit(w) \/ DeleteQuoteCommit(w) \/ Crash(w)
  BY StepsOfNext
<1>3. StandsButFor'
  BY <1>2, ReadsKeepStanding, DecisionsKeepStanding, EditsKeepStanding, AnswersKeepStanding,
     SupportKeepsStanding, ManagingKeepsStanding,
     CrashKeepsStanding
<1>4. Agrees' /\ \A v \in Workers : Remembers(v)'
  BY <1>2, DecisionsRemember, OtherReadsRemember, ReadsKeepStanding, DecisionsKeepStanding,
     OthersLowerFlags, CrashKeepsStanding
<1> QED BY <1>1, <1>3, <1>4 DEF SInv

LEMMA SerialInvariance == ASSUME OneAtATime PROVE Spec => []SInv
<1>1. SInv /\ [Next]_vars => SInv'
  <2> SUFFICES ASSUME SInv, UNCHANGED vars PROVE SInv'
    BY NextKeepsSInv
  <2>1. IInv'
    BY DEF vars, SInv, IInv, TypeOK, RemovalFindsRows, AtMostOneWinner, VisibleWinners, Live
  <2>2. StandsButFor' /\ Agrees'
    BY SameRows DEF vars, SInv, StandsButFor, Agrees, LeftTo
  <2>3. ASSUME NEW w \in Workers PROVE Remembers(w)'
    BY SameRows DEF vars, SInv, Remembers, Stands
  <2> QED BY <2>1, <2>2, <2>3 DEF SInv
<1> QED BY <1>1, InitSInv, PTL DEF Spec

\* Handlers that run one after the other leave no flag on a proposal that was
\* removed or has an unavailable item, nor on a revoked partner offer, whatever
\* restarts cut short; on a stale one only if there was a restart.
THEOREM WinnersStand == OneAtATime => (Spec => []WinnerStillStands)
<1> SUFFICES ASSUME OneAtATime PROVE Spec => []WinnerStillStands
  OBVIOUS
<1>1. SInv => WinnerStillStands
  <2> SUFFICES ASSUME SInv, Quiet, ~quote.deleted PROVE \A x \in winners : Holds(x)
    BY DEF WinnerStillStands, Holds
  <2>1. \A w \in Workers, c \in Credits : ~LeftTo(w, c)
    BY DEF Quiet, Idle, LeftTo
  <2> QED BY <2>1 DEF SInv, StandsButFor, Holds
<1> QED BY <1>1, SerialInvariance, PTL

\* Handlers that run one after the other leave the latest comparison telling
\* what the flags tell: its winner, its approval and its flagged row.
THEOREM ComparisonsAgree == OneAtATime => (Spec => []LatestComparisonAgrees)
<1> SUFFICES ASSUME OneAtATime PROVE Spec => []LatestComparisonAgrees
  OBVIOUS
<1>1. SInv => LatestComparisonAgrees
  BY DEF SInv, Agrees, LatestComparisonAgrees
<1> QED BY <1>1, SerialInvariance, PTL

\* Of handlers that run one after the other, only an approval and the choice of
\* a manager flag a candidate above the threshold.
THEOREM HighNeedsManager == OneAtATime => (Spec => AboveThresholdNeedsManager)
<1> SUFFICES ASSUME OneAtATime PROVE Spec => AboveThresholdNeedsManager
  OBVIOUS
<1> DEFINE Entitled == \A x \in winners' \ winners :
             AboveThreshold(x) =>
               \E w \in Workers :
                 /\ req'[w] = Idle
                 /\ \/ req[w].op = "approve"
                    \/ req[w].op = "manual" /\ req[w].manager
<1>1. SInv /\ [Next]_vars => [Entitled]_vars
  <2> SUFFICES ASSUME SInv, Next, NEW x \in winners' \ winners, AboveThreshold(x)
               PROVE  \E w \in Workers :
                        /\ req'[w] = Idle
                        /\ \/ req[w].op = "approve"
                           \/ req[w].op = "manual" /\ req[w].manager
    OBVIOUS
  <2>1. PICK w \in Workers : CompareCommit(w) \/ ApproveCommit(w) \/ ManualCommit(w)
    <3>1. \A w \in Workers : Crash(w) => UNCHANGED winners
      BY DEF Crash
    <3> QED BY <3>1, StepsOfNext, ReadsKeepTypes, OthersLowerFlags DEF SInv
  <2>2. x = req[w].winner /\ req'[w] = Idle
    BY <2>1, DecisionsStand DEF SInv, IInv, TypeOK, Finish
  <2>3. ~CompareCommit(w)
    BY <2>2 DEF CompareCommit, Cleared, SInv, Remembers
  <2> QED BY <2>1, <2>2, <2>3 DEF ApproveCommit, ManualCommit, SInv, Remembers
<1> QED BY <1>1, SerialInvariance, PTL DEF Spec, AboveThresholdNeedsManager
===============================================================================
