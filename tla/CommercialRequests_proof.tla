----------------------- MODULE CommercialRequests_proof -----------------------
(***************************************************************************)
(* Proofs about CommercialRequests: types, links that are as agreed, mails *)
(* that tell the truth, locks that are not waited for in a circle, and     *)
(* that it all implements RequestBook, for any number of requests, lines,  *)
(* quotes, quote items and workers, and any number of changes to quotes.   *)
(***************************************************************************)
EXTENDS CommercialRequests, FiniteSetTheorems, TLAPS

-----------------------------------------------------------------------------
(* The inductive invariant, as predicates of what a worker remembers.      *)

\* Locks are taken upwards.
Upwards(x) == x.pc = "createLock" => \A h \in x.held, n \in x.requests \ x.held : h < n

\* What was read of the lines under the lock is still so; the quote items that
\* were found for them are still theirs, edited or gone.
Fresh(x) ==
    /\ x.pc \in {"linkQuote", "linkRequest", "linkCommit"} => x.quote \in Quotes
    /\ x.pc \in {"createCommit", "linkCommit"} =>
          /\ x.held = x.requests
          /\ \A l \in Lines : RequestOf[l] \in x.requests => x.seen[l] = catalogOf[l]
    /\ x.pc \in {"createLock", "createCommit"} => \A l \in Lines : x.found[l] = "none"
    /\ x.pc = "linkCommit" => \A l \in Lines : x.found[l] # "none" =>
          \/ row[x.found[l]].quote = "gone"
          \/ /\ row[x.found[l]].quote = x.quote
             /\ row[x.found[l]].item = x.seen[l] \/ x.found[l] \in edited

\* What is still to be told is true and has not been told.
True(s, t) == IF t = "quoting" THEN s # "pending" ELSE s = t
Untold(x) == x.pc = "notify" =>
    /\ x.told \in {"quoting", "fulfilled", "rejected"}
    /\ \A r \in x.requests : mailed[r][x.told] = 0 /\ True(status[r], x.told)

\* Two workers hold different locks and have different things to tell.
Apart(x, y) ==
    /\ x.held \cap y.held = {}
    /\ x.pc = "notify" /\ y.pc = "notify" /\ x.requests \cap y.requests # {} => x.told # y.told

RowsInQuotes == \A l \in Lines : rowOf[l] # "none" => row[rowOf[l]].quote \in Quotes
NonePending == \A r \in Requests : mailed[r]["pending"] = 0

Inv ==
    /\ TypeOK
    /\ \A w \in Workers : Upwards(req[w]) /\ Fresh(req[w]) /\ Untold(req[w])
    /\ \A w, v \in Workers : w # v => Apart(req[w], req[v])
    /\ RowsInQuotes /\ NonePending
    /\ LinkedAsAgreed /\ MailsTellTheTruth

\* What TypeOK says of the locks of a worker.
Locking(x) ==
    /\ x.held \subseteq x.requests
    /\ x.held # {} => x.pc \in {"createLock", "createCommit", "linkCommit"}
    /\ x.quoteHeld # {} => x.pc \in {"linkRequest", "linkCommit"}

\* What TypeOK says of the rest.
DataTyped ==
    /\ status \in [Requests -> Statuses]
    /\ quoteOf \in [Requests -> Quotes \cup {"none"}]
    /\ catalogOf \in [Lines -> Catalog \cup {"none"}]
    /\ rowOf \in [Lines -> Rows \cup {"none"}]
    /\ quote \in [Quotes -> QuoteRows]
    /\ row \in [Rows -> ItemRows]
    /\ priced \in [Quotes -> SUBSET Rows]
    /\ edited \subseteq Rows
    /\ edits \in 0..MaxEdits
    /\ mailed \in [Requests -> [Statuses -> Nat]]

LEMMA Typing == TypeOK <=> /\ DataTyped /\ req \in [Workers -> Works]
                           /\ \A w \in Workers : Locking(req[w])
BY DEF TypeOK, DataTyped, Locking

LEMMA TypingNext == TypeOK' <=> /\ DataTyped' /\ (req \in [Workers -> Works])'
                                /\ (\A w \in Workers : Locking(req[w]))'
BY DEF TypeOK, DataTyped, Locking

-----------------------------------------------------------------------------
(* Records of workers.                                                     *)

LEMMA IdleTyped == Idle \in Works
BY DEF Idle, Works, Nothing, Stages, Statuses

\* A worker with nothing in hand holds, has read and has to tell nothing.
LEMMA IdleGood ==
    /\ Locking(Idle) /\ Upwards(Idle) /\ Fresh(Idle) /\ Untold(Idle)
    /\ \A x : x.held \cap Idle.held = {} /\ Apart(Idle, x) /\ Apart(x, Idle)
BY DEF Idle, Locking, Upwards, Fresh, Untold, Apart

LEMMA BecomesFrame ==
    ASSUME req \in [Workers -> Works], NEW w \in Workers, NEW x \in Works, Becomes(w, x)
    PROVE  /\ req' \in [Workers -> Works]
           /\ req'[w] = x
           /\ \A v \in Workers \ {w} : req'[v] = req[v]
BY DEF Becomes

\* The record of a worker that is to tell of a change.
LEMMA TellsFrame ==
    ASSUME req \in [Workers -> Works], NEW w \in Workers, NEW rs \in SUBSET Requests,
           NEW s \in Statuses, Tells(w, rs, s)
    PROVE  /\ req' \in [Workers -> Works]
           /\ \A v \in Workers \ {w} : req'[v] = req[v]
           /\ req'[w].pc = "notify" /\ req'[w].requests = rs /\ req'[w].told = s
           /\ req'[w].held = {} /\ req'[w].quoteHeld = {}
<1> DEFINE x == [Idle EXCEPT !.pc = "notify", !.requests = rs, !.told = s]
<1>1. x \in Works
  BY DEF Idle, Works, Nothing, Stages
<1>2. x.pc = "notify" /\ x.requests = rs /\ x.told = s /\ x.held = {} /\ x.quoteHeld = {}
  BY DEF Idle
<1>3. Becomes(w, x)
  BY DEF Tells
<1> HIDE DEF x
<1> QED
  BY <1>1, <1>2, <1>3, BecomesFrame

-----------------------------------------------------------------------------
(* What has to be shown of a step.                                         *)

DataInv ==
    /\ DataTyped /\ RowsInQuotes /\ NonePending
    /\ LinkedAsAgreed /\ MailsTellTheTruth

\* Of a step of one worker: the data, what the worker remembers, and that what
\* the others remember is not overtaken.
LEMMA StepInv ==
    ASSUME Inv, NEW w \in Workers, DataInv',
           req' \in [Workers -> Works],
           \A v \in Workers \ {w} : req'[v] = req[v],
           Locking(req'[w]), Upwards(req'[w]), Fresh(req[w])', Untold(req[w])',
           \A v \in Workers \ {w} : Apart(req'[w], req[v]) /\ Apart(req[v], req'[w]),
           \A v \in Workers \ {w} : Fresh(req[v])' /\ Untold(req[v])'
    PROVE  Inv'
<1>1. \A v \in Workers : Locking(req'[v]) /\ Upwards(req'[v])
  <2>1. \A v \in Workers : Locking(req[v]) /\ Upwards(req[v])
    BY Typing DEF Inv
  <2> QED
    BY <2>1
<1>2. TypeOK'
  BY <1>1, TypingNext DEF DataInv
<1>3. \A v \in Workers : Fresh(req[v])' /\ Untold(req[v])'
  OBVIOUS
<1>4. \A u, v \in Workers : u # v => Apart(req'[u], req'[v])
  <2>1. \A u, v \in Workers : u # v => Apart(req[u], req[v])
    BY DEF Inv
  <2> QED
    BY <2>1
<1>5. /\ (\A v \in Workers : Upwards(req[v]))'
      /\ (\A u, v \in Workers : u # v => Apart(req[u], req[v]))'
  BY <1>1, <1>4 DEF Upwards, Apart
<1> QED
  BY <1>2, <1>3, <1>5 DEF Inv, DataInv

\* Of a step that leaves the workers alone.
LEMMA AloneInv ==
    ASSUME Inv, DataInv', UNCHANGED req,
           \A v \in Workers : Fresh(req[v])' /\ Untold(req[v])'
    PROVE  Inv'
<1>1. TypeOK'
  <2>1. \A v \in Workers : Locking(req[v])
    BY Typing DEF Inv
  <2>2. (\A v \in Workers : Locking(req[v]))'
    BY <2>1 DEF Locking
  <2>3. req \in [Workers -> Works]
    BY Typing DEF Inv
  <2> QED
    BY <2>2, <2>3, TypingNext DEF DataInv
<1>2. (\A v \in Workers : Upwards(req[v]))'
  BY DEF Inv, Upwards
<1>3. (\A u, v \in Workers : u # v => Apart(req[u], req[v]))'
  BY DEF Inv, Apart
<1> QED
  BY <1>1, <1>2, <1>3 DEF Inv, DataInv

LEMMA DataKept ==
    ASSUME Inv, UNCHANGED <<requestVars, quoteVars, mailed>>
    PROVE  /\ DataInv'
           /\ \A v \in Workers : req'[v] = req[v] => Fresh(req[v])' /\ Untold(req[v])'
<1> USE DEF requestVars, quoteVars
<1>1. DataInv
  BY Typing DEF Inv, DataInv
<1>2. DataInv'
  BY <1>1 DEF DataInv, DataTyped, RowsInQuotes, NonePending, LinkedAsAgreed, MailsTellTheTruth
<1>3. ASSUME NEW v \in Workers, req'[v] = req[v] PROVE Fresh(req[v])' /\ Untold(req[v])'
  <2>1. Fresh(req[v]) /\ Untold(req[v])
    BY DEF Inv
  <2>2. Fresh(req[v])'
    BY <1>3, <2>1 DEF Fresh
  <2>3. Untold(req[v])'
    BY <1>3, <2>1 DEF Untold
  <2> QED
    BY <2>2, <2>3
<1> QED
  BY <1>2, <1>3

\* Of a step of one worker that only changes what it remembers.
LEMMA QuietInv ==
    ASSUME Inv, UNCHANGED <<requestVars, quoteVars, mailed>>,
           NEW w \in Workers, NEW x \in Works, Becomes(w, x),
           Locking(x), Upwards(x), Fresh(x), Untold(x),
           \A v \in Workers \ {w} : Apart(x, req[v]) /\ Apart(req[v], x)
    PROVE  Inv'
<1>1. /\ req' \in [Workers -> Works] /\ req'[w] = x
      /\ \A v \in Workers \ {w} : req'[v] = req[v]
  <2>1. req \in [Workers -> Works]
    BY Typing DEF Inv
  <2> QED
    BY <2>1, BecomesFrame
<1>2. Fresh(req[w])' /\ Untold(req[w])'
  <2>1. Fresh(req[w])'
    BY <1>1 DEF Fresh, requestVars, quoteVars
  <2>2. Untold(req[w])'
    BY <1>1 DEF Untold, requestVars
  <2> QED
    BY <2>1, <2>2
<1> QED
  BY <1>1, <1>2, DataKept, StepInv

\* A worker that is done, or gives up.
LEMMA QuitInv ==
    ASSUME Inv, UNCHANGED <<requestVars, quoteVars, mailed>>, NEW w \in Workers, Becomes(w, Idle)
    PROVE  Inv'
BY IdleTyped, IdleGood, QuietInv

-----------------------------------------------------------------------------
(* Steps that only change what a worker remembers.                         *)

LEMMA WorkerFacts ==
    ASSUME Inv, NEW w \in Workers
    PROVE  /\ req[w] \in Works
           /\ Locking(req[w]) /\ Upwards(req[w]) /\ Fresh(req[w]) /\ Untold(req[w])
           /\ \A v \in Workers \ {w} : Apart(req[w], req[v]) /\ Apart(req[v], req[w])
           /\ \A v \in Workers : req[v] \in Works
BY Typing DEF Inv

LEMMA CreateStartInv ==
    ASSUME Inv, NEW w \in Workers, CreateStart(w)
    PROVE  Inv'
<1>1. PICK rs \in SUBSET Requests : Becomes(w, [Idle EXCEPT !.pc = "createLock", !.requests = rs])
  BY DEF CreateStart
<1> DEFINE x == [Idle EXCEPT !.pc = "createLock", !.requests = rs]
<1>2. x \in Works
  BY IdleTyped DEF Works, Stages
<1>3. /\ x.pc = "createLock" /\ x.held = {} /\ x.quoteHeld = {}
      /\ \A l \in Lines : x.found[l] = "none"
  BY DEF Idle, Nothing
<1>4. Becomes(w, x)
  BY <1>1
<1> HIDE DEF x
<1>5. Locking(x) /\ Upwards(x) /\ Fresh(x) /\ Untold(x)
  BY <1>3 DEF Locking, Upwards, Fresh, Untold
<1>6. \A v \in Workers \ {w} : Apart(x, req[v]) /\ Apart(req[v], x)
  BY <1>3 DEF Apart
<1>7. UNCHANGED <<requestVars, quoteVars, mailed>>
  BY DEF CreateStart
<1> QED
  BY <1>2, <1>4, <1>5, <1>6, <1>7, QuietInv

LEMMA CreateLockInv ==
    ASSUME Inv, NEW w \in Workers, CreateLock(w)
    PROVE  Inv'
<1>1. PICK r \in NextLock(w) : Free(r) /\ Becomes(w, [req[w] EXCEPT !.held = @ \cup {r}])
  BY DEF CreateLock
<1> DEFINE x == [req[w] EXCEPT !.held = @ \cup {r}]
<1>2. r \in req[w].requests \ req[w].held /\ r \in Requests
  BY WorkerFacts DEF NextLock, Works
<1>3. x \in Works
  BY <1>2, WorkerFacts DEF Works
<1>4. /\ x.pc = "createLock" /\ x.requests = req[w].requests
      /\ x.held = req[w].held \cup {r} /\ x.quoteHeld = req[w].quoteHeld
      /\ x.found = req[w].found /\ req[w].pc = "createLock"
  BY WorkerFacts DEF Works, CreateLock, At
<1>5. Becomes(w, x)
  BY <1>1
<1> HIDE DEF x
<1>6. Locking(x)
  <2>1. req[w].pc = "createLock" /\ Locking(req[w])
    BY WorkerFacts DEF CreateLock, At
  <2> QED
    BY <1>2, <1>4, <2>1 DEF Locking
<1>7. Upwards(x)
  <2> SUFFICES ASSUME NEW h \in x.held, NEW n \in x.requests \ x.held PROVE h < n
    BY DEF Upwards
  <2>1. n \in req[w].requests \ req[w].held /\ n # r /\ n \in Requests
    BY <1>4, WorkerFacts DEF Works
  <2>2. CASE h = r
    <3>1. r <= n
      BY <2>1, <1>1 DEF NextLock
    <3>2. r \in Nat /\ n \in Nat
      BY <1>2, <2>1, CommercialRequestsAssumption
    <3> QED
      BY <2>1, <2>2, <3>1, <3>2
  <2>3. CASE h \in req[w].held
    BY <2>1, <2>3, WorkerFacts DEF Upwards, CreateLock, At
  <2> QED
    BY <1>4, <2>2, <2>3
<1>8. Fresh(x) /\ Untold(x)
  <2>1. Fresh(req[w])
    BY WorkerFacts
  <2> QED
    BY <1>4, <2>1 DEF Fresh, Untold
<1>9. \A v \in Workers \ {w} : Apart(x, req[v]) /\ Apart(req[v], x)
  <2> SUFFICES ASSUME NEW v \in Workers \ {w} PROVE Apart(x, req[v]) /\ Apart(req[v], x)
    OBVIOUS
  <2>1. r \notin req[v].held
    BY <1>1 DEF Free
  <2>2. req[w].held \cap req[v].held = {}
    BY WorkerFacts DEF Apart
  <2> QED
    BY <1>4, <2>1, <2>2 DEF Apart
<1>10. UNCHANGED <<requestVars, quoteVars, mailed>>
  BY DEF CreateLock
<1> QED
  BY <1>3, <1>5, <1>6, <1>7, <1>8, <1>9, <1>10, QuietInv

\* What a transaction reads of its lines is the items they are for.
LEMMA ReadFacts ==
    ASSUME Inv, NEW w \in Workers
    PROVE  /\ Read(w) \in [Lines -> Catalog \cup {"none"}]
           /\ \A l \in Lines : RequestOf[l] \in req[w].requests => Read(w)[l] = catalogOf[l]
<1>1. catalogOf \in [Lines -> Catalog \cup {"none"}]
  BY Typing DEF Inv, DataTyped
<1> QED
  BY <1>1 DEF Read

LEMMA CreateReadInv ==
    ASSUME Inv, NEW w \in Workers, CreateRead(w)
    PROVE  Inv'
<1>1. PICK items \in SUBSET Catalog :
        Becomes(w, [req[w] EXCEPT !.pc = "createCommit", !.items = items, !.seen = Read(w)])
  BY DEF CreateRead
<1> DEFINE seen == Read(w)
           x == [req[w] EXCEPT !.pc = "createCommit", !.items = items, !.seen = seen]
<1>2. /\ seen \in [Lines -> Catalog \cup {"none"}]
      /\ \A l \in Lines : RequestOf[l] \in req[w].requests => seen[l] = catalogOf[l]
  BY ReadFacts
<1>3. Becomes(w, x)
  BY <1>1
<1> HIDE DEF seen
<1>4. x \in Works
  <2>1. req[w] \in Works
    BY WorkerFacts
  <2> QED
    BY <1>2, <2>1 DEF Works, Stages
<1>5. /\ x.pc = "createCommit" /\ x.requests = req[w].requests /\ x.seen = seen
      /\ x.held = req[w].held /\ x.quoteHeld = req[w].quoteHeld /\ x.found = req[w].found
  BY WorkerFacts DEF Works
<1> HIDE DEF x
<1>6. Locking(x) /\ Upwards(x) /\ Untold(x)
  <2>1. req[w].pc = "createLock" /\ Locking(req[w])
    BY WorkerFacts DEF CreateRead, At
  <2> QED
    BY <1>5, <2>1 DEF Locking, Upwards, Untold
<1>7. Fresh(x)
  <2>1. req[w].held = req[w].requests
    BY DEF CreateRead
  <2>2. \A l \in Lines : req[w].found[l] = "none"
    BY WorkerFacts DEF Fresh, CreateRead, At
  <2> QED
    BY <1>2, <1>5, <2>1, <2>2 DEF Fresh
<1>8. \A v \in Workers \ {w} : Apart(x, req[v]) /\ Apart(req[v], x)
  BY <1>5, WorkerFacts DEF Apart
<1>9. UNCHANGED <<requestVars, quoteVars, mailed>>
  BY DEF CreateRead
<1> QED
  BY <1>3, <1>4, <1>6, <1>7, <1>8, <1>9, QuietInv

LEMMA LinkStartInv ==
    ASSUME Inv, NEW w \in Workers, LinkStart(w)
    PROVE  Inv'
<1>1. PICK r \in Requests, q \in Quotes :
        Becomes(w, [Idle EXCEPT !.pc = "linkQuote", !.requests = {r}, !.quote = q])
  BY DEF LinkStart
<1> DEFINE x == [Idle EXCEPT !.pc = "linkQuote", !.requests = {r}, !.quote = q]
<1>2. x \in Works
  BY IdleTyped DEF Works, Stages
<1>3. x.pc = "linkQuote" /\ x.held = {} /\ x.quoteHeld = {} /\ x.quote = q
  BY DEF Idle
<1>4. Becomes(w, x)
  BY <1>1
<1> HIDE DEF x
<1>5. Locking(x) /\ Upwards(x) /\ Fresh(x) /\ Untold(x)
  BY <1>3 DEF Locking, Upwards, Fresh, Untold
<1>6. \A v \in Workers \ {w} : Apart(x, req[v]) /\ Apart(req[v], x)
  BY <1>3 DEF Apart
<1>7. UNCHANGED <<requestVars, quoteVars, mailed>>
  BY DEF LinkStart
<1> QED
  BY <1>2, <1>4, <1>5, <1>6, <1>7, QuietInv

LEMMA LinkLockQuoteInv ==
    ASSUME Inv, NEW w \in Workers, LinkLockQuote(w)
    PROVE  Inv'
<1> DEFINE x == [req[w] EXCEPT !.pc = "linkRequest", !.quoteHeld = {req[w].quote}]
<1>1. req[w] \in Works /\ req[w].pc = "linkQuote" /\ req[w].quote \in Quotes /\ req[w].held = {}
  BY WorkerFacts DEF LinkLockQuote, At, Fresh, Locking
<1>2. x \in Works
  BY <1>1 DEF Works, Stages
<1>3. x.pc = "linkRequest" /\ x.held = {} /\ x.quote \in Quotes
  BY <1>1 DEF Works
<1>4. Becomes(w, x)
  BY DEF LinkLockQuote
<1> HIDE DEF x
<1>5. Locking(x) /\ Upwards(x) /\ Fresh(x) /\ Untold(x)
  BY <1>3 DEF Locking, Upwards, Fresh, Untold
<1>6. \A v \in Workers \ {w} : Apart(x, req[v]) /\ Apart(req[v], x)
  BY <1>3 DEF Apart
<1>7. UNCHANGED <<requestVars, quoteVars, mailed>>
  BY DEF LinkLockQuote
<1> QED
  BY <1>2, <1>4, <1>5, <1>6, <1>7, QuietInv

LEMMA LinkLockRequestInv ==
    ASSUME Inv, NEW w \in Workers, LinkLockRequest(w)
    PROVE  Inv'
<1>1. PICK found \in [Lines -> Rows \cup {"none"}] :
        /\ \A l \in Lines :
              IF RequestOf[l] \in req[w].requests /\ Same(req[w].quote, l) # {}
              THEN found[l] \in Same(req[w].quote, l) ELSE found[l] = "none"
        /\ Becomes(w, [req[w] EXCEPT !.pc = "linkCommit", !.held = req[w].requests,
                                     !.seen = Read(w), !.found = found])
  BY DEF LinkLockRequest
<1> DEFINE seen == Read(w)
           x == [req[w] EXCEPT !.pc = "linkCommit", !.held = req[w].requests,
                               !.seen = seen, !.found = found]
<1>2. /\ seen \in [Lines -> Catalog \cup {"none"}]
      /\ \A l \in Lines : RequestOf[l] \in req[w].requests => seen[l] = catalogOf[l]
  BY ReadFacts
<1>3. Becomes(w, x)
  BY <1>1
<1> HIDE DEF seen
<1>4. req[w] \in Works /\ req[w].pc = "linkRequest" /\ req[w].quote \in Quotes
  BY WorkerFacts DEF LinkLockRequest, At, Fresh
<1>5. x \in Works
  BY <1>2, <1>4 DEF Works, Stages
<1>6. /\ x.pc = "linkCommit" /\ x.requests = req[w].requests /\ x.held = req[w].requests
      /\ x.seen = seen /\ x.found = found /\ x.quote = req[w].quote
  BY <1>4 DEF Works
<1> HIDE DEF x
<1>7. Locking(x) /\ Upwards(x) /\ Untold(x)
  BY <1>6 DEF Locking, Upwards, Untold
<1>8. Fresh(x)
  <2>1. \A l \in Lines : found[l] # "none" =>
          row[found[l]].quote = req[w].quote /\ row[found[l]].item = seen[l]
    BY <1>1, <1>2 DEF Same, RowsOf
  <2> QED
    BY <1>2, <1>4, <1>6, <2>1 DEF Fresh
<1>9. \A v \in Workers \ {w} : Apart(x, req[v]) /\ Apart(req[v], x)
  <2>1. \A v \in Workers : req[w].requests \cap req[v].held = {}
    BY DEF LinkLockRequest, Free
  <2> QED
    BY <1>6, <2>1 DEF Apart
<1>10. UNCHANGED <<requestVars, quoteVars, mailed>>
  BY DEF LinkLockRequest
<1> QED
  BY <1>3, <1>5, <1>7, <1>8, <1>9, <1>10, QuietInv

\* Fulfilling holds no lock and reads nothing that the invariant speaks of.
LEMMA FulfillingInv ==
    ASSUME Inv, NEW w \in Workers, NEW x \in Works, Becomes(w, x),
           x.pc \in {"fulfillPrice", "fulfillCommit"}, x.held = {}, x.quoteHeld = {},
           UNCHANGED <<requestVars, quoteVars, mailed>>
    PROVE  Inv'
<1>1. Locking(x) /\ Upwards(x) /\ Fresh(x) /\ Untold(x)
  BY DEF Locking, Upwards, Fresh, Untold
<1>2. \A v \in Workers \ {w} : Apart(x, req[v]) /\ Apart(req[v], x)
  BY DEF Apart
<1> QED
  BY <1>1, <1>2, QuietInv

LEMMA FulfillStartInv ==
    ASSUME Inv, NEW w \in Workers, FulfillStart(w)
    PROVE  Inv'
<1>1. PICK r \in Requests :
        \/ Becomes(w, [Idle EXCEPT !.pc = "fulfillCommit", !.requests = {r}])
        \/ Becomes(w, [Idle EXCEPT !.pc = "fulfillPrice", !.requests = {r}, !.quote = quoteOf[r],
                         !.found = [l \in Lines |-> IF l \in LinesOf(r) THEN rowOf[l] ELSE "none"]])
  BY DEF FulfillStart
<1>2. UNCHANGED <<requestVars, quoteVars, mailed>>
  BY DEF FulfillStart
<1>3. ASSUME NEW x, x = [Idle EXCEPT !.pc = "fulfillCommit", !.requests = {r}], Becomes(w, x)
      PROVE  Inv'
  <2>1. x \in Works /\ x.pc = "fulfillCommit" /\ x.held = {} /\ x.quoteHeld = {}
    BY <1>3, IdleTyped DEF Works, Stages, Idle
  <2> QED
    BY <1>2, <1>3, <2>1, FulfillingInv
<1>4. ASSUME NEW x, NEW q, NEW found, q = quoteOf[r],
             found = [l \in Lines |-> IF l \in LinesOf(r) THEN rowOf[l] ELSE "none"],
             x = [Idle EXCEPT !.pc = "fulfillPrice", !.requests = {r}, !.quote = q, !.found = found],
             Becomes(w, x)
      PROVE  Inv'
  <2>1. q \in Quotes \cup {"none"} /\ rowOf \in [Lines -> Rows \cup {"none"}]
    BY <1>4, Typing DEF Inv, DataTyped
  <2>2. found \in [Lines -> Rows \cup {"none"}]
    BY <1>4, <2>1
  <2>3. x \in Works /\ x.pc = "fulfillPrice" /\ x.held = {} /\ x.quoteHeld = {}
    BY <1>4, <2>1, <2>2, IdleTyped DEF Works, Stages, Idle
  <2> QED
    BY <1>2, <1>4, <2>3, FulfillingInv
<1> QED
  BY <1>1, <1>3, <1>4

LEMMA FulfillPriceInv ==
    ASSUME Inv, NEW w \in Workers, FulfillPrice(w)
    PROVE  Inv'
<1> DEFINE x == [req[w] EXCEPT !.pc = "fulfillCommit", !.quote = "none", !.found = Nothing]
<1>1. req[w] \in Works /\ req[w].held = {} /\ req[w].quoteHeld = {}
  BY WorkerFacts DEF FulfillPrice, At, Locking
<1>2. x \in Works /\ x.pc = "fulfillCommit" /\ x.held = {} /\ x.quoteHeld = {}
  BY <1>1 DEF Works, Stages, Nothing
<1>3. Becomes(w, x) /\ UNCHANGED <<requestVars, quoteVars, mailed>>
  BY DEF FulfillPrice
<1> HIDE DEF x
<1> QED
  BY <1>2, <1>3, FulfillingInv

LEMMA AbortInv ==
    ASSUME Inv, NEW w \in Workers, Abort(w)
    PROVE  Inv'
BY QuitInv DEF Abort

-----------------------------------------------------------------------------
(* Linking.                                                                *)

\* New quote items are taken from those not in use; lines of the requests refer
\* to a new one for what they are for, or to the one found.
LEMMA LinksFacts ==
    ASSUME Inv, NEW w \in Workers, NEW q \in Quotes, NEW wanted \in SUBSET (Catalog \cup {"none"}),
           Links(w, q, wanted)
    PROVE  /\ row' \in [Rows -> ItemRows]
           /\ rowOf' \in [Lines -> Rows \cup {"none"}]
           /\ \A i \in Rows : row[i].quote # "none" => row'[i] = row[i]
           /\ \A l \in Lines : RequestOf[l] \notin req[w].requests => rowOf'[l] = rowOf[l]
           /\ \A l \in Lines : RequestOf[l] \in req[w].requests =>
                 IF req[w].seen[l] \in wanted
                 THEN /\ rowOf'[l] \in Rows
                      /\ row'[rowOf'[l]].quote = q /\ row'[rowOf'[l]].item = req[w].seen[l]
                 ELSE rowOf'[l] = req[w].found[l]
<1>1. PICK new \in SUBSET Unused : \E is \in Bijection(new, wanted), at \in [wanted -> new] :
        /\ \A c \in wanted : is[at[c]] = c
        /\ row' = [i \in Rows |-> IF i \in new THEN [quote |-> q, item |-> is[i]] ELSE row[i]]
        /\ rowOf' = [l \in Lines |->
                       IF RequestOf[l] \notin req[w].requests THEN rowOf[l]
                       ELSE IF req[w].seen[l] \in wanted THEN at[req[w].seen[l]] ELSE req[w].found[l]]
  BY DEF Links
<1>2. PICK is \in Bijection(new, wanted), at \in [wanted -> new] :
        /\ \A c \in wanted : is[at[c]] = c
        /\ row' = [i \in Rows |-> IF i \in new THEN [quote |-> q, item |-> is[i]] ELSE row[i]]
        /\ rowOf' = [l \in Lines |->
                       IF RequestOf[l] \notin req[w].requests THEN rowOf[l]
                       ELSE IF req[w].seen[l] \in wanted THEN at[req[w].seen[l]] ELSE req[w].found[l]]
  BY <1>1
<1>3. is \in [new -> wanted]
  BY DEF Bijection, Injection
<1>4. new \subseteq Rows /\ \A i \in new : row[i].quote = "none"
  BY DEF Unused, RowsOf
<1>5. row \in [Rows -> ItemRows] /\ rowOf \in [Lines -> Rows \cup {"none"}]
  BY Typing DEF Inv, DataTyped
<1>6. req[w].found \in [Lines -> Rows \cup {"none"}]
  BY WorkerFacts DEF Works
<1>7. row' \in [Rows -> ItemRows]
  <2>1. \A i \in new : [quote |-> q, item |-> is[i]] \in ItemRows
    BY <1>3 DEF ItemRows
  <2> QED
    BY <1>2, <1>5, <2>1
<1>8. \A l \in Lines : req[w].seen[l] \in wanted => at[req[w].seen[l]] \in new
  OBVIOUS
<1>9. rowOf' \in [Lines -> Rows \cup {"none"}]
  BY <1>2, <1>4, <1>5, <1>6, <1>8
<1>10. \A i \in Rows : row[i].quote # "none" => row'[i] = row[i]
  BY <1>2, <1>4
<1>11. ASSUME NEW l \in Lines, RequestOf[l] \in req[w].requests, req[w].seen[l] \in wanted
       PROVE  /\ rowOf'[l] \in Rows
              /\ row'[rowOf'[l]].quote = q /\ row'[rowOf'[l]].item = req[w].seen[l]
  <2>1. rowOf'[l] = at[req[w].seen[l]] /\ rowOf'[l] \in new /\ is[rowOf'[l]] = req[w].seen[l]
    BY <1>2, <1>8, <1>11
  <2>2. row'[rowOf'[l]] = [quote |-> q, item |-> is[rowOf'[l]]]
    BY <1>2, <1>4, <2>1
  <2> QED
    BY <1>4, <2>1, <2>2
<1>12. \A l \in Lines : RequestOf[l] \in req[w].requests /\ req[w].seen[l] \notin wanted
                        => rowOf'[l] = req[w].found[l]
  BY <1>2
<1>13. \A l \in Lines : RequestOf[l] \notin req[w].requests => rowOf'[l] = rowOf[l]
  BY <1>2
<1> QED
  BY <1>7, <1>9, <1>10, <1>11, <1>12, <1>13

\* What other workers have read outlives the linking of requests.
LEMMA OthersKept ==
    ASSUME Inv, NEW v \in Workers, req'[v] = req[v],
           UNCHANGED <<catalogOf, edited>>,
           \A i \in Rows : row[i].quote # "none" => row'[i] = row[i]
    PROVE  Fresh(req[v])'
<1>1. Fresh(req[v]) /\ req[v] \in Works
  BY WorkerFacts
<1>2. ASSUME req[v].pc = "linkCommit", NEW l \in Lines, req[v].found[l] # "none"
      PROVE  row'[req[v].found[l]] = row[req[v].found[l]]
  <2>1. req[v].found[l] \in Rows
    BY <1>1, <1>2 DEF Works
  <2>2. row[req[v].found[l]].quote # "none"
    BY <1>1, <1>2, CommercialRequestsAssumption DEF Fresh
  <2> QED
    BY <2>1, <2>2
<1> QED
  BY <1>1, <1>2 DEF Fresh

\* What is to be told of requests stays true when others are linked or come to an
\* end: only pending ones are linked, and an end is final.
LEMMA UntoldKept ==
    ASSUME Inv, NEW v \in Workers, req'[v] = req[v], UNCHANGED mailed,
           \A r \in Requests : \/ status'[r] = status[r]
                               \/ status[r] = "pending" /\ status'[r] # "pending"
                               \/ status[r] = "quoting" /\ status'[r] # "pending"
    PROVE  Untold(req[v])'
<1>1. Untold(req[v]) /\ req[v] \in Works
  BY WorkerFacts
<1>2. \A r \in req[v].requests : r \in Requests
  BY <1>1 DEF Works
<1>3. ASSUME NEW r \in Requests, NEW t \in {"quoting", "fulfilled", "rejected"}, True(status[r], t)
      PROVE  True(status'[r], t)
  BY <1>3 DEF True
<1>4. ASSUME req[v].pc = "notify", NEW r \in req[v].requests
      PROVE  mailed'[r][req[v].told] = 0 /\ True(status'[r], req[v].told)
  BY <1>1, <1>2, <1>3, <1>4 DEF Untold
<1>5. req[v].pc = "notify" => req[v].told \in {"quoting", "fulfilled", "rejected"}
  BY <1>1 DEF Untold
<1> HIDE DEF True
<1> QED
  BY <1>4, <1>5 DEF Untold, True

\* The step by which worker w changes the status of some requests, all of them
\* pending, or quoting and now at an end, and is to tell of it.
LEMMA ChangeInv ==
    ASSUME Inv, NEW w \in Workers, NEW rs \in SUBSET Requests, NEW s \in {"quoting", "fulfilled", "rejected"},
           \A r \in rs : status[r] = "pending" \/ (status[r] = "quoting" /\ s # "quoting"),
           status' = [r \in Requests |-> IF r \in rs THEN s ELSE status[r]],
           Tells(w, rs, s), UNCHANGED mailed,
           DataTyped', RowsInQuotes', LinkedAsAgreed',
           \A v \in Workers \ {w} : req'[v] = req[v] => Fresh(req[v])'
    PROVE  Inv'
<1>1. s \in Statuses /\ status \in [Requests -> Statuses] /\ req \in [Workers -> Works]
  BY Typing DEF Inv, DataTyped, Statuses
<1>2. /\ req'[w].pc = "notify" /\ req'[w].requests = rs /\ req'[w].told = s
      /\ req'[w].held = {} /\ req'[w].quoteHeld = {}
  BY <1>1, TellsFrame
<1>3. /\ req' \in [Workers -> Works]
      /\ \A v \in Workers \ {w} : req'[v] = req[v]
  BY <1>1, TellsFrame
<1>4. \A r \in Requests : r \in rs => mailed[r][s] = 0 /\ True(status'[r], s)
  <2> SUFFICES ASSUME NEW r \in rs PROVE mailed[r][s] = 0 /\ True(status'[r], s)
    OBVIOUS
  <2>1. mailed[r][s] \in Nat
    BY <1>1, Typing DEF Inv, DataTyped
  <2>2. ~ mailed[r][s] > 0
    BY DEF Inv, MailsTellTheTruth
  <2>3. status'[r] = s
    OBVIOUS
  <2> QED
    BY <2>1, <2>2, <2>3 DEF True
<1>5. \A r \in Requests : \/ status'[r] = status[r]
                          \/ status[r] = "pending" /\ status'[r] # "pending"
                          \/ status[r] = "quoting" /\ status'[r] # "pending"
  BY <1>1
<1>6. MailsTellTheTruth'
  <2> SUFFICES ASSUME NEW r \in Requests
               PROVE  /\ \A t \in Statuses : mailed[r][t] <= 1
                      /\ mailed[r]["quoting"] > 0 => status'[r] # "pending"
                      /\ \A t \in {"fulfilled", "rejected"} : mailed[r][t] > 0 => status'[r] = t
    BY DEF MailsTellTheTruth
  <2>1. /\ \A t \in Statuses : mailed[r][t] <= 1
        /\ mailed[r]["quoting"] > 0 => status[r] # "pending"
        /\ \A t \in {"fulfilled", "rejected"} : mailed[r][t] > 0 => status[r] = t
    BY DEF Inv, MailsTellTheTruth
  <2> QED
    BY <1>5, <2>1
<1>7. NonePending'
  BY DEF Inv, NonePending
<1>8. DataInv'
  BY <1>6, <1>7 DEF DataInv
<1>9. Locking(req'[w]) /\ Upwards(req'[w]) /\ Fresh(req[w])'
  BY <1>2, <1>3 DEF Locking, Upwards, Fresh
<1>10. Untold(req[w])'
  BY <1>2, <1>3, <1>4 DEF Untold, True
<1>11. ASSUME NEW v \in Workers \ {w} PROVE Apart(req'[w], req[v]) /\ Apart(req[v], req'[w])
  <2>1. req[v].pc = "notify" /\ req[v].requests \cap rs # {} => req[v].told # s
    <3> SUFFICES ASSUME req[v].pc = "notify", NEW r \in req[v].requests \cap rs, req[v].told = s
                 PROVE  FALSE
      OBVIOUS
    <3>1. True(status[r], s)
      BY WorkerFacts DEF Untold
    <3> QED
      BY <3>1 DEF True
  <2> QED
    BY <1>2, <2>1 DEF Apart
<1>12. \A v \in Workers \ {w} : Fresh(req[v])' /\ Untold(req[v])'
  BY <1>3, <1>5, UntoldKept
<1> QED
  BY <1>3, <1>8, <1>9, <1>10, <1>11, <1>12, StepInv

LEMMA LinkedInv ==
    ASSUME Inv, NEW w \in Workers, NEW q \in Quotes, NEW wanted \in SUBSET (Catalog \cup {"none"}),
           Links(w, q, wanted), req[w].pc \in {"createCommit", "linkCommit"},
           \A l \in Lines : RequestOf[l] \in req[w].requests /\ req[w].seen[l] \notin wanted
                            /\ req[w].found[l] # "none" =>
              /\ row[req[w].found[l]].quote = q
              /\ row[req[w].found[l]].item = req[w].seen[l] \/ req[w].found[l] \in edited,
           quote' \in [Quotes -> QuoteRows],
           UNCHANGED <<catalogOf, priced, edited, edits, mailed>>
    PROVE  Inv'
<1> DEFINE rs == req[w].requests
<1>1. /\ row' \in [Rows -> ItemRows]
      /\ rowOf' \in [Lines -> Rows \cup {"none"}]
      /\ \A i \in Rows : row[i].quote # "none" => row'[i] = row[i]
      /\ \A l \in Lines : RequestOf[l] \notin rs => rowOf'[l] = rowOf[l]
      /\ \A l \in Lines : RequestOf[l] \in rs =>
            IF req[w].seen[l] \in wanted
            THEN /\ rowOf'[l] \in Rows
                 /\ row'[rowOf'[l]].quote = q /\ row'[rowOf'[l]].item = req[w].seen[l]
            ELSE rowOf'[l] = req[w].found[l]
  BY LinksFacts
<1>2. /\ \A r \in rs : status[r] = "pending"
      /\ status' = [r \in Requests |-> IF r \in rs THEN "quoting" ELSE status[r]]
      /\ quoteOf' = [r \in Requests |-> IF r \in rs THEN q ELSE quoteOf[r]]
      /\ Tells(w, rs, "quoting")
  BY DEF Links
<1>3. rs \in SUBSET Requests /\ req[w].found \in [Lines -> Rows \cup {"none"}]
      /\ \A l \in Lines : RequestOf[l] \in rs => req[w].seen[l] = catalogOf[l]
  BY WorkerFacts DEF Works, Fresh
<1> HIDE DEF rs
<1>4. DataTyped
  BY Typing DEF Inv
<1>5. DataTyped'
  <2>1. status' \in [Requests -> Statuses] /\ quoteOf' \in [Requests -> Quotes \cup {"none"}]
    BY <1>2, <1>4 DEF DataTyped, Statuses
  <2> QED
    BY <1>1, <1>4, <2>1 DEF DataTyped
<1>6. RequestOf \in [Lines -> Requests] /\ "none" \notin Quotes /\ "gone" \notin Quotes /\ "none" \notin Rows
  BY CommercialRequestsAssumption
<1>7. ASSUME NEW l \in Lines, rowOf'[l] # "none"
      PROVE  /\ status'[RequestOf[l]] # "pending"
             /\ row'[rowOf'[l]].quote = quoteOf'[RequestOf[l]]
             /\ row'[rowOf'[l]].item = catalogOf[l] \/ rowOf'[l] \in edited
             /\ row'[rowOf'[l]].quote \in Quotes
  <2>1. RequestOf[l] \in Requests
    BY <1>6
  <2>2. CASE RequestOf[l] \notin rs
    <3>1. rowOf[l] # "none" /\ rowOf'[l] = rowOf[l] /\ rowOf[l] \in Rows
      BY <1>1, <1>4, <1>7, <2>2 DEF DataTyped
    <3>2. /\ status[RequestOf[l]] # "pending"
          /\ row[rowOf[l]].quote = quoteOf[RequestOf[l]]
          /\ row[rowOf[l]].item = catalogOf[l] \/ rowOf[l] \in edited
          /\ row[rowOf[l]].quote \in Quotes
      BY <3>1 DEF Inv, LinkedAsAgreed, RowsInQuotes
    <3>3. row'[rowOf'[l]] = row[rowOf[l]]
      BY <1>1, <1>6, <3>1, <3>2
    <3>4. status'[RequestOf[l]] = status[RequestOf[l]] /\ quoteOf'[RequestOf[l]] = quoteOf[RequestOf[l]]
      BY <1>2, <2>1, <2>2
    <3> QED
      BY <3>1, <3>2, <3>3, <3>4
  <2>3. CASE RequestOf[l] \in rs
    <3>1. status'[RequestOf[l]] = "quoting" /\ quoteOf'[RequestOf[l]] = q
      BY <1>2, <2>1, <2>3
    <3>2. req[w].seen[l] = catalogOf[l]
      BY <1>3, <2>3
    <3>3. CASE req[w].seen[l] \in wanted
      BY <1>1, <2>3, <3>1, <3>2, <3>3
    <3>4. CASE req[w].seen[l] \notin wanted
      <4>1. rowOf'[l] = req[w].found[l] /\ req[w].found[l] \in Rows
        BY <1>1, <1>3, <1>7, <2>3, <3>4
      <4>2. /\ row[req[w].found[l]].quote = q
            /\ row[req[w].found[l]].item = req[w].seen[l] \/ req[w].found[l] \in edited
        BY <1>6, <2>3, <3>4, <4>1 DEF rs
      <4>3. row'[rowOf'[l]] = row[req[w].found[l]]
        BY <1>1, <1>6, <4>1, <4>2
      <4> QED
        BY <3>1, <3>2, <4>1, <4>2, <4>3
    <3> QED
      BY <3>3, <3>4
  <2> QED
    BY <2>2, <2>3
<1>8. RowsInQuotes' /\ LinkedAsAgreed'
  BY <1>7 DEF RowsInQuotes, LinkedAsAgreed
<1>9. \A v \in Workers \ {w} : req'[v] = req[v] => Fresh(req[v])'
  BY <1>1, OthersKept
<1> QED
  BY <1>2, <1>3, <1>5, <1>8, <1>9, ChangeInv

LEMMA CreateCommitInv ==
    ASSUME Inv, NEW w \in Workers, CreateCommit(w)
    PROVE  Inv'
<1>1. PICK q \in Quotes : /\ quote' = [quote EXCEPT ![q].state = "open"]
                          /\ Links(w, q, req[w].items)
  BY DEF CreateCommit
<1>2. req[w].pc = "createCommit" /\ req[w].items \in SUBSET (Catalog \cup {"none"})
      /\ \A l \in Lines : req[w].found[l] = "none"
  BY WorkerFacts DEF CreateCommit, At, Works, Fresh
<1>3. quote' \in [Quotes -> QuoteRows]
  <2>1. quote \in [Quotes -> QuoteRows]
    BY Typing DEF Inv, DataTyped
  <2> QED
    BY <1>1, <2>1 DEF QuoteRows
<1>4. UNCHANGED <<catalogOf, priced, edited, edits, mailed>>
  BY DEF CreateCommit
<1> QED
  BY <1>1, <1>2, <1>3, <1>4, LinkedInv

LEMMA LinkCommitInv ==
    ASSUME Inv, NEW w \in Workers, LinkCommit(w)
    PROVE  Inv'
<1> DEFINE wanted == {req[w].seen[l] : l \in {k \in Lines :
                         RequestOf[k] \in req[w].requests /\ req[w].found[k] = "none"}}
<1>1. Links(w, req[w].quote, wanted)
  BY DEF LinkCommit
<1>2. /\ req[w].pc = "linkCommit" /\ req[w] \in Works /\ Fresh(req[w])
      /\ \A l \in Lines : req[w].found[l] # "none" => row[req[w].found[l]].quote # "gone"
  BY WorkerFacts DEF LinkCommit, At
<1>3. wanted \in SUBSET (Catalog \cup {"none"})
  BY <1>2 DEF Works
<1>4. req[w].quote \in Quotes
  BY <1>2 DEF Fresh
<1> HIDE DEF wanted
<1>5. \A l \in Lines : req[w].found[l] # "none" =>
         /\ row[req[w].found[l]].quote = req[w].quote
         /\ row[req[w].found[l]].item = req[w].seen[l] \/ req[w].found[l] \in edited
  BY <1>2 DEF Fresh
<1>6. quote' \in [Quotes -> QuoteRows] /\ UNCHANGED <<catalogOf, priced, edited, edits, mailed>>
  BY Typing DEF Inv, DataTyped, LinkCommit
<1> QED
  BY <1>1, <1>2, <1>3, <1>4, <1>5, <1>6, LinkedInv

-----------------------------------------------------------------------------
(* The end of a request, and the mails.                                    *)

\* The end of requests that are linked, or pending, leaves the links as agreed.
LEMMA EndInv ==
    ASSUME Inv, NEW w \in Workers, NEW rs \in SUBSET Requests, NEW s \in {"fulfilled", "rejected"},
           \A r \in rs : status[r] \in {"pending", "quoting"},
           status' = [r \in Requests |-> IF r \in rs THEN s ELSE status[r]],
           Tells(w, rs, s), UNCHANGED <<quoteOf, catalogOf, rowOf, quoteVars, mailed>>
    PROVE  Inv'
<1> USE DEF quoteVars
<1>1. DataTyped
  BY Typing DEF Inv
<1>2. DataTyped'
  <2>1. status' \in [Requests -> Statuses]
    BY <1>1 DEF DataTyped, Statuses
  <2> QED
    BY <1>1, <2>1 DEF DataTyped
<1>3. RowsInQuotes'
  BY DEF Inv, RowsInQuotes
<1>4. LinkedAsAgreed'
  <2> SUFFICES ASSUME NEW l \in Lines, rowOf[l] # "none"
               PROVE  /\ status'[RequestOf[l]] # "pending"
                      /\ row[rowOf[l]].quote = quoteOf[RequestOf[l]]
                      /\ row[rowOf[l]].item = catalogOf[l] \/ rowOf[l] \in edited
    BY DEF LinkedAsAgreed
  <2>1. /\ status[RequestOf[l]] # "pending"
        /\ row[rowOf[l]].quote = quoteOf[RequestOf[l]]
        /\ row[rowOf[l]].item = catalogOf[l] \/ rowOf[l] \in edited
    BY DEF Inv, LinkedAsAgreed
  <2>2. RequestOf[l] \in Requests
    BY CommercialRequestsAssumption
  <2> QED
    BY <2>1, <2>2
<1>5. \A v \in Workers \ {w} : req'[v] = req[v] => Fresh(req[v])'
  BY OthersKept
<1> QED
  BY <1>2, <1>3, <1>4, <1>5, ChangeInv

LEMMA FulfillCommitInv ==
    ASSUME Inv, NEW w \in Workers, FulfillCommit(w)
    PROVE  Inv'
<1>1. req[w].requests \in SUBSET Requests
  BY WorkerFacts DEF Works
<1>2. /\ \A r \in req[w].requests : status[r] \in {"pending", "quoting"}
      /\ status' = [r \in Requests |-> IF r \in req[w].requests THEN "fulfilled" ELSE status[r]]
      /\ Tells(w, req[w].requests, "fulfilled")
      /\ UNCHANGED <<quoteOf, catalogOf, rowOf, quoteVars, mailed>>
  BY DEF FulfillCommit, StillQuoting
<1> QED
  BY <1>1, <1>2, EndInv

LEMMA RejectInv ==
    ASSUME Inv, NEW w \in Workers, Reject(w)
    PROVE  Inv'
<1>1. PICK r \in Requests : /\ status[r] \in {"pending", "quoting"}
                            /\ status' = [status EXCEPT ![r] = "rejected"]
                            /\ Tells(w, {r}, "rejected")
                            /\ UNCHANGED <<quoteOf, catalogOf, rowOf, quoteVars, mailed>>
  BY DEF Reject
<1>2. status \in [Requests -> Statuses]
  BY Typing DEF Inv, DataTyped
<1>3. status' = [s \in Requests |-> IF s \in {r} THEN "rejected" ELSE status[s]]
  BY <1>1, <1>2
<1> QED
  BY <1>1, <1>3, EndInv

\* A mail that is sent was still to be told, and by nobody else.
LEMMA NotifyInv ==
    ASSUME Inv, NEW w \in Workers, Notify(w)
    PROVE  Inv'
<1> DEFINE t == req[w].told
<1>1. PICK r \in req[w].requests :
        /\ mailed' \in {mailed, [mailed EXCEPT ![r][req[w].told] = @ + 1]}
        /\ Becomes(w, IF req[w].requests = {r} THEN Idle ELSE [req[w] EXCEPT !.requests = @ \ {r}])
  BY DEF Notify
<1>2. UNCHANGED <<requestVars, quoteVars>>
  BY DEF Notify
<1>3. /\ req[w] \in Works /\ req[w].pc = "notify" /\ req[w].held = {} /\ req[w].quoteHeld = {}
      /\ r \in Requests /\ t \in {"quoting", "fulfilled", "rejected"} /\ t \in Statuses
      /\ \A s \in req[w].requests : mailed[s][t] = 0 /\ True(status[s], t)
  BY WorkerFacts DEF Notify, At, Works, Locking, Untold, Statuses
<1>4. DataTyped
  BY Typing DEF Inv
<1>5. mailed \in [Requests -> [Statuses -> Nat]]
  BY <1>4 DEF DataTyped
<1>6. /\ mailed' \in [Requests -> [Statuses -> Nat]]
      /\ \A s \in Requests, u \in Statuses : s # r \/ u # t => mailed'[s][u] = mailed[s][u]
      /\ mailed'[r][t] \in {0, 1}
  <2>1. mailed[r][t] = 0
    BY <1>1, <1>3
  <2>2. CASE mailed' = mailed
    BY <1>5, <2>1, <2>2
  <2>3. CASE mailed' = [mailed EXCEPT ![r][t] = @ + 1]
    BY <1>3, <1>5, <2>1, <2>3
  <2> QED
    BY <1>1, <2>2, <2>3
<1> HIDE DEF t
<1>7. DataInv'
  <2>1. DataTyped'
    BY <1>2, <1>4, <1>6 DEF DataTyped, requestVars, quoteVars
  <2>2. RowsInQuotes' /\ LinkedAsAgreed'
    BY <1>2 DEF Inv, RowsInQuotes, LinkedAsAgreed, requestVars, quoteVars
  <2>3. NonePending'
    BY <1>3, <1>6 DEF Inv, NonePending, Statuses
  <2>4. MailsTellTheTruth'
    <3> SUFFICES ASSUME NEW s \in Requests
                 PROVE  /\ \A u \in Statuses : mailed'[s][u] <= 1
                        /\ mailed'[s]["quoting"] > 0 => status[s] # "pending"
                        /\ \A u \in {"fulfilled", "rejected"} : mailed'[s][u] > 0 => status[s] = u
      BY <1>2 DEF MailsTellTheTruth, requestVars
    <3>1. /\ \A u \in Statuses : mailed[s][u] <= 1
          /\ mailed[s]["quoting"] > 0 => status[s] # "pending"
          /\ \A u \in {"fulfilled", "rejected"} : mailed[s][u] > 0 => status[s] = u
      BY DEF Inv, MailsTellTheTruth
    <3>2. True(status[r], t)
      BY <1>1, <1>3
    <3>3. \A u \in Statuses : mailed'[s][u] <= 1
      BY <1>6, <3>1
    <3>4. "quoting" \in Statuses /\ "fulfilled" \in Statuses /\ "rejected" \in Statuses
      BY DEF Statuses
    <3>5. mailed'[s]["quoting"] > 0 => status[s] # "pending"
      <4>1. CASE s = r /\ t = "quoting"
        BY <3>2, <4>1 DEF True
      <4>2. CASE ~ (s = r /\ t = "quoting")
        BY <1>6, <3>1, <3>4, <4>2
      <4> QED
        BY <4>1, <4>2
    <3>6. ASSUME NEW u \in {"fulfilled", "rejected"} PROVE mailed'[s][u] > 0 => status[s] = u
      <4>1. CASE s = r /\ t = u
        BY <3>2, <4>1 DEF True
      <4>2. CASE ~ (s = r /\ t = u)
        BY <1>6, <3>1, <3>4, <4>2
      <4> QED
        BY <4>1, <4>2
    <3> QED
      BY <3>3, <3>5, <3>6
  <2> QED
    BY <2>1, <2>2, <2>3, <2>4 DEF DataInv
<1>8. /\ req' \in [Workers -> Works]
      /\ \A v \in Workers \ {w} : req'[v] = req[v]
      /\ \/ req'[w] = Idle
         \/ /\ req'[w].pc = "notify" /\ req'[w].requests = req[w].requests \ {r}
            /\ req'[w].told = t /\ req'[w].held = {} /\ req'[w].quoteHeld = {}
  <2>1. req \in [Workers -> Works]
    BY Typing DEF Inv
  <2>2. CASE req[w].requests = {r}
    BY <1>1, <2>1, <2>2, IdleTyped, BecomesFrame
  <2>3. CASE req[w].requests # {r}
    <3> DEFINE x == [req[w] EXCEPT !.requests = @ \ {r}]
    <3>1. x \in Works
      BY <1>3 DEF Works
    <3>2. /\ x.pc = "notify" /\ x.requests = req[w].requests \ {r} /\ x.told = t
          /\ x.held = {} /\ x.quoteHeld = {}
      BY <1>3 DEF Works, t
    <3>3. Becomes(w, x)
      BY <1>1, <2>3
    <3> HIDE DEF x
    <3> QED
      BY <2>1, <3>1, <3>2, <3>3, BecomesFrame
  <2> QED
    BY <2>2, <2>3
<1>9. Locking(req'[w]) /\ Upwards(req'[w]) /\ Fresh(req[w])'
  <2>1. CASE req'[w] = Idle
    <3>1. req'[w].pc = "idle" /\ req'[w].held = {} /\ req'[w].quoteHeld = {}
      BY <2>1 DEF Idle
    <3> QED
      BY <3>1 DEF Locking, Upwards, Fresh
  <2>2. CASE req'[w].pc = "notify" /\ req'[w].held = {} /\ req'[w].quoteHeld = {}
    BY <2>2 DEF Locking, Upwards, Fresh
  <2> QED
    BY <1>8, <2>1, <2>2
<1>10. Untold(req[w])'
  <2>1. CASE req'[w] = Idle
    <3>1. req'[w].pc = "idle"
      BY <2>1 DEF Idle
    <3> QED
      BY <3>1 DEF Untold
  <2>2. CASE req'[w].requests = req[w].requests \ {r} /\ req'[w].told = t
    <3> SUFFICES ASSUME NEW s \in req[w].requests \ {r}
                 PROVE  mailed'[s][t] = 0 /\ True(status'[s], t)
      BY <1>3, <2>2 DEF Untold, True
    <3>1. s \in Requests /\ status' = status
      BY <1>2, <1>3 DEF Works, requestVars
    <3> QED
      BY <1>3, <1>6, <3>1
  <2> QED
    BY <1>8, <2>1, <2>2
<1>11. ASSUME NEW v \in Workers \ {w}
       PROVE  /\ Apart(req'[w], req[v]) /\ Apart(req[v], req'[w])
              /\ Fresh(req[v])' /\ Untold(req[v])'
  <2>1. Apart(req[w], req[v]) /\ Fresh(req[v]) /\ Untold(req[v]) /\ req[v] \in Works
    BY WorkerFacts
  <2>2. Apart(req'[w], req[v]) /\ Apart(req[v], req'[w])
    <3>1. CASE req'[w] = Idle
      BY <3>1, IdleGood
    <3>2. CASE /\ req'[w].pc = "notify" /\ req'[w].requests = req[w].requests \ {r}
               /\ req'[w].told = t /\ req'[w].held = {}
      BY <1>3, <2>1, <3>2 DEF Apart, t
    <3> QED
      BY <1>8, <3>1, <3>2
  <2>3. Fresh(req[v])'
    BY <1>2, <1>8, <2>1 DEF Fresh, requestVars, quoteVars
  <2>4. Untold(req[v])'
    <3> SUFFICES ASSUME req[v].pc = "notify"
                 PROVE  /\ req[v].told \in {"quoting", "fulfilled", "rejected"}
                        /\ \A s \in req[v].requests :
                              mailed'[s][req[v].told] = 0 /\ True(status[s], req[v].told)
      BY <1>2, <1>8 DEF Untold, True, requestVars
    <3>1. /\ req[v].told \in {"quoting", "fulfilled", "rejected"}
          /\ \A s \in req[v].requests : mailed[s][req[v].told] = 0 /\ True(status[s], req[v].told)
      BY <2>1 DEF Untold
    <3>2. ASSUME NEW s \in req[v].requests PROVE mailed'[s][req[v].told] = mailed[s][req[v].told]
      <4>1. s \in Requests /\ req[v].told \in Statuses
        BY <2>1 DEF Works
      <4>2. s = r => req[v].told # t
        BY <1>1, <1>3, <2>1 DEF Apart, t
      <4> QED
        BY <1>6, <4>1, <4>2
    <3> QED
      BY <3>1, <3>2
  <2> QED
    BY <2>2, <2>3, <2>4
<1> QED
  BY <1>7, <1>8, <1>9, <1>10, <1>11, StepInv

-----------------------------------------------------------------------------
(* Steps that leave the workers alone.                                     *)

\* A line whose catalog item is chosen is pending, hence without a quote item,
\* and no transaction has read it.
LEMMA LinkItemInv ==
    ASSUME Inv, NEW l \in Lines, LinkItem(l)
    PROVE  Inv'
<1>1. PICK c \in Catalog : catalogOf' = [catalogOf EXCEPT ![l] = c]
  BY DEF LinkItem
<1>2. UNCHANGED <<status, quoteOf, rowOf, quoteVars, req, mailed>>
  BY DEF LinkItem
<1>3. DataTyped
  BY Typing DEF Inv
<1>4. catalogOf' \in [Lines -> Catalog \cup {"none"}] /\ \A k \in Lines \ {l} : catalogOf'[k] = catalogOf[k]
  BY <1>1, <1>3 DEF DataTyped
<1>5. rowOf[l] = "none"
  BY DEF Inv, LinkedAsAgreed, LinkItem
<1>6. DataInv'
  <2>1. DataTyped'
    BY <1>2, <1>3, <1>4 DEF DataTyped, quoteVars
  <2>2. RowsInQuotes' /\ NonePending' /\ MailsTellTheTruth'
    BY <1>2 DEF Inv, RowsInQuotes, NonePending, MailsTellTheTruth, quoteVars
  <2>3. LinkedAsAgreed'
    BY <1>2, <1>4, <1>5 DEF Inv, LinkedAsAgreed, quoteVars
  <2> QED
    BY <2>1, <2>2, <2>3 DEF DataInv
<1>7. ASSUME NEW v \in Workers PROVE Fresh(req[v])' /\ Untold(req[v])'
  <2>1. Fresh(req[v]) /\ Untold(req[v])
    BY WorkerFacts
  <2>2. req[v].pc \in {"createCommit", "linkCommit"} => RequestOf[l] \notin req[v].requests
    BY <2>1 DEF Fresh, LinkItem, Free
  <2>3. Fresh(req[v])'
    BY <1>2, <1>4, <2>1, <2>2 DEF Fresh, quoteVars
  <2>4. Untold(req[v])'
    BY <1>2, <2>1 DEF Untold
  <2> QED
    BY <2>3, <2>4
<1> QED
  BY <1>2, <1>6, <1>7, AloneInv

\* Changes to a quote and to its prices.
LEMMA QuoteInv ==
    ASSUME Inv, quote' \in [Quotes -> QuoteRows], priced' \in [Quotes -> SUBSET Rows],
           edits' \in 0..MaxEdits, UNCHANGED <<requestVars, row, edited, req, mailed>>
    PROVE  Inv'
<1>1. DataInv'
  <2>1. DataTyped'
    BY Typing DEF Inv, DataTyped, requestVars
  <2>2. RowsInQuotes' /\ NonePending' /\ MailsTellTheTruth' /\ LinkedAsAgreed'
    BY DEF Inv, RowsInQuotes, NonePending, MailsTellTheTruth, LinkedAsAgreed, requestVars
  <2> QED
    BY <2>1, <2>2 DEF DataInv
<1>2. ASSUME NEW v \in Workers PROVE Fresh(req[v])' /\ Untold(req[v])'
  <2>1. Fresh(req[v]) /\ Untold(req[v])
    BY WorkerFacts
  <2> QED
    BY <2>1 DEF Fresh, Untold, requestVars
<1> QED
  BY <1>1, <1>2, AloneInv

LEMMA EditsTyped == Inv /\ Edits => edits' \in 0..MaxEdits
BY Typing, CommercialRequestsAssumption DEF Inv, DataTyped, Edits

LEMMA QuotesInv ==
    ASSUME Inv, NEW q \in Quotes, NewQuote(q) \/ Close(q) \/ Reopen(q) \/ Remove(q) \/ Decide(q)
    PROVE  Inv'
<1>1. /\ quote \in [Quotes -> QuoteRows] /\ priced \in [Quotes -> SUBSET Rows]
      /\ edits \in 0..MaxEdits
  BY Typing DEF Inv, DataTyped
<1>2. \A s \in {"unused", "open", "closed"} : [quote EXCEPT ![q].state = s] \in [Quotes -> QuoteRows]
  BY <1>1 DEF QuoteRows
<1>3. CASE NewQuote(q)
  BY <1>1, <1>2, <1>3, QuoteInv DEF NewQuote
<1>4. CASE Close(q)
  BY <1>1, <1>2, <1>4, QuoteInv DEF Close
<1>5. CASE Reopen(q)
  <2>1. priced' \in [Quotes -> SUBSET Rows] /\ quote' \in [Quotes -> QuoteRows]
    BY <1>1, <1>2, <1>5 DEF Reopen
  <2> QED
    BY <1>5, <2>1, EditsTyped, QuoteInv DEF Reopen
<1>6. CASE Remove(q)
  <2>1. quote' \in [Quotes -> QuoteRows]
    BY <1>1, <1>6 DEF Remove, QuoteRows
  <2>2. priced' \in [Quotes -> SUBSET Rows]
    BY <1>1, <1>6 DEF Remove
  <2> QED
    BY <1>6, <2>1, <2>2, EditsTyped, QuoteInv DEF Remove
<1>7. CASE Decide(q)
  <2>1. priced' \in [Quotes -> SUBSET Rows]
    BY <1>1, <1>7 DEF Decide, RowsOf
  <2> QED
    BY <1>1, <1>7, <2>1, EditsTyped, QuoteInv DEF Decide
<1> QED
  BY <1>3, <1>4, <1>5, <1>6, <1>7

\* Changes to the quote items that keep what lines and workers know of them: an
\* item in use stays in its quote or is gone, and is for the same thing or edited.
LEMMA RowInv ==
    ASSUME Inv, row' \in [Rows -> ItemRows], priced' \in [Quotes -> SUBSET Rows],
           rowOf' \in [Lines -> Rows \cup {"none"}], edited' \subseteq Rows, edits' \in 0..MaxEdits,
           edited \subseteq edited', UNCHANGED <<status, quoteOf, catalogOf, quote, req, mailed>>,
           \A i \in Rows : row[i].quote # "none" =>
              \/ row'[i].quote = "gone" /\ \A l \in Lines : rowOf'[l] # i
              \/ row'[i].quote = row[i].quote /\ (row'[i].item = row[i].item \/ i \in edited'),
           \A l \in Lines : rowOf'[l] # "none" => rowOf'[l] = rowOf[l]
    PROVE  Inv'
<1>1. DataTyped
  BY Typing DEF Inv
<1>2. "none" \notin Quotes /\ "gone" \notin Quotes /\ "none" \notin Rows
  BY CommercialRequestsAssumption
<1>3. ASSUME NEW l \in Lines, rowOf'[l] # "none"
      PROVE  /\ status[RequestOf[l]] # "pending"
             /\ row'[rowOf'[l]].quote = quoteOf[RequestOf[l]]
             /\ row'[rowOf'[l]].item = catalogOf[l] \/ rowOf'[l] \in edited'
             /\ row'[rowOf'[l]].quote \in Quotes
  <2>1. rowOf'[l] = rowOf[l] /\ rowOf[l] \in Rows
    BY <1>1, <1>3 DEF DataTyped
  <2>2. /\ status[RequestOf[l]] # "pending"
        /\ row[rowOf[l]].quote = quoteOf[RequestOf[l]]
        /\ row[rowOf[l]].item = catalogOf[l] \/ rowOf[l] \in edited
        /\ row[rowOf[l]].quote \in Quotes
    BY <1>3, <2>1 DEF Inv, LinkedAsAgreed, RowsInQuotes
  <2> QED
    BY <1>2, <2>1, <2>2
<1>4. DataInv'
  <2>1. DataTyped'
    BY <1>1 DEF DataTyped
  <2>2. RowsInQuotes' /\ LinkedAsAgreed'
    BY <1>3 DEF RowsInQuotes, LinkedAsAgreed
  <2>3. NonePending' /\ MailsTellTheTruth'
    BY DEF Inv, NonePending, MailsTellTheTruth
  <2> QED
    BY <2>1, <2>2, <2>3 DEF DataInv
<1>5. ASSUME NEW v \in Workers PROVE Fresh(req[v])' /\ Untold(req[v])'
  <2>1. Fresh(req[v]) /\ Untold(req[v]) /\ req[v] \in Works
    BY WorkerFacts
  <2>2. ASSUME req[v].pc = "linkCommit", NEW l \in Lines, req[v].found[l] # "none"
        PROVE  \/ row'[req[v].found[l]].quote = "gone"
               \/ /\ row'[req[v].found[l]].quote = req[v].quote
                  /\ row'[req[v].found[l]].item = req[v].seen[l] \/ req[v].found[l] \in edited'
    <3>1. req[v].found[l] \in Rows /\ req[v].quote \in Quotes
      BY <2>1, <2>2 DEF Works, Fresh
    <3>2. \/ row[req[v].found[l]].quote = "gone"
          \/ /\ row[req[v].found[l]].quote = req[v].quote
             /\ row[req[v].found[l]].item = req[v].seen[l] \/ req[v].found[l] \in edited
      BY <2>1, <2>2 DEF Fresh
    <3>3. row[req[v].found[l]].quote # "none"
      BY <1>2, <3>1, <3>2
    <3> QED
      BY <3>1, <3>2, <3>3
  <2>3. Fresh(req[v])'
    BY <2>1, <2>2 DEF Fresh
  <2>4. Untold(req[v])'
    BY <2>1 DEF Untold
  <2> QED
    BY <2>3, <2>4
<1> QED
  BY <1>4, <1>5, AloneInv

LEMMA RowsInv ==
    ASSUME Inv, (\E q \in Quotes : AddRow(q)) \/ (\E i \in Rows : EditRow(i) \/ RemoveRow(i))
    PROVE  Inv'
<1>1. /\ row \in [Rows -> ItemRows] /\ priced \in [Quotes -> SUBSET Rows] /\ edited \subseteq Rows
      /\ rowOf \in [Lines -> Rows \cup {"none"}]
  BY Typing DEF Inv, DataTyped
<1>2. "none" \notin Rows
  BY CommercialRequestsAssumption
<1>3. ASSUME NEW q \in Quotes, AddRow(q) PROVE Inv'
  <2>1. PICK j \in Unused, c \in Catalog \cup {"none"} : row' = [row EXCEPT ![j] = [quote |-> q, item |-> c]]
    BY <1>3 DEF AddRow
  <2>2. j \in Rows /\ row[j].quote = "none"
    BY DEF Unused, RowsOf
  <2>3. row' \in [Rows -> ItemRows]
    BY <1>1, <2>1, <2>2 DEF ItemRows
  <2>4. \A k \in Rows : row[k].quote # "none" => row'[k] = row[k]
    BY <1>1, <2>1, <2>2
  <2> QED
    BY <1>1, <1>3, <2>3, <2>4, EditsTyped, RowInv DEF AddRow, requestVars
<1>4. ASSUME NEW i \in Rows, EditRow(i) PROVE Inv'
  <2>1. PICK c \in Catalog \cup {"none"} : row' = [row EXCEPT ![i].item = c]
    BY <1>4 DEF EditRow
  <2>2. row' \in [Rows -> ItemRows]
    BY <1>1, <2>1 DEF ItemRows
  <2>3. \A k \in Rows : row'[k].quote = row[k].quote /\ (row'[k].item = row[k].item \/ k = i)
    BY <1>1, <2>1 DEF ItemRows
  <2> QED
    BY <1>1, <1>4, <2>2, <2>3, EditsTyped, RowInv DEF EditRow, requestVars
<1>5. ASSUME NEW i \in Rows, RemoveRow(i) PROVE Inv'
  <2>1. row' \in [Rows -> ItemRows] /\ row'[i].quote = "gone" /\ \A k \in Rows \ {i} : row'[k] = row[k]
    BY <1>1, <1>5 DEF RemoveRow, ItemRows
  <2>2. /\ rowOf' \in [Lines -> Rows \cup {"none"}]
        /\ \A l \in Lines : rowOf'[l] # i /\ (rowOf'[l] # "none" => rowOf'[l] = rowOf[l])
    BY <1>1, <1>2, <1>5 DEF RemoveRow
  <2>3. priced' \in [Quotes -> SUBSET Rows]
    BY <1>1, <1>5 DEF RemoveRow
  <2> QED
    BY <1>1, <1>5, <2>1, <2>2, <2>3, EditsTyped, RowInv DEF RemoveRow
<1> QED
  BY <1>3, <1>4, <1>5

-----------------------------------------------------------------------------
(* Locks.                                                                  *)

\* A set of ids has a greatest one.
LEMMA Greatest ==
    ASSUME NEW T \in SUBSET Requests, T # {}
    PROVE  \E m \in T : \A x \in T : x <= m
<1> DEFINE Above(x) == {r \in Requests : r >= x}
           Tails == {Above(x) : x \in T}
<1>1. IsWellFoundedOn(StrictSubsetOrdering(Requests), SUBSET Requests)
  BY FS_StrictSubsetOrderingWellFounded, FS_FiniteSubsetsOfFinite, CommercialRequestsAssumption
<1>2. Tails \subseteq SUBSET Requests /\ Tails # {}
  OBVIOUS
<1> HIDE DEF Tails
<1>3. PICK tail \in Tails : \A y \in Tails : ~ (<<y, tail>> \in StrictSubsetOrdering(Requests))
  BY <1>1, <1>2, WFMin
<1>4. PICK m \in T : tail = Above(m)
  BY DEF Tails
<1>5. ASSUME NEW x \in T, ~ (x <= m) PROVE FALSE
  <2>1. m \in Nat /\ x \in Nat /\ x > m
    BY <1>5, CommercialRequestsAssumption
  <2>2. Above(x) \subseteq Above(m) /\ m \in Above(m) /\ m \notin Above(x)
    <3>1. \A r \in Requests : r \in Nat
      BY CommercialRequestsAssumption
    <3>2. \A r \in Requests : r >= x => r >= m
      BY <2>1, <3>1
    <3>3. m >= m /\ ~ (m >= x) /\ m \in Requests
      BY <2>1
    <3> QED
      BY <3>2, <3>3
  <2>3. Above(x) \in Tails /\ Above(x) \in SUBSET Requests /\ Above(m) \in SUBSET Requests
    BY DEF Tails
  <2> HIDE DEF Above
  <2>4. <<Above(x), Above(m)>> \in StrictSubsetOrdering(Requests)
    BY <2>2, <2>3 DEF StrictSubsetOrdering
  <2> QED
    BY <1>3, <1>4, <2>3, <2>4
<1> QED
  BY <1>5

\* Only one that takes the locks of several requests waits and is waited for by
\* one that needs a request; what it waits for is above all that it holds.
LEMMA WaitsUp ==
    ASSUME Inv, NEW w \in Workers, NEW v \in Workers, NEW u \in Workers,
           WaitsFor(w, v), WaitsFor(v, u), ~ At(w, "linkQuote")
    PROVE  /\ At(v, "createLock")
           /\ \A r \in NextLock(w), s \in NextLock(v) :
                 At(w, "createLock") /\ r \in req[v].held => r < s
<1>1. req[v].held # {}
  BY DEF WaitsFor, At
<1>2. At(v, "createLock")
  <2>1. Locking(req[v])
    BY WorkerFacts
  <2>2. At(v, "createLock") \/ At(v, "linkQuote") \/ At(v, "linkRequest")
    BY DEF WaitsFor
  <2>3. ~ At(v, "linkQuote")
    BY <1>1, <2>1 DEF Locking, At
  <2>4. ~ At(v, "linkRequest")
    BY <1>1, <2>1 DEF Locking, At
  <2> QED
    BY <2>2, <2>3, <2>4
<1>3. \A r \in req[v].held, s \in NextLock(v) : r < s
  BY <1>2, WorkerFacts DEF Upwards, NextLock, At
<1> QED
  BY <1>2, <1>3

\* Of workers that all wait for one another, the one whose next lock has the
\* greatest id would wait for one whose next lock is greater still.
LEMMA InvNoCircle == Inv => NoCircle
<1> SUFFICES ASSUME Inv, NEW group \in SUBSET Workers, group # {},
                    \A w \in group : \E v \in group \ {w} : WaitsFor(w, v)
             PROVE  FALSE
  BY DEF NoCircle
<1> DEFINE Creating == {w \in group : At(w, "createLock")}
           Next_ == UNION {NextLock(w) : w \in Creating}
<1>1. Creating # {}
  <2>1. PICK w \in group : TRUE
    OBVIOUS
  <2>2. PICK v \in group : WaitsFor(w, v)
    OBVIOUS
  <2>3. PICK u \in group : WaitsFor(v, u)
    OBVIOUS
  <2>4. PICK t \in group : WaitsFor(u, t)
    OBVIOUS
  <2>5. CASE ~ At(w, "linkQuote")
    BY <2>2, <2>3, <2>5, WaitsUp
  <2>6. CASE At(w, "linkQuote")
    <3>1. req[v].quoteHeld # {}
      BY <2>2, <2>6 DEF WaitsFor, At
    <3>2. ~ At(v, "linkQuote")
      BY <3>1, WorkerFacts DEF Locking, At
    <3> QED
      BY <2>3, <2>4, <3>2, WaitsUp
  <2> QED
    BY <2>5, <2>6
<1>2. ASSUME NEW w \in Creating
      PROVE  \E v \in Creating, r \in NextLock(w) : r \in req[v].held
  <2>1. PICK v \in group : WaitsFor(w, v)
    OBVIOUS
  <2>2. PICK u \in group : WaitsFor(v, u)
    OBVIOUS
  <2>3. ~ At(w, "linkQuote") /\ ~ At(w, "linkRequest")
    BY DEF At
  <2>4. PICK r \in NextLock(w) : r \in req[v].held
    BY <2>1, <2>3 DEF WaitsFor
  <2>5. At(v, "createLock")
    BY <2>1, <2>2, <2>3, WaitsUp
  <2> QED
    BY <2>4, <2>5
<1>3. Next_ \in SUBSET Requests
  BY WorkerFacts DEF NextLock, Works
<1>4. Next_ # {}
  BY <1>1, <1>2
<1>5. PICK m \in Next_ : \A x \in Next_ : x <= m
  BY <1>3, <1>4, Greatest
<1>6. PICK w \in Creating : m \in NextLock(w)
  OBVIOUS
<1>7. PICK v \in Creating, r \in NextLock(w) : r \in req[v].held
  BY <1>2
<1>8. PICK u \in Creating, s \in NextLock(v) : s \in req[u].held
  BY <1>2
<1>9. r = m
  <2>1. r <= m /\ m <= r
    BY <1>6 DEF NextLock
  <2>2. r \in Nat /\ m \in Nat
    BY <1>3, CommercialRequestsAssumption
  <2> QED
    BY <2>1, <2>2
<1>10. r < s
  <2>1. At(v, "createLock") /\ Upwards(req[v])
    BY WorkerFacts
  <2> QED
    BY <1>7, <1>8, <2>1 DEF Upwards, NextLock, At
<1>11. s <= m /\ s \in Nat /\ m \in Nat
  BY <1>3, <1>5, CommercialRequestsAssumption
<1> QED
  BY <1>9, <1>10, <1>11

-----------------------------------------------------------------------------
(* The theorems.                                                           *)

LEMMA InitInv == Init => Inv
<1> SUFFICES ASSUME Init PROVE Inv
  OBVIOUS
<1>1. \A w \in Workers : req[w] = Idle
  BY DEF Init
<1>2. DataTyped
  BY CommercialRequestsAssumption DEF Init, DataTyped, Statuses, QuoteRows, ItemRows, Nothing
<1>3. req \in [Workers -> Works]
  BY IdleTyped DEF Init
<1>4. \A w \in Workers : Locking(req[w]) /\ Upwards(req[w]) /\ Fresh(req[w]) /\ Untold(req[w])
  BY <1>1, IdleGood
<1>5. \A w, v \in Workers : w # v => Apart(req[w], req[v])
  BY <1>1, IdleGood
<1>6. TypeOK
  BY <1>2, <1>3, <1>4, Typing
<1>7. RowsInQuotes /\ LinkedAsAgreed
  BY DEF Init, RowsInQuotes, LinkedAsAgreed, Nothing
<1>8. NonePending /\ MailsTellTheTruth
  BY DEF Init, NonePending, MailsTellTheTruth, Statuses
<1> QED
  BY <1>4, <1>5, <1>6, <1>7, <1>8 DEF Inv

LEMMA NextInv == Inv /\ [Next]_vars => Inv'
<1> SUFFICES ASSUME Inv, [Next]_vars PROVE Inv'
  OBVIOUS
<1>1. ASSUME NEW w \in Workers, Step(w) PROVE Inv'
  BY <1>1, CreateStartInv, CreateLockInv, CreateReadInv, CreateCommitInv, LinkStartInv,
     LinkLockQuoteInv, LinkLockRequestInv, LinkCommitInv, FulfillStartInv, FulfillPriceInv,
     FulfillCommitInv, RejectInv, NotifyInv, AbortInv DEF Step
<1>2. CASE UNCHANGED vars
  <2>1. UNCHANGED <<requestVars, quoteVars, req, mailed>>
    BY <1>2 DEF vars
  <2>2. DataInv' /\ \A v \in Workers : Fresh(req[v])' /\ Untold(req[v])'
    BY <2>1, DataKept
  <2> QED
    BY <2>1, <2>2, AloneInv
<1> QED
  BY <1>1, <1>2, LinkItemInv, QuotesInv, RowsInv DEF Next

LEMMA Invariance == Spec => []Inv
BY InitInv, NextInv, PTL DEF Spec

\* Rows and what workers remember keep their shape; only linking holds locks.
THEOREM TypeCorrect == Spec => []TypeOK
<1>1. Inv => TypeOK
  BY DEF Inv
<1> QED
  BY <1>1, Invariance, PTL

\* The lines of a request that is linked refer to items of its quote for what they
\* are for, however linking, choosing catalog items and editing the quote overlap.
THEOREM Linked == Spec => []LinkedAsAgreed
<1>1. Inv => LinkedAsAgreed
  BY DEF Inv
<1> QED
  BY <1>1, Invariance, PTL

\* A requester is told of a status once, and only of what came about.
THEOREM TruthfulMails == Spec => []MailsTellTheTruth
<1>1. Inv => MailsTellTheTruth
  BY DEF Inv
<1> QED
  BY <1>1, Invariance, PTL

\* Linking transactions do not deadlock: locks are taken in the order of the ids,
\* and that of a quote before those of requests.
THEOREM NoDeadlock == Spec => []NoCircle
BY InvNoCircle, Invariance, PTL

-----------------------------------------------------------------------------
(* The book of requests: what the refinement needs besides.                *)

\* Who is under way is about some request, who fulfils about one, who commits a
\* link has seen an item for each line, and who links holds the quote.
Engaged(x) ==
    /\ x.pc # "idle" => x.requests # {}
    /\ x.pc \in {"fulfillPrice", "fulfillCommit"} => \E r \in Requests : x.requests = {r}
    /\ x.pc \in {"createCommit", "linkCommit"} =>
          \A l \in Lines : RequestOf[l] \in x.requests => x.seen[l] # "none"
    /\ x.pc \in {"linkRequest", "linkCommit"} => x.quote \in x.quoteHeld

\* A quote that is held to link to it is open.
Welcome(x) == x.pc \in {"linkRequest", "linkCommit"} =>
    quote[x.quote].state = "open" /\ ~ quote[x.quote].removed

EInv == \A w \in Workers : Engaged(req[w]) /\ Welcome(req[w])

\* Of a step of one worker: what it remembers, and quotes that stay as they are
\* while they are open.
LEMMA WorkerStep ==
    ASSUME Inv, EInv, NEW w \in Workers,
           \A v \in Workers \ {w} : req'[v] = req[v],
           Engaged(req[w])', Welcome(req[w])',
           \A q \in Quotes : quote[q].state = "open" => quote'[q] = quote[q]
    PROVE  EInv'
<1>1. ASSUME NEW v \in Workers \ {w} PROVE Engaged(req[v])' /\ Welcome(req[v])'
  <2>1. Engaged(req[v]) /\ Welcome(req[v]) /\ Fresh(req[v])
    BY WorkerFacts DEF EInv
  <2>2. Engaged(req[v])'
    BY <2>1 DEF Engaged
  <2>3. Welcome(req[v])'
    BY <2>1 DEF Welcome, Fresh
  <2> QED
    BY <2>2, <2>3
<1> QED
  BY <1>1 DEF EInv

LEMMA QuietStep ==
    ASSUME Inv, EInv, NEW w \in Workers, NEW x \in Works, Becomes(w, x), UNCHANGED quote,
           Engaged(x), Welcome(x)
    PROVE  EInv'
<1>1. req'[w] = x /\ \A v \in Workers \ {w} : req'[v] = req[v]
  BY Typing, BecomesFrame DEF Inv
<1>2. Engaged(req[w])' /\ Welcome(req[w])'
  BY <1>1 DEF Engaged, Welcome
<1> QED
  BY <1>1, <1>2, WorkerStep

\* A worker that has only to tell of a change.
LEMMA TellingStep ==
    ASSUME Inv, EInv, NEW w \in Workers, NEW rs \in SUBSET Requests, rs # {},
           NEW s \in Statuses, Tells(w, rs, s),
           \A q \in Quotes : quote[q].state = "open" => quote'[q] = quote[q]
    PROVE  EInv'
<1>1. /\ \A v \in Workers \ {w} : req'[v] = req[v]
      /\ req'[w].pc = "notify" /\ req'[w].requests = rs
  BY Typing, TellsFrame DEF Inv
<1>2. Engaged(req[w])' /\ Welcome(req[w])'
  BY <1>1 DEF Engaged, Welcome
<1> QED
  BY <1>1, <1>2, WorkerStep

LEMMA QuitStep ==
    ASSUME Inv, EInv, NEW w \in Workers, Becomes(w, Idle), UNCHANGED quote
    PROVE  EInv'
<1>1. Idle \in Works /\ Idle.pc = "idle"
  BY IdleTyped DEF Idle
<1>2. Engaged(Idle) /\ Welcome(Idle)
  BY <1>1 DEF Engaged, Welcome
<1> QED
  BY <1>1, <1>2, QuietStep

LEMMA StartingStep ==
    ASSUME Inv, EInv, NEW w \in Workers, CreateStart(w) \/ LinkStart(w) \/ FulfillStart(w)
    PROVE  EInv'
<1>1. ASSUME NEW x \in Works, Becomes(w, x), x.requests # {}, UNCHANGED quote,
             x.pc \in {"createLock", "linkQuote"} \/
             (x.pc \in {"fulfillPrice", "fulfillCommit"} /\ \E r \in Requests : x.requests = {r})
      PROVE  EInv'
  <2>1. Engaged(x) /\ Welcome(x)
    BY <1>1 DEF Engaged, Welcome
  <2> QED
    BY <1>1, <2>1, QuietStep
<1>2. UNCHANGED quote
  BY DEF CreateStart, LinkStart, FulfillStart, quoteVars
<1>3. CASE CreateStart(w)
  <2>1. PICK rs \in (SUBSET Requests) \ {{}} : Becomes(w, [Idle EXCEPT !.pc = "createLock", !.requests = rs])
    BY <1>3 DEF CreateStart
  <2> DEFINE x == [Idle EXCEPT !.pc = "createLock", !.requests = rs]
  <2>2. x \in Works /\ x.pc = "createLock" /\ x.requests = rs
    BY IdleTyped DEF Works, Stages, Idle
  <2>3. Becomes(w, x) /\ rs # {}
    BY <2>1
  <2> HIDE DEF x
  <2> QED
    BY <1>1, <1>2, <2>2, <2>3
<1>4. CASE LinkStart(w)
  <2>1. PICK r \in Requests, q \in Quotes :
          Becomes(w, [Idle EXCEPT !.pc = "linkQuote", !.requests = {r}, !.quote = q])
    BY <1>4 DEF LinkStart
  <2> DEFINE x == [Idle EXCEPT !.pc = "linkQuote", !.requests = {r}, !.quote = q]
  <2>2. x \in Works /\ x.pc = "linkQuote" /\ x.requests = {r}
    BY IdleTyped DEF Works, Stages, Idle
  <2> QED
    BY <1>1, <1>2, <2>1, <2>2
<1>5. CASE FulfillStart(w)
  <2>1. PICK r \in Requests :
          \/ Becomes(w, [Idle EXCEPT !.pc = "fulfillCommit", !.requests = {r}])
          \/ Becomes(w, [Idle EXCEPT !.pc = "fulfillPrice", !.requests = {r}, !.quote = quoteOf[r],
                           !.found = [l \in Lines |-> IF l \in LinesOf(r) THEN rowOf[l] ELSE "none"]])
    BY <1>5 DEF FulfillStart
  <2>2. ASSUME NEW x, x = [Idle EXCEPT !.pc = "fulfillCommit", !.requests = {r}], Becomes(w, x)
        PROVE  EInv'
    <3>1. x \in Works /\ x.pc = "fulfillCommit" /\ x.requests = {r}
      BY <2>2, IdleTyped DEF Works, Stages, Idle
    <3> QED
      BY <1>1, <1>2, <2>2, <3>1
  <2>3. ASSUME NEW x, NEW q, NEW found, q = quoteOf[r],
               found = [l \in Lines |-> IF l \in LinesOf(r) THEN rowOf[l] ELSE "none"],
               x = [Idle EXCEPT !.pc = "fulfillPrice", !.requests = {r}, !.quote = q, !.found = found],
               Becomes(w, x)
        PROVE  EInv'
    <3>1. q \in Quotes \cup {"none"} /\ rowOf \in [Lines -> Rows \cup {"none"}]
      BY <2>3, Typing DEF Inv, DataTyped
    <3>2. found \in [Lines -> Rows \cup {"none"}]
      BY <2>3, <3>1
    <3>3. x \in Works /\ x.pc = "fulfillPrice" /\ x.requests = {r}
      BY <2>3, <3>1, <3>2, IdleTyped DEF Works, Stages, Idle
    <3> QED
      BY <1>1, <1>2, <2>3, <3>3
  <2> QED
    BY <2>1, <2>2, <2>3
<1> QED
  BY <1>3, <1>4, <1>5

LEMMA LockingStep ==
    ASSUME Inv, EInv, NEW w \in Workers,
           CreateLock(w) \/ CreateRead(w) \/ LinkLockQuote(w) \/ LinkLockRequest(w) \/ FulfillPrice(w)
    PROVE  EInv'
<1>1. req[w] \in Works /\ Engaged(req[w]) /\ Welcome(req[w]) /\ Locking(req[w])
  BY WorkerFacts DEF EInv
<1>2. UNCHANGED quote
  BY DEF CreateLock, CreateRead, LinkLockQuote, LinkLockRequest, FulfillPrice, quoteVars
<1>3. Read(w) \in [Lines -> Catalog \cup {"none"}]
      /\ \A l \in Lines : RequestOf[l] \in req[w].requests => Read(w)[l] = catalogOf[l]
  BY ReadFacts
<1>4. CASE CreateLock(w)
  <2>1. PICK r \in NextLock(w) : Becomes(w, [req[w] EXCEPT !.held = @ \cup {r}])
    BY <1>4 DEF CreateLock
  <2> DEFINE x == [req[w] EXCEPT !.held = @ \cup {r}]
  <2>2. r \in Requests /\ req[w].pc = "createLock"
    BY <1>1, <1>4 DEF NextLock, Works, CreateLock, At
  <2>3. x \in Works /\ x.pc = "createLock" /\ x.requests = req[w].requests /\ Becomes(w, x)
    BY <1>1, <2>1, <2>2 DEF Works
  <2> HIDE DEF x
  <2>4. Engaged(x) /\ Welcome(x)
    BY <1>1, <2>2, <2>3 DEF Engaged, Welcome
  <2> QED
    BY <1>2, <2>3, <2>4, QuietStep
<1>5. CASE CreateRead(w)
  <2>1. PICK items \in SUBSET Catalog :
          /\ \A r \in req[w].requests : Quotable(r)
          /\ Becomes(w, [req[w] EXCEPT !.pc = "createCommit", !.items = items, !.seen = Read(w)])
    BY <1>5 DEF CreateRead
  <2> DEFINE seen == Read(w)
             x == [req[w] EXCEPT !.pc = "createCommit", !.items = items, !.seen = seen]
  <2>2. seen \in [Lines -> Catalog \cup {"none"}]
        /\ \A l \in Lines : RequestOf[l] \in req[w].requests => seen[l] # "none"
    BY <1>3, <2>1 DEF Quotable, LinesOf
  <2>3. Becomes(w, x) /\ req[w].pc = "createLock"
    BY <1>5, <2>1 DEF CreateRead, At
  <2> HIDE DEF seen
  <2>4. x \in Works /\ x.pc = "createCommit" /\ x.requests = req[w].requests /\ x.seen = seen
    BY <1>1, <2>2 DEF Works, Stages
  <2> HIDE DEF x
  <2>5. Engaged(x) /\ Welcome(x)
    BY <1>1, <2>2, <2>3, <2>4 DEF Engaged, Welcome
  <2> QED
    BY <1>2, <2>3, <2>4, <2>5, QuietStep
<1>6. CASE LinkLockQuote(w)
  <2> DEFINE x == [req[w] EXCEPT !.pc = "linkRequest", !.quoteHeld = {req[w].quote}]
  <2>1. /\ req[w].pc = "linkQuote" /\ Becomes(w, x) /\ req[w].quote \in Quotes
        /\ quote[req[w].quote].state = "open" /\ ~ quote[req[w].quote].removed
    BY <1>6, WorkerFacts DEF LinkLockQuote, At, Fresh
  <2>2. /\ x \in Works /\ x.pc = "linkRequest" /\ x.requests = req[w].requests
        /\ x.quote = req[w].quote /\ x.quoteHeld = {req[w].quote}
    BY <1>1, <2>1 DEF Works, Stages
  <2> HIDE DEF x
  <2>3. Engaged(x) /\ Welcome(x)
    BY <1>1, <2>1, <2>2 DEF Engaged, Welcome
  <2> QED
    BY <1>2, <2>1, <2>2, <2>3, QuietStep
<1>7. CASE LinkLockRequest(w)
  <2>1. PICK found \in [Lines -> Rows \cup {"none"}] :
          Becomes(w, [req[w] EXCEPT !.pc = "linkCommit", !.held = req[w].requests,
                                    !.seen = Read(w), !.found = found])
    BY <1>7 DEF LinkLockRequest
  <2> DEFINE seen == Read(w)
             x == [req[w] EXCEPT !.pc = "linkCommit", !.held = req[w].requests,
                                 !.seen = seen, !.found = found]
  <2>2. \A r \in req[w].requests : Quotable(r)
    BY <1>7 DEF LinkLockRequest
  <2>3. seen \in [Lines -> Catalog \cup {"none"}]
        /\ \A l \in Lines : RequestOf[l] \in req[w].requests => seen[l] # "none"
    BY <1>3, <2>2 DEF Quotable, LinesOf
  <2>4. Becomes(w, x) /\ req[w].pc = "linkRequest"
    BY <1>7, <2>1 DEF LinkLockRequest, At
  <2> HIDE DEF seen
  <2>5. /\ x \in Works /\ x.pc = "linkCommit" /\ x.requests = req[w].requests /\ x.seen = seen
        /\ x.quote = req[w].quote /\ x.quoteHeld = req[w].quoteHeld
    BY <1>1, <2>3 DEF Works, Stages
  <2> HIDE DEF x
  <2>6. Engaged(x) /\ Welcome(x)
    BY <1>1, <2>3, <2>4, <2>5 DEF Engaged, Welcome
  <2> QED
    BY <1>2, <2>4, <2>5, <2>6, QuietStep
<1>8. CASE FulfillPrice(w)
  <2> DEFINE x == [req[w] EXCEPT !.pc = "fulfillCommit", !.quote = "none", !.found = Nothing]
  <2>1. Becomes(w, x) /\ req[w].pc = "fulfillPrice"
    BY <1>8 DEF FulfillPrice, At
  <2>2. x \in Works /\ x.pc = "fulfillCommit" /\ x.requests = req[w].requests
    BY <1>1 DEF Works, Stages, Nothing
  <2> HIDE DEF x
  <2>3. Engaged(x) /\ Welcome(x)
    BY <1>1, <2>1, <2>2 DEF Engaged, Welcome
  <2> QED
    BY <1>2, <2>1, <2>2, <2>3, QuietStep
<1> QED
  BY <1>4, <1>5, <1>6, <1>7, <1>8

LEMMA CommittingStep ==
    ASSUME Inv, EInv, NEW w \in Workers,
           CreateCommit(w) \/ LinkCommit(w) \/ FulfillCommit(w) \/ Reject(w)
    PROVE  EInv'
<1>1. req[w] \in Works /\ Engaged(req[w])
  BY WorkerFacts DEF EInv
<1>2. quote \in [Quotes -> QuoteRows]
  BY Typing DEF Inv, DataTyped
<1>3. {"quoting", "fulfilled", "rejected"} \subseteq Statuses
  BY DEF Statuses
<1>4. \A q \in Quotes : quote[q].state = "open" => quote'[q] = quote[q]
  <2>1. CASE CreateCommit(w)
    <3>1. PICK q \in Quotes : quote[q].state = "unused" /\ quote' = [quote EXCEPT ![q].state = "open"]
      BY <2>1 DEF CreateCommit
    <3> QED
      BY <1>2, <3>1
  <2>2. CASE LinkCommit(w) \/ FulfillCommit(w) \/ Reject(w)
    BY <2>2 DEF LinkCommit, FulfillCommit, Reject, quoteVars
  <2> QED
    BY <2>1, <2>2
<1>5. CASE CreateCommit(w) \/ LinkCommit(w) \/ FulfillCommit(w)
  <2>1. req[w].requests \in SUBSET Requests /\ req[w].requests # {}
    BY <1>1, <1>5 DEF Works, Engaged, CreateCommit, LinkCommit, FulfillCommit, At
  <2>2. Tells(w, req[w].requests, "quoting") \/ Tells(w, req[w].requests, "fulfilled")
    BY <1>5 DEF CreateCommit, LinkCommit, FulfillCommit, Links
  <2> QED
    BY <1>3, <1>4, <2>1, <2>2, TellingStep
<1>6. CASE Reject(w)
  <2>1. PICK r \in Requests : Tells(w, {r}, "rejected")
    BY <1>6 DEF Reject
  <2>2. {r} \in SUBSET Requests /\ {r} # {}
    OBVIOUS
  <2> QED
    BY <1>3, <1>4, <2>1, <2>2, TellingStep
<1> QED
  BY <1>5, <1>6

LEMMA NotifyStep ==
    ASSUME Inv, EInv, NEW w \in Workers, Notify(w)
    PROVE  EInv'
<1>1. PICK r \in req[w].requests :
        Becomes(w, IF req[w].requests = {r} THEN Idle ELSE [req[w] EXCEPT !.requests = @ \ {r}])
  BY DEF Notify
<1>2. UNCHANGED quote
  BY DEF Notify, quoteVars
<1>3. CASE req[w].requests = {r}
  BY <1>1, <1>2, <1>3, QuitStep
<1>4. CASE req[w].requests # {r}
  <2> DEFINE x == [req[w] EXCEPT !.requests = @ \ {r}]
  <2>1. req[w] \in Works /\ req[w].pc = "notify"
    BY WorkerFacts DEF Notify, At
  <2>2. x \in Works /\ x.pc = "notify" /\ x.requests = req[w].requests \ {r} /\ Becomes(w, x)
    BY <1>1, <1>4, <2>1 DEF Works
  <2> HIDE DEF x
  <2>3. Engaged(x) /\ Welcome(x)
    BY <1>4, <2>2 DEF Engaged, Welcome
  <2> QED
    BY <1>2, <2>2, <2>3, QuietStep
<1> QED
  BY <1>3, <1>4

\* Steps that leave the workers alone; a quote that is held is not closed.
LEMMA AloneStep ==
    ASSUME Inv, EInv, UNCHANGED req,
           \A q \in Quotes : quote'[q] = quote[q] \/ quote[q].state = "unused" \/ QuoteFree(q)
    PROVE  EInv'
<1> SUFFICES ASSUME NEW v \in Workers PROVE Engaged(req[v])' /\ Welcome(req[v])'
  BY DEF EInv
<1>1. Engaged(req[v]) /\ Welcome(req[v]) /\ Fresh(req[v])
  BY WorkerFacts DEF EInv
<1>2. Engaged(req[v])'
  BY <1>1 DEF Engaged
<1>3. Welcome(req[v])'
  BY <1>1 DEF Welcome, Fresh, Engaged, QuoteFree
<1> QED
  BY <1>2, <1>3

LEMMA QuotesStep ==
    ASSUME Inv, EInv,
           \/ \E q \in Quotes : NewQuote(q) \/ Close(q) \/ Reopen(q) \/ Remove(q) \/ Decide(q) \/ AddRow(q)
           \/ \E i \in Rows : EditRow(i) \/ RemoveRow(i)
           \/ \E l \in Lines : LinkItem(l)
           \/ UNCHANGED vars
    PROVE  EInv'
<1>1. quote \in [Quotes -> QuoteRows]
  BY Typing DEF Inv, DataTyped
<1>2. ASSUME NEW q \in Quotes, NewQuote(q) \/ Close(q) \/ Reopen(q) \/ Remove(q)
      PROVE  EInv'
  <2>1. UNCHANGED req /\ (quote[q].state = "unused" \/ QuoteFree(q))
    BY <1>2 DEF NewQuote, Close, Reopen, Remove
  <2>2. \A p \in Quotes : p # q => quote'[p] = quote[p]
    BY <1>1, <1>2 DEF NewQuote, Close, Reopen, Remove
  <2> QED
    BY <2>1, <2>2, AloneStep
<1>3. CASE UNCHANGED <<req, quote>>
  BY <1>3, AloneStep
<1>4. ASSUME \/ \E q \in Quotes : Decide(q) \/ AddRow(q)
             \/ \E i \in Rows : EditRow(i) \/ RemoveRow(i)
             \/ \E l \in Lines : LinkItem(l)
             \/ UNCHANGED vars
      PROVE  UNCHANGED <<req, quote>>
  BY <1>4 DEF Decide, AddRow, EditRow, RemoveRow, LinkItem, quoteVars, vars
<1> QED
  BY <1>2, <1>3, <1>4

LEMMA InitEngaged == Init => EInv
<1>1. Idle.pc = "idle"
  BY DEF Idle
<1> QED
  BY <1>1 DEF Init, EInv, Engaged, Welcome

LEMMA NextEngaged == Inv /\ EInv /\ [Next]_vars => EInv'
<1> SUFFICES ASSUME Inv, EInv, [Next]_vars PROVE EInv'
  OBVIOUS
<1>1. ASSUME NEW w \in Workers, Step(w) PROVE EInv'
  <2>1. CASE Abort(w)
    BY <2>1, QuitStep DEF Abort, quoteVars
  <2> QED
    BY <1>1, <2>1, StartingStep, LockingStep, CommittingStep, NotifyStep DEF Step
<1> QED
  BY <1>1, QuotesStep DEF Next

LEMMA BookInvariance == Spec => [](Inv /\ EInv)
<1>1. Init => Inv /\ EInv
  BY InitInv, InitEngaged
<1>2. (Inv /\ EInv) /\ [Next]_vars => (Inv /\ EInv)'
  BY NextInv, NextEngaged
<1> QED
  BY <1>1, <1>2, PTL DEF Spec

\* A quote that is not in use was not removed.
UnusedKept == \A q \in Quotes : quote[q].state = "unused" => ~ quote[q].removed

LEMMA UnusedInvariance == Spec => []UnusedKept
<1>1. Init => UnusedKept
  BY DEF Init, UnusedKept
<1>2. Inv /\ UnusedKept /\ [Next]_vars => UnusedKept'
  <2> SUFFICES ASSUME Inv, UnusedKept, [Next]_vars PROVE UnusedKept'
    OBVIOUS
  <2>1. quote \in [Quotes -> QuoteRows]
    BY Typing DEF Inv, DataTyped
  <2>2. ASSUME NEW q \in Quotes,
               \/ \E s \in {"open", "closed"} : quote' = [quote EXCEPT ![q].state = s]
               \/ quote' = [quote EXCEPT ![q] = [state |-> "closed", removed |-> TRUE]]
        PROVE  UnusedKept'
    BY <2>1, <2>2 DEF UnusedKept, QuoteRows
  <2>3. CASE UNCHANGED quote
    BY <2>3 DEF UnusedKept
  <2>4. ASSUME NEW w \in Workers, Step(w) PROVE UnusedKept'
    <3>1. CASE CreateCommit(w)
      BY <2>2, <3>1 DEF CreateCommit
    <3>2. CASE UNCHANGED quote
      BY <2>3, <3>2
    <3>3. CreateCommit(w) \/ UNCHANGED quote
      BY <2>4 DEF Step, CreateStart, CreateLock, CreateRead, LinkStart, LinkLockQuote, LinkLockRequest,
                  LinkCommit, FulfillStart, FulfillPrice, FulfillCommit, Reject, Notify, Abort, quoteVars
    <3> QED
      BY <3>1, <3>2, <3>3
  <2>5. ASSUME NEW q \in Quotes,
               NewQuote(q) \/ Close(q) \/ Reopen(q) \/ Remove(q) \/ Decide(q) \/ AddRow(q)
        PROVE  UnusedKept'
    BY <2>2, <2>3, <2>5 DEF NewQuote, Close, Reopen, Remove, Decide, AddRow
  <2>6. ASSUME \/ \E i \in Rows : EditRow(i) \/ RemoveRow(i)
               \/ \E l \in Lines : LinkItem(l)
               \/ UNCHANGED vars
        PROVE  UNCHANGED quote
    BY <2>6 DEF EditRow, RemoveRow, LinkItem, quoteVars, vars
  <2> QED
    BY <2>3, <2>4, <2>5, <2>6 DEF Next
<1> QED
  BY <1>1, <1>2, Invariance, PTL DEF Spec

-----------------------------------------------------------------------------
(* The refinement: what is still to be told, and what the book does.       *)

LEMMA ToBeTold ==
    \A r, s : <<r, s>> \in Unheard <=>
        \E w \in Workers : req[w].pc = "notify" /\ r \in req[w].requests /\ s = req[w].told
BY DEF Unheard, At

LEMMA ToBeToldNext ==
    \A r, s : <<r, s>> \in Unheard' <=>
        \E w \in Workers : req'[w].pc = "notify" /\ r \in req'[w].requests /\ s = req'[w].told
BY DEF Unheard, At

LEMMA PairsToTell ==
    /\ \A n \in Unheard : n = <<n[1], n[2]>>
    /\ \A n \in Unheard' : n = <<n[1], n[2]>>
BY DEF Unheard, At

LEMMA BecomesAt ==
    ASSUME Inv, NEW w \in Workers, NEW x, Becomes(w, x)
    PROVE  req'[w] = x /\ \A v \in Workers \ {w} : req'[v] = req[v]
<1>1. req \in [Workers -> Works]
  BY Typing DEF Inv
<1> QED
  BY <1>1 DEF Becomes

\* What the others are to tell stays to be told.
LEMMA UnheardKept ==
    ASSUME NEW w \in Workers, \A v \in Workers \ {w} : req'[v] = req[v],
           req[w].pc # "notify", req'[w].pc # "notify"
    PROVE  Unheard' = Unheard
<1>1. ASSUME NEW r, NEW s PROVE <<r, s>> \in Unheard' <=> <<r, s>> \in Unheard
  <2>1. \A v \in Workers : req'[v].pc = "notify" \/ req[v].pc = "notify" => req'[v] = req[v]
    OBVIOUS
  <2>2. <<r, s>> \in Unheard <=> \E v \in Workers : req[v].pc = "notify" /\ r \in req[v].requests /\ s = req[v].told
    BY ToBeTold
  <2>3. <<r, s>> \in Unheard' <=> \E v \in Workers : req'[v].pc = "notify" /\ r \in req'[v].requests /\ s = req'[v].told
    BY ToBeToldNext
  <2> QED
    BY <2>1, <2>2, <2>3
<1> QED
  BY <1>1, PairsToTell

LEMMA UnheardLess ==
    ASSUME NEW w \in Workers, \A v \in Workers \ {w} : req'[v] = req[v],
           req'[w].pc = "notify" => /\ req[w].pc = "notify" /\ req'[w].told = req[w].told
                                    /\ req'[w].requests \subseteq req[w].requests
    PROVE  Unheard' \subseteq Unheard
<1>1. \A r, s : <<r, s>> \in Unheard' => <<r, s>> \in Unheard
  BY ToBeTold, ToBeToldNext
<1> QED
  BY <1>1, PairsToTell

LEMMA UnheardMore ==
    ASSUME NEW w \in Workers, NEW rs, NEW s, \A v \in Workers \ {w} : req'[v] = req[v],
           req[w].pc # "notify",
           req'[w].pc = "notify", req'[w].requests = rs, req'[w].told = s
    PROVE  Unheard' = Unheard \cup (rs \X {s})
<1>1. ASSUME NEW r, NEW t PROVE <<r, t>> \in Unheard' <=> <<r, t>> \in Unheard \/ (r \in rs /\ t = s)
  <2>1. <<r, t>> \in Unheard <=> \E v \in Workers : req[v].pc = "notify" /\ r \in req[v].requests /\ t = req[v].told
    BY ToBeTold
  <2>2. <<r, t>> \in Unheard' <=> \E v \in Workers : req'[v].pc = "notify" /\ r \in req'[v].requests /\ t = req'[v].told
    BY ToBeToldNext
  <2>3. ASSUME <<r, t>> \in Unheard' PROVE <<r, t>> \in Unheard \/ (r \in rs /\ t = s)
    BY <2>1, <2>2, <2>3
  <2>4. ASSUME <<r, t>> \in Unheard PROVE <<r, t>> \in Unheard'
    <3>1. PICK v \in Workers : req[v].pc = "notify" /\ r \in req[v].requests /\ t = req[v].told
      BY <2>1, <2>4
    <3>2. v # w /\ req'[v] = req[v]
      BY <3>1
    <3> QED
      BY <2>2, <3>1, <3>2
  <2>5. ASSUME r \in rs, t = s PROVE <<r, t>> \in Unheard'
    BY <2>2, <2>5
  <2> QED
    BY <2>3, <2>4, <2>5
<1>2. \A r, t : <<r, t>> \in Unheard \cup (rs \X {s}) <=> <<r, t>> \in Unheard \/ (r \in rs /\ t = s)
  OBVIOUS
<1>3. \A n \in Unheard \cup (rs \X {s}) : n = <<n[1], n[2]>>
  BY PairsToTell
<1> QED
  BY <1>1, <1>2, <1>3, PairsToTell

LEMMA StageIs ==
    /\ DOMAIN Stage = Quotes /\ DOMAIN Stage' = Quotes
    /\ \A q \in Quotes : Stage[q] = IF quote[q].state = "unused" THEN "unused"
                                    ELSE IF quote[q].state = "open" /\ ~ quote[q].removed THEN "open" ELSE "shut"
    /\ \A q \in Quotes : Stage'[q] = IF quote'[q].state = "unused" THEN "unused"
                                     ELSE IF quote'[q].state = "open" /\ ~ quote'[q].removed THEN "open" ELSE "shut"
BY DEF Stage

LEMMA SameStage ==
    ASSUME UNCHANGED quote
    PROVE  Stage' = Stage
BY DEF Stage

\* The stage of one quote changes.
LEMMA NewStage ==
    ASSUME NEW q \in Quotes, \A p \in Quotes \ {q} : quote'[p] = quote[p]
    PROVE  Stage' = [Stage EXCEPT ![q] = Stage'[q]]
BY DEF Stage

\* A step that the book does not see.
Unseen == UNCHANGED <<status, quoteOf, catalogOf, Stage, Unheard, mailed>>

LEMMA QuietBook ==
    ASSUME Inv, NEW w \in Workers,
           \/ CreateStart(w) \/ CreateLock(w) \/ CreateRead(w) \/ LinkStart(w) \/ LinkLockQuote(w)
           \/ LinkLockRequest(w) \/ FulfillStart(w) \/ FulfillPrice(w)
    PROVE  Unseen
<1>1. req[w] \in Works
  BY WorkerFacts
<1>2. UNCHANGED <<requestVars, quoteVars, mailed>>
  BY DEF CreateStart, CreateLock, CreateRead, LinkStart, LinkLockQuote, LinkLockRequest,
         FulfillStart, FulfillPrice
<1>3. req[w].pc # "notify"
  BY DEF CreateStart, CreateLock, CreateRead, LinkStart, LinkLockQuote, LinkLockRequest,
         FulfillStart, FulfillPrice, At
<1>4. \E x : Becomes(w, x) /\ x.pc # "notify"
  <2>1. CASE CreateStart(w) \/ LinkStart(w)
    <3>1. ASSUME NEW rs, NEW q
          PROVE  /\ [Idle EXCEPT !.pc = "createLock", !.requests = rs].pc # "notify"
                 /\ [Idle EXCEPT !.pc = "linkQuote", !.requests = rs, !.quote = q].pc # "notify"
      BY DEF Idle
    <3>2. CASE CreateStart(w)
      BY <3>1, <3>2 DEF CreateStart
    <3>3. CASE LinkStart(w)
      BY <3>1, <3>3 DEF LinkStart
    <3> QED
      BY <2>1, <3>2, <3>3
  <2>2. CASE FulfillStart(w)
    <3>1. PICK r, q, found :
            \/ Becomes(w, [Idle EXCEPT !.pc = "fulfillCommit", !.requests = {r}])
            \/ Becomes(w, [Idle EXCEPT !.pc = "fulfillPrice", !.requests = {r}, !.quote = q, !.found = found])
      BY <2>2 DEF FulfillStart
    <3>2. /\ [Idle EXCEPT !.pc = "fulfillCommit", !.requests = {r}].pc # "notify"
          /\ [Idle EXCEPT !.pc = "fulfillPrice", !.requests = {r}, !.quote = q, !.found = found].pc # "notify"
      BY DEF Idle
    <3> QED
      BY <3>1, <3>2
  <2>3. CASE CreateLock(w)
    <3>1. PICK r : Becomes(w, [req[w] EXCEPT !.held = @ \cup {r}])
      BY <2>3 DEF CreateLock
    <3>2. [req[w] EXCEPT !.held = @ \cup {r}].pc # "notify"
      BY <1>1, <1>3 DEF Works
    <3> QED
      BY <3>1, <3>2
  <2>4. CASE CreateRead(w)
    <3>1. PICK items : Becomes(w, [req[w] EXCEPT !.pc = "createCommit", !.items = items, !.seen = Read(w)])
      BY <2>4 DEF CreateRead
    <3>2. [req[w] EXCEPT !.pc = "createCommit", !.items = items, !.seen = Read(w)].pc # "notify"
      BY <1>1 DEF Works
    <3> QED
      BY <3>1, <3>2
  <2>5. CASE LinkLockQuote(w)
    <3>1. [req[w] EXCEPT !.pc = "linkRequest", !.quoteHeld = {req[w].quote}].pc # "notify"
      BY <1>1 DEF Works
    <3> QED
      BY <2>5, <3>1 DEF LinkLockQuote
  <2>6. CASE LinkLockRequest(w)
    <3>1. PICK found : Becomes(w, [req[w] EXCEPT !.pc = "linkCommit", !.held = req[w].requests,
                                                 !.seen = Read(w), !.found = found])
      BY <2>6 DEF LinkLockRequest
    <3>2. [req[w] EXCEPT !.pc = "linkCommit", !.held = req[w].requests,
                         !.seen = Read(w), !.found = found].pc # "notify"
      BY <1>1 DEF Works
    <3> QED
      BY <3>1, <3>2
  <2>7. CASE FulfillPrice(w)
    <3>1. [req[w] EXCEPT !.pc = "fulfillCommit", !.quote = "none", !.found = Nothing].pc # "notify"
      BY <1>1 DEF Works
    <3> QED
      BY <2>7, <3>1 DEF FulfillPrice
  <2> QED
    BY <2>1, <2>2, <2>3, <2>4, <2>5, <2>6, <2>7
<1>5. req'[w].pc # "notify" /\ \A v \in Workers \ {w} : req'[v] = req[v]
  BY <1>4, BecomesAt
<1>6. Unheard' = Unheard
  BY <1>3, <1>5, UnheardKept
<1>7. Stage' = Stage
  BY <1>2, SameStage DEF quoteVars
<1> QED
  BY <1>2, <1>6, <1>7 DEF Unseen, requestVars

\* What the linking transactions commit is a link of the book.
LEMMA LinksBook ==
    ASSUME Inv, EInv, NEW w \in Workers, NEW q \in Quotes, NEW wanted, Links(w, q, wanted),
           req[w].pc \in {"createCommit", "linkCommit"},
           Stage[q] \in {"unused", "open"}, Stage' = [Stage EXCEPT ![q] = "open"],
           UNCHANGED <<catalogOf, mailed>>
    PROVE  Book!Next
<1> DEFINE rs == req[w].requests
<1>1. rs \in (SUBSET {r \in Requests : status[r] = "pending"}) \ {{}}
  BY WorkerFacts DEF Links, EInv, Engaged, Works
<1>2. /\ status' = [r \in Requests |-> IF r \in rs THEN "quoting" ELSE status[r]]
      /\ quoteOf' = [r \in Requests |-> IF r \in rs THEN q ELSE quoteOf[r]]
      /\ Tells(w, rs, "quoting")
  BY DEF Links
<1>3. \A l \in Lines : RequestOf[l] \in rs => catalogOf[l] # "none"
  BY WorkerFacts DEF EInv, Engaged, Fresh
<1> HIDE DEF rs
<1>4. Unheard' = Unheard \cup (rs \X {"quoting"})
  <2>1. rs \in SUBSET Requests /\ "quoting" \in Statuses /\ req \in [Workers -> Works]
    BY <1>1, Typing DEF Inv, Statuses
  <2>2. /\ \A v \in Workers \ {w} : req'[v] = req[v]
        /\ req'[w].pc = "notify" /\ req'[w].requests = rs /\ req'[w].told = "quoting"
    BY <1>2, <2>1, TellsFrame
  <2>3. req[w].pc # "notify"
    OBVIOUS
  <2> QED
    BY <2>2, <2>3, UnheardMore
<1>5. Book!Change(rs, "quoting")
  BY <1>2, <1>4 DEF Book!Change
<1>6. Book!Link(rs, q)
  BY <1>1, <1>2, <1>3, <1>5 DEF Book!Link
<1> QED
  BY <1>1, <1>6 DEF Book!Next

LEMMA CommitsBook ==
    ASSUME Inv, EInv, UnusedKept, NEW w \in Workers, CreateCommit(w) \/ LinkCommit(w)
    PROVE  Book!Next
<1>1. quote \in [Quotes -> QuoteRows]
  BY Typing DEF Inv, DataTyped
<1>2. CASE CreateCommit(w)
  <2>1. PICK q \in Quotes : /\ quote[q].state = "unused"
                            /\ quote' = [quote EXCEPT ![q].state = "open"]
                            /\ Links(w, q, req[w].items)
    BY <1>2 DEF CreateCommit
  <2>2. /\ quote'[q].state = "open" /\ ~ quote'[q].removed
        /\ \A p \in Quotes \ {q} : quote'[p] = quote[p]
    BY <1>1, <2>1 DEF QuoteRows, UnusedKept
  <2>3. Stage[q] = "unused" /\ Stage'[q] = "open"
    BY <2>1, <2>2, StageIs
  <2>4. Stage' = [Stage EXCEPT ![q] = "open"]
    BY <2>2, <2>3, NewStage
  <2>5. req[w].pc = "createCommit" /\ UNCHANGED <<catalogOf, mailed>>
    BY <1>2 DEF CreateCommit, At
  <2> QED
    BY <2>1, <2>3, <2>4, <2>5, LinksBook
<1>3. CASE LinkCommit(w)
  <2>1. /\ req[w].pc = "linkCommit" /\ UNCHANGED <<quote, catalogOf, mailed>>
        /\ \E wanted : Links(w, req[w].quote, wanted)
    BY <1>3 DEF LinkCommit, At
  <2>2. req[w].quote \in Quotes /\ quote[req[w].quote].state = "open" /\ ~ quote[req[w].quote].removed
    BY <2>1, WorkerFacts DEF EInv, Welcome, Fresh
  <2>3. Stage[req[w].quote] = "open"
    BY <2>2, StageIs
  <2>4. Stage' = [Stage EXCEPT ![req[w].quote] = "open"]
    BY <2>1, <2>3, SameStage, StageIs DEF Stage
  <2> QED
    BY <2>1, <2>2, <2>3, <2>4, LinksBook
<1> QED
  BY <1>2, <1>3

LEMMA EndsBook ==
    ASSUME Inv, EInv, NEW w \in Workers, FulfillCommit(w) \/ Reject(w)
    PROVE  Book!Next
<1>1. ASSUME NEW r \in Requests, NEW s \in Statuses, Tells(w, {r}, s), req[w].pc # "notify",
             status' = [k \in Requests |-> IF k \in {r} THEN s ELSE status[k]],
             UNCHANGED <<quoteOf, catalogOf, quote, mailed>>
      PROVE  Book!Change({r}, s) /\ UNCHANGED <<quoteOf, Stage>>
  <2>1. req \in [Workers -> Works] /\ {r} \in SUBSET Requests
    BY Typing DEF Inv
  <2>2. /\ \A v \in Workers \ {w} : req'[v] = req[v]
        /\ req'[w].pc = "notify" /\ req'[w].requests = {r} /\ req'[w].told = s
    BY <1>1, <2>1, TellsFrame
  <2>3. Unheard' = Unheard \cup ({r} \X {s})
    BY <1>1, <2>2, UnheardMore
  <2> QED
    BY <1>1, <2>3, SameStage DEF Book!Change
<1>2. CASE FulfillCommit(w)
  <2>1. PICK r \in Requests : req[w].requests = {r}
    BY <1>2 DEF EInv, Engaged, FulfillCommit, At
  <2>2. /\ status[r] = "quoting" /\ Tells(w, {r}, "fulfilled") /\ req[w].pc # "notify"
        /\ status' = [k \in Requests |-> IF k \in {r} THEN "fulfilled" ELSE status[k]]
        /\ UNCHANGED <<quoteOf, catalogOf, quote, mailed>>
    BY <1>2, <2>1 DEF FulfillCommit, StillQuoting, At, quoteVars
  <2>3. Book!Fulfil(r)
    BY <1>1, <2>2 DEF Book!Fulfil, Statuses
  <2> QED
    BY <2>3 DEF Book!Next
<1>3. CASE Reject(w)
  <2>1. PICK r \in Requests : /\ status[r] \in {"pending", "quoting"}
                              /\ status' = [status EXCEPT ![r] = "rejected"]
                              /\ Tells(w, {r}, "rejected")
    BY <1>3 DEF Reject
  <2>2. req[w].pc # "notify" /\ UNCHANGED <<quoteOf, catalogOf, quote, mailed>>
    BY <1>3 DEF Reject, At, quoteVars
  <2>3. status' = [k \in Requests |-> IF k \in {r} THEN "rejected" ELSE status[k]]
    BY <2>1, Typing DEF Inv, DataTyped
  <2>4. Book!Reject(r)
    BY <1>1, <2>1, <2>2, <2>3 DEF Book!Reject, Statuses
  <2> QED
    BY <2>4 DEF Book!Next
<1> QED
  BY <1>2, <1>3

\* A mail that goes out tells of one change, which nobody else is to tell of; one
\* that is lost, like the mails of a worker that dies, is not sent any more.
LEMMA NotifyBook ==
    ASSUME Inv, NEW w \in Workers, Notify(w)
    PROVE  Book!Next
<1> DEFINE t == req[w].told
<1>1. PICK r \in req[w].requests :
        /\ mailed' \in {mailed, [mailed EXCEPT ![r][t] = @ + 1]}
        /\ Becomes(w, IF req[w].requests = {r} THEN Idle ELSE [req[w] EXCEPT !.requests = @ \ {r}])
  BY DEF Notify
<1>2. req[w] \in Works /\ req[w].pc = "notify" /\ UNCHANGED <<requestVars, quoteVars>>
  BY WorkerFacts DEF Notify, At
<1>3. /\ \A v \in Workers \ {w} : req'[v] = req[v]
      /\ \/ req'[w].pc = "idle" /\ req[w].requests = {r}
         \/ /\ req'[w].pc = "notify" /\ req'[w].told = t
            /\ req'[w].requests = req[w].requests \ {r}
  <2>1. CASE req[w].requests = {r}
    <3>1. Becomes(w, Idle) /\ Idle.pc = "idle"
      BY <1>1, <2>1 DEF Idle
    <3> QED
      BY <2>1, <3>1, BecomesAt
  <2>2. CASE req[w].requests # {r}
    <3> DEFINE x == [req[w] EXCEPT !.requests = @ \ {r}]
    <3>1. x.pc = "notify" /\ x.told = t /\ x.requests = req[w].requests \ {r} /\ Becomes(w, x)
      BY <1>1, <1>2, <2>2 DEF Works
    <3> HIDE DEF x
    <3> QED
      BY <3>1, BecomesAt
  <2> QED
    BY <2>1, <2>2
<1>4. UNCHANGED <<status, quoteOf, catalogOf>> /\ Stage' = Stage
  BY <1>2, SameStage DEF requestVars, quoteVars
<1>5. CASE mailed' = mailed
  <2>1. Unheard' \subseteq Unheard
    BY <1>2, <1>3, UnheardLess
  <2> QED
    BY <1>4, <1>5, <2>1 DEF Book!Next, Book!Lose
<1>6. CASE mailed' = [mailed EXCEPT ![r][t] = @ + 1]
  <2>1. <<r, t>> \in Unheard
    BY <1>1, <1>2, ToBeTold
  <2>2. <<r, t>> \notin Unheard'
    <3> SUFFICES ASSUME NEW v \in Workers, req'[v].pc = "notify", r \in req'[v].requests, t = req'[v].told
                 PROVE  FALSE
      BY ToBeToldNext
    <3>1. v # w /\ req'[v] = req[v]
      BY <1>3
    <3>2. Apart(req[w], req[v])
      BY <3>1, WorkerFacts
    <3> QED
      BY <1>1, <1>2, <3>1, <3>2 DEF Apart
  <2>3. ASSUME NEW k, NEW s, <<k, s>> \in Unheard, <<k, s>> # <<r, t>> PROVE <<k, s>> \in Unheard'
    <3>1. PICK v \in Workers : req[v].pc = "notify" /\ k \in req[v].requests /\ s = req[v].told
      BY <2>3, ToBeTold
    <3>2. CASE v # w
      BY <1>3, <3>1, <3>2, ToBeToldNext
    <3>3. CASE v = w
      <4>1. k # r
        BY <2>3, <3>1, <3>3
      <4>2. req'[w].pc = "notify" /\ k \in req'[w].requests /\ s = req'[w].told
        BY <1>3, <3>1, <3>3, <4>1
      <4> QED
        BY <4>2, ToBeToldNext
    <3> QED
      BY <3>2, <3>3
  <2>4. Unheard' \subseteq Unheard
    BY <1>2, <1>3, UnheardLess
  <2>5. Unheard' = Unheard \ {<<r, t>>}
    <3>1. \A n \in Unheard : n = <<n[1], n[2]>>
      BY PairsToTell
    <3>2. \A n \in Unheard : n # <<r, t>> => n \in Unheard'
      BY <2>3, <3>1
    <3> QED
      BY <2>2, <2>4, <3>2
  <2> DEFINE n == <<r, t>>
  <2>6. n[1] = r /\ n[2] = t
    OBVIOUS
  <2>7. Book!Tell(r, t)
    BY <1>4, <1>6, <2>1, <2>5 DEF Book!Tell
  <2>8. n \in Unheard /\ Book!Tell(n[1], n[2])
    BY <2>1, <2>6, <2>7
  <2> QED
    BY <2>8 DEF Book!Next
<1> QED
  BY <1>1, <1>5, <1>6

LEMMA AbortBook ==
    ASSUME Inv, NEW w \in Workers, Abort(w)
    PROVE  Book!Next
<1>1. Becomes(w, Idle) /\ Idle.pc = "idle" /\ UNCHANGED <<requestVars, quoteVars, mailed>>
  BY DEF Abort, Idle
<1>2. req'[w].pc # "notify" /\ \A v \in Workers \ {w} : req'[v] = req[v]
  BY <1>1, BecomesAt
<1>3. Unheard' \subseteq Unheard
  BY <1>2, UnheardLess
<1>4. Stage' = Stage
  BY <1>1, SameStage DEF quoteVars
<1> QED
  BY <1>1, <1>3, <1>4 DEF Book!Next, Book!Lose, requestVars

LEMMA LinkItemBook ==
    ASSUME Inv, NEW l \in Lines, LinkItem(l)
    PROVE  Book!Next
<1>1. PICK c \in Catalog : catalogOf' = [catalogOf EXCEPT ![l] = c]
  BY DEF LinkItem
<1>2. /\ l \in NewLines /\ status[RequestOf[l]] = "pending"
      /\ UNCHANGED <<status, quoteOf, quote, req, mailed>>
  BY DEF LinkItem, quoteVars
<1>3. Unheard' = Unheard
  BY <1>2 DEF Unheard, At
<1>4. Book!Choose(l, c)
  BY <1>1, <1>2, <1>3, SameStage DEF Book!Choose
<1> QED
  BY <1>2, <1>4 DEF Book!Next

LEMMA QuotesBook ==
    ASSUME Inv, UnusedKept, NEW q \in Quotes, NewQuote(q) \/ Close(q) \/ Reopen(q) \/ Remove(q)
    PROVE  Book!Next \/ Unseen
<1>1. quote \in [Quotes -> QuoteRows]
  BY Typing DEF Inv, DataTyped
<1>2. UNCHANGED <<requestVars, req, mailed>> /\ \A p \in Quotes \ {q} : quote'[p] = quote[p]
  BY <1>1 DEF NewQuote, Close, Reopen, Remove
<1>3. Unheard' = Unheard
  BY <1>2 DEF Unheard, At
<1>4. Stage' = [Stage EXCEPT ![q] = Stage'[q]]
  BY <1>2, NewStage
<1>5. CASE quote'[q].state = "open" /\ ~ quote'[q].removed /\ Stage[q] # "open"
  <2>1. Stage'[q] = "open"
    BY <1>5, StageIs
  <2>2. Book!Open(q)
    BY <1>2, <1>3, <1>4, <1>5, <2>1 DEF Book!Open, requestVars
  <2> QED
    BY <2>2 DEF Book!Next
<1>6. CASE quote'[q].state = "closed" /\ quote[q].state # "unused"
  <2>1. Stage'[q] = "shut" /\ Stage[q] # "unused"
    BY <1>6, StageIs
  <2>2. Book!Shut(q)
    BY <1>2, <1>3, <1>4, <2>1 DEF Book!Shut, requestVars
  <2> QED
    BY <2>2 DEF Book!Next
<1>7. CASE quote'[q].state = "open" /\ quote'[q].removed /\ quote[q].state = "closed"
  <2>1. Stage'[q] = Stage[q]
    BY <1>7, StageIs
  <2>2. Stage' = Stage
    <3>1. \A p \in Quotes : Stage'[p] = Stage[p]
      BY <1>2, <2>1, StageIs
    <3> QED
      BY <3>1 DEF Stage
  <2> QED
    BY <1>2, <1>3, <2>2 DEF Unseen, requestVars
<1>8. CASE NewQuote(q)
  <2>1. quote[q].state = "unused" /\ quote'[q].state = "open" /\ ~ quote'[q].removed
    BY <1>1, <1>8 DEF NewQuote, UnusedKept, QuoteRows
  <2>2. Stage[q] = "unused"
    BY <2>1, StageIs
  <2> QED
    BY <1>5, <2>1, <2>2
<1>9. CASE Reopen(q)
  <2>1. quote[q].state = "closed" /\ quote'[q].state = "open" /\ quote'[q].removed = quote[q].removed
    BY <1>1, <1>9 DEF Reopen, QuoteRows
  <2>2. Stage[q] = "shut"
    BY <2>1, StageIs
  <2> QED
    BY <1>1, <1>5, <1>7, <2>1, <2>2 DEF QuoteRows
<1>10. CASE Close(q) \/ Remove(q)
  <2>1. quote[q].state # "unused" /\ quote'[q].state = "closed"
    BY <1>1, <1>10 DEF Close, Remove, QuoteRows
  <2> QED
    BY <1>6, <2>1
<1> QED
  BY <1>8, <1>9, <1>10

LEMMA BookInit == Init => Book!Init
<1> SUFFICES ASSUME Init PROVE Book!Init
  OBVIOUS
<1>1. \A w \in Workers : req[w].pc = "idle"
  BY DEF Init, Idle
<1>2. Unheard = {}
  BY <1>1 DEF Unheard, At
<1>3. Stage = [q \in Quotes |-> "unused"]
  BY DEF Init, Stage
<1> QED
  BY <1>2, <1>3 DEF Init, Book!Init, Statuses, Book!Statuses

LEMMA BookNext == Inv /\ EInv /\ UnusedKept /\ [Next]_vars => [Book!Next]_(Book!vars)
<1> SUFFICES ASSUME Inv, EInv, UnusedKept, [Next]_vars PROVE Book!Next \/ Unseen
  BY DEF Unseen, Book!vars
<1>1. ASSUME NEW w \in Workers, Step(w) PROVE Book!Next \/ Unseen
  BY <1>1, QuietBook, CommitsBook, EndsBook, NotifyBook, AbortBook DEF Step
<1>2. ASSUME UNCHANGED <<status, quoteOf, catalogOf, quote, req, mailed>> PROVE Unseen
  <2>1. Unheard' = Unheard
    BY <1>2 DEF Unheard, At
  <2> QED
    BY <1>2, <2>1, SameStage DEF Unseen
<1>3. ASSUME \/ \E q \in Quotes : Decide(q) \/ AddRow(q)
             \/ \E i \in Rows : EditRow(i) \/ RemoveRow(i)
             \/ UNCHANGED vars
      PROVE  UNCHANGED <<status, quoteOf, catalogOf, quote, req, mailed>>
  BY <1>3 DEF Decide, AddRow, EditRow, RemoveRow, vars, requestVars, quoteVars
<1> QED
  BY <1>1, <1>2, <1>3, LinkItemBook, QuotesBook DEF Next

\* Whatever overlaps, the requests of sales are a book that is changed at one
\* stroke: taken together into a quote that is open, with every line settled, ended
\* once, and each change told at most once.
THEOREM KeepsTheBook == Spec => ImplementsBook
<1>1. Spec => []((Inv /\ EInv) /\ UnusedKept)
  BY BookInvariance, UnusedInvariance, PTL
<1> QED
  BY <1>1, BookInit, BookNext, PTL DEF Spec, ImplementsBook, Book!Spec
===============================================================================
