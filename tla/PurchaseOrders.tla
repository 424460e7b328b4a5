--------------------------- MODULE PurchaseOrders ---------------------------
(***************************************************************************)
(* The purchase orders (POs) an open quote is grouped by, and the items    *)
(* that belong to them.                                                    *)
(*                                                                         *)
(* Every operation on POs checks the quote outside its transaction, then   *)
(* locks the QuoteRequest row, reads the POs, writes and commits.  Items   *)
(* are added and removed without that lock, so they run between the steps  *)
(* of a transaction that holds it.  Labels are left out.                   *)
(***************************************************************************)
EXTENDS Naturals, FiniteSets

CONSTANTS
    Items,      \* slots for item rows
    Workers,    \* requests the server handles at the same time
    MaxOrders,  \* bound: ids the PO table gives out
    None        \* no PO, and no holder of the lock

Ids == 1..MaxOrders

ASSUME OrdersAssumption ==
    /\ MaxOrders \in Nat
    /\ None \notin Ids
    /\ None \notin Workers

VARIABLES
    quote,    \* [status, deleted] of the QuoteRequest
    pos,      \* position of each PO, 0 where the row does not exist
    nextId,   \* next id of the PO table
    listed,   \* items that have a row
    orderOf,  \* purchaseOrderId of each item
    lock,     \* worker whose transaction holds the QuoteRequest row
    req       \* what each worker remembers of the request it handles

vars == <<quote, pos, nextId, listed, orderOf, lock, req>>

Idle == [op |-> "idle"]
Positions == [Ids -> Nat]
Lists == UNION {[1..n -> Ids] : n \in 0..MaxOrders}

\* A request on POs: checked, then with the POs it read under the lock, and
\* for a deletion with the items it has moved away.
Checked ==
    [op: {"create"}, adopt: BOOLEAN] \cup [op: {"group"}]
    \cup [op: {"reorder"}, list: Lists] \cup [op: {"delete"}, order: Ids]
Requests ==
    {Idle}
    \cup [op: {"checked"}, request: Checked]
    \cup [op: {"locked"}, request: Checked, seen: Positions]
    \cup [op: {"moved"}, request: Checked, seen: Positions, items: SUBSET Items]
    \cup [op: {"addItem"}, item: Items, order: Ids \cup {None}]
    \cup [op: {"removeItem"}, item: Items]

Init ==
    /\ quote = [status |-> "open", deleted |-> FALSE]
    /\ pos = [o \in Ids |-> 0]
    /\ nextId = 1
    /\ listed \in SUBSET Items
    /\ orderOf = [i \in Items |-> None]
    /\ lock = None
    /\ req = [w \in Workers |-> Idle]

-----------------------------------------------------------------------------
RowsOf(p) == {o \in Ids : p[o] # 0}
Rows == RowsOf(pos)

\* The highest position of a PO, 0 without any.
MaxPosition(p) == CHOOSE m \in {0} \cup {p[o] : o \in Ids} : \A o \in Ids : p[o] <= m

Unnormalized(p) == p  \* mutant: the gap stays
\* normalizePositions: 1, 2, 3, ... in the order of position, then id.
Normalized(p) ==
    [o \in Ids |->
        IF p[o] = 0 THEN 0
        ELSE Cardinality({q \in RowsOf(p) : p[q] < p[o] \/ (p[q] = p[o] /\ q <= o)})]

\* resolveReallocationTarget: the previous PO, else the next one, else none.
Before(p, o) == {q \in RowsOf(p) : p[q] < p[o]}
After(p, o) == {q \in RowsOf(p) : p[q] > p[o]}
FirstTarget(p, o) ==  \* mutant: the first PO instead of the previous one
    IF RowsOf(p) = {o} THEN None
    ELSE CHOOSE q \in RowsOf(p) \ {o} : \A s \in RowsOf(p) \ {o} : p[q] <= p[s]
Target(p, o) ==
    IF Before(p, o) # {} THEN CHOOSE q \in Before(p, o) : \A s \in Before(p, o) : p[s] <= p[q]
    ELSE IF After(p, o) # {} THEN CHOOSE q \in After(p, o) : \A s \in After(p, o) : p[q] <= p[s]
    ELSE None

\* The last two POs go together: a deletion never leaves a single one.
Dissolves(p, o) == o \in RowsOf(p) /\ Cardinality(RowsOf(p) \ {o}) = 1

AllItems == listed  \* mutant: adopts the items of other POs too
Unassigned == {i \in listed : orderOf[i] = None}
ItemsOf(orders) == {i \in listed : orderOf[i] \in orders}
Assign(items, o) == [i \in Items |-> IF i \in items THEN o ELSE orderOf[i]]

Open == quote.status = "open" /\ ~quote.deleted

Finish(w) == req' = [req EXCEPT ![w] = Idle]
Commit(w) == lock' = None /\ Finish(w)

-----------------------------------------------------------------------------
(* Operations on POs.                                                      *)

\* loadOpenQuote or loadPurchaseOrder, before the transaction.  A client
\* reorders the POs it was shown.
Check(w) ==
    /\ req[w] = Idle
    /\ Open
    /\ \E request \in
            [op: {"create"}, adopt: BOOLEAN] \cup [op: {"group"}]
            \cup [op: {"reorder"}, list: {l \in Lists : {l[i] : i \in DOMAIN l} = Rows}]
            \cup [op: {"delete"}, order: Rows] :
          req' = [req EXCEPT ![w] = [op |-> "checked", request |-> request]]
    /\ UNCHANGED <<quote, pos, nextId, listed, orderOf, lock>>

\* lockQuoteRequestForPurchaseOrders: one transaction at a time.
NotLocked == TRUE  \* mutant: the row is read without FOR NO KEY UPDATE
Available == lock = None

\* The lock comes first; the POs are read under it.
LockAndRead(w) ==
    /\ req[w].op = "checked"
    /\ Available
    /\ lock' = w
    /\ req' = [req EXCEPT ![w] = [op |-> "locked", request |-> req[w].request, seen |-> pos]]
    /\ UNCHANGED <<quote, pos, nextId, listed, orderOf>>

Holds(w, op) == req[w].op = "locked" /\ req[w].request.op = op

\* createPurchaseOrder: after the last PO, with the loose items if asked to.
CreateCommit(w) ==
    /\ Holds(w, "create")
    /\ nextId <= MaxOrders
    /\ pos' = [pos EXCEPT ![nextId] = MaxPosition(req[w].seen) + 1]
    /\ nextId' = nextId + 1
    /\ orderOf' = Assign(IF req[w].request.adopt THEN Unassigned ELSE {}, nextId)
    /\ Commit(w)
    /\ UNCHANGED <<quote, listed>>

\* groupPurchaseOrders on a quote without POs, with one PO, with more (409).
GroupNone(w) ==
    /\ Holds(w, "group")
    /\ RowsOf(req[w].seen) = {}
    /\ nextId + 1 <= MaxOrders
    /\ pos' = Normalized([pos EXCEPT ![nextId] = 1, ![nextId + 1] = 2])
    /\ nextId' = nextId + 2
    /\ orderOf' = Assign(Unassigned, nextId)
    /\ Commit(w)
    /\ UNCHANGED <<quote, listed>>

GroupOne(w) ==
    /\ Holds(w, "group")
    /\ nextId <= MaxOrders
    /\ \E first \in RowsOf(req[w].seen) :
          /\ RowsOf(req[w].seen) = {first}
          /\ pos' = Normalized([pos EXCEPT ![nextId] = req[w].seen[first] + 1])
          /\ orderOf' = Assign(Unassigned, first)
    /\ nextId' = nextId + 1
    /\ Commit(w)
    /\ UNCHANGED <<quote, listed>>

GroupRefused(w) ==
    /\ Holds(w, "group")
    /\ Cardinality(RowsOf(req[w].seen)) >= 2
    /\ Commit(w)
    /\ UNCHANGED <<quote, pos, nextId, listed, orderOf>>

\* reorderPurchaseOrders: each PO exactly once, or nothing changes.
ExactlyAll(list, rows) ==
    /\ {list[i] : i \in DOMAIN list} = rows
    /\ \A i, j \in DOMAIN list : list[i] = list[j] => i = j

ReorderCommit(w) ==
    /\ Holds(w, "reorder")
    /\ LET list == req[w].request.list
       IN  pos' = IF ExactlyAll(list, RowsOf(req[w].seen))
                  THEN [o \in Ids |->
                          IF \E i \in DOMAIN list : list[i] = o
                          THEN CHOOSE i \in DOMAIN list : list[i] = o
                          ELSE pos[o]]
                  ELSE pos
    /\ Commit(w)
    /\ UNCHANGED <<quote, nextId, listed, orderOf>>

\* deletePurchaseOrderWithReallocation.  The POs that go:
Leaving(p, o) == IF Dissolves(p, o) THEN RowsOf(p) ELSE {o}
Heir(p, o) == IF Dissolves(p, o) THEN None ELSE Target(p, o)

\* the PO went meanwhile (404),
DeleteRefused(w) ==
    /\ Holds(w, "delete")
    /\ req[w].request.order \notin RowsOf(req[w].seen)
    /\ Commit(w)
    /\ UNCHANGED <<quote, pos, nextId, listed, orderOf>>

\* or its items are moved, and stay locked until the commit,
DeleteMoves(w) ==
    /\ Holds(w, "delete")
    /\ LET p == req[w].seen
           o == req[w].request.order
       IN  /\ o \in RowsOf(p)
           /\ req' = [req EXCEPT ![w] = [op |-> "moved", request |-> req[w].request,
                                         seen |-> p, items |-> ItemsOf(Leaving(p, o))]]
    /\ UNCHANGED <<quote, pos, nextId, listed, orderOf, lock>>

\* and the row is deleted: ON DELETE SET NULL takes the items added since.
DeleteCommit(w) ==
    /\ req[w].op = "moved"
    /\ LET p == req[w].seen
           o == req[w].request.order
           gone == Leaving(p, o)
           left == [q \in Ids |-> IF q \in gone THEN 0 ELSE pos[q]]
       IN  /\ pos' = IF Dissolves(p, o) THEN left ELSE Normalized(left)
           /\ orderOf' = [i \in Items |->
                 IF i \in req[w].items THEN Heir(p, o)
                 ELSE IF orderOf[i] \in gone THEN None
                 ELSE orderOf[i]]
    /\ Commit(w)
    /\ UNCHANGED <<quote, nextId, listed>>

-----------------------------------------------------------------------------
(* Operations on items.                                                    *)

\* QuoteRequestItemController.create: the quote and the PO are checked, then
\* the row is inserted; the foreign key refuses a PO that went meanwhile.
AddItemCheck(w, i, o) ==
    /\ req[w] = Idle
    /\ quote.status = "open"
    /\ i \notin listed
    /\ o \in Rows \cup {None}
    /\ req' = [req EXCEPT ![w] = [op |-> "addItem", item |-> i, order |-> o]]
    /\ UNCHANGED <<quote, pos, nextId, listed, orderOf, lock>>

AddItem(w) ==
    /\ req[w].op = "addItem"
    /\ LET i == req[w].item
           o == req[w].order
       IN  IF i \notin listed /\ o \in Rows \cup {None}
           THEN listed' = listed \cup {i} /\ orderOf' = [orderOf EXCEPT ![i] = o]
           ELSE UNCHANGED <<listed, orderOf>>
    /\ Finish(w)
    /\ UNCHANGED <<quote, pos, nextId, lock>>

RemoveItemCheck(w, i) ==
    /\ req[w] = Idle
    /\ quote.status = "open"
    /\ i \in listed
    /\ req' = [req EXCEPT ![w] = [op |-> "removeItem", item |-> i]]
    /\ UNCHANGED <<quote, pos, nextId, listed, orderOf, lock>>

\* The delete waits for a transaction that has moved the item.
RemoveItem(w) ==
    /\ req[w].op = "removeItem"
    /\ \A v \in Workers : req[v].op = "moved" => req[w].item \notin req[v].items
    /\ listed' = listed \ {req[w].item}
    /\ orderOf' = [orderOf EXCEPT ![req[w].item] = None]
    /\ Finish(w)
    /\ UNCHANGED <<quote, pos, nextId, lock>>

\* movePurchaseOrder re-reads everything under the lock, in one transaction.
MoveItem(w, i, o) ==
    /\ req[w] = Idle
    /\ Available
    /\ i \in listed
    /\ Open
    /\ o \in Rows \cup {None}
    /\ orderOf' = [orderOf EXCEPT ![i] = o]
    /\ UNCHANGED <<quote, pos, nextId, listed, lock, req>>

-----------------------------------------------------------------------------
(* The quote, whose row these transactions lock too.                       *)

Close(w) ==
    /\ req[w] = Idle
    /\ Available
    /\ quote.status = "open"
    /\ quote' = [quote EXCEPT !.status = "closed"]
    /\ UNCHANGED <<pos, nextId, listed, orderOf, lock, req>>

Reopen(w) ==
    /\ req[w] = Idle
    /\ Available
    /\ quote.status = "closed"
    /\ quote' = [quote EXCEPT !.status = "open"]
    /\ UNCHANGED <<pos, nextId, listed, orderOf, lock, req>>

DeleteQuote(w) ==
    /\ req[w] = Idle
    /\ Available
    /\ ~quote.deleted
    /\ quote' = [status |-> "closed", deleted |-> TRUE]
    /\ UNCHANGED <<pos, nextId, listed, orderOf, lock, req>>

\* A restart: what was not committed is lost and the lock is released.
Crash(w) ==
    /\ req[w] # Idle
    /\ Finish(w)
    /\ lock' = IF lock = w THEN None ELSE lock
    /\ UNCHANGED <<quote, pos, nextId, listed, orderOf>>

-----------------------------------------------------------------------------
Order(w) ==
    \/ Check(w) \/ LockAndRead(w)
    \/ CreateCommit(w)
    \/ GroupNone(w) \/ GroupOne(w) \/ GroupRefused(w)
    \/ ReorderCommit(w)
    \/ DeleteRefused(w) \/ DeleteMoves(w) \/ DeleteCommit(w)

Edit(w) ==
    \/ \E i \in Items :
          \/ \E o \in Ids \cup {None} : AddItemCheck(w, i, o) \/ MoveItem(w, i, o)
          \/ RemoveItemCheck(w, i)
    \/ AddItem(w) \/ RemoveItem(w)

Manage(w) == Close(w) \/ Reopen(w) \/ DeleteQuote(w) \/ Crash(w)

Next == \E w \in Workers : Order(w) \/ Edit(w) \/ Manage(w)

Spec == Init /\ [][Next]_vars

-----------------------------------------------------------------------------
(* Properties.                                                             *)

\* Every row, lock and remembered request has the shape the schema and the
\* handlers give it.
TypeOK ==
    /\ quote \in [status: {"open", "closed"}, deleted: BOOLEAN]
    /\ pos \in Positions
    /\ nextId \in 1..MaxOrders + 1
    /\ listed \subseteq Items
    /\ orderOf \in [Items -> Ids \cup {None}]
    /\ lock \in Workers \cup {None}
    /\ req \in [Workers -> Requests]

\* Whatever requests overlap, the POs of a quote are numbered 1, 2, ..., n
\* without gaps or repetitions (the screens and the e-mails list them so).
PositionsContiguous ==
    /\ {pos[o] : o \in Rows} = 1..Cardinality(Rows)
    /\ \A o, q \in Rows : pos[o] = pos[q] => o = q

\* "PO unica nao existe": a deletion that leaves one PO dissolves the grouping,
\* so no deletion, whatever it overlaps, leaves exactly one.
DeletionLeavesNoSingle ==
    [][(Rows' # Rows /\ Rows' \subseteq Rows) => Cardinality(Rows') # 1]_vars

\* Grouping gives exactly two POs, even when two clients group at once.
GroupingMakesTwo ==
    [][\A w \in Workers :
          (Holds(w, "group") /\ req'[w] = Idle /\ Rows' # Rows)
             => Cardinality(Rows') = 2]_vars

\* The items of a deleted PO follow its neighbour: with new numbers, they are
\* in the PO that precedes the gap, or in the first one if the first was deleted.
ItemsFollowTheNeighbour ==
    [][\A w \in Workers : \A i \in Items :
          (req[w].op = "moved" /\ i \in req[w].items /\ Rows' # Rows /\ Rows' # {})
             => LET k == pos[req[w].request.order]
                IN  orderOf'[i] \in Rows' /\ pos'[orderOf'[i]] = IF k = 1 THEN 1 ELSE k - 1]_vars

\* The rows in the order of their positions.
InOrder == [k \in 1..Cardinality(Rows) |-> CHOOSE o \in Rows : pos[o] = k]

List == INSTANCE OrderList WITH Orders <- Ids, list <- InOrder, home <- orderOf

\* Whatever requests overlap, the POs and their items change as a list would on
\* which one request after the other works alone.
ImplementsList == List!Spec
=============================================================================
