------------------------ MODULE PurchaseOrders_proof ------------------------
(***************************************************************************)
(* Proofs about PurchaseOrders: type correctness, mutual exclusion by the  *)
(* row lock, contiguous positions, homes that exist, and that it all       *)
(* implements OrderList, for any number of POs, items and overlapping      *)
(* requests.                                                               *)
(***************************************************************************)
EXTENDS PurchaseOrders, FiniteSetTheorems, FunctionTheorems, SequenceTheorems, TLAPS

\* p numbers its rows 1, 2, ..., n.
Numbered(p, n) ==
    /\ {p[o] : o \in RowsOf(p)} = 1..n
    /\ \A o, q \in RowsOf(p) : p[o] = p[q] => o = q

-----------------------------------------------------------------------------
(* Counting rows by their positions.                                       *)

LEMMA IdsFinite == IsFiniteSet(Ids)
BY OrdersAssumption, FS_Interval DEF Ids

LEMMA RowsFinite == ASSUME NEW p PROVE IsFiniteSet(RowsOf(p)) /\ RowsOf(p) \subseteq Ids
BY IdsFinite, FS_Subset, RowsOf(p) \in SUBSET Ids DEF RowsOf

\* As many rows as positions, where p repeats none.
LEMMA CountByPosition ==
    ASSUME NEW p \in Positions, NEW S \in SUBSET Ids, NEW T, {p[o] : o \in S} = T,
           \A o, q \in S : p[o] = p[q] => o = q
    PROVE  Cardinality(S) = Cardinality(T)
<1> DEFINE f == [o \in S |-> p[o]]
<1>1. f \in Bijection(S, T)
  BY Fun_IsBij
<1>2. IsFiniteSet(S)
  BY IdsFinite, FS_Subset
<1> QED BY <1>1, <1>2, FS_Bijection DEF ExistsBijection

LEMMA CountNumbered ==
    ASSUME NEW p \in Positions, NEW n \in Nat, Numbered(p, n)
    PROVE  Cardinality(RowsOf(p)) = n
<1>1. ASSUME NEW S \in SUBSET Ids, {p[o] : o \in S} = 1..n,
             \A o, q \in S : p[o] = p[q] => o = q
      PROVE  Cardinality(S) = n
  <2>1. Cardinality(S) = Cardinality(1..n)
    BY <1>1, CountByPosition
  <2> QED BY <2>1, FS_Interval
<1>2. RowsOf(p) \in SUBSET Ids
  BY RowsFinite
<1> QED BY <1>1, <1>2 DEF Numbered

LEMMA ContiguousIsNumbered ==
    ASSUME pos \in Positions
    PROVE  PositionsContiguous <=> \E n \in Nat : Numbered(pos, n)
<1>1. Cardinality(Rows) \in Nat
  BY RowsFinite, FS_CardinalityType DEF Rows
<1> QED BY <1>1, CountNumbered DEF PositionsContiguous, Numbered, Rows

\* The highest position of n numbered POs is n.
LEMMA MaxOfNumbered ==
    ASSUME NEW p \in Positions, NEW n \in Nat, Numbered(p, n)
    PROVE  MaxPosition(p) = n
<1>1. \A o \in Ids : p[o] \in Nat /\ p[o] <= n
  BY DEF Numbered, RowsOf, Positions
<1>2. n \in {0} \cup {p[o] : o \in Ids}
  BY DEF Numbered, RowsOf
<1>3. ASSUME NEW m \in {0} \cup {p[o] : o \in Ids}, \A o \in Ids : p[o] <= m
      PROVE  m = n
  <2>1. m \in Nat /\ m <= n
    BY <1>1
  <2>2. CASE n = 0
    BY <2>1, <2>2
  <2>3. CASE n # 0
    BY <1>2, <1>3, <2>1, <2>3
  <2> QED BY <2>2, <2>3
<1> QED BY <1>1, <1>2, <1>3 DEF MaxPosition

-----------------------------------------------------------------------------
(* What each operation does to the numbers.                                *)

\* A PO appended after the last one.
LEMMA AppendNumbered ==
    ASSUME NEW p \in Positions, NEW n \in Nat, Numbered(p, n),
           NEW x \in Ids \ RowsOf(p), NEW m \in Nat, m = n + 1
    PROVE  [p EXCEPT ![x] = m] \in Positions /\ Numbered([p EXCEPT ![x] = m], m)
<1> DEFINE r == [p EXCEPT ![x] = m]
<1>1. r \in Positions /\ RowsOf(r) = RowsOf(p) \cup {x}
  BY DEF RowsOf, Positions
<1>2. \A o \in RowsOf(p) : r[o] = p[o] /\ o # x /\ p[o] \in 1..n
  BY DEF Numbered, RowsOf, Positions
<1>3. r[x] = m
  BY DEF Positions
<1>4. {r[o] : o \in RowsOf(r)} = {p[o] : o \in RowsOf(p)} \cup {m}
  <2> HIDE DEF r
  <2>1. {r[o] : o \in RowsOf(r)} = {r[o] : o \in RowsOf(p)} \cup {r[x]}
    BY <1>1
  <2>2. {r[o] : o \in RowsOf(p)} = {p[o] : o \in RowsOf(p)}
    BY <1>2
  <2> QED BY <1>3, <2>1, <2>2
<1>5. 1..m = (1..n) \cup {m}
  OBVIOUS
<1>6. \A o, q \in RowsOf(r) : r[o] = r[q] => o = q
  <2>1. \A o \in RowsOf(p) : r[o] # m
    BY <1>2
  <2>2. \A o, q \in RowsOf(p) : r[o] = r[q] => o = q
    BY <1>2 DEF Numbered
  <2>3. r[x] = m /\ RowsOf(r) = RowsOf(p) \cup {x}
    BY <1>1, <1>3
  <2> HIDE DEF r
  <2> QED BY <2>1, <2>2, <2>3
<1>7. Numbered(r, m)
  BY <1>4, <1>5, <1>6 DEF Numbered
<1> QED BY <1>1, <1>7

\* The rank of a PO, as normalizePositions counts it.
Rank(p, o) == {q \in RowsOf(p) : p[q] < p[o] \/ (p[q] = p[o] /\ q <= o)}

\* Numbered positions are their own ranks: normalizing changes nothing.
LEMMA NormalizedNumbered ==
    ASSUME NEW p \in Positions, NEW n \in Nat, Numbered(p, n)
    PROVE  Normalized(p) = p
<1>1. ASSUME NEW o \in RowsOf(p) PROVE Cardinality(Rank(p, o)) = p[o]
  <2>1. p[o] \in 1..n /\ o \in Ids
    BY DEF Numbered, RowsOf
  <2>2. Rank(p, o) = {q \in RowsOf(p) : p[q] <= p[o]}
    BY <2>1 DEF Rank, Numbered, RowsOf, Positions, Ids
  <2>3. {p[q] : q \in Rank(p, o)} = 1..p[o]
    BY <2>1, <2>2 DEF Numbered
  <2>4. Rank(p, o) \in SUBSET Ids
    BY DEF Rank, RowsOf
  <2>5. \A s, q \in Rank(p, o) : p[s] = p[q] => s = q
    BY DEF Rank, Numbered
  <2>6. Cardinality(Rank(p, o)) = Cardinality(1..p[o])
    BY <2>3, <2>4, <2>5, CountByPosition
  <2> QED BY <2>1, <2>6, FS_Interval
<1>2. p = [o \in Ids |-> p[o]]
  BY DEF Positions
<1>3. \A o \in Ids : IF p[o] = 0 THEN p[o] = 0 ELSE Cardinality(Rank(p, o)) = p[o]
  BY <1>1 DEF RowsOf
<1> QED BY <1>2, <1>3 DEF Normalized, Rank

\* A deletion leaves one gap, which normalizing closes.
LEMMA GapClosed ==
    ASSUME NEW p \in Positions, NEW n \in Nat, Numbered(p, n), NEW x \in RowsOf(p)
    PROVE  LET r == [q \in Ids |-> IF q \in {x} THEN 0 ELSE p[q]]
           IN  /\ Normalized(r) \in Positions /\ Numbered(Normalized(r), n - 1) /\ n - 1 \in Nat
               /\ \A q \in RowsOf(p) \ {x} :
                     Normalized(r)[q] = IF p[q] < p[x] THEN p[q] ELSE p[q] - 1
<1> DEFINE r == [q \in Ids |-> IF q \in {x} THEN 0 ELSE p[q]]
           k == p[x]
<1>1. k \in 1..n /\ x \in Ids
  BY DEF Numbered, RowsOf
<1>0. r \in Positions
  BY DEF Positions
<1>2. RowsOf(r) = RowsOf(p) \ {x}
  BY DEF RowsOf, Positions
<1>3. \A o \in RowsOf(r) : r[o] = p[o] /\ p[o] \in 1..n /\ p[o] # k /\ o \in Ids
  BY <1>1, <1>2 DEF Numbered, RowsOf
<1>4. \A o, q \in RowsOf(r) : r[o] = r[q] => o = q
  BY <1>2, <1>3 DEF Numbered
<1>5. ASSUME NEW o \in RowsOf(r)
      PROVE  Cardinality(Rank(r, o)) = IF p[o] < k THEN p[o] ELSE p[o] - 1
  <2>1. Rank(r, o) = {q \in RowsOf(r) : p[q] <= p[o]}
    BY <1>3, <1>4 DEF Rank, Ids
  <2>2. {r[q] : q \in Rank(r, o)} = (1..p[o]) \ {k}
    <3>1. ASSUME NEW v \in (1..p[o]) \ {k} PROVE \E q \in Rank(r, o) : r[q] = v
      <4>1. v \in 1..n
        BY <1>3
      <4>2. PICK q \in RowsOf(p) : p[q] = v
        BY <4>1 DEF Numbered
      <4> QED BY <1>2, <1>3, <2>1, <4>2
    <3>2. \A q \in Rank(r, o) : r[q] \in (1..p[o]) \ {k}
      BY <1>3, <2>1
    <3> QED BY <3>1, <3>2
  <2>3. Rank(r, o) \in SUBSET Ids /\ \A s, q \in Rank(r, o) : r[s] = r[q] => s = q
    BY <1>4 DEF Rank, RowsOf
  <2>4. Cardinality(Rank(r, o)) = Cardinality((1..p[o]) \ {k})
    BY <1>0, <2>2, <2>3, CountByPosition
  <2>5. IsFiniteSet(1..p[o]) /\ Cardinality(1..p[o]) = p[o] /\ p[o] \in Nat
    BY <1>3, FS_Interval
  <2>6. Cardinality((1..p[o]) \ {k}) = IF k \in 1..p[o] THEN p[o] - 1 ELSE p[o]
    BY <2>5, FS_RemoveElement
  <2> QED BY <1>1, <1>3, <2>4, <2>6
<1> DEFINE s == Normalized(r)
<1>6. \A o \in Ids : s[o] = IF r[o] = 0 THEN 0 ELSE Cardinality(Rank(r, o))
  BY DEF Normalized, Rank
<1>7. \A o \in RowsOf(r) : s[o] = (IF p[o] < k THEN p[o] ELSE p[o] - 1) /\ s[o] \in 1..n - 1
  BY <1>1, <1>3, <1>5, <1>6 DEF RowsOf
<1>8. \A o \in Ids \ RowsOf(r) : s[o] = 0
  BY <1>6 DEF RowsOf
<1>9. RowsOf(s) = RowsOf(r)
  BY <1>7, <1>8 DEF RowsOf
<1>10. s \in Positions
  <2>1. \A o \in Ids : s[o] \in Nat
    BY <1>7, <1>8
  <2>2. s = [o \in Ids |-> s[o]]
    BY DEF Normalized
  <2> QED BY <2>1, <2>2 DEF Positions
<1>11. \A o, q \in RowsOf(s) : s[o] = s[q] => o = q
  BY <1>1, <1>3, <1>4, <1>7, <1>9
<1>12. ASSUME NEW v \in 1..n - 1 PROVE \E o \in RowsOf(s) : s[o] = v
  <2> DEFINE u == IF v < k THEN v ELSE v + 1
  <2>1. u \in 1..n /\ u # k
    BY <1>1
  <2>2. PICK o \in RowsOf(p) : p[o] = u
    BY <2>1 DEF Numbered
  <2>3. o \in RowsOf(r)
    BY <1>2, <2>1, <2>2
  <2> QED BY <1>1, <1>7, <1>9, <2>2, <2>3
<1>13. {s[o] : o \in RowsOf(s)} = 1..n - 1
  BY <1>7, <1>9, <1>12
<1>14. Numbered(s, n - 1)
  BY <1>11, <1>13 DEF Numbered
<1>15. n - 1 \in Nat
  BY <1>1
<1> QED BY <1>2, <1>7, <1>10, <1>14, <1>15

\* The client's list becomes the numbers.
LEMMA ReorderNumbered ==
    ASSUME NEW p \in Positions, NEW n \in Nat, Numbered(p, n),
           NEW m \in Nat, NEW list \in [1..m -> Ids], ExactlyAll(list, RowsOf(p))
    PROVE  LET r == [o \in Ids |-> IF \E i \in DOMAIN list : list[i] = o
                                   THEN CHOOSE i \in DOMAIN list : list[i] = o
                                   ELSE p[o]]
           IN  r \in Positions /\ Numbered(r, m)
<1> DEFINE r == [o \in Ids |-> IF \E i \in DOMAIN list : list[i] = o
                               THEN CHOOSE i \in DOMAIN list : list[i] = o
                               ELSE p[o]]
<1>1. DOMAIN list = 1..m
  OBVIOUS
<1>2. \A o \in RowsOf(p) : r[o] \in 1..m /\ list[r[o]] = o
  BY <1>1 DEF ExactlyAll, RowsOf
<1>3. \A o \in Ids \ RowsOf(p) : r[o] = 0
  BY <1>1 DEF ExactlyAll, RowsOf
<1>4. RowsOf(r) = RowsOf(p)
  BY <1>2, <1>3 DEF RowsOf
<1>5. \A i \in 1..m : list[i] \in RowsOf(p) /\ r[list[i]] = i
  BY <1>1, <1>2 DEF ExactlyAll
<1>6. {r[o] : o \in RowsOf(r)} = 1..m
  <2>1. \A o \in RowsOf(r) : r[o] \in 1..m
    BY <1>2, <1>4
  <2>2. \A i \in 1..m : \E o \in RowsOf(r) : r[o] = i
    BY <1>4, <1>5
  <2> HIDE DEF r
  <2> QED BY <2>1, <2>2
<1>7. r \in Positions
  BY <1>2, <1>3 DEF Positions
<1>8. \A o, q \in RowsOf(r) : r[o] = r[q] => o = q
  <2>1. \A o \in RowsOf(r) : list[r[o]] = o
    BY <1>2, <1>4
  <2> HIDE DEF r
  <2> QED BY <2>1
<1>9. Numbered(r, m)
  BY <1>6, <1>8 DEF Numbered
<1> QED BY <1>7, <1>9

\* A PO that is not the only one has a neighbour one position away.
LEMMA TargetIsNeighbour ==
    ASSUME NEW p \in Positions, NEW n \in Nat, Numbered(p, n), NEW x \in RowsOf(p)
    PROVE  /\ n = 1 => Target(p, x) = None
           /\ n # 1 => /\ Target(p, x) \in RowsOf(p) \ {x}
                       /\ p[Target(p, x)] = IF p[x] = 1 THEN 2 ELSE p[x] - 1
<1>1. \A o \in RowsOf(p) : p[o] \in 1..n /\ o \in Ids
  BY DEF Numbered, RowsOf
<1>2. CASE p[x] # 1
  <2>1. PICK q \in RowsOf(p) : p[q] = p[x] - 1
    BY <1>1, <1>2, p[x] - 1 \in 1..n DEF Numbered
  <2>2. q \in Before(p, x) /\ \A s \in Before(p, x) : p[s] <= p[q]
    BY <1>1, <2>1 DEF Before
  <2>3. Target(p, x) \in Before(p, x) /\ \A s \in Before(p, x) : p[s] <= p[Target(p, x)]
    BY <2>2 DEF Target
  <2>4. p[Target(p, x)] = p[q]
    BY <1>1, <2>2, <2>3 DEF Before
  <2> QED BY <1>1, <1>2, <2>1, <2>3, <2>4 DEF Before
<1>3. CASE p[x] = 1
  <2>1. Before(p, x) = {}
    BY <1>1, <1>3 DEF Before
  <2>2. CASE n = 1
    <3>1. After(p, x) = {}
      BY <1>1, <1>3, <2>2 DEF After
    <3> QED BY <2>1, <2>2, <3>1 DEF Target
  <2>3. CASE n # 1
    <3>1. PICK q \in RowsOf(p) : p[q] = 2
      BY <1>1, <1>3, <2>3, 2 \in 1..n DEF Numbered
    <3>2. q \in After(p, x) /\ \A s \in After(p, x) : p[q] <= p[s]
      BY <1>1, <1>3, <3>1 DEF After
    <3>3. Target(p, x) \in After(p, x) /\ \A s \in After(p, x) : p[Target(p, x)] <= p[s]
      BY <2>1, <3>2 DEF Target
    <3>4. p[Target(p, x)] = p[q]
      BY <1>1, <3>2, <3>3 DEF After
    <3> QED BY <1>3, <2>3, <3>1, <3>3, <3>4 DEF After
  <2> QED BY <2>2, <2>3
<1> QED BY <1>2, <1>3

-----------------------------------------------------------------------------
(* The inductive invariant.                                                *)

\* The row lock: a transaction past its first statement holds it, and what it
\* read of the POs is still so.
LockedReadsStand ==
    \A w \in Workers :
        req[w].op \in {"locked", "moved"} => lock = w /\ req[w].seen = pos

\* A deletion that has moved items deletes a PO that exists.
MovesAreDeletions ==
    \A w \in Workers :
        req[w].op = "moved" =>
            req[w].request.op = "delete" /\ req[w].request.order \in RowsOf(req[w].seen)

\* Ids that were not given out have no row.
FreshIds == \A o \in Ids : o >= nextId => pos[o] = 0

IInv ==
    /\ TypeOK
    /\ LockedReadsStand
    /\ MovesAreDeletions
    /\ FreshIds
    /\ PositionsContiguous

LEMMA RequestFields ==
    ASSUME TypeOK, NEW w \in Workers
    PROVE  /\ req[w].op = "checked" => req[w].request \in Checked
           /\ req[w].op = "locked" => req[w].request \in Checked /\ req[w].seen \in Positions
           /\ req[w].op = "moved" =>
                /\ req[w].request \in Checked
                /\ req[w].seen \in Positions
                /\ req[w].items \in SUBSET Items
           /\ req[w].op = "addItem" =>
                req[w].item \in Items /\ req[w].order \in Ids \cup {None}
           /\ req[w].op = "removeItem" => req[w].item \in Items
BY DEF TypeOK, Requests, Idle

LEMMA CheckedFields ==
    ASSUME NEW q \in Checked
    PROVE  /\ q.op = "reorder" => q.list \in Lists
           /\ q.op = "delete" => q.order \in Ids
BY DEF Checked

LEMMA InitIInv == Init => IInv
<1> SUFFICES ASSUME Init PROVE IInv
  OBVIOUS
<1>1. TypeOK
  BY OrdersAssumption DEF Init, TypeOK, Positions, Requests, Idle, Ids
<1>2. LockedReadsStand /\ MovesAreDeletions /\ FreshIds
  BY DEF Init, LockedReadsStand, MovesAreDeletions, FreshIds, Idle
<1>3. PositionsContiguous
  <2>1. RowsOf(pos) = {}
    BY DEF Init, RowsOf
  <2>2. Numbered(pos, 0)
    BY <2>1 DEF Numbered
  <2> QED BY <1>1, <2>2, ContiguousIsNumbered DEF TypeOK
<1> QED BY <1>1, <1>2, <1>3 DEF IInv

\* A step that leaves the POs and the lock alone keeps the invariant when what
\* it remembers holds no lock.
LEMMA LockFreeStep ==
    ASSUME IInv, NEW w \in Workers, UNCHANGED <<pos, nextId>>,
           quote' \in [status: {"open", "closed"}, deleted: BOOLEAN],
           listed' \subseteq Items, orderOf' \in [Items -> Ids \cup {None}],
           NEW q \in Requests, q.op \notin {"locked", "moved"},
           req' = req \/ req' = [req EXCEPT ![w] = q],
           lock' = lock \/ (lock = w /\ lock' = None /\ req' = [req EXCEPT ![w] = q])
    PROVE  IInv'
<1> USE DEF IInv
<1>1. TypeOK'
  BY DEF TypeOK
<1>2. \A v \in Workers : req'[v].op \in {"locked", "moved"} => req'[v] = req[v] /\ lock' = lock
  <2> SUFFICES ASSUME NEW v \in Workers, req'[v].op \in {"locked", "moved"}
               PROVE  req'[v] = req[v] /\ lock' = lock
    OBVIOUS
  <2>1. req'[v] = req[v] /\ (req' = [req EXCEPT ![w] = q] => v # w)
    BY DEF TypeOK
  <2>2. lock = v
    BY <2>1 DEF LockedReadsStand
  <2> QED BY <2>1, <2>2
<1>3. LockedReadsStand' /\ MovesAreDeletions'
  BY <1>2 DEF LockedReadsStand, MovesAreDeletions
<1>4. FreshIds' /\ PositionsContiguous'
  <2>1. FreshIds'
    BY DEF FreshIds
  <2>2. Rows' = Rows /\ pos' = pos
    BY DEF Rows, RowsOf
  <2>3. PositionsContiguous'
    BY <2>2 DEF PositionsContiguous
  <2> QED BY <2>1, <2>3
<1> QED BY <1>1, <1>3, <1>4

\* The end of a transaction that numbered the POs again.
LEMMA CommitStep ==
    ASSUME IInv, NEW w \in Workers, req[w].op \in {"locked", "moved"}, Commit(w),
           UNCHANGED <<quote, listed>>,
           orderOf' \in [Items -> Ids \cup {None}],
           nextId' \in nextId..MaxOrders + 1,
           pos' \in Positions, NEW n \in Nat, Numbered(pos', n),
           \A o \in Ids : o >= nextId' => pos'[o] = 0
    PROVE  IInv'
<1> USE DEF IInv
<1>1. req' \in [Workers -> Requests] /\ lock' = None /\ req'[w] = Idle
  BY DEF TypeOK, Commit, Finish, Requests
<1>2. TypeOK'
  BY <1>1 DEF TypeOK
<1>3. \A v \in Workers : req'[v].op \notin {"locked", "moved"}
  <2> SUFFICES ASSUME NEW v \in Workers, req'[v].op \in {"locked", "moved"} PROVE FALSE
    OBVIOUS
  <2>1. v # w /\ req'[v] = req[v]
    BY <1>1 DEF TypeOK, Commit, Finish, Idle
  <2> QED BY <2>1 DEF LockedReadsStand
<1>4. LockedReadsStand' /\ MovesAreDeletions' /\ FreshIds'
  BY <1>3 DEF LockedReadsStand, MovesAreDeletions, FreshIds
<1>5. PositionsContiguous'
  <2> DEFINE P == pos'
  <2>1. {P[o] : o \in RowsOf(P)} = 1..Cardinality(RowsOf(P))
        /\ \A o, q \in RowsOf(P) : P[o] = P[q] => o = q
    BY CountNumbered DEF Numbered
  <2> QED BY <2>1 DEF PositionsContiguous, Rows, RowsOf
<1> QED BY <1>2, <1>4, <1>5

-----------------------------------------------------------------------------
(* The steps.                                                              *)

\* What a worker that holds the lock knows.
LEMMA Holder ==
    ASSUME IInv, NEW w \in Workers, req[w].op \in {"locked", "moved"}
    PROVE  /\ req[w].seen = pos
           /\ req[w].request \in Checked
           /\ \E n \in Nat : Numbered(pos, n)
           /\ pos \in Positions /\ nextId \in 1..MaxOrders + 1 /\ FreshIds
BY RequestFields, ContiguousIsNumbered DEF IInv, LockedReadsStand, TypeOK

LEMMA AssignType ==
    ASSUME TypeOK, NEW items, NEW o \in Ids
    PROVE  Assign(items, o) \in [Items -> Ids \cup {None}]
BY DEF Assign, TypeOK

LEMMA CheckStep == ASSUME IInv, NEW w \in Workers, Check(w) PROVE IInv'
<1>1. PICK request \in
            [op: {"create"}, adopt: BOOLEAN] \cup [op: {"group"}]
            \cup [op: {"reorder"}, list: {l \in Lists : {l[i] : i \in DOMAIN l} = Rows}]
            \cup [op: {"delete"}, order: Rows] :
          req' = [req EXCEPT ![w] = [op |-> "checked", request |-> request]]
  BY DEF Check
<1>2. Rows \subseteq Ids
  BY RowsFinite DEF Rows
<1>3. request \in Checked
  BY <1>2 DEF Checked
<1> DEFINE q == [op |-> "checked", request |-> request]
<1>4. q \in Requests
  BY <1>3 DEF Requests
<1> QED BY <1>1, <1>4, LockFreeStep DEF Check, IInv, TypeOK

LEMMA LockStep == ASSUME IInv, NEW w \in Workers, LockAndRead(w) PROVE IInv'
<1> USE DEF IInv
<1> DEFINE q == [op |-> "locked", request |-> req[w].request, seen |-> pos]
<1>1. req[w].request \in Checked
  BY RequestFields DEF LockAndRead
<1>2. q \in Requests
  BY <1>1 DEF Requests, TypeOK
<1>3. TypeOK'
  BY <1>2 DEF LockAndRead, TypeOK
<1>4. \A v \in Workers : req[v].op \notin {"locked", "moved"}
  BY OrdersAssumption DEF LockAndRead, Available, LockedReadsStand
<1>5. LockedReadsStand' /\ MovesAreDeletions'
  BY <1>4 DEF LockAndRead, TypeOK, LockedReadsStand, MovesAreDeletions
<1>6. FreshIds' /\ Rows' = Rows /\ pos' = pos
  BY DEF LockAndRead, FreshIds, Rows, RowsOf
<1>7. PositionsContiguous'
  BY <1>6 DEF PositionsContiguous
<1> QED BY <1>3, <1>5, <1>6, <1>7

LEMMA CreateStep ==
    ASSUME IInv, NEW w \in Workers, CreateCommit(w)
    PROVE  /\ IInv'
           /\ nextId \in Ids \ RowsOf(pos)
           /\ \E n \in Nat : /\ Numbered(pos, n) /\ Numbered(pos', n + 1)
                            /\ pos' = [pos EXCEPT ![nextId] = n + 1]
<1>1. PICK n \in Nat : Numbered(pos, n)
  BY Holder DEF CreateCommit, Holds
<1>2. nextId \in Ids \ RowsOf(pos) /\ pos \in Positions
  BY Holder DEF CreateCommit, Holds, FreshIds, RowsOf, Ids
<1>3. pos' = [pos EXCEPT ![nextId] = n + 1]
  BY <1>1, <1>2, Holder, MaxOfNumbered DEF CreateCommit, Holds
<1>4. pos' \in Positions /\ Numbered(pos', n + 1)
  BY <1>1, <1>2, <1>3, AppendNumbered, n + 1 \in Nat
<1>5. orderOf' \in [Items -> Ids \cup {None}]
  BY <1>2, AssignType DEF CreateCommit, IInv
<1>6. \A o \in Ids : o >= nextId' => pos'[o] = 0
  BY <1>2, <1>3, Holder DEF CreateCommit, Holds, FreshIds, Ids
<1>7. nextId' \in nextId..MaxOrders + 1
  BY <1>2, OrdersAssumption DEF CreateCommit, Ids
<1>8. IInv'
  BY <1>4, <1>5, <1>6, <1>7, CommitStep, n + 1 \in Nat DEF CreateCommit, Holds
<1> QED BY <1>1, <1>2, <1>3, <1>4, <1>8

LEMMA GroupNoneStep ==
    ASSUME IInv, NEW w \in Workers, GroupNone(w)
    PROVE  /\ IInv' /\ Numbered(pos', 2) /\ Numbered(pos, 0)
           /\ nextId \in Ids /\ nextId + 1 \in Ids
           /\ pos'[nextId] = 1 /\ pos'[nextId + 1] = 2
<1>1. pos \in Positions /\ RowsOf(pos) = {} /\ Numbered(pos, 0)
  BY Holder DEF GroupNone, Holds, Numbered
<1>2. nextId \in Ids /\ nextId + 1 \in Ids /\ nextId \in Nat
  BY Holder, OrdersAssumption DEF GroupNone, Holds, Ids
<1> DEFINE one == [pos EXCEPT ![nextId] = 1]
           two == [one EXCEPT ![nextId + 1] = 2]
<1>3. one \in Positions /\ Numbered(one, 1)
  BY <1>1, <1>2, AppendNumbered
<1>4. nextId + 1 \in Ids \ RowsOf(one)
  BY <1>1, <1>2 DEF RowsOf, Positions
<1>5. two \in Positions /\ Numbered(two, 2)
  <2> HIDE DEF one
  <2> QED BY <1>3, <1>4, AppendNumbered, 1 \in Nat, 2 \in Nat, 2 = 1 + 1
<1>6. pos' = two
  BY <1>5, NormalizedNumbered DEF GroupNone
<1>7. \A o \in Ids : o >= nextId' => pos'[o] = 0
  <2>1. \A o \in Ids : pos[o] = 0
    BY <1>1 DEF RowsOf
  <2>2. \A o \in Ids : o >= nextId + 2 => o # nextId /\ o # nextId + 1
    BY <1>2 DEF Ids
  <2> QED BY <1>1, <1>6, <2>1, <2>2 DEF GroupNone, Positions
<1>8. nextId' \in nextId..MaxOrders + 1
  BY <1>2, OrdersAssumption DEF GroupNone, Ids
<1>9. orderOf' \in [Items -> Ids \cup {None}]
  BY <1>2, AssignType DEF GroupNone, IInv
<1>10. pos' \in Positions /\ Numbered(pos', 2)
  BY <1>5, <1>6
<1>11. IInv'
  BY <1>7, <1>8, <1>9, <1>10, CommitStep, 2 \in Nat DEF GroupNone, Holds
<1>12. pos'[nextId] = 1 /\ pos'[nextId + 1] = 2
  BY <1>1, <1>2, <1>6 DEF Positions
<1> QED BY <1>1, <1>2, <1>10, <1>11, <1>12

LEMMA GroupOneStep ==
    ASSUME IInv, NEW w \in Workers, GroupOne(w)
    PROVE  /\ IInv' /\ Numbered(pos', 2) /\ Numbered(pos, 1)
           /\ nextId \in Ids \ RowsOf(pos) /\ pos'[nextId] = 2
           /\ \E first \in RowsOf(pos) :
                 /\ pos[first] = 1 /\ pos'[first] = 1
                 /\ orderOf' = Assign(Unassigned, first)
<1>1. PICK n \in Nat : Numbered(pos, n)
  BY Holder DEF GroupOne, Holds
<1>2. pos \in Positions /\ req[w].seen = pos
  BY Holder DEF GroupOne, Holds
<1>3. PICK first \in RowsOf(pos) :
         /\ RowsOf(pos) = {first}
         /\ pos' = Normalized([pos EXCEPT ![nextId] = pos[first] + 1])
         /\ orderOf' = Assign(Unassigned, first)
  BY <1>2 DEF GroupOne
<1>4. n = 1 /\ pos[first] = 1 /\ first \in Ids
  <2>1. Cardinality(RowsOf(pos)) = 1
    BY <1>3, FS_Singleton
  <2>2. n = 1
    BY <1>1, <1>2, <2>1, CountNumbered
  <2> QED BY <1>1, <1>3, <2>2 DEF Numbered, RowsOf
<1>5. nextId \in Ids \ RowsOf(pos)
  BY Holder DEF GroupOne, Holds, FreshIds, RowsOf, Ids
<1> DEFINE two == [pos EXCEPT ![nextId] = 2]
<1>6. two \in Positions /\ Numbered(two, 2)
  BY <1>1, <1>2, <1>4, <1>5, AppendNumbered
<1>7. pos' = two
  BY <1>3, <1>4, <1>6, NormalizedNumbered
<1>8. \A o \in Ids : o >= nextId' => pos'[o] = 0
  <2>1. \A o \in Ids : o >= nextId + 1 => o # nextId /\ o >= nextId
    BY <1>5 DEF Ids
  <2>2. FreshIds
    BY Holder DEF GroupOne, Holds
  <2> QED BY <1>2, <1>7, <2>1, <2>2 DEF GroupOne, FreshIds, Positions
<1>9. nextId' \in nextId..MaxOrders + 1
  BY <1>5, OrdersAssumption DEF GroupOne, Ids
<1>10. orderOf' \in [Items -> Ids \cup {None}]
  BY <1>3, <1>4, AssignType DEF IInv
<1>11. pos' \in Positions /\ Numbered(pos', 2)
  BY <1>6, <1>7
<1>12. IInv'
  BY <1>8, <1>9, <1>10, <1>11, CommitStep, 2 \in Nat DEF GroupOne, Holds
<1>13. pos'[nextId] = 2 /\ pos'[first] = 1
  BY <1>2, <1>4, <1>5, <1>7 DEF Positions
<1> QED BY <1>1, <1>3, <1>4, <1>5, <1>11, <1>12, <1>13

\* A transaction that changes no number.
LEMMA UnchangedStep ==
    ASSUME IInv, NEW w \in Workers, GroupRefused(w) \/ DeleteRefused(w)
    PROVE  IInv'
<1>1. req[w].op = "locked" /\ UNCHANGED <<quote, pos, nextId, listed, orderOf>> /\ Commit(w)
  BY DEF GroupRefused, DeleteRefused, Holds
<1>2. PICK n \in Nat : Numbered(pos, n)
  BY <1>1, Holder
<1>3. nextId' \in nextId..MaxOrders + 1 /\ pos' \in Positions /\ Numbered(pos', n)
  BY <1>1, <1>2, Holder, OrdersAssumption
<1>4. \A o \in Ids : o >= nextId' => pos'[o] = 0
  BY <1>1, Holder DEF FreshIds
<1> QED BY <1>1, <1>3, <1>4, CommitStep DEF IInv, TypeOK

LEMMA ReorderStep == ASSUME IInv, NEW w \in Workers, ReorderCommit(w) PROVE IInv'
<1>1. PICK n \in Nat : Numbered(pos, n)
  BY Holder DEF ReorderCommit, Holds
<1>2. pos \in Positions /\ req[w].seen = pos /\ req[w].request.list \in Lists
  BY Holder, CheckedFields DEF ReorderCommit, Holds
<1> DEFINE list == req[w].request.list
           r == [o \in Ids |-> IF \E i \in DOMAIN list : list[i] = o
                               THEN CHOOSE i \in DOMAIN list : list[i] = o
                               ELSE pos[o]]
<1>3. PICK m \in 0..MaxOrders : list \in [1..m -> Ids]
  BY <1>2 DEF Lists
<1>4. m \in Nat
  BY OrdersAssumption
<1>5. pos' = IF ExactlyAll(list, RowsOf(pos)) THEN r ELSE pos
  BY <1>2 DEF ReorderCommit
<1>6. ExactlyAll(list, RowsOf(pos)) => r \in Positions /\ Numbered(r, m)
  BY <1>1, <1>2, <1>3, <1>4, ReorderNumbered
<1>7. \A o \in Ids : o >= nextId' => pos'[o] = 0
  <2>1. \A o \in Ids : o >= nextId => pos[o] = 0 /\ o \notin RowsOf(pos)
    BY Holder DEF ReorderCommit, Holds, FreshIds, RowsOf
  <2>2. ExactlyAll(list, RowsOf(pos)) =>
          \A o \in Ids \ RowsOf(pos) : r[o] = pos[o]
    BY DEF ExactlyAll
  <2> QED BY <1>5, <2>1, <2>2 DEF ReorderCommit
<1>8. nextId' \in nextId..MaxOrders + 1
  BY Holder, OrdersAssumption DEF ReorderCommit, Holds
<1>9. pos' \in Positions /\ \E k \in Nat : Numbered(pos', k)
  BY <1>1, <1>2, <1>4, <1>5, <1>6
<1> QED BY <1>7, <1>8, <1>9, CommitStep DEF ReorderCommit, Holds, IInv, TypeOK

\* The items are moved; the lock is kept.
LEMMA DeleteMovesStep == ASSUME IInv, NEW w \in Workers, DeleteMoves(w) PROVE IInv'
<1> USE DEF IInv
<1> DEFINE p == req[w].seen
           o == req[w].request.order
           q == [op |-> "moved", request |-> req[w].request, seen |-> p,
                 items |-> ItemsOf(Leaving(p, o))]
<1>1. /\ req[w].op = "locked" /\ req[w].request.op = "delete" /\ o \in RowsOf(p)
      /\ req' = [req EXCEPT ![w] = q]
      /\ UNCHANGED <<quote, pos, nextId, listed, orderOf, lock>>
  BY DEF DeleteMoves, Holds
<1>2. q \in Requests
  <2>1. ItemsOf(Leaving(p, o)) \in SUBSET Items
    BY DEF ItemsOf, TypeOK
  <2>2. req[w].request \in Checked /\ p \in Positions
    BY <1>1, RequestFields
  <2> HIDE DEF p, o
  <2> QED BY <2>1, <2>2 DEF Requests
<1>3. TypeOK'
  BY <1>1, <1>2 DEF TypeOK
<1>4. \A v \in Workers : v # w => req'[v] = req[v]
  BY <1>1 DEF TypeOK
<1>5. req'[w] = q /\ q.request = req[w].request /\ q.seen = p
  BY <1>1 DEF TypeOK
<1>6. LockedReadsStand'
  BY <1>1, <1>4, <1>5 DEF LockedReadsStand
<1>7. MovesAreDeletions'
  BY <1>1, <1>4, <1>5 DEF MovesAreDeletions
<1>8. FreshIds' /\ Rows' = Rows /\ pos' = pos
  BY <1>1 DEF FreshIds, Rows, RowsOf
<1>9. PositionsContiguous'
  BY <1>8 DEF PositionsContiguous
<1> QED BY <1>3, <1>6, <1>7, <1>8, <1>9

LEMMA DeleteCommitStep == ASSUME IInv, NEW w \in Workers, DeleteCommit(w) PROVE IInv'
<1> DEFINE o == req[w].request.order
           gone == Leaving(pos, o)
           left == [q \in Ids |-> IF q \in gone THEN 0 ELSE pos[q]]
<1>1. req[w].op = "moved" /\ Commit(w) /\ UNCHANGED <<quote, nextId, listed>>
  BY DEF DeleteCommit
<1>2. PICK n \in Nat : Numbered(pos, n)
  BY <1>1, Holder
<1>3. /\ req[w].seen = pos /\ pos \in Positions /\ FreshIds
      /\ o \in RowsOf(pos) /\ nextId \in 1..MaxOrders + 1
  BY <1>1, Holder DEF MovesAreDeletions, IInv
<1>4. pos' = IF Dissolves(pos, o) THEN left ELSE Normalized(left)
  BY <1>3 DEF DeleteCommit
<1>5. orderOf' = [i \in Items |-> IF i \in req[w].items THEN Heir(pos, o)
                                ELSE IF orderOf[i] \in gone THEN None
                                ELSE orderOf[i]]
  BY <1>3 DEF DeleteCommit
<1>6. Heir(pos, o) \in Ids \cup {None}
  <2>1. Target(pos, o) \in Ids \cup {None}
    BY <1>2, <1>3, TargetIsNeighbour DEF RowsOf
  <2> QED BY <2>1 DEF Heir
<1>7. orderOf' \in [Items -> Ids \cup {None}]
  BY <1>5, <1>6 DEF IInv, TypeOK
<1>8. nextId' \in nextId..MaxOrders + 1
  BY <1>1, <1>3, OrdersAssumption
<1>9. \A q \in Ids : left[q] = 0 \/ left[q] = pos[q]
  OBVIOUS
<1>10. \A q \in Ids : q >= nextId' => pos'[q] = 0
  BY <1>1, <1>3, <1>4, <1>9 DEF FreshIds, Normalized
<1>11. pos' \in Positions /\ \E m \in Nat : Numbered(pos', m)
  <2>1. CASE Dissolves(pos, o)
    <3>1. \A q \in Ids : left[q] = 0
      BY <2>1 DEF Leaving, RowsOf
    <3>2. left \in Positions /\ RowsOf(left) = {}
      BY <3>1 DEF Positions, RowsOf
    <3>3. Numbered(left, 0)
      BY <3>2 DEF Numbered
    <3> QED BY <1>4, <2>1, <3>2, <3>3
  <2>2. CASE ~Dissolves(pos, o)
    <3>1. left = [q \in Ids |-> IF q \in {o} THEN 0 ELSE pos[q]]
      BY <2>2 DEF Leaving
    <3>2. Normalized(left) \in Positions /\ Numbered(Normalized(left), n - 1) /\ n - 1 \in Nat
      BY <1>2, <1>3, <3>1, GapClosed
    <3> QED BY <1>4, <2>2, <3>2
  <2> QED BY <2>1, <2>2
<1> QED BY <1>1, <1>7, <1>8, <1>10, <1>11, CommitStep

\* The steps of the requests on items.
LEMMA EditStep == ASSUME IInv, NEW w \in Workers, Edit(w) PROVE IInv'
<1> USE DEF IInv
<1>1. ASSUME NEW i \in Items, NEW o \in Ids \cup {None}, AddItemCheck(w, i, o) PROVE IInv'
  <2> DEFINE q == [op |-> "addItem", item |-> i, order |-> o]
  <2>1. q \in Requests
    BY DEF Requests
  <2> QED BY <1>1, <2>1, LockFreeStep DEF AddItemCheck, TypeOK
<1>2. ASSUME NEW i \in Items, NEW o \in Ids \cup {None}, MoveItem(w, i, o) PROVE IInv'
  <2>1. Idle \in Requests
    BY DEF Requests
  <2> QED BY <1>2, <2>1, LockFreeStep DEF MoveItem, TypeOK, Idle
<1>3. ASSUME NEW i \in Items, RemoveItemCheck(w, i) PROVE IInv'
  <2> DEFINE q == [op |-> "removeItem", item |-> i]
  <2>1. q \in Requests
    BY DEF Requests
  <2> QED BY <1>3, <2>1, LockFreeStep DEF RemoveItemCheck, TypeOK
<1>4. CASE AddItem(w)
  <2>1. Idle \in Requests
    BY DEF Requests
  <2>2. req[w].item \in Items /\ req[w].order \in Ids \cup {None}
    BY <1>4, RequestFields DEF AddItem
  <2>3. listed' \subseteq Items /\ orderOf' \in [Items -> Ids \cup {None}]
    BY <1>4, <2>2 DEF AddItem, TypeOK
  <2> QED BY <1>4, <2>1, <2>3, LockFreeStep DEF AddItem, Finish, TypeOK, Idle
<1>5. CASE RemoveItem(w)
  <2>1. Idle \in Requests
    BY DEF Requests
  <2>2. listed' \subseteq Items /\ orderOf' \in [Items -> Ids \cup {None}]
    BY <1>5 DEF RemoveItem, TypeOK
  <2> QED BY <1>5, <2>1, <2>2, LockFreeStep DEF RemoveItem, Finish, TypeOK, Idle
<1> QED BY <1>1, <1>2, <1>3, <1>4, <1>5 DEF Edit

\* The steps on the quote, and restarts.
LEMMA ManageStep == ASSUME IInv, NEW w \in Workers, Manage(w) PROVE IInv'
<1> USE DEF IInv
<1>0. Idle \in Requests
  BY DEF Requests
<1>1. CASE Close(w) \/ Reopen(w) \/ DeleteQuote(w)
  <2>1. quote' \in [status: {"open", "closed"}, deleted: BOOLEAN]
    <3>1. quote \in [status: {"open", "closed"}, deleted: BOOLEAN]
      BY DEF TypeOK
    <3>2. CASE Close(w)
      BY <3>1, <3>2 DEF Close
    <3>3. CASE Reopen(w)
      BY <3>1, <3>3 DEF Reopen
    <3>4. CASE DeleteQuote(w)
      BY <3>1, <3>4 DEF DeleteQuote
    <3> QED BY <1>1, <3>2, <3>3, <3>4
  <2> QED BY <1>0, <1>1, <2>1, LockFreeStep DEF Close, Reopen, DeleteQuote, TypeOK, Idle
<1>2. CASE Crash(w)
  BY <1>0, <1>2, LockFreeStep DEF Crash, Finish, TypeOK, Idle
<1> QED BY <1>1, <1>2 DEF Manage

LEMMA StepIInv == IInv /\ [Next]_vars => IInv'
<1> SUFFICES ASSUME IInv, [Next]_vars PROVE IInv'
  OBVIOUS
<1>1. ASSUME NEW w \in Workers, Order(w) PROVE IInv'
  BY <1>1, CheckStep, LockStep, CreateStep, GroupNoneStep, GroupOneStep, UnchangedStep,
     ReorderStep, DeleteMovesStep, DeleteCommitStep DEF Order
<1>2. CASE UNCHANGED vars
  BY <1>2 DEF vars, IInv, TypeOK, LockedReadsStand, MovesAreDeletions, FreshIds,
     PositionsContiguous, Rows, RowsOf
<1> QED BY <1>1, <1>2, EditStep, ManageStep DEF Next

-----------------------------------------------------------------------------
(* Theorems.                                                               *)

\* Every reachable state satisfies the inductive invariant.
THEOREM Invariance == Spec => []IInv
BY InitIInv, StepIInv, PTL DEF Spec

\* Rows, lock and remembered requests keep the shape the schema and the
\* handlers give them.
THEOREM TypeCorrect == Spec => []TypeOK
<1>1. IInv => TypeOK
  BY DEF IInv
<1> QED BY <1>1, Invariance, PTL

\* However creations, groupings, reorderings and deletions overlap, the POs of
\* a quote stay numbered 1, 2, ..., n.
THEOREM PositionsStayContiguous == Spec => []PositionsContiguous
<1>1. IInv => PositionsContiguous
  BY DEF IInv
<1> QED BY <1>1, Invariance, PTL

\* Which rows a step adds or takes away.
LEMMA RowsStep ==
    ASSUME IInv, NEW w \in Workers, Order(w) \/ Edit(w) \/ Manage(w)
    PROVE  \/ Rows' = Rows
           \/ nextId \in Rows' \ Rows
           \/ /\ DeleteCommit(w)
              /\ Rows' = Rows \ Leaving(pos, req[w].request.order)
<1> USE DEF IInv
<1>1. CASE pos' = pos
  BY <1>1 DEF Rows, RowsOf
<1>2. CASE CreateCommit(w)
  <2>1. PICK n \in Nat : Numbered(pos, n)
    BY <1>2, Holder DEF CreateCommit, Holds
  <2>2. nextId \in Ids \ RowsOf(pos) /\ pos \in Positions
    BY <1>2, Holder DEF CreateCommit, Holds, FreshIds, RowsOf, Ids
  <2>3. pos' = [pos EXCEPT ![nextId] = n + 1]
    BY <1>2, <2>1, <2>2, Holder, MaxOfNumbered DEF CreateCommit, Holds
  <2> QED BY <2>2, <2>3 DEF Rows, RowsOf, Positions
<1>3. CASE GroupNone(w) \/ GroupOne(w)
  <2>1. nextId \in Ids \ RowsOf(pos) /\ pos \in Positions /\ req[w].seen = pos
    BY <1>3, Holder, OrdersAssumption DEF GroupNone, GroupOne, Holds, FreshIds, RowsOf, Ids
  <2>2. PICK p \in Positions : p[nextId] # 0 /\ pos' = Normalized(p)
    <3>1. CASE GroupNone(w)
      <4> DEFINE p == [pos EXCEPT ![nextId] = 1, ![nextId + 1] = 2]
      <4>1. nextId \in Nat /\ pos' = Normalized(p)
        BY <2>1, <3>1, OrdersAssumption DEF GroupNone, Ids
      <4>2. p \in Positions
        BY <2>1 DEF Positions
      <4>3. p[nextId] = 1
        BY <2>1, <4>1 DEF Positions
      <4> HIDE DEF p
      <4> QED BY <4>1, <4>2, <4>3
    <3>2. CASE GroupOne(w)
      <4>1. PICK first \in RowsOf(pos) : pos' = Normalized([pos EXCEPT ![nextId] = pos[first] + 1])
        BY <2>1, <3>2 DEF GroupOne
      <4> DEFINE p == [pos EXCEPT ![nextId] = pos[first] + 1]
      <4>2. pos[first] + 1 \in Nat /\ pos[first] + 1 # 0
        BY <2>1, <4>1 DEF RowsOf, Positions
      <4>3. p \in Positions /\ p[nextId] # 0
        BY <2>1, <4>2 DEF Positions
      <4>4. pos' = Normalized(p)
        BY <4>1
      <4> HIDE DEF p
      <4> QED BY <4>3, <4>4
    <3> QED BY <1>3, <3>1, <3>2
  <2>3. nextId \in Rank(p, nextId) /\ IsFiniteSet(Rank(p, nextId))
    <3>1. Rank(p, nextId) \in SUBSET Ids
      BY DEF Rank, RowsOf
    <3>2. IsFiniteSet(Rank(p, nextId))
      BY <3>1, IdsFinite, FS_Subset
    <3>3. nextId \in RowsOf(p) /\ nextId <= nextId
      BY <2>1, <2>2, OrdersAssumption DEF RowsOf, Ids
    <3> QED BY <3>2, <3>3 DEF Rank
  <2>4. pos'[nextId] = Cardinality(Rank(p, nextId))
    BY <2>1, <2>2 DEF Normalized, Rank
  <2>5. pos'[nextId] # 0
    BY <2>3, <2>4, FS_EmptySet
  <2> QED BY <2>1, <2>5 DEF Rows, RowsOf
<1>4. CASE ReorderCommit(w)
  <2> DEFINE list == req[w].request.list
  <2>1. PICK m \in 0..MaxOrders : list \in [1..m -> Ids]
    BY <1>4, Holder, CheckedFields DEF ReorderCommit, Holds, Lists
  <2>2. req[w].seen = pos
    BY <1>4, Holder DEF ReorderCommit, Holds
  <2>3. CASE ~ExactlyAll(list, RowsOf(pos))
    BY <1>1, <1>4, <2>2, <2>3 DEF ReorderCommit
  <2>4. CASE ExactlyAll(list, RowsOf(pos))
    <3>1. \A o \in Ids :
             pos'[o] = IF \E i \in 1..m : list[i] = o
                       THEN CHOOSE i \in 1..m : list[i] = o
                       ELSE pos[o]
      BY <1>4, <2>1, <2>2, <2>4 DEF ReorderCommit
    <3>2. \A o \in Ids : (\E i \in 1..m : list[i] = o) <=> o \in RowsOf(pos)
      BY <2>1, <2>4 DEF ExactlyAll
    <3>3. \A o \in Ids : pos'[o] # 0 <=> pos[o] # 0
      BY <3>1, <3>2 DEF RowsOf
    <3> QED BY <3>3 DEF Rows, RowsOf
  <2> QED BY <2>3, <2>4
<1>5. CASE DeleteCommit(w)
  <2> DEFINE o == req[w].request.order
             gone == Leaving(pos, o)
             left == [q \in Ids |-> IF q \in gone THEN 0 ELSE pos[q]]
  <2>1. req[w].op = "moved" /\ req[w].seen = pos /\ pos \in Positions
    BY <1>5, Holder DEF DeleteCommit
  <2>2. pos' = IF Dissolves(pos, o) THEN left ELSE Normalized(left)
    BY <1>5, <2>1 DEF DeleteCommit
  <2>3. RowsOf(left) = RowsOf(pos) \ gone
    BY DEF RowsOf
  <2>4. left \in Positions
    BY <2>1 DEF Positions
  <2>5. RowsOf(Normalized(left)) = RowsOf(left)
    <3> HIDE DEF left
    <3>1. ASSUME NEW q \in RowsOf(left)
          PROVE  Normalized(left)[q] # 0
      <4>1. q \in Rank(left, q) /\ Rank(left, q) \in SUBSET Ids
        BY <2>4 DEF Rank, RowsOf, Ids
      <4>2. IsFiniteSet(Rank(left, q))
        BY <4>1, IdsFinite, FS_Subset
      <4>3. Cardinality(Rank(left, q)) # 0
        BY <4>1, <4>2, FS_EmptySet
      <4> QED BY <4>3 DEF Normalized, Rank, RowsOf
    <3>2. \A q \in Ids \ RowsOf(left) : Normalized(left)[q] = 0
      BY DEF Normalized, RowsOf
    <3>3. \A q \in RowsOf(left) : q \in Ids
      BY DEF RowsOf
    <3>4. \A q \in Ids : Normalized(left)[q] # 0 <=> q \in RowsOf(left)
      BY <3>1, <3>2
    <3> QED BY <3>3, <3>4 DEF RowsOf
  <2>6. RowsOf(pos') = RowsOf(pos) \ gone
    <3> HIDE DEF left
    <3> QED BY <2>2, <2>3, <2>5
  <2> QED BY <1>5, <2>6 DEF Rows, RowsOf
<1>6. CASE Edit(w) \/ Manage(w) \/ Check(w) \/ LockAndRead(w) \/ GroupRefused(w)
           \/ DeleteRefused(w) \/ DeleteMoves(w)
  BY <1>1, <1>6 DEF Edit, AddItemCheck, MoveItem, RemoveItemCheck, AddItem, RemoveItem,
     Manage, Close, Reopen, DeleteQuote, Crash, Check, LockAndRead, GroupRefused,
     DeleteRefused, DeleteMoves
<1> QED BY <1>2, <1>3, <1>4, <1>5, <1>6 DEF Order

\* "PO unica nao existe": no deletion, whatever it overlaps, leaves one PO.
THEOREM NoSingleAfterDeletion == Spec => DeletionLeavesNoSingle
<1> DEFINE Keeps == (Rows' # Rows /\ Rows' \subseteq Rows) => Cardinality(Rows') # 1
<1>1. IInv /\ [Next]_vars => [Keeps]_vars
  <2> SUFFICES ASSUME IInv, NEW w \in Workers, Order(w) \/ Edit(w) \/ Manage(w),
                      Rows' # Rows, Rows' \subseteq Rows
               PROVE  Cardinality(Rows') # 1
    BY DEF Next
  <2> DEFINE o == req[w].request.order
  <2>1. DeleteCommit(w) /\ Rows' = Rows \ Leaving(pos, o)
    BY RowsStep
  <2>2. o \in Rows
    BY <2>1, Holder DEF DeleteCommit, MovesAreDeletions, IInv, Rows
  <2>3. CASE Dissolves(pos, o)
    <3>1. Rows' = {}
      BY <2>1, <2>3 DEF Leaving, Rows
    <3> QED BY <3>1, FS_EmptySet
  <2>4. CASE ~Dissolves(pos, o)
    <3>1. Rows' = Rows \ {o}
      BY <2>1, <2>4 DEF Leaving
    <3> QED BY <2>2, <2>4, <3>1 DEF Dissolves, Rows
  <2> QED BY <2>3, <2>4
<1> QED BY <1>1, Invariance, PTL DEF Spec, DeletionLeavesNoSingle

\* What a step of one worker remembers of another.
LEMMA OthersRemember ==
    ASSUME TypeOK, NEW w \in Workers, Order(w) \/ Edit(w) \/ Manage(w),
           NEW v \in Workers, v # w
    PROVE  req'[v] = req[v]
<1>1. CASE Order(w)
  BY <1>1 DEF Order, Check, LockAndRead, CreateCommit, GroupNone, GroupOne, GroupRefused,
     ReorderCommit, DeleteRefused, DeleteMoves, DeleteCommit, Commit, Finish, TypeOK
<1>2. CASE Edit(w)
  BY <1>2 DEF Edit, AddItemCheck, MoveItem, RemoveItemCheck, AddItem, RemoveItem, Finish, TypeOK
<1>3. CASE Manage(w)
  BY <1>3 DEF Manage, Close, Reopen, DeleteQuote, Crash, Finish, TypeOK
<1> QED BY <1>1, <1>2, <1>3

\* Two clients that group at once, or beside any other request, make two POs and
\* never more: the second one finds them and is refused.
THEOREM GroupsAreTwo == Spec => GroupingMakesTwo
<1> DEFINE Keeps ==
      \A w \in Workers :
          (Holds(w, "group") /\ req'[w] = Idle /\ Rows' # Rows) => Cardinality(Rows') = 2
<1>1. IInv /\ [Next]_vars => [Keeps]_vars
  <2> SUFFICES ASSUME IInv, NEW v \in Workers, Order(v) \/ Edit(v) \/ Manage(v),
                      NEW w \in Workers, Holds(w, "group"), req'[w] = Idle, Rows' # Rows
               PROVE  Cardinality(Rows') = 2
    BY DEF Next
  <2>1. v = w
    BY OthersRemember DEF IInv, Holds, Idle
  <2>2. CASE GroupNone(w) \/ GroupOne(w)
    <3>1. Numbered(pos', 2) /\ pos' \in Positions
      BY <2>2, GroupNoneStep, GroupOneStep DEF IInv, TypeOK
    <3>2. Cardinality(RowsOf(pos')) = 2
      BY <3>1, CountNumbered, 2 \in Nat
    <3> QED BY <3>2 DEF Rows, RowsOf
  <2>3. CASE ~(GroupNone(w) \/ GroupOne(w))
    <3>1. pos' = pos
      <4>1. CASE Order(w)
        BY <2>3, <4>1 DEF Order, Check, LockAndRead, CreateCommit, GroupRefused,
           ReorderCommit, DeleteRefused, DeleteMoves, DeleteCommit, Holds
      <4>2. CASE Edit(w) \/ Manage(w)
        BY <4>2 DEF Edit, AddItemCheck, MoveItem, RemoveItemCheck, AddItem, RemoveItem,
           Manage, Close, Reopen, DeleteQuote, Crash
      <4> QED BY <2>1, <4>1, <4>2
    <3> QED BY <3>1 DEF Rows, RowsOf
  <2> QED BY <2>2, <2>3
<1> QED BY <1>1, Invariance, PTL DEF Spec, GroupingMakesTwo

\* The items of a deleted PO are found, under the new numbers, in the PO before
\* the gap, or in the first one where the first was deleted.
THEOREM ItemsStayBeside == Spec => ItemsFollowTheNeighbour
<1> DEFINE Keeps ==
      \A w \in Workers : \A i \in Items :
          (req[w].op = "moved" /\ i \in req[w].items /\ Rows' # Rows /\ Rows' # {})
             => LET k == pos[req[w].request.order]
                IN  orderOf'[i] \in Rows' /\ pos'[orderOf'[i]] = IF k = 1 THEN 1 ELSE k - 1
<1>1. IInv /\ [Next]_vars => [Keeps]_vars
  <2> SUFFICES ASSUME IInv, NEW v \in Workers, Order(v) \/ Edit(v) \/ Manage(v),
                      NEW w \in Workers, NEW i \in Items,
                      req[w].op = "moved", i \in req[w].items, Rows' # Rows, Rows' # {}
               PROVE  LET k == pos[req[w].request.order]
                      IN  /\ orderOf'[i] \in Rows'
                          /\ pos'[orderOf'[i]] = IF k = 1 THEN 1 ELSE k - 1
    BY DEF Next
  <2> DEFINE o == req[w].request.order
             k == pos[o]
             h == Target(pos, o)
             left == [q \in Ids |-> IF q \in {o} THEN 0 ELSE pos[q]]
             s == Normalized(left)
  <2>1. req[v].op \in {"locked", "moved"}
    <3>1. pos' # pos
      BY DEF Rows, RowsOf
    <3>2. CASE Order(v)
      BY <3>1, <3>2 DEF Order, Check, LockAndRead, CreateCommit, GroupNone, GroupOne,
         GroupRefused, ReorderCommit, DeleteRefused, DeleteMoves, DeleteCommit, Holds
    <3>3. ~Edit(v) /\ ~Manage(v)
      BY <3>1 DEF Edit, AddItemCheck, MoveItem, RemoveItemCheck, AddItem, RemoveItem,
         Manage, Close, Reopen, DeleteQuote, Crash
    <3> QED BY <3>2, <3>3
  <2>2. v = w
    BY <2>1 DEF IInv, LockedReadsStand
  <2>3. DeleteCommit(w)
    <3>1. Order(w)
      <4>1. ~(Edit(w) \/ Manage(w))
        <5>1. pos' # pos
          BY DEF Rows, RowsOf
        <5> QED BY <5>1 DEF Edit, AddItemCheck, MoveItem, RemoveItemCheck, AddItem, RemoveItem,
               Manage, Close, Reopen, DeleteQuote, Crash
      <4> QED BY <2>2, <4>1
    <3>2. req[w] # Idle
      BY DEF Idle
    <3> QED BY <3>1, <3>2 DEF Order, Check, LockAndRead, CreateCommit, GroupNone, GroupOne,
           GroupRefused, ReorderCommit, DeleteRefused, DeleteMoves, Holds
  <2>4. PICK n \in Nat : Numbered(pos, n)
    BY Holder
  <2>5. req[w].seen = pos /\ pos \in Positions /\ o \in RowsOf(pos) /\ i \in Items
    BY Holder DEF MovesAreDeletions, IInv
  <2>6. ~Dissolves(pos, o)
    <3> SUFFICES ASSUME Dissolves(pos, o) PROVE FALSE
      OBVIOUS
    <3>1. pos' = [q \in Ids |-> IF q \in RowsOf(pos) THEN 0 ELSE pos[q]]
      BY <2>3, <2>5 DEF DeleteCommit, Leaving
    <3>2. \A q \in Ids : pos'[q] = 0
      BY <3>1 DEF RowsOf
    <3> QED BY <3>2 DEF Rows, RowsOf
  <2>7. pos' = s /\ orderOf'[i] = h
    BY <2>3, <2>5, <2>6 DEF DeleteCommit, Leaving, Heir
  <2>8. Rows' = RowsOf(pos) \ {o}
    <3>1. Rows' \subseteq Rows
      BY <2>7 DEF Normalized, Rows, RowsOf
    <3>2. nextId \notin Rows' \ Rows
      BY <3>1
    <3> QED BY <2>2, <2>6, <3>2, RowsStep DEF Leaving, Rows
  <2>9. n # 1
    <3>1. PICK q \in RowsOf(pos) : q # o
      BY <2>8
    <3>2. pos[q] # pos[o] /\ pos[q] \in 1..n /\ pos[o] \in 1..n
      BY <2>4, <2>5, <3>1 DEF Numbered
    <3> QED BY <3>2
  <2>10. h \in RowsOf(pos) \ {o} /\ pos[h] = IF k = 1 THEN 2 ELSE k - 1
    BY <2>4, <2>5, <2>9, TargetIsNeighbour
  <2>11. s[h] = IF pos[h] < k THEN pos[h] ELSE pos[h] - 1
    BY <2>4, <2>5, <2>10, GapClosed
  <2>12. k \in 1..n
    BY <2>4, <2>5 DEF Numbered
  <2>13. s[h] = IF k = 1 THEN 1 ELSE k - 1
    BY <2>10, <2>11, <2>12
  <2> QED BY <2>7, <2>8, <2>10, <2>13
<1> QED BY <1>1, Invariance, PTL DEF Spec, ItemsFollowTheNeighbour

-----------------------------------------------------------------------------
(* Refinement: the POs as a list.                                          *)

ListOf(p) == [k \in 1..Cardinality(RowsOf(p)) |-> CHOOSE o \in RowsOf(p) : p[o] = k]

\* The list of numbered POs, and how to recognise it.
LEMMA ListFacts ==
    ASSUME NEW p \in Positions, NEW n \in Nat, Numbered(p, n)
    PROVE  /\ ListOf(p) \in Seq(Ids) /\ Len(ListOf(p)) = n
           /\ \A k \in 1..n : ListOf(p)[k] \in RowsOf(p) /\ p[ListOf(p)[k]] = k
           /\ \A o \in RowsOf(p) : p[o] \in 1..n /\ ListOf(p)[p[o]] = o
<1>1. ListOf(p) = [k \in 1..n |-> CHOOSE o \in RowsOf(p) : p[o] = k]
  BY CountNumbered DEF ListOf
<1>2. \A k \in 1..n : ListOf(p)[k] \in RowsOf(p) /\ p[ListOf(p)[k]] = k
  BY <1>1 DEF Numbered
<1>3. RowsOf(p) \subseteq Ids
  BY RowsFinite
<1>4. ListOf(p) \in Seq(Ids) /\ Len(ListOf(p)) = n
  BY <1>1, <1>2, <1>3
<1>5. \A o \in RowsOf(p) : p[o] \in 1..n
  BY DEF Numbered
<1> QED BY <1>2, <1>4, <1>5 DEF Numbered

LEMMA ListIs ==
    ASSUME NEW p \in Positions, NEW n \in Nat, Numbered(p, n),
           NEW s \in Seq(Ids), Len(s) = n,
           \A k \in 1..n : s[k] \in RowsOf(p) /\ p[s[k]] = k
    PROVE  ListOf(p) = s
<1>1. \A k \in 1..n : ListOf(p)[k] = s[k]
  BY ListFacts DEF Numbered
<1> QED BY <1>1, ListFacts, SeqEqual

LEMMA RemovalFacts ==
    ASSUME NEW S, NEW s \in Seq(S), NEW k \in 1..Len(s)
    PROVE  /\ List!RemoveAt(s, k) \in Seq(S)
           /\ Len(List!RemoveAt(s, k)) = Len(s) - 1
           /\ \A i \in 1..Len(s) - 1 :
                 List!RemoveAt(s, k)[i] = IF i < k THEN s[i] ELSE s[i + 1]
<1> DEFINE a == SubSeq(s, 1, k - 1)
           b == SubSeq(s, k + 1, Len(s))
<1>1. a \in Seq(S) /\ Len(a) = k - 1 /\ \A i \in 1..k - 1 : a[i] = s[i]
  OBVIOUS
<1>2. b \in Seq(S) /\ Len(b) = Len(s) - k /\ \A i \in 1..Len(s) - k : b[i] = s[k + i]
  OBVIOUS
<1>3. List!RemoveAt(s, k) = a \o b
  BY DEF List!RemoveAt
<1> HIDE DEF a, b
<1>4. /\ a \o b \in Seq(S) /\ Len(a \o b) = Len(s) - 1
      /\ \A i \in 1..Len(s) - 1 : (a \o b)[i] = IF i <= k - 1 THEN a[i] ELSE b[i - (k - 1)]
  <2>1. Len(a) + Len(b) = Len(s) - 1
    BY <1>1, <1>2
  <2>2. /\ a \o b \in Seq(S) /\ Len(a \o b) = Len(a) + Len(b)
        /\ \A i \in 1..Len(a) + Len(b) :
              (a \o b)[i] = IF i <= Len(a) THEN a[i] ELSE b[i - Len(a)]
    BY <1>1, <1>2, ConcatProperties
  <2> QED BY <1>1, <2>1, <2>2
<1>5. ASSUME NEW i \in 1..Len(s) - 1
      PROVE  (a \o b)[i] = IF i < k THEN s[i] ELSE s[i + 1]
  <2>1. CASE i < k
    BY <1>1, <1>4, <2>1
  <2>2. CASE ~(i < k)
    <3>1. i - (k - 1) \in 1..Len(s) - k /\ k + (i - (k - 1)) = i + 1
      BY <2>2
    <3> QED BY <1>2, <1>4, <2>2, <3>1
  <2> QED BY <2>1, <2>2
<1> QED BY <1>3, <1>4, <1>5

LEMMA ListOfRows ==
    /\ InOrder = ListOf(pos) /\ InOrder' = ListOf(pos')
    /\ Rows = RowsOf(pos) /\ Rows' = RowsOf(pos')
BY DEF InOrder, ListOf, Rows, RowsOf

\* What each transaction makes of the list.
LEMMA CreateList ==
    ASSUME IInv, NEW w \in Workers, CreateCommit(w)
    PROVE  /\ nextId \in Ids \ Rows /\ Rows' = Rows \cup {nextId}
           /\ InOrder' = Append(InOrder, nextId)
<1>1. nextId \in Ids \ RowsOf(pos) /\ IInv'
  BY CreateStep
<1>2. PICK n \in Nat : /\ Numbered(pos, n) /\ Numbered(pos', n + 1)
                       /\ pos' = [pos EXCEPT ![nextId] = n + 1]
  BY CreateStep
<1>3. pos \in Positions /\ pos' \in Positions /\ n + 1 \in Nat
  BY <1>1 DEF IInv, TypeOK
<1>4. \A o \in Ids : pos'[o] = IF o = nextId THEN n + 1 ELSE pos[o]
  BY <1>1, <1>2, <1>3 DEF Positions
<1>5. RowsOf(pos') = RowsOf(pos) \cup {nextId}
  BY <1>1, <1>4 DEF RowsOf
<1> DEFINE l == ListOf(pos)
           s == Append(l, nextId)
<1>6. /\ l \in Seq(Ids) /\ Len(l) = n
      /\ \A k \in 1..n : l[k] \in RowsOf(pos) /\ pos[l[k]] = k
  BY <1>2, <1>3, ListFacts
<1> HIDE DEF l
<1>7. s \in Seq(Ids) /\ Len(s) = n + 1 /\ \A k \in 1..n + 1 : s[k] = IF k = n + 1 THEN nextId ELSE l[k]
  BY <1>1, <1>6
<1> HIDE DEF s
<1>8. ASSUME NEW k \in 1..n + 1 PROVE s[k] \in RowsOf(pos') /\ pos'[s[k]] = k
  <2>1. CASE k = n + 1
    BY <1>1, <1>4, <1>5, <1>7, <2>1
  <2>2. CASE k # n + 1
    <3>1. k \in 1..n /\ s[k] = l[k]
      BY <1>7, <2>2
    <3>2. l[k] \in RowsOf(pos) /\ l[k] # nextId /\ l[k] \in Ids /\ pos[l[k]] = k
      BY <1>1, <1>6, <3>1 DEF RowsOf
    <3> QED BY <1>4, <1>5, <3>1, <3>2
  <2> QED BY <2>1, <2>2
<1>9. ListOf(pos') = s
  BY <1>2, <1>3, <1>7, <1>8, ListIs
<1> QED BY <1>1, <1>5, <1>9, ListOfRows DEF s, l

LEMMA GroupNoneList ==
    ASSUME IInv, NEW w \in Workers, GroupNone(w)
    PROVE  /\ InOrder = <<>> /\ Rows = {}
           /\ nextId \in Ids /\ nextId + 1 \in Ids /\ nextId # nextId + 1
           /\ InOrder' = <<nextId, nextId + 1>> /\ Rows' = {nextId, nextId + 1}
<1>1. /\ Numbered(pos, 0) /\ Numbered(pos', 2)
      /\ nextId \in Ids /\ nextId + 1 \in Ids /\ pos'[nextId] = 1 /\ pos'[nextId + 1] = 2
      /\ pos \in Positions /\ pos' \in Positions
  BY GroupNoneStep DEF IInv, TypeOK
<1>2. ListOf(pos) = <<>> /\ RowsOf(pos) = {}
  <2>1. /\ ListOf(pos) \in Seq(Ids) /\ Len(ListOf(pos)) = 0
        /\ \A o \in RowsOf(pos) : pos[o] \in 1..0
    BY <1>1, ListFacts, 0 \in Nat
  <2>2. RowsOf(pos) = {}
    BY <2>1
  <2> QED BY <2>1, <2>2, EmptySeq
<1> DEFINE s == <<nextId, nextId + 1>>
<1>3. s \in Seq(Ids) /\ Len(s) = 2
  BY <1>1
<1>4. \A k \in 1..2 : s[k] \in RowsOf(pos') /\ pos'[s[k]] = k
  BY <1>1 DEF RowsOf
<1>5. ListOf(pos') = s
  BY <1>1, <1>3, <1>4, ListIs, 2 \in Nat
<1>6. RowsOf(pos') = {nextId, nextId + 1}
  <2>1. \A o \in RowsOf(pos') : pos'[o] \in 1..2 /\ s[pos'[o]] = o
    BY <1>1, <1>5, ListFacts, 2 \in Nat
  <2>2. nextId \in RowsOf(pos') /\ nextId + 1 \in RowsOf(pos')
    BY <1>1 DEF RowsOf
  <2> QED BY <2>1, <2>2
<1> QED BY <1>1, <1>2, <1>5, <1>6, ListOfRows DEF Ids

LEMMA GroupOneList ==
    ASSUME IInv, NEW w \in Workers, GroupOne(w)
    PROVE  /\ nextId \in Ids \ Rows
           /\ \E first \in Ids :
                 /\ InOrder = <<first>> /\ Rows = {first}
                 /\ InOrder' = <<first, nextId>> /\ Rows' = {first, nextId}
                 /\ orderOf' = Assign(Unassigned, first)
<1>1. /\ Numbered(pos, 1) /\ Numbered(pos', 2) /\ nextId \in Ids \ RowsOf(pos)
      /\ pos'[nextId] = 2 /\ pos \in Positions /\ pos' \in Positions
  BY GroupOneStep DEF IInv, TypeOK
<1>2. PICK first \in RowsOf(pos) : /\ pos[first] = 1 /\ pos'[first] = 1
                                   /\ orderOf' = Assign(Unassigned, first)
  BY GroupOneStep
<1>3. first \in Ids /\ first # nextId
  BY <1>1, <1>2 DEF RowsOf
<1> DEFINE s == <<first, nextId>>
<1>4. ListOf(pos) = <<first>>
  <2> DEFINE r == <<first>>
  <2>1. r \in Seq(Ids) /\ Len(r) = 1 /\ \A k \in 1..1 : r[k] \in RowsOf(pos) /\ pos[r[k]] = k
    BY <1>2, <1>3
  <2> QED BY <1>1, <2>1, ListIs, 1 \in Nat
<1>5. ListOf(pos') = s
  <2>1. s \in Seq(Ids) /\ Len(s) = 2
    BY <1>1, <1>3
  <2>2. \A k \in 1..2 : s[k] \in RowsOf(pos') /\ pos'[s[k]] = k
    BY <1>1, <1>2, <1>3 DEF RowsOf
  <2> QED BY <1>1, <2>1, <2>2, ListIs, 2 \in Nat
<1>6. RowsOf(pos) = {first}
  BY <1>1, <1>2 DEF Numbered
<1>7. RowsOf(pos') = {first, nextId}
  <2>1. \A o \in RowsOf(pos') : pos'[o] \in 1..2 /\ s[pos'[o]] = o
    BY <1>1, <1>5, ListFacts, 2 \in Nat
  <2>2. nextId \in RowsOf(pos') /\ first \in RowsOf(pos')
    BY <1>1, <1>2, <1>3 DEF RowsOf
  <2> QED BY <2>1, <2>2
<1> QED BY <1>1, <1>2, <1>3, <1>4, <1>5, <1>6, <1>7, ListOfRows

\* r has the n elements of s in another order.
Reordered(s, r, n) ==
    \E turn \in [1..n -> 1..n] :
        /\ \A k \in 1..n : \E j \in 1..n : turn[j] = k
        /\ r = [k \in 1..n |-> s[turn[k]]]

\* The same POs under other numbers are the same list in another order.
LEMMA SameRowsInOrder ==
    ASSUME NEW p \in Positions, NEW n \in Nat, Numbered(p, n),
           NEW q \in Positions, NEW m \in Nat, Numbered(q, m), RowsOf(p) = RowsOf(q)
    PROVE  Reordered(ListOf(p), ListOf(q), n)
<1>1. n = m
  BY CountNumbered
<1> DEFINE turn == [k \in 1..n |-> p[ListOf(q)[k]]]
<1>2. /\ ListOf(q) \in Seq(Ids) /\ Len(ListOf(q)) = n
      /\ \A k \in 1..n : ListOf(q)[k] \in RowsOf(p) /\ q[ListOf(q)[k]] = k
      /\ \A o \in RowsOf(p) : q[o] \in 1..n /\ ListOf(q)[q[o]] = o
  BY <1>1, ListFacts
<1>3. /\ \A k \in 1..n : ListOf(p)[k] \in RowsOf(p) /\ p[ListOf(p)[k]] = k
      /\ \A o \in RowsOf(p) : p[o] \in 1..n /\ ListOf(p)[p[o]] = o
  BY ListFacts
<1>4. turn \in [1..n -> 1..n]
  BY <1>2, <1>3
<1>5. ASSUME NEW k \in 1..n PROVE \E j \in 1..n : turn[j] = k
  <2>1. q[ListOf(p)[k]] \in 1..n /\ ListOf(q)[q[ListOf(p)[k]]] = ListOf(p)[k]
    BY <1>2, <1>3
  <2> QED BY <1>3, <2>1
<1>6. \A k \in 1..n : ListOf(q)[k] = ListOf(p)[turn[k]]
  BY <1>2, <1>3
<1>7. ListOf(q) = [k \in 1..n |-> ListOf(p)[turn[k]]]
  <2> HIDE DEF turn
  <2>1. ListOf(q) = [k \in 1..n |-> ListOf(q)[k]]
    BY <1>2
  <2> QED BY <1>6, <2>1
<1> HIDE DEF turn
<1> QED BY <1>4, <1>5, <1>7 DEF Reordered

LEMMA ReorderList ==
    ASSUME IInv, NEW w \in Workers, ReorderCommit(w)
    PROVE  Rows' = Rows /\ Reordered(InOrder, InOrder', Len(InOrder))
<1>1. IInv'
  BY ReorderStep
<1>2. Rows' = Rows
  <2>1. nextId \notin Rows'
    BY <1>1 DEF IInv, TypeOK, FreshIds, Rows, RowsOf, ReorderCommit, Ids
  <2>2. ~DeleteCommit(w)
    BY DEF ReorderCommit, DeleteCommit, Holds
  <2> QED BY <2>1, <2>2, RowsStep DEF Order
<1>3. PICK n \in Nat : Numbered(pos, n)
  BY ContiguousIsNumbered DEF IInv, TypeOK
<1>4. PICK m \in Nat : Numbered(pos', m)
  <2> DEFINE P == pos'
  <2>1. Cardinality(RowsOf(P)) \in Nat
    BY RowsFinite, FS_CardinalityType
  <2>2. Numbered(P, Cardinality(RowsOf(P)))
    BY <1>1 DEF IInv, PositionsContiguous, Rows, RowsOf, Numbered
  <2> QED BY <2>1, <2>2
<1>5. pos \in Positions /\ pos' \in Positions
  BY <1>1 DEF IInv, TypeOK
<1>6. Len(ListOf(pos)) = n
  BY <1>3, <1>5, ListFacts
<1>7. RowsOf(pos) = RowsOf(pos')
  BY <1>2, ListOfRows
<1> DEFINE p == pos
           q == pos'
<1>8. Reordered(ListOf(p), ListOf(q), n)
  <2>1. /\ p \in Positions /\ Numbered(p, n) /\ q \in Positions /\ Numbered(q, m)
        /\ RowsOf(p) = RowsOf(q)
    BY <1>3, <1>4, <1>5, <1>7
  <2> HIDE DEF p, q
  <2> QED BY <1>3, <1>4, <2>1, SameRowsInOrder
<1>9. InOrder = ListOf(p) /\ InOrder' = ListOf(q) /\ Len(InOrder) = n
  BY <1>6, ListOfRows
<1> HIDE DEF p, q
<1> QED BY <1>2, <1>8, <1>9

\* Two POs go together; of any other number, one goes, and its items follow
\* the neighbour the list gives it.
LEMMA DeleteList ==
    ASSUME IInv, NEW w \in Workers, DeleteCommit(w)
    PROVE  LET o == req[w].request.order
           IN  /\ req[w].seen = pos /\ o \in Rows
               /\ InOrder \in Seq(Ids)
               /\ Dissolves(pos, o) => /\ Len(InOrder) = 2 /\ InOrder' = <<>>
                                       /\ Rows' = {} /\ Leaving(pos, o) = Rows
               /\ ~Dissolves(pos, o) => /\ Len(InOrder) # 2
                                        /\ pos[o] \in 1..Len(InOrder) /\ InOrder[pos[o]] = o
                                        /\ InOrder' = List!RemoveAt(InOrder, pos[o])
                                        /\ Rows' = Rows \ {o} /\ Leaving(pos, o) = {o}
                                        /\ Heir(pos, o) = List!Heir(pos[o])
                                        /\ Heir(pos, o) \in Rows' \cup {None}
<1> DEFINE o == req[w].request.order
           l == ListOf(pos)
<1>1. req[w].seen = pos /\ o \in RowsOf(pos) /\ req[w].op = "moved"
  BY Holder DEF DeleteCommit, MovesAreDeletions, IInv
<1>2. pos \in Positions /\ pos' \in Positions /\ IInv'
  BY DeleteCommitStep DEF IInv, TypeOK
<1>3. PICK n \in Nat : Numbered(pos, n)
  BY <1>2, ContiguousIsNumbered DEF IInv
<1>4. /\ l \in Seq(Ids) /\ Len(l) = n
      /\ \A k \in 1..n : l[k] \in RowsOf(pos) /\ pos[l[k]] = k
      /\ \A q \in RowsOf(pos) : pos[q] \in 1..n /\ l[pos[q]] = q
  BY <1>2, <1>3, ListFacts
<1>5. Cardinality(RowsOf(pos)) = n /\ Cardinality(RowsOf(pos) \ {o}) = n - 1
  <2>1. Cardinality(RowsOf(pos)) = n
    BY <1>2, <1>3, CountNumbered
  <2> QED BY <1>1, <2>1, RowsFinite, FS_RemoveElement
<1>6. Dissolves(pos, o) <=> n = 2
  BY <1>1, <1>5 DEF Dissolves
<1>7. RowsOf(pos') = RowsOf(pos) \ Leaving(pos, o)
  <2>1. nextId \notin Rows' \ Rows
    <3>1. nextId' = nextId
      BY DEF DeleteCommit
    <3> QED BY <1>2, <3>1 DEF IInv, TypeOK, FreshIds, Rows, RowsOf, Ids
  <2>2. Rows' = Rows \/ Rows' = Rows \ Leaving(pos, o)
    BY <2>1, RowsStep DEF Order
  <2>3. \A q \in Leaving(pos, o) \cap Ids : pos'[q] = 0
    <3> DEFINE left == [q \in Ids |-> IF q \in Leaving(pos, o) THEN 0 ELSE pos[q]]
    <3>1. pos' = left \/ pos' = Normalized(left)
      BY <1>1 DEF DeleteCommit
    <3> QED BY <3>1 DEF Normalized
  <2> QED BY <2>2, <2>3 DEF Rows, RowsOf
<1>8. CASE Dissolves(pos, o)
  <2>1. Leaving(pos, o) = RowsOf(pos) /\ RowsOf(pos') = {}
    BY <1>7, <1>8 DEF Leaving
  <2>2. ListOf(pos') = <<>>
    <3>1. Numbered(pos', 0)
      BY <2>1 DEF Numbered
    <3>2. ListOf(pos') \in Seq(Ids) /\ Len(ListOf(pos')) = 0
      BY <1>2, <3>1, ListFacts, 0 \in Nat
    <3> QED BY <3>2, EmptySeq
  <2> QED BY <1>1, <1>4, <1>6, <1>8, <2>1, <2>2, ListOfRows
<1>9. CASE ~Dissolves(pos, o)
  <2> DEFINE k == pos[o]
             left == [q \in Ids |-> IF q \in {o} THEN 0 ELSE pos[q]]
             r == List!RemoveAt(l, k)
  <2>1. Leaving(pos, o) = {o} /\ RowsOf(pos') = RowsOf(pos) \ {o}
    BY <1>7, <1>9 DEF Leaving
  <2>2. pos' = Normalized(left)
    BY <1>1, <1>9, <2>1 DEF DeleteCommit
  <2>3. /\ Numbered(pos', n - 1) /\ n - 1 \in Nat
        /\ \A q \in RowsOf(pos) \ {o} : pos'[q] = IF pos[q] < k THEN pos[q] ELSE pos[q] - 1
    <3>1. /\ Numbered(Normalized(left), n - 1) /\ n - 1 \in Nat
          /\ \A q \in RowsOf(pos) \ {o} :
                Normalized(left)[q] = IF pos[q] < pos[o] THEN pos[q] ELSE pos[q] - 1
      BY <1>1, <1>2, <1>3, GapClosed
    <3> HIDE DEF left
    <3> QED BY <2>2, <3>1
  <2>4. k \in 1..n /\ l[k] = o
    BY <1>1, <1>4
  <2> HIDE DEF l, k
  <2>5. /\ r \in Seq(Ids) /\ Len(r) = n - 1
        /\ \A i \in 1..n - 1 : r[i] = IF i < k THEN l[i] ELSE l[i + 1]
    BY <1>4, <2>4, RemovalFacts
  <2> HIDE DEF r
  <2>6. ASSUME NEW i \in 1..n - 1 PROVE r[i] \in RowsOf(pos') /\ pos'[r[i]] = i
    <3> DEFINE j == IF i < k THEN i ELSE i + 1
    <3>1. j \in 1..n /\ j # k /\ r[i] = l[j]
      BY <2>3, <2>4, <2>5
    <3>2. l[j] \in RowsOf(pos) \ {o} /\ pos[l[j]] = j
      BY <1>4, <3>1 DEF k
    <3>3. pos'[l[j]] = IF j < k THEN j ELSE j - 1
      BY <2>3, <3>2
    <3> QED BY <2>1, <2>4, <3>1, <3>2, <3>3
  <2>7. ListOf(pos') = r
    BY <1>2, <2>3, <2>5, <2>6, ListIs
  <2>8. Heir(pos, o) = Target(pos, o)
    BY <1>9 DEF Heir
  <2>9. /\ n = 1 => Target(pos, o) = None
        /\ n # 1 => /\ Target(pos, o) \in RowsOf(pos) \ {o}
                    /\ pos[Target(pos, o)] = IF k = 1 THEN 2 ELSE k - 1
    BY <1>1, <1>2, <1>3, TargetIsNeighbour DEF k
  <2>10. Heir(pos, o) = List!Heir(k)
    <3>1. CASE n = 1
      BY <1>4, <2>8, <2>9, <3>1, ListOfRows DEF List!Heir, l
    <3>2. CASE n # 1
      <4>1. Target(pos, o) = l[pos[Target(pos, o)]]
        BY <1>4, <2>9, <3>2
      <4> QED BY <1>4, <2>8, <2>9, <3>2, <4>1, ListOfRows DEF List!Heir, l
    <3> QED BY <3>1, <3>2
  <2>11. Heir(pos, o) \in RowsOf(pos') \cup {None}
    BY <2>1, <2>8, <2>9
  <2> QED BY <1>1, <1>4, <1>6, <1>9, <2>1, <2>4, <2>7, <2>10, <2>11, ListOfRows DEF k, l, r
<1> QED BY <1>8, <1>9

\* The PO of an item exists, and an item without a row has none.
OrdersExist ==
    \A i \in Items :
        orderOf[i] \in Rows \cup {None} /\ (i \notin listed => orderOf[i] = None)

\* What a deletion has moved stays where it was until the commit.
MovedStand ==
    \A w \in Workers :
        req[w].op = "moved" =>
            \A i \in req[w].items :
                i \in listed /\ orderOf[i] \in Leaving(req[w].seen, req[w].request.order)

HInv == OrdersExist /\ MovedStand

LEMMA InitHInv == Init => HInv
BY DEF Init, HInv, OrdersExist, MovedStand, Idle

LEMMA StepOrdersExist ==
    ASSUME IInv, HInv, NEW w \in Workers, Order(w) \/ Edit(w) \/ Manage(w)
    PROVE  OrdersExist'
<1> USE DEF HInv
<1>1. /\ orderOf \in [Items -> Ids \cup {None}] /\ listed \subseteq Items
      /\ Rows \subseteq Ids /\ None \notin Ids
  BY OrdersAssumption DEF IInv, TypeOK, Rows, RowsOf
<1>2. CASE CreateCommit(w)
  BY <1>1, <1>2, CreateList DEF CreateCommit, Assign, Unassigned, OrdersExist
<1>3. CASE GroupNone(w)
  BY <1>1, <1>3, GroupNoneList DEF GroupNone, Assign, Unassigned, OrdersExist
<1>4. CASE GroupOne(w)
  BY <1>1, <1>4, GroupOneList DEF GroupOne, Assign, Unassigned, OrdersExist
<1>5. CASE ReorderCommit(w)
  BY <1>1, <1>5, ReorderList DEF ReorderCommit, OrdersExist
<1>6. CASE DeleteCommit(w)
  <2> DEFINE o == req[w].request.order
  <2>1. /\ listed' = listed
        /\ orderOf' = [i \in Items |-> IF i \in req[w].items THEN Heir(pos, o)
                                       ELSE IF orderOf[i] \in Leaving(pos, o) THEN None
                                       ELSE orderOf[i]]
    BY <1>6, DeleteList DEF DeleteCommit
  <2>2. Heir(pos, o) \in Rows' \cup {None} /\ Rows' = Rows \ Leaving(pos, o)
    BY <1>6, DeleteList DEF Heir
  <2>3. \A i \in req[w].items : i \in listed
    BY <1>6 DEF DeleteCommit, MovedStand
  <2> HIDE DEF o
  <2> QED BY <1>1, <2>1, <2>2, <2>3 DEF OrdersExist
<1>7. CASE AddItem(w)
  <2>1. Rows' = Rows /\ req[w].item \in Items /\ req[w].order \in Ids \cup {None}
    BY <1>7, RequestFields DEF AddItem, IInv, Rows, RowsOf
  <2> QED BY <1>1, <1>7, <2>1 DEF AddItem, OrdersExist
<1>8. CASE RemoveItem(w)
  <2>1. Rows' = Rows /\ req[w].item \in Items
    BY <1>8, RequestFields DEF RemoveItem, IInv, Rows, RowsOf
  <2> QED BY <1>1, <1>8, <2>1 DEF RemoveItem, OrdersExist
<1>9. ASSUME NEW i \in Items, NEW o \in Ids \cup {None}, MoveItem(w, i, o)
      PROVE  OrdersExist'
  <2>1. Rows' = Rows
    BY <1>9 DEF MoveItem, Rows, RowsOf
  <2> QED BY <1>1, <1>9, <2>1 DEF MoveItem, OrdersExist
<1>10. CASE UNCHANGED <<pos, listed, orderOf>>
  BY <1>10 DEF OrdersExist, Rows, RowsOf
<1> QED BY <1>2, <1>3, <1>4, <1>5, <1>6, <1>7, <1>8, <1>9, <1>10
        DEF Order, Edit, Manage, Check, LockAndRead, GroupRefused, DeleteRefused, DeleteMoves,
            AddItemCheck, RemoveItemCheck, Close, Reopen, DeleteQuote, Crash

LEMMA StepMovedStand ==
    ASSUME IInv, HInv, NEW w \in Workers, Order(w) \/ Edit(w) \/ Manage(w)
    PROVE  MovedStand'
<1> USE DEF HInv
<1>1. TypeOK /\ LockedReadsStand
  BY DEF IInv
<1> SUFFICES ASSUME NEW v \in Workers, req'[v].op = "moved", NEW i \in req'[v].items
             PROVE  /\ i \in listed'
                    /\ orderOf'[i] \in Leaving(req'[v].seen, req'[v].request.order)
  BY DEF MovedStand
<1>2. CASE DeleteMoves(w) /\ v = w
  BY <1>1, <1>2 DEF DeleteMoves, Holds, ItemsOf, TypeOK
<1>3. CASE ~(DeleteMoves(w) /\ v = w)
  <2>1. req'[v] = req[v]
    <3>1. CASE v # w
      BY <1>1, <3>1, OthersRemember
    <3>2. CASE v = w
      <4>1. req' = req \/ req'[w].op # "moved"
        <5>1. CASE Order(w)
          <6>1. CASE Check(w)
            <7>1. PICK request : req' = [req EXCEPT ![w] = [op |-> "checked", request |-> request]]
              BY <6>1 DEF Check
            <7> QED BY <1>1, <7>1 DEF TypeOK
          <6>2. CASE LockAndRead(w)
            BY <1>1, <6>2 DEF LockAndRead, TypeOK
          <6>3. CASE req' = [req EXCEPT ![w] = Idle]
            BY <1>1, <6>3 DEF Idle, TypeOK
          <6> QED BY <1>3, <3>2, <5>1, <6>1, <6>2, <6>3 DEF Order, CreateCommit, GroupNone, GroupOne,
                GroupRefused, ReorderCommit, DeleteRefused, DeleteCommit, Commit, Finish
        <5>2. CASE Edit(w) \/ Manage(w)
          BY <1>1, <5>2 DEF TypeOK, Edit, AddItemCheck, MoveItem, RemoveItemCheck, AddItem, RemoveItem,
             Manage, Close, Reopen, DeleteQuote, Crash, Finish, Idle
        <5> QED BY <5>1, <5>2
      <4> QED BY <3>2, <4>1
    <3> QED BY <3>1, <3>2
  <2>2. lock = v /\ i \in listed /\ orderOf[i] \in Leaving(req[v].seen, req[v].request.order)
    BY <1>1, <2>1 DEF LockedReadsStand, MovedStand
  <2>3. i \in listed' /\ orderOf'[i] = orderOf[i]
    <3>1. CASE UNCHANGED <<listed, orderOf>>
      BY <2>2, <3>1
    <3>2. ASSUME \/ CreateCommit(w) \/ GroupNone(w) \/ GroupOne(w) \/ ReorderCommit(w)
                 \/ DeleteCommit(w)
          PROVE  FALSE
      <4>1. req[w].op \in {"locked", "moved"} /\ req'[w] = Idle
        BY <1>1, <3>2 DEF CreateCommit, GroupNone, GroupOne, ReorderCommit, DeleteCommit, Holds,
                          Commit, Finish, TypeOK
      <4> QED BY <1>1, <2>1, <2>2, <4>1 DEF LockedReadsStand, Idle
    <3>3. CASE AddItem(w)
      BY <1>1, <2>2, <3>3 DEF AddItem, TypeOK
    <3>4. CASE RemoveItem(w)
      BY <1>1, <2>1, <2>2, <3>4 DEF RemoveItem, TypeOK
    <3>5. ASSUME NEW j \in Items, NEW o \in Ids \cup {None}, MoveItem(w, j, o) PROVE FALSE
      BY <2>2, <3>5, OrdersAssumption DEF MoveItem, Available
    <3> QED BY <3>1, <3>2, <3>3, <3>4, <3>5
        DEF Order, Edit, Manage, Check, LockAndRead, GroupRefused, DeleteRefused, DeleteMoves,
            AddItemCheck, RemoveItemCheck, Close, Reopen, DeleteQuote, Crash
  <2> QED BY <2>1, <2>2, <2>3
<1> QED BY <1>2, <1>3

LEMMA StepHInv == IInv /\ HInv /\ [Next]_vars => HInv'
<1> SUFFICES ASSUME IInv, HInv, [Next]_vars PROVE HInv'
  OBVIOUS
<1>1. CASE Next
  BY <1>1, StepOrdersExist, StepMovedStand DEF Next, HInv
<1>2. CASE UNCHANGED vars
  BY <1>2 DEF vars, HInv, OrdersExist, MovedStand, Rows, RowsOf
<1> QED BY <1>1, <1>2

\* No item is left in a PO that is gone, whatever was moved, added or deleted
\* meanwhile.
THEOREM HomesExist == Spec => []OrdersExist
<1>1. HInv => OrdersExist
  BY DEF HInv
<1> QED BY <1>1, Invariance, InitHInv, StepHInv, PTL DEF Spec

\* The homes of the list are the POs that exist.
LEMMA HomesAreRows ==
    ASSUME IInv
    PROVE  /\ InOrder \in Seq(Ids) /\ List!Homes = Rows \cup {None}
           /\ \A o \in Ids \ Rows : List!New(o)
<1>1. PICK n \in Nat : Numbered(pos, n)
  BY ContiguousIsNumbered DEF IInv, TypeOK
<1>2. /\ InOrder \in Seq(Ids) /\ Len(InOrder) = n
      /\ \A k \in 1..n : InOrder[k] \in Rows
      /\ \A o \in Rows : pos[o] \in 1..n /\ InOrder[pos[o]] = o
  BY <1>1, ListFacts, ListOfRows DEF IInv, TypeOK
<1>3. List!Homes = Rows \cup {None}
  BY <1>2 DEF List!Homes, List!Places
<1> QED BY <1>2, <1>3, OrdersAssumption DEF List!New

LEMMA CreateRefines ==
    ASSUME IInv, HInv, NEW w \in Workers, CreateCommit(w)
    PROVE  List!Create(nextId)
<1>1. List!New(nextId) /\ InOrder' = Append(InOrder, nextId) /\ UNCHANGED listed
  BY CreateList, HomesAreRows DEF CreateCommit
<1>2. orderOf' = Assign(Unassigned, nextId) \/ orderOf' = Assign({}, nextId)
  BY DEF CreateCommit
<1>3. Assign({}, nextId) = orderOf
  BY DEF Assign, IInv, TypeOK
<1> QED BY <1>1, <1>2, <1>3 DEF List!Create, List!Settle, List!Loose, Assign, Unassigned

LEMMA GroupRefines ==
    ASSUME IInv, HInv, NEW w \in Workers, GroupNone(w) \/ GroupOne(w)
    PROVE  \E a, b \in Ids : List!Group(a, b)
<1>1. CASE GroupNone(w)
  <2>1. /\ InOrder = <<>> /\ InOrder' = <<nextId, nextId + 1>>
        /\ nextId \in Ids /\ nextId + 1 \in Ids /\ nextId # nextId + 1
        /\ List!New(nextId) /\ List!New(nextId + 1)
    BY <1>1, GroupNoneList, HomesAreRows
  <2>2. List!Settle(List!Loose, nextId) /\ UNCHANGED listed
    BY <1>1 DEF GroupNone, Assign, Unassigned, List!Settle, List!Loose
  <2> QED BY <2>1, <2>2 DEF List!Group
<1>2. CASE GroupOne(w)
  <2>1. PICK first \in Ids : /\ InOrder = <<first>> /\ Rows = {first}
                             /\ InOrder' = <<first, nextId>>
                             /\ orderOf' = Assign(Unassigned, first)
    BY <1>2, GroupOneList
  <2>2. nextId \in Ids /\ List!New(nextId) /\ first # nextId
    BY <1>2, <2>1, GroupOneList, HomesAreRows
  <2>3. List!Settle(List!Loose, first) /\ UNCHANGED listed
    BY <1>2, <2>1 DEF GroupOne, Assign, Unassigned, List!Settle, List!Loose
  <2> QED BY <2>1, <2>2, <2>3 DEF List!Group
<1> QED BY <1>1, <1>2

LEMMA DeleteRefines ==
    ASSUME IInv, HInv, NEW w \in Workers, DeleteCommit(w)
    PROVE  \/ List!Dissolve
           \/ \E k \in List!Places, late \in SUBSET listed : List!Delete(k, late)
<1> DEFINE o == req[w].request.order
           k == pos[o]
           late == {i \in listed : i \notin req[w].items}
<1>1. /\ listed' = listed
      /\ orderOf' = [i \in Items |-> IF i \in req[w].items THEN Heir(pos, o)
                                     ELSE IF orderOf[i] \in Leaving(pos, o) THEN None
                                     ELSE orderOf[i]]
  BY DeleteList DEF DeleteCommit
<1>2. \A i \in req[w].items : i \in listed /\ orderOf[i] \in Leaving(pos, o)
  BY DeleteList DEF DeleteCommit, HInv, MovedStand
<1>3. /\ \A i \in Items : orderOf[i] \in Rows \cup {None} /\ (i \notin listed => orderOf[i] = None)
      /\ listed \subseteq Items /\ None \notin Rows
  BY OrdersAssumption DEF HInv, OrdersExist, IInv, TypeOK, Rows, RowsOf
<1>4. CASE Dissolves(pos, o)
  <2>1. Len(InOrder) = 2 /\ InOrder' = <<>> /\ Leaving(pos, o) = Rows /\ Heir(pos, o) = None
    BY <1>4, DeleteList DEF Heir
  <2>2. orderOf' = [i \in Items |-> None]
    BY <1>1, <1>3, <2>1
  <2> QED BY <1>1, <2>1, <2>2 DEF List!Dissolve
<1>5. CASE ~Dissolves(pos, o)
  <2>1. /\ Len(InOrder) # 2 /\ k \in 1..Len(InOrder) /\ InOrder[k] = o /\ o \in Rows
        /\ InOrder' = List!RemoveAt(InOrder, k)
        /\ Leaving(pos, o) = {o} /\ Heir(pos, o) = List!Heir(k)
    BY <1>5, DeleteList
  <2> HIDE DEF k, o
  <2>2. \A i \in Items :
           orderOf'[i] = IF orderOf[i] # InOrder[k] THEN orderOf[i]
                         ELSE IF i \in late THEN None
                         ELSE List!Heir(k)
    BY <1>1, <1>2, <1>3, <2>1
  <2>3. orderOf' = [i \in Items |-> IF orderOf[i] # InOrder[k] THEN orderOf[i]
                                    ELSE IF i \in late THEN None
                                    ELSE List!Heir(k)]
    BY <1>1, <2>2
  <2>4. late \in SUBSET listed /\ k \in List!Places
    BY <2>1 DEF List!Places
  <2> HIDE DEF late
  <2>5. List!Delete(k, late)
    BY <1>1, <2>1, <2>3 DEF List!Delete
  <2> QED BY <2>4, <2>5
<1> QED BY <1>4, <1>5

LEMMA ReorderRefines ==
    ASSUME IInv, NEW w \in Workers, ReorderCommit(w)
    PROVE  List!Reorder
BY ReorderList DEF ReorderCommit, Reordered, List!Reorder, List!Places

LEMMA SetsOne ==
    ASSUME IInv, NEW i \in Items, NEW o, orderOf' = [orderOf EXCEPT ![i] = o]
    PROVE  List!Settle({i}, o)
BY DEF IInv, TypeOK, List!Settle

LEMMA EditRefines ==
    ASSUME IInv, HInv, NEW w \in Workers, Edit(w)
    PROVE  List!Next \/ UNCHANGED List!vars
<1>1. CASE UNCHANGED <<pos, listed, orderOf>>
  BY <1>1 DEF List!vars, InOrder, Rows, RowsOf
<1>2. CASE AddItem(w)
  <2> DEFINE i == req[w].item
             o == req[w].order
  <2>1. CASE i \notin listed /\ o \in Rows \cup {None}
    <3>1. i \in Items /\ o \in List!Homes
      BY <1>2, <2>1, HomesAreRows, RequestFields DEF AddItem, IInv
    <3>2. List!Add(i, o)
      BY <1>2, <2>1 DEF AddItem, List!Add, List!Settle, InOrder, Rows, RowsOf, IInv, TypeOK
    <3> QED BY <3>1, <3>2 DEF List!Next
  <2>2. CASE ~(i \notin listed /\ o \in Rows \cup {None})
    BY <1>1, <1>2, <2>2 DEF AddItem
  <2> QED BY <2>1, <2>2
<1>3. CASE RemoveItem(w)
  <2> DEFINE i == req[w].item
  <2>1. i \in Items
    BY <1>3, RequestFields DEF RemoveItem, IInv
  <2>2. CASE i \in listed
    <3>1. List!Drop(i)
      <4>1. InOrder' = InOrder /\ listed' = listed \ {i} /\ orderOf' = [orderOf EXCEPT ![i] = None]
        BY <1>3 DEF RemoveItem, InOrder, Rows, RowsOf
      <4>2. List!Settle({i}, None)
        BY <2>1, <4>1, SetsOne
      <4> QED BY <2>2, <4>1, <4>2 DEF List!Drop
    <3> QED BY <2>1, <3>1 DEF List!Next
  <2>3. CASE i \notin listed
    <3>1. orderOf' = orderOf /\ listed' = listed
      BY <1>3, <2>1, <2>3 DEF RemoveItem, HInv, OrdersExist, IInv, TypeOK
    <3> QED BY <1>1, <1>3, <3>1 DEF RemoveItem
  <2> QED BY <2>2, <2>3
<1>4. ASSUME NEW i \in Items, NEW o \in Ids \cup {None}, MoveItem(w, i, o)
      PROVE  List!Next
  <2>1. o \in List!Homes
    BY <1>4, HomesAreRows DEF MoveItem
  <2>2. List!Move(i, o)
    <3>1. UNCHANGED <<InOrder, listed>> /\ i \in listed /\ orderOf' = [orderOf EXCEPT ![i] = o]
      BY <1>4 DEF MoveItem, InOrder, Rows, RowsOf
    <3>2. List!Settle({i}, o)
      BY <3>1, SetsOne
    <3> QED BY <3>1, <3>2 DEF List!Move
  <2> QED BY <2>1, <2>2 DEF List!Next
<1> QED BY <1>1, <1>2, <1>3, <1>4 DEF Edit, AddItemCheck, RemoveItemCheck

\* The rows, the lock and the transactions implement a list: each commit is one
\* operation on it, and nothing in between shows.
THEOREM RefinesList == Spec => ImplementsList
<1>1. Init => List!Init
  <2> SUFFICES ASSUME Init PROVE List!Init
    OBVIOUS
  <2>1. Rows = {}
    BY DEF Init, Rows, RowsOf
  <2>2. InOrder = <<>>
    BY <2>1, FS_EmptySet DEF InOrder
  <2> QED BY <2>2 DEF Init, List!Init
<1>2. IInv /\ HInv /\ [Next]_vars => [List!Next]_(List!vars)
  <2> SUFFICES ASSUME IInv, HInv, [Next]_vars PROVE List!Next \/ UNCHANGED List!vars
    OBVIOUS
  <2>1. CASE UNCHANGED <<pos, listed, orderOf>>
    BY <2>1 DEF List!vars, InOrder, Rows, RowsOf
  <2>2. ASSUME NEW w \in Workers, Order(w) PROVE List!Next \/ UNCHANGED List!vars
    <3>1. CASE CreateCommit(w)
      BY <3>1, CreateRefines, CreateList DEF List!Next
    <3>2. CASE GroupNone(w) \/ GroupOne(w)
      BY <3>2, GroupRefines DEF List!Next
    <3>3. CASE DeleteCommit(w)
      BY <3>3, DeleteRefines DEF List!Next
    <3>4. CASE ReorderCommit(w)
      BY <3>4, ReorderRefines DEF List!Next
    <3> QED BY <2>1, <2>2, <3>1, <3>2, <3>3, <3>4
        DEF Order, Check, LockAndRead, GroupRefused, DeleteRefused, DeleteMoves
  <2>3. CASE \E w \in Workers : Manage(w)
    BY <2>1, <2>3 DEF Manage, Close, Reopen, DeleteQuote, Crash
  <2> QED BY <2>1, <2>2, <2>3, EditRefines DEF Next, vars
<1> QED BY <1>1, <1>2, Invariance, InitHInv, StepHInv, PTL DEF Spec, ImplementsList, List!Spec
===============================================================================
