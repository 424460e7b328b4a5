------------------------- MODULE ForecastRegister_proof -------------------------
(***************************************************************************)
(* Proofs about ForecastRegister: what the lock on the register gives to   *)
(* imports, screens and catalog routes that overlap, for any number of     *)
(* products, codes, items, fortnights and requests.                        *)
(***************************************************************************)
EXTENDS ForecastRegister, FiniteSetTheorems, TLAPS

\* Codes that are not registered have nothing.
Register(rows) ==
    /\ rows \in [Codes -> CodeRows]
    /\ \A c \in Codes : rows[c].owner = "none" => rows[c] = Absent

\* Only what exists is active.
ActiveExist ==
    /\ \A p \in Products : product[p].active => product[p].origin # "none"
    /\ \A i \in Items : item[i].active => item[i].known

\* A link from c to i is right, or i was written to unseen.
Named(i, c) == i \in overtaken \/ (item[i].known /\ item[i].code = c)

\* What an import has read is still so, and a route's item is still there.
Memory(w) ==
    /\ lock = w => /\ req[w].products = product
                   /\ req[w].free = {l \in Labels : live[l] = 0}
                   /\ \A c \in Codes : req[w].links[c] # "none" => Named(req[w].links[c], c)
    /\ req[w].op = "rewrite" => req[w].kept = code
    /\ req[w].op = "change" => item[req[w].item].known

Inv ==
    /\ TypeOK
    /\ ActiveExist
    /\ \A w \in Workers : Memory(w)
    /\ OneFortnight
    /\ LinkedAsNamed

-----------------------------------------------------------------------------
(* Operators and records.                                                  *)

LEMMA AbsentTyped == Absent \in CodeRows /\ Absent.owner = "none" /\ Absent.link = "none"
BY DEF Absent, CodeRows

LEMMA NewTyped ==
    ASSUME NEW p \in Products, NEW i \in Items \cup {"none"}
    PROVE  /\ New(p, i) \in CodeRows
           /\ New(p, i).owner = p /\ New(p, i).link = i
BY DEF New, Absent, CodeRows

\* The item a code means is active and has the code.
LEMMA MeantNamed ==
    ASSUME NEW c \in Codes
    PROVE  /\ Meant(c) \in Items \cup {"none"}
           /\ Meant(c) # "none" => item[Meant(c)].active /\ item[Meant(c)].code = c
<1> DEFINE namesakes == {i \in Items : item[i].active /\ item[i].code = c}
<1> HIDE DEF namesakes
<1>1. CASE Cardinality(namesakes) = 1
  <2>1. namesakes # {}
    BY <1>1, FS_EmptySet
  <2>2. Meant(c) \in namesakes
    BY <1>1, <2>1 DEF Meant, namesakes
  <2> QED
    BY <2>2 DEF namesakes
<1>2. CASE Cardinality(namesakes) # 1
  BY <1>2 DEF Meant, namesakes
<1> QED
  BY <1>1, <1>2

\* A request that remembers something remembers the fields of its kind.
LEMMA Kinds ==
    ASSUME req \in [Workers -> {Idle} \cup Plans \cup Rewrites \cup Changes], NEW w \in Workers
    PROVE  /\ req[w].op = "plan" => req[w] \in Plans
           /\ req[w].op = "rewrite" => req[w] \in Rewrites
           /\ req[w].op = "change" => req[w] \in Changes
           /\ req[w].op = "idle" => req[w] = Idle
<1>1. req[w] \in {Idle} \cup Plans \cup Rewrites \cup Changes
  OBVIOUS
<1> QED
  BY <1>1 DEF Idle, Plans, Rewrites, Changes

\* Only the record of w changes.
LEMMA BecomesFrame ==
    ASSUME req \in [Workers -> {Idle} \cup Plans \cup Rewrites \cup Changes], NEW w \in Workers,
           NEW r \in {Idle} \cup Plans \cup Rewrites \cup Changes, Becomes(w, r)
    PROVE  /\ req' \in [Workers -> {Idle} \cup Plans \cup Rewrites \cup Changes]
           /\ req'[w] = r
           /\ \A v \in Workers \ {w} : req'[v] = req[v]
BY DEF Becomes

\* Nobody remembers an import while the lock is free.
LEMMA NobodyImports ==
    ASSUME TypeOK, Free, NEW w \in Workers
    PROVE  lock # w /\ req[w].op \notin {"plan", "rewrite"}
BY ForecastRegisterAssumption DEF TypeOK, Free

\* Whoever holds the lock is the only one who remembers an import.
LEMMA OnlyImporter ==
    ASSUME TypeOK, NEW w \in Workers, req[w].op \in {"plan", "rewrite"}
    PROVE  /\ lock = w
           /\ \A v \in Workers \ {w} : lock # v /\ req[v].op \notin {"plan", "rewrite"}
BY DEF TypeOK

-----------------------------------------------------------------------------
(* Steps in general.                                                       *)

\* The lock is free and stays so, and nobody starts anything.
LEMMA FreeStep ==
    ASSUME TypeOK, \A v \in Workers : Memory(v), Free, lock' = lock, req' = req,
           \A i \in Items : item[i].known => item'[i].known
    PROVE  \A v \in Workers : Memory(v)'
<1> TAKE v \in Workers
<1>1. lock' # v /\ req'[v].op \notin {"plan", "rewrite"}
  BY NobodyImports
<1>2. req'[v].op = "change" => req'[v] \in Changes
  BY Kinds DEF TypeOK
<1> QED
  BY <1>1, <1>2 DEF Memory, Changes

\* A request on an item ends while the lock is free.
LEMMA FreeAnswer ==
    ASSUME TypeOK, \A v \in Workers : Memory(v), Free, lock' = lock,
           NEW w \in Workers, At(w, "change"), Becomes(w, Idle),
           \A i \in Items : item[i].known => item'[i].known
    PROVE  \A v \in Workers : Memory(v)'
<1> TAKE v \in Workers
<1>1. lock' # v /\ req[v].op \notin {"plan", "rewrite"}
  BY NobodyImports
<1>2. req[v].op = "change" => req[v] \in Changes
  BY Kinds DEF TypeOK
<1>3. req'[v] = Idle \/ req'[v] = req[v]
  BY BecomesFrame DEF TypeOK
<1> QED
  BY <1>1, <1>2, <1>3 DEF Memory, Changes, Idle

\* Links that were right before a step which changes items only.
KeepsNames == \A i \in Items, c \in Codes : Named(i, c) => Named(i, c)'

\* A step that leaves the register alone and keeps names.
LEMMA ItemStep ==
    ASSUME TypeOK, \A v \in Workers : Memory(v), KeepsNames,
           UNCHANGED <<product, code, live, lock>>,
           \A i \in Items : item[i].known => item'[i].known,
           NEW v \in Workers, req'[v] = req[v]
    PROVE  Memory(v)'
<1>1. /\ lock = v => req[v].op \in {"plan", "rewrite"}
      /\ req[v].op = "plan" => req[v] \in Plans
      /\ req[v].op = "rewrite" => req[v] \in Rewrites
      /\ req[v].op = "change" => req[v] \in Changes
  BY Kinds DEF TypeOK
<1>2. ASSUME lock = v, NEW c \in Codes, req[v].links[c] # "none"
      PROVE  Named(req[v].links[c], c)'
  <2>1. req[v].links[c] \in Items
    BY <1>1, <1>2 DEF Plans, Rewrites
  <2>2. Named(req[v].links[c], c)
    BY <1>2 DEF Memory
  <2> QED
    BY <2>1, <2>2 DEF KeepsNames
<1>3. req[v].op = "change" => req[v].item \in Items
  BY <1>1 DEF Changes
<1> QED
  BY <1>2, <1>3 DEF Memory

LEMMA LinksStay ==
    ASSUME TypeOK, LinkedAsNamed, KeepsNames, code' = code
    PROVE  LinkedAsNamed'
<1> SUFFICES ASSUME NEW c \in Codes, code[c].link # "none"
             PROVE  Named(code[c].link, c)'
  BY DEF LinkedAsNamed, Named
<1>1. code[c].link \in Items
  BY DEF TypeOK, CodeRows
<1>2. Named(code[c].link, c)
  BY DEF LinkedAsNamed, Named
<1> QED
  BY <1>1, <1>2 DEF KeepsNames

-----------------------------------------------------------------------------
(* What writes the register.                                               *)

\* What the link of an item to a code does to the register, and what it gives.
LEMMA LinkedEffects ==
    ASSUME NEW rows, Register(rows), NEW i \in Items, NEW c \in Codes, NEW choice \in Choices,
           NEW required \in BOOLEAN, product \in [Products -> ProductRows],
           \A p \in Products : product[p].active => product[p].origin # "none",
           Linked(rows, i, c, choice, required)
    PROVE  /\ Register(code')
           /\ \A d \in Codes : code'[d].link = rows[d].link \/ (d = c /\ code'[d].link = i)
           /\ product' \in [Products -> ProductRows]
           /\ \A p \in Products : product'[p].active => product'[p].origin # "none"
           /\ required => code'[c].owner # "none"
<1>0. choice.mode \in {"existente", "novo"} => choice.product \in Products
  BY DEF Choices
<1>1. CASE LinksRegistered(rows, i, c, choice)
  <2> DEFINE row == [rows[c] EXCEPT !.link = IF @ = "none" THEN i ELSE @]
  <2>1. rows[c] \in CodeRows
    BY DEF Register
  <2>2. row \in CodeRows /\ row.owner = rows[c].owner /\ row.link \in {rows[c].link, i}
    BY <2>1 DEF CodeRows
  <2>3. code' = [rows EXCEPT ![c] = row] /\ rows[c].owner # "none" /\ product' = product
    BY <1>1 DEF LinksRegistered, Register
  <2> HIDE DEF row
  <2>4. /\ Register(code') /\ code'[c] = row
        /\ \A d \in Codes \ {c} : code'[d] = rows[d]
    BY <2>2, <2>3 DEF Register
  <2> QED
    BY <2>2, <2>3, <2>4
<1>2. CASE AddsToProduct(rows, i, c, choice)
  <2>1. choice.product \in Products /\ code' = [rows EXCEPT ![c] = New(choice.product, i)]
        /\ product' = product
    BY <1>0, <1>2 DEF AddsToProduct
  <2>2. New(choice.product, i) \in CodeRows /\ New(choice.product, i).owner # "none"
        /\ New(choice.product, i).link = i
    BY <2>1, NewTyped, ForecastRegisterAssumption
  <2> DEFINE row == New(choice.product, i)
  <2>4. row \in CodeRows /\ row.owner # "none" /\ row.link = i /\ code' = [rows EXCEPT ![c] = row]
    BY <2>1, <2>2
  <2> HIDE DEF row
  <2>5. /\ Register(code') /\ code'[c] = row
        /\ \A d \in Codes \ {c} : code'[d] = rows[d]
    BY <2>4 DEF Register
  <2> QED
    BY <2>1, <2>4, <2>5
<1>3. CASE AddsWithProduct(rows, i, c, choice)
  <2>1. choice.product \in Products /\ code' = [rows EXCEPT ![c] = New(choice.product, i)]
        /\ product' = [product EXCEPT ![choice.product] = [origin |-> "dbcorp", active |-> TRUE]]
    BY <1>0, <1>3 DEF AddsWithProduct
  <2>2. New(choice.product, i) \in CodeRows /\ New(choice.product, i).owner # "none"
        /\ New(choice.product, i).link = i
    BY <2>1, NewTyped, ForecastRegisterAssumption
  <2>3. /\ product' \in [Products -> ProductRows]
        /\ \A p \in Products : product'[p].active => product'[p].origin # "none"
    BY <2>1 DEF ProductRows, Origins
  <2> DEFINE row == New(choice.product, i)
  <2>4. row \in CodeRows /\ row.owner # "none" /\ row.link = i /\ code' = [rows EXCEPT ![c] = row]
    BY <2>1, <2>2
  <2> HIDE DEF row
  <2>5. /\ Register(code') /\ code'[c] = row
        /\ \A d \in Codes \ {c} : code'[d] = rows[d]
    BY <2>4 DEF Register
  <2> QED
    BY <2>3, <2>4, <2>5
<1>4. CASE LeavesOut(rows, c, choice, required)
  BY <1>4 DEF LeavesOut
<1> QED
  BY <1>1, <1>2, <1>3, <1>4 DEF Linked

\* What an import does to the register.
LEMMA ImportEffects ==
    ASSUME Inv, NEW w \in Workers, NEW sheet \in Sheets, At(w, "rewrite"),
           product' = NewProducts(req[w], sheet), code' = NewCodes(req[w], sheet)
    PROVE  /\ req[w].products = product /\ req[w].kept = code
           /\ Register(code')
           /\ \A c \in Codes : code'[c].link \in {"none", code[c].link, req[w].links[c]}
           /\ product' \in [Products -> ProductRows]
           /\ \A p \in Products : product'[p].active => product'[p].origin # "none"
<1>1. req[w] \in Rewrites /\ lock = w
  BY Kinds DEF Inv, TypeOK, At
<1>2. req[w].products = product /\ req[w].kept = code
  BY <1>1 DEF Inv, Memory, At
<1>3. req[w].links \in [Codes -> Items \cup {"none"}]
  BY <1>1 DEF Rewrites
<1>4. sheet.listed \subseteq Products /\ sheet.owner \in [Codes -> Products \cup {"none"}]
  BY DEF Sheets
<1>5. product' \in [Products -> ProductRows]
  <2> SUFFICES ASSUME NEW p \in Products
               PROVE  product'[p] \in ProductRows
    BY DEF NewProducts
  <2>1. product[p] \in ProductRows
    BY DEF Inv, TypeOK
  <2> QED
    BY <2>1 DEF NewProducts, ProductRows, Origins
<1>6. ASSUME NEW p \in Products, product'[p].active
      PROVE  product'[p].origin # "none"
  <2>1. product[p] \in ProductRows /\ (product[p].active => product[p].origin # "none")
    BY DEF Inv, TypeOK, ActiveExist
  <2> QED
    BY <1>6, <2>1 DEF NewProducts, ProductRows
<1>7. ASSUME NEW c \in Codes
      PROVE  /\ code'[c] \in CodeRows
             /\ code'[c].owner = "none" => code'[c] = Absent
             /\ code'[c].link \in {"none", code[c].link, req[w].links[c]}
  <2>1. /\ code[c] \in CodeRows
        /\ code[c].owner = "none" => code[c] = Absent
    BY DEF Inv, TypeOK, Registered
  <2>2. CASE sheet.owner[c] # "none"
    <3>1. code'[c] = [code[c] EXCEPT !.owner = sheet.owner[c], !.link = req[w].links[c]]
      BY <1>2, <2>2 DEF NewCodes, Rewritten
    <3> QED
      BY <1>3, <1>4, <2>1, <2>2, <3>1 DEF CodeRows
  <2>3. CASE sheet.owner[c] = "none"
    <3>1. code'[c] \in {Absent, code[c]}
      BY <2>3 DEF NewCodes
    <3> QED
      BY <2>1, <3>1, AbsentTyped
  <2> QED
    BY <2>2, <2>3
<1>8. code' = [c \in Codes |-> code'[c]]
  BY DEF NewCodes
<1> QED
  BY <1>2, <1>5, <1>6, <1>7, <1>8 DEF Register

-----------------------------------------------------------------------------
(* The invariant: the start, and what a step has to show.                  *)

LEMMA Starts == Init => Inv
<1> SUFFICES ASSUME Init PROVE Inv
  OBVIOUS
<1>1. Absent \in CodeRows /\ Absent.link = "none"
  BY AbsentTyped
<1>2. \A w \in Workers : req[w] = Idle /\ Idle.op = "idle"
  BY DEF Init, Idle
<1>3. TypeOK
  BY <1>1, <1>2, ForecastRegisterAssumption
  DEF Init, TypeOK, ProductRows, Origins, ItemRows, Registered
<1>4. \A w \in Workers : Memory(w)
  BY <1>2, ForecastRegisterAssumption DEF Init, Memory
<1> QED
  BY <1>1, <1>3, <1>4 DEF Inv, Init, ActiveExist, OneFortnight, LinkedAsNamed

\* The register, the catalog and the fortnights after a step.
RowsAfter ==
    /\ product' \in [Products -> ProductRows]
    /\ \A p \in Products : product'[p].active => product'[p].origin # "none"
    /\ Register(code')
    /\ item' \in [Items -> ItemRows]
    /\ \A i \in Items : /\ item'[i].active => item'[i].known
                        /\ item[i].known => item'[i].known
    /\ live' \in [Labels -> Nat] /\ \A l \in Labels : live'[l] <= 1
    /\ overtaken' \subseteq Items
    /\ \A c \in Codes : code'[c].link # "none" => Named(code[c].link, c)'

\* A step of somebody who keeps no request.
LEMMA ScreenStep ==
    ASSUME Inv, RowsAfter, Free, UNCHANGED <<lock, req, imports>>
    PROVE  Inv'
<1>1. TypeOK'
  BY DEF Inv, TypeOK, RowsAfter, Register, Registered
<1>2. \A v \in Workers : Memory(v)'
  BY FreeStep DEF Inv, RowsAfter
<1>3. LinkedAsNamed'
  BY DEF RowsAfter, LinkedAsNamed, Named
<1>4. ActiveExist' /\ OneFortnight'
  BY DEF RowsAfter, ActiveExist, OneFortnight
<1> QED
  BY <1>1, <1>2, <1>3, <1>4 DEF Inv

\* The end of a request on an item, under the lock.
LEMMA AnswerStep ==
    ASSUME Inv, RowsAfter, Free, UNCHANGED <<lock, imports>>,
           NEW w \in Workers, At(w, "change"), Becomes(w, Idle)
    PROVE  Inv'
<1>1. /\ req' \in [Workers -> {Idle} \cup Plans \cup Rewrites \cup Changes]
      /\ req'[w] = Idle /\ \A v \in Workers \ {w} : req'[v] = req[v]
  BY BecomesFrame DEF Inv, TypeOK
<1>2. TypeOK'
  BY <1>1 DEF Inv, TypeOK, RowsAfter, Register, Registered, At, Idle
<1>3. \A v \in Workers : Memory(v)'
  BY FreeAnswer DEF Inv, RowsAfter
<1>4. LinkedAsNamed'
  BY DEF RowsAfter, LinkedAsNamed, Named
<1>5. ActiveExist' /\ OneFortnight'
  BY DEF RowsAfter, ActiveExist, OneFortnight
<1> QED
  BY <1>2, <1>3, <1>4, <1>5 DEF Inv

\* A step on items only, of a request that ends or of somebody who keeps none.
LEMMA CatalogStep ==
    ASSUME Inv, KeepsNames, UNCHANGED <<product, code, live, lock, imports>>,
           item' \in [Items -> ItemRows], overtaken' \subseteq Items,
           \A i \in Items : /\ item'[i].active => item'[i].known
                            /\ item[i].known => item'[i].known,
           \/ req' = req
           \/ \E w \in Workers : At(w, "change") /\ Becomes(w, Idle)
    PROVE  Inv'
<1>1. /\ req' \in [Workers -> {Idle} \cup Plans \cup Rewrites \cup Changes]
      /\ \A v \in Workers : req'[v] = req[v] \/ (req[v].op = "change" /\ req'[v] = Idle)
  <2>1. CASE req' = req
    BY <2>1 DEF Inv, TypeOK
  <2>2. ASSUME NEW w \in Workers, At(w, "change"), Becomes(w, Idle)
        PROVE  <1>1!1 /\ <1>1!2
    BY <2>2, BecomesFrame DEF Inv, TypeOK, At
  <2> QED
    BY <2>1, <2>2
<1>2. TypeOK'
  BY <1>1 DEF Inv, TypeOK, Registered, Idle
<1>3. ASSUME NEW v \in Workers
      PROVE  Memory(v)'
  <2>1. CASE req'[v] = req[v]
    BY <2>1, ItemStep DEF Inv
  <2>2. CASE req[v].op = "change" /\ req'[v] = Idle
    BY <2>2 DEF Inv, TypeOK, Memory, Idle
  <2> QED
    BY <1>1, <2>1, <2>2
<1>4. LinkedAsNamed'
  BY LinksStay DEF Inv
<1> QED
  BY <1>2, <1>3, <1>4 DEF Inv, ActiveExist, OneFortnight

\* The item a code means is named by it.
LEMMA MeantIsNamed ==
    ASSUME Inv, NEW c \in Codes, Meant(c) # "none"
    PROVE  Named(Meant(c), c)
BY MeantNamed DEF Inv, ActiveExist, Named

-----------------------------------------------------------------------------
(* Imports.                                                                *)

LEMMA ImportPlanKeeps ==
    ASSUME Inv, NEW w \in Workers, ImportPlan(w)
    PROVE  Inv'
<1> DEFINE r == [op |-> "plan", products |-> product, links |-> [c \in Codes |-> Meant(c)],
                 free |-> {l \in Labels : live[l] = 0}]
<1>1. r \in Plans /\ r.op = "plan"
  BY MeantNamed DEF Plans, Inv, TypeOK
<1>2. /\ req' \in [Workers -> {Idle} \cup Plans \cup Rewrites \cup Changes]
      /\ req'[w] = r /\ \A v \in Workers \ {w} : req'[v] = req[v]
  BY <1>1, BecomesFrame DEF Inv, TypeOK, ImportPlan
<1>3. \A v \in Workers : lock # v /\ req[v].op \notin {"plan", "rewrite"}
  BY NobodyImports DEF Inv, ImportPlan
<1>4. TypeOK'
  BY <1>1, <1>2, <1>3 DEF ImportPlan, Inv, TypeOK, Registered
<1>5. Memory(w)'
  <2>1. \A c \in Codes : req'[w].links[c] # "none" => Named(req[w].links[c], c)'
    BY <1>2, MeantIsNamed DEF ImportPlan, Named
  <2> QED
    BY <1>2, <2>1 DEF ImportPlan, Memory
<1>6. ASSUME NEW v \in Workers \ {w}
      PROVE  Memory(v)'
  BY <1>2, <1>3 DEF ImportPlan, Memory, Inv
<1>7. ActiveExist' /\ OneFortnight' /\ LinkedAsNamed'
  BY DEF Inv, ActiveExist, OneFortnight, LinkedAsNamed, ImportPlan
<1> QED
  BY <1>4, <1>5, <1>6, <1>7 DEF Inv

LEMMA ImportReadKeeps ==
    ASSUME Inv, NEW w \in Workers, ImportRead(w)
    PROVE  Inv'
<1> DEFINE r == [op |-> "rewrite", products |-> req[w].products, links |-> req[w].links,
                 free |-> req[w].free, kept |-> code]
<1>1. req[w] \in Plans /\ lock = w
  BY Kinds DEF Inv, TypeOK, ImportRead, At
<1>2. r \in Rewrites /\ r.op = "rewrite"
  BY <1>1 DEF Plans, Rewrites, Inv, TypeOK
<1>3. /\ req' \in [Workers -> {Idle} \cup Plans \cup Rewrites \cup Changes]
      /\ req'[w] = r /\ \A v \in Workers \ {w} : req'[v] = req[v]
  BY <1>2, BecomesFrame DEF Inv, TypeOK, ImportRead
<1>4. \A v \in Workers \ {w} : lock # v /\ req[v].op \notin {"plan", "rewrite"}
  BY OnlyImporter DEF Inv, ImportRead, At
<1>5. TypeOK'
  BY <1>1, <1>2, <1>3 DEF ImportRead, Inv, TypeOK, Registered, At
<1>6. Memory(w)'
  <2>1. Memory(w)
    BY DEF Inv
  <2>2. \A c \in Codes : req'[w].links[c] # "none" => Named(req[w].links[c], c)'
    BY <1>1, <1>3, <2>1 DEF ImportRead, Memory, Named
  <2> QED
    BY <1>1, <1>3, <2>1, <2>2 DEF ImportRead, Memory
<1>7. ASSUME NEW v \in Workers \ {w}
      PROVE  Memory(v)'
  BY <1>3, <1>4 DEF ImportRead, Memory, Inv
<1>8. ActiveExist' /\ OneFortnight' /\ LinkedAsNamed'
  BY DEF Inv, ActiveExist, OneFortnight, LinkedAsNamed, ImportRead
<1> QED
  BY <1>5, <1>6, <1>7, <1>8 DEF Inv

\* Whoever holds the lock gives it back, having rewritten what is RowsAfter.
LEMMA CommitStep ==
    ASSUME Inv, RowsAfter, NEW w \in Workers, req[w].op \in {"plan", "rewrite"}, Commits(w),
           UNCHANGED item, imports' \in 0..MaxImports
    PROVE  Inv'
<1>1. /\ req' \in [Workers -> {Idle} \cup Plans \cup Rewrites \cup Changes]
      /\ req'[w] = Idle /\ \A v \in Workers \ {w} : req'[v] = req[v]
  BY BecomesFrame DEF Inv, TypeOK, Commits
<1>2. \A v \in Workers \ {w} : lock # v /\ req[v].op \notin {"plan", "rewrite"}
  BY OnlyImporter DEF Inv
<1>3. \A v \in Workers : lock' # v /\ req'[v].op \notin {"plan", "rewrite"}
  BY <1>1, <1>2, ForecastRegisterAssumption DEF Commits, Idle
<1>4. TypeOK'
  BY <1>1, <1>3 DEF Inv, TypeOK, RowsAfter, Register, Registered, Commits
<1>5. ASSUME NEW v \in Workers
      PROVE  Memory(v)'
  BY <1>1, <1>3 DEF Inv, Memory, Idle
<1>6. LinkedAsNamed'
  BY DEF RowsAfter, LinkedAsNamed, Named
<1>7. ActiveExist' /\ OneFortnight'
  BY DEF RowsAfter, ActiveExist, OneFortnight
<1> QED
  BY <1>4, <1>5, <1>6, <1>7 DEF Inv

\* A fortnight is stored under a label nobody has.
LEMMA StoresOnce ==
    ASSUME Inv, NEW w \in Workers, NEW label \in Labels, Stores(w, label),
           req[w].op \in {"plan", "rewrite"}
    PROVE  live' \in [Labels -> Nat] /\ \A l \in Labels : live'[l] <= 1
<1>1. live[label] = 0
  BY DEF Inv, TypeOK, Memory, Stores
<1> QED
  BY <1>1 DEF Inv, TypeOK, OneFortnight, Stores

LEMMA ImportCommitKeeps ==
    ASSUME Inv, NEW w \in Workers, NEW sheet \in Sheets, ImportCommit(w, sheet)
    PROVE  Inv'
<1>1. req[w].op = "rewrite" /\ lock = w
  BY DEF Inv, TypeOK, ImportCommit, At
<1>2. /\ Register(code')
      /\ \A c \in Codes : code'[c].link \in {"none", code[c].link, req[w].links[c]}
      /\ product' \in [Products -> ProductRows]
      /\ \A p \in Products : product'[p].active => product'[p].origin # "none"
  BY ImportEffects DEF ImportCommit
<1>3. live' \in [Labels -> Nat] /\ \A l \in Labels : live'[l] <= 1
  <2>1. CASE UNCHANGED live
    BY <2>1 DEF Inv, TypeOK, OneFortnight
  <2>2. ASSUME NEW label \in Labels, Stores(w, label)
        PROVE  live' \in [Labels -> Nat] /\ \A l \in Labels : live'[l] <= 1
    BY <1>1, <2>2, StoresOnce
  <2> QED
    BY <2>1, <2>2 DEF ImportCommit
<1>4. ASSUME NEW c \in Codes, code'[c].link # "none"
      PROVE  Named(code[c].link, c)'
  <2>1. code[c].link # "none" => Named(code[c].link, c)
    BY DEF Inv, LinkedAsNamed, Named
  <2>2. req[w].links[c] # "none" => Named(req[w].links[c], c)
    BY <1>1 DEF Inv, Memory
  <2>3. code'[c].link \in {code[c].link, req[w].links[c]}
    BY <1>2, <1>4
  <2> QED
    BY <1>4, <2>1, <2>2, <2>3 DEF ImportCommit, Named
<1>5. RowsAfter
  BY <1>2, <1>3, <1>4 DEF RowsAfter, ImportCommit, Inv, TypeOK, ActiveExist
<1>6. imports' \in 0..MaxImports
  BY ForecastRegisterAssumption DEF ImportCommit, Inv, TypeOK
<1> QED
  BY <1>1, <1>5, <1>6, CommitStep DEF ImportCommit

LEMMA StoreCommitKeeps ==
    ASSUME Inv, NEW w \in Workers, NEW label \in Labels, StoreCommit(w, label)
    PROVE  Inv'
<1>1. live' \in [Labels -> Nat] /\ \A l \in Labels : live'[l] <= 1
  BY StoresOnce DEF StoreCommit, At
<1>2. \A c \in Codes : code'[c].link # "none" => Named(code[c].link, c)'
  BY DEF Inv, LinkedAsNamed, Named, StoreCommit
<1>3. RowsAfter
  BY <1>1, <1>2 DEF RowsAfter, Register, Registered, StoreCommit, Inv, TypeOK, ActiveExist
<1> QED
  BY <1>3, CommitStep DEF StoreCommit, At, Inv, TypeOK

-----------------------------------------------------------------------------
(* The screen.                                                             *)

\* What a step that leaves items alone still has to show of its links.
LEMMA NamesBefore ==
    ASSUME Inv, NEW c \in Codes, code[c].link # "none"
    PROVE  Named(code[c].link, c)
BY DEF Inv, LinkedAsNamed, Named

LEMMA DeleteFortnightKeeps ==
    ASSUME Inv, NEW l \in Labels, DeleteFortnight(l)
    PROVE  Inv'
<1>1. live' \in [Labels -> Nat] /\ \A m \in Labels : live'[m] <= 1
  BY DEF DeleteFortnight, Inv, TypeOK, OneFortnight
<1>2. \A c \in Codes : code'[c].link # "none" => Named(code[c].link, c)'
  BY NamesBefore DEF DeleteFortnight, Named
<1>3. RowsAfter
  BY <1>1, <1>2 DEF RowsAfter, Register, Registered, DeleteFortnight, Inv, TypeOK, ActiveExist
<1> QED
  BY <1>3, ScreenStep DEF DeleteFortnight

\* A step that only writes the register, under the lock.
LEMMA RegisterStep ==
    ASSUME Inv, Free, UNCHANGED <<item, live, lock, req, imports, overtaken>>,
           product' \in [Products -> ProductRows],
           \A p \in Products : product'[p].active => product'[p].origin # "none",
           Register(code'),
           \A c \in Codes : code'[c].link # "none" => Named(code'[c].link, c)
    PROVE  Inv'
<1>1. \A c \in Codes : code'[c].link # "none" => Named(code[c].link, c)'
  BY DEF Named
<1>2. RowsAfter
  BY <1>1 DEF RowsAfter, Inv, TypeOK, ActiveExist, OneFortnight
<1> QED
  BY <1>2, ScreenStep

LEMMA CreateProductKeeps ==
    ASSUME Inv, NEW p \in Products, NEW codes \in SUBSET Codes, CreateProduct(p, codes)
    PROVE  Inv'
<1>1. /\ product' \in [Products -> ProductRows]
      /\ \A q \in Products : product'[q].active => product'[q].origin # "none"
  BY DEF CreateProduct, Inv, TypeOK, ActiveExist, ProductRows, Origins
<1>2. ASSUME NEW c \in Codes
      PROVE  /\ code'[c] \in CodeRows
             /\ code'[c].owner = "none" => code'[c] = Absent
             /\ code'[c].link # "none" => Named(code'[c].link, c)
  <2>1. CASE c \in codes
    <3>1. code'[c] = New(p, Meant(c))
      BY <2>1 DEF CreateProduct
    <3> QED
      BY <3>1, MeantNamed, MeantIsNamed, NewTyped, ForecastRegisterAssumption
  <2>2. CASE c \notin codes
    BY <2>2, NamesBefore DEF CreateProduct, Inv, TypeOK, Registered
  <2> QED
    BY <2>1, <2>2
<1>3. Register(code')
  BY <1>2 DEF CreateProduct, Register
<1> QED
  BY <1>1, <1>2, <1>3, RegisterStep DEF CreateProduct

LEMMA AddCodeKeeps ==
    ASSUME Inv, NEW p \in Products, NEW c \in Codes, AddCode(p, c)
    PROVE  Inv'
<1>1. New(p, Meant(c)) \in CodeRows /\ New(p, Meant(c)).owner # "none"
      /\ New(p, Meant(c)).link = Meant(c)
  BY MeantNamed, NewTyped, ForecastRegisterAssumption
<1>2. /\ code'[c] = New(p, Meant(c)) /\ Register(code')
      /\ \A d \in Codes \ {c} : code'[d] = code[d]
  BY <1>1 DEF AddCode, Register, Inv, TypeOK, Registered
<1>3. \A d \in Codes : code'[d].link # "none" => Named(code'[d].link, d)
  BY <1>1, <1>2, MeantIsNamed, NamesBefore
<1>4. /\ product' \in [Products -> ProductRows]
      /\ \A q \in Products : product'[q].active => product'[q].origin # "none"
  BY DEF AddCode, Inv, TypeOK, ActiveExist
<1> QED
  BY <1>2, <1>3, <1>4, RegisterStep DEF AddCode

LEMMA ReactivateKeeps ==
    ASSUME Inv, NEW p \in Products, Reactivate(p)
    PROVE  Inv'
<1>1. /\ product' \in [Products -> ProductRows]
      /\ \A q \in Products : product'[q].active => product'[q].origin # "none"
  BY DEF Reactivate, Known, Inv, TypeOK, ActiveExist, ProductRows
<1>2. Register(code')
  BY DEF Reactivate, Register, Inv, TypeOK, Registered
<1>3. \A c \in Codes : code'[c].link # "none" => Named(code'[c].link, c)
  BY NamesBefore DEF Reactivate
<1> QED
  BY <1>1, <1>2, <1>3, RegisterStep DEF Reactivate

LEMMA PatchPackagingKeeps ==
    ASSUME Inv, NEW p \in Products, NEW filled \in SUBSET Codes, PatchPackaging(p, filled)
    PROVE  Inv'
<1>1. ASSUME NEW c \in Codes
      PROVE  /\ code'[c] \in CodeRows
             /\ code'[c].owner = "none" => code'[c] = Absent
             /\ code'[c].link = code[c].link
  <2>1. code[c] \in CodeRows /\ (code[c].owner = "none" => code[c] = Absent)
    BY DEF Inv, TypeOK, Registered
  <2>2. CASE c \in CodesOf(p)
    <3>1. code'[c] = [code[c] EXCEPT !.filled = (c \in filled)] /\ code[c].owner = p
      BY <2>2 DEF PatchPackaging, CodesOf
    <3>2. (c \in filled) \in BOOLEAN /\ p # "none"
      BY ForecastRegisterAssumption
    <3> QED
      BY <2>1, <3>1, <3>2 DEF CodeRows
  <2>3. CASE c \notin CodesOf(p)
    BY <2>1, <2>3 DEF PatchPackaging
  <2> QED
    BY <2>2, <2>3
<1>2. Register(code')
  BY <1>1 DEF PatchPackaging, Register
<1>3. \A c \in Codes : code'[c].link # "none" => Named(code'[c].link, c)
  BY <1>1, NamesBefore
<1>4. /\ product' \in [Products -> ProductRows]
      /\ \A q \in Products : product'[q].active => product'[q].origin # "none"
  BY DEF PatchPackaging, Inv, TypeOK, ActiveExist
<1> QED
  BY <1>2, <1>3, <1>4, RegisterStep DEF PatchPackaging

LEMMA BackfillKeeps ==
    ASSUME Inv, NEW i \in Items, NEW p \in Products, Backfill(i, p)
    PROVE  Inv'
<1> DEFINE choice == [mode |-> "existente", product |-> p]
<1>1. choice \in Choices /\ item[i].code \in Codes /\ Named(i, item[i].code)
  BY DEF Choices, Backfill, Inv, TypeOK, ItemRows, ActiveExist, Named
<1>2. Register(code)
  BY DEF Register, Inv, TypeOK, Registered
<1>3. /\ Register(code')
      /\ \A d \in Codes : code'[d].link = code[d].link \/ (d = item[i].code /\ code'[d].link = i)
      /\ product' \in [Products -> ProductRows]
      /\ \A q \in Products : product'[q].active => product'[q].origin # "none"
  <2>1. Linked(code, i, item[i].code, choice, TRUE)
    BY DEF Backfill
  <2>2. /\ product \in [Products -> ProductRows]
        /\ \A q \in Products : product[q].active => product[q].origin # "none"
    BY DEF Inv, TypeOK, ActiveExist
  <2> HIDE DEF choice
  <2> QED
    BY <1>1, <1>2, <2>1, <2>2, LinkedEffects
<1>4. \A c \in Codes : code'[c].link # "none" => Named(code'[c].link, c)
  BY <1>1, <1>3, NamesBefore
<1> QED
  BY <1>3, <1>4, RegisterStep DEF Backfill

LEMMA BatchKeeps ==
    ASSUME Inv, NEW p \in Products, NEW items \in SUBSET Items, Batch(p, items)
    PROVE  Inv'
<1> DEFINE named == {item[i].code : i \in items}
<1>1. /\ product' \in [Products -> ProductRows]
      /\ \A q \in Products : product'[q].active => product'[q].origin # "none"
  <2>1. product' = product
        \/ product' = [product EXCEPT ![p] = [origin |-> "dbcorp", active |-> TRUE]]
    BY DEF Batch
  <2>2. /\ product \in [Products -> ProductRows]
        /\ \A q \in Products : product[q].active => product[q].origin # "none"
    BY DEF Inv, TypeOK, ActiveExist
  <2> DEFINE row == [origin |-> "dbcorp", active |-> TRUE]
  <2>3. row \in ProductRows /\ row.origin # "none"
    BY DEF ProductRows, Origins
  <2>4. product' = product \/ product' = [product EXCEPT ![p] = row]
    BY <2>1
  <2> HIDE DEF row
  <2>5. CASE product' = product
    BY <2>2, <2>5
  <2>6. CASE product' = [product EXCEPT ![p] = row]
    BY <2>2, <2>3, <2>6
  <2> QED
    BY <2>4, <2>5, <2>6 \*, <2>2
<1>2. ASSUME NEW c \in Codes
      PROVE  /\ code'[c] \in CodeRows
             /\ code'[c].owner = "none" => code'[c] = Absent
             /\ code'[c].link # "none" => Named(code'[c].link, c)
  <2>1. code[c] \in CodeRows /\ (code[c].owner = "none" => code[c] = Absent)
    BY DEF Inv, TypeOK, Registered
  <2>2. code'[c] \in {code[c], New(p, Meant(c))}
        \/ (code[c].owner = p /\ code'[c] = [code[c] EXCEPT !.link = Meant(c)])
    BY DEF Batch
  <2>3. CASE code'[c] = code[c]
    BY <2>1, <2>3, NamesBefore
  <2>4. CASE code'[c] = New(p, Meant(c))
    BY <2>4, MeantNamed, MeantIsNamed, NewTyped, ForecastRegisterAssumption
  <2>5. CASE code[c].owner = p /\ code'[c] = [code[c] EXCEPT !.link = Meant(c)]
    <3>1. code'[c] \in CodeRows /\ code'[c].owner = p /\ code'[c].link = Meant(c)
      BY <2>1, <2>5, MeantNamed DEF CodeRows
    <3> QED
      BY <3>1, MeantIsNamed, ForecastRegisterAssumption
  <2> QED
    BY <2>2, <2>3, <2>4, <2>5
<1>3. Register(code')
  BY <1>2 DEF Batch, Register
<1> QED
  BY <1>1, <1>2, <1>3, RegisterStep DEF Batch

-----------------------------------------------------------------------------
(* The catalog.                                                            *)

\* A row for an item that was not there disturbs no name.
LEMMA NewItem ==
    ASSUME Inv, NEW i \in Items, ~item[i].known, NEW c \in Codes \cup {"none"}, NEW active \in BOOLEAN,
           item' = [item EXCEPT ![i] = [known |-> TRUE, code |-> c, active |-> active]],
           overtaken' = overtaken
    PROVE  /\ item' \in [Items -> ItemRows]
           /\ \A j \in Items : /\ item'[j].active => item'[j].known
                               /\ item[j].known => item'[j].known
           /\ KeepsNames
           /\ c # "none" => Named(i, c)'
<1>1. /\ item'[i] = [known |-> TRUE, code |-> c, active |-> active]
      /\ \A j \in Items \ {i} : item'[j] = item[j]
  BY DEF Inv, TypeOK
<1>2. item' \in [Items -> ItemRows]
  BY DEF Inv, TypeOK, ItemRows
<1>3. \A j \in Items : (item'[j].active => item'[j].known) /\ (item[j].known => item'[j].known)
  BY <1>1 DEF Inv, ActiveExist
<1> QED
  BY <1>1, <1>2, <1>3 DEF KeepsNames, Named

LEMMA CreateItemKeeps ==
    ASSUME Inv, NEW i \in Items, NEW c \in Codes \cup {"none"}, NEW active \in BOOLEAN,
           NEW choice \in Choices, CreateItem(i, c, active, choice)
    PROVE  Inv'
<1>1. /\ item' \in [Items -> ItemRows]
      /\ \A j \in Items : /\ item'[j].active => item'[j].known
                          /\ item[j].known => item'[j].known
      /\ KeepsNames
      /\ c # "none" => Named(i, c)'
  BY NewItem DEF CreateItem
<1>2. CASE c = "none"
  BY <1>1, <1>2, CatalogStep DEF CreateItem, Inv, TypeOK
<1>3. CASE c # "none"
  <2>1. c \in Codes /\ Free /\ Linked(code, i, c, choice, active)
    BY <1>3 DEF CreateItem
  <2>2. Register(code) /\ product \in [Products -> ProductRows]
        /\ \A p \in Products : product[p].active => product[p].origin # "none"
    BY DEF Register, Inv, TypeOK, Registered, ActiveExist
  <2>3. /\ Register(code')
        /\ \A d \in Codes : code'[d].link = code[d].link \/ (d = c /\ code'[d].link = i)
        /\ product' \in [Products -> ProductRows]
        /\ \A p \in Products : product'[p].active => product'[p].origin # "none"
    BY <2>1, <2>2, LinkedEffects
  <2>4. ASSUME NEW d \in Codes, code'[d].link # "none"
        PROVE  Named(code[d].link, d)'
    <3>1. CASE code'[d].link = code[d].link
      <4>1. Named(code[d].link, d) /\ code[d].link \in Items
        BY <2>4, <3>1, NamesBefore DEF Inv, TypeOK, CodeRows
      <4> QED
        BY <1>1, <3>1, <4>1 DEF KeepsNames, Named
    <3>2. CASE d = c /\ code'[d].link = i
      BY <1>1, <1>3, <3>2 DEF Named
    <3> QED
      BY <2>3, <3>1, <3>2
  <2>5. RowsAfter
    BY <1>1, <2>3, <2>4 DEF RowsAfter, CreateItem, Inv, TypeOK, OneFortnight
  <2> QED
    BY <2>1, <2>5, ScreenStep DEF CreateItem
<1> QED
  BY <1>2, <1>3

LEMMA ImportItemKeeps ==
    ASSUME Inv, NEW i \in Items, NEW c \in Codes \cup {"none"}, ImportItem(i, c)
    PROVE  Inv'
<1>1. /\ item' \in [Items -> ItemRows]
      /\ \A j \in Items : /\ item'[j].active => item'[j].known
                          /\ item[j].known => item'[j].known
      /\ KeepsNames
  BY NewItem DEF ImportItem
<1> QED
  BY <1>1, CatalogStep DEF ImportItem, Inv, TypeOK

LEMMA RemoveItemKeeps ==
    ASSUME Inv, NEW i \in Items, RemoveItem(i)
    PROVE  Inv'
<1>1. /\ item' \in [Items -> ItemRows]
      /\ \A j \in Items : /\ item'[j].active => item'[j].known
                          /\ item[j].known => item'[j].known
                          /\ item'[j].code = item[j].code
  BY DEF RemoveItem, Inv, TypeOK, ActiveExist, ItemRows
<1>2. KeepsNames
  BY <1>1 DEF KeepsNames, Named, RemoveItem
<1> QED
  BY <1>1, <1>2, CatalogStep DEF RemoveItem, Inv, TypeOK

LEMMA ChangeReadKeeps ==
    ASSUME Inv, NEW w \in Workers, NEW i \in Items, ChangeRead(w, i)
    PROVE  Inv'
<1> DEFINE r == [op |-> "change", item |-> i, seen |-> item[i]]
<1>1. r \in Changes /\ r.op = "change"
  BY DEF Changes, Inv, TypeOK
<1>2. /\ req' \in [Workers -> {Idle} \cup Plans \cup Rewrites \cup Changes]
      /\ req'[w] = r /\ \A v \in Workers \ {w} : req'[v] = req[v]
  BY <1>1, BecomesFrame DEF Inv, TypeOK, ChangeRead
<1>3. lock # w
  BY DEF Inv, TypeOK, ChangeRead, At
<1>4. TypeOK'
  BY <1>1, <1>2, <1>3 DEF ChangeRead, Inv, TypeOK, Registered
<1>5. Memory(w)'
  BY <1>2, <1>3 DEF ChangeRead, Memory
<1>6. ASSUME NEW v \in Workers \ {w}
      PROVE  Memory(v)'
  BY <1>2 DEF ChangeRead, Memory, Named, Inv
<1>7. ActiveExist' /\ OneFortnight' /\ LinkedAsNamed'
  BY DEF Inv, ActiveExist, OneFortnight, LinkedAsNamed, ChangeRead
<1> QED
  BY <1>4, <1>5, <1>6, <1>7 DEF Inv

\* What a change writes to its item.
LEMMA WrittenRow ==
    ASSUME Inv, NEW w \in Workers, At(w, "change"), NEW body \in Bodies,
           item' = Written(req[w].item, body)
    PROVE  /\ req[w].item \in Items /\ req[w].seen \in ItemRows /\ item[req[w].item].known
           /\ item' \in [Items -> ItemRows]
           /\ \A j \in Items \ {req[w].item} : item'[j] = item[j]
           /\ item'[req[w].item].known
           /\ item'[req[w].item].code = CodeAfter(item[req[w].item], body)
           /\ item'[req[w].item].active = ActiveAfter(item[req[w].item], body)
<1>1. req[w] \in Changes /\ item[req[w].item].known
  BY Kinds DEF Inv, TypeOK, At, Memory
<1> DEFINE i == req[w].item
<1>2. i \in Items /\ req[w].seen \in ItemRows /\ item[i] \in ItemRows
  BY <1>1 DEF Changes, Inv, TypeOK
<1>3. body.code \in Codes \cup {"none", "keep"} /\ body.active \in {"keep", "on", "off"}
  BY DEF Bodies
<1>4. item' = [item EXCEPT ![i] = [item[i] EXCEPT !.code = CodeAfter(item[i], body),
                                                  !.active = ActiveAfter(item[i], body)]]
  BY <1>2 DEF Written, CodeAfter, ActiveAfter, Inv, TypeOK, ItemRows
<1>5. CodeAfter(item[i], body) \in Codes \cup {"none"} /\ ActiveAfter(item[i], body) \in BOOLEAN
  BY <1>2, <1>3 DEF CodeAfter, ActiveAfter, ItemRows
<1> DEFINE row == [item[i] EXCEPT !.code = CodeAfter(item[i], body),
                                  !.active = ActiveAfter(item[i], body)]
<1>6. /\ row \in ItemRows /\ row.known = item[i].known
      /\ row.code = CodeAfter(item[i], body) /\ row.active = ActiveAfter(item[i], body)
  BY <1>2, <1>5 DEF ItemRows
<1>7. item' = [item EXCEPT ![i] = row]
  BY <1>4
<1> HIDE DEF row
<1> QED
  BY <1>1, <1>2, <1>6, <1>7 DEF Inv, TypeOK

LEMMA UpdatePlainKeeps ==
    ASSUME Inv, NEW w \in Workers, NEW body \in Bodies, UpdatePlain(w, body)
    PROVE  Inv'
<1> DEFINE i == req[w].item
<1>1. /\ i \in Items /\ item[i].known /\ item' \in [Items -> ItemRows]
      /\ \A j \in Items \ {i} : item'[j] = item[j]
      /\ item'[i].known /\ item'[i].code = CodeAfter(item[i], body)
  BY WrittenRow DEF UpdatePlain
<1>2. item[i] = req[w].seen => item'[i].code = item[i].code
  BY <1>1 DEF UpdatePlain, NeedsNoLink, NewCode
<1>3. /\ overtaken' \subseteq Items /\ overtaken \subseteq overtaken'
      /\ item[i] # req[w].seen => i \in overtaken'
  BY <1>1 DEF UpdatePlain, Answers, Inv, TypeOK
<1>4. KeepsNames
  BY <1>1, <1>2, <1>3 DEF KeepsNames, Named
<1>5. \A j \in Items : (item'[j].active => item'[j].known) /\ (item[j].known => item'[j].known)
  BY <1>1 DEF Inv, ActiveExist
<1>6. At(w, "change") /\ Becomes(w, Idle)
  BY DEF UpdatePlain, Answers
<1> QED
  BY <1>1, <1>3, <1>4, <1>5, <1>6, CatalogStep DEF UpdatePlain

\* What is released is the link of the old code to the item.
LEMMA AfterReleaseRegister ==
    ASSUME Inv, NEW i \in Items, NEW seen, NEW body
    PROVE  /\ Register(AfterRelease(i, seen, body))
           /\ \A d \in Codes :
                 /\ AfterRelease(i, seen, body)[d].link \in {"none", code[d].link}
                 /\ NewCode(seen, body) /\ d = seen.code
                    => AfterRelease(i, seen, body)[d].link # i
<1>1. Register(code) /\ i # "none"
  BY ForecastRegisterAssumption DEF Register, Inv, TypeOK, Registered
<1>2. CASE NewCode(seen, body) /\ seen.code # "none"
  <2>1. AfterRelease(i, seen, body) = Released(code, i, seen.code)
    BY <1>2 DEF AfterRelease
  <2>2. ASSUME NEW d \in Codes
        PROVE  /\ Released(code, i, seen.code)[d] \in CodeRows
               /\ Released(code, i, seen.code)[d].owner = "none"
                  => Released(code, i, seen.code)[d] = Absent
               /\ Released(code, i, seen.code)[d].link \in {"none", code[d].link}
               /\ d = seen.code => Released(code, i, seen.code)[d].link # i
    <3>1. code[d] \in CodeRows /\ (code[d].owner = "none" => code[d] = Absent)
      BY <1>1 DEF Register
    <3>2. CASE d = seen.code
      <4>1. Released(code, i, seen.code)[d]
            = [code[d] EXCEPT !.link = IF code[d].link = i THEN "none" ELSE code[d].link]
        BY <1>1, <3>2 DEF Released, Register
      <4> QED
        BY <1>1, <3>1, <4>1, AbsentTyped DEF CodeRows, Absent
    <3>3. CASE d # seen.code
      BY <1>1, <3>1, <3>3 DEF Released, Register
    <3> QED
      BY <3>2, <3>3
  <2>3. Released(code, i, seen.code) = [d \in Codes |-> Released(code, i, seen.code)[d]]
    BY <1>1 DEF Released, Register
  <2> QED
    BY <2>1, <2>2, <2>3 DEF Register
<1>3. CASE ~NewCode(seen, body)
  BY <1>1, <1>3 DEF AfterRelease
<1>4. CASE seen.code = "none"
  BY <1>1, <1>4, ForecastRegisterAssumption DEF AfterRelease
<1> QED
  BY <1>2, <1>3, <1>4

LEMMA UpdateLinkedKeeps ==
    ASSUME Inv, NEW w \in Workers, NEW body \in Bodies, NEW choice \in Choices,
           UpdateLinked(w, body, choice)
    PROVE  Inv'
<1> DEFINE i == req[w].item
           seen == req[w].seen
           rows == AfterRelease(i, seen, body)
           c == CodeAfter(seen, body)
           required == NewCode(seen, body) \/ Revived(seen, body)
<1>1. /\ i \in Items /\ seen \in ItemRows /\ item[i].known /\ item' \in [Items -> ItemRows]
      /\ \A j \in Items \ {i} : item'[j] = item[j]
      /\ item'[i].known /\ item'[i].code = CodeAfter(item[i], body)
  BY WrittenRow DEF UpdateLinked
<1>2. /\ overtaken' \subseteq Items /\ overtaken \subseteq overtaken'
      /\ item[i] # seen => i \in overtaken'
  BY <1>1 DEF UpdateLinked, Answers, Inv, TypeOK
<1>3. /\ Register(rows)
      /\ \A d \in Codes : /\ rows[d].link \in {"none", code[d].link}
                          /\ NewCode(seen, body) /\ d = seen.code => rows[d].link # i
  BY <1>1, AfterReleaseRegister
<1>4. c \in Codes \cup {"none"} /\ required \in BOOLEAN
  BY <1>1 DEF CodeAfter, Bodies, ItemRows
<1>5. product \in [Products -> ProductRows]
      /\ \A p \in Products : product[p].active => product[p].origin # "none"
  BY DEF Inv, TypeOK, ActiveExist
<1>6. /\ Register(code')
      /\ \A d \in Codes : code'[d].link = rows[d].link \/ (d = c /\ code'[d].link = i)
      /\ product' \in [Products -> ProductRows]
      /\ \A p \in Products : product'[p].active => product'[p].origin # "none"
  <2>1. CASE Wanted(seen, body)
    <3>1. c \in Codes /\ Linked(rows, i, c, choice, required)
      BY <1>4, <2>1 DEF UpdateLinked, Wanted
    <3> HIDE DEF rows, c, required
    <3> QED
      BY <1>1, <1>3, <1>4, <1>5, <3>1, LinkedEffects
  <2>2. CASE ~Wanted(seen, body)
    <3>1. code' = rows /\ product' = product
      BY <2>2 DEF UpdateLinked
    <3> HIDE DEF rows
    <3> QED
      BY <1>3, <1>5, <3>1
  <2> QED
    BY <2>1, <2>2
<1>7. ASSUME NEW d \in Codes, code'[d].link # "none"
      PROVE  Named(code[d].link, d)'
  <2>1. CASE d = c /\ code'[d].link = i
    BY <1>1, <1>2, <2>1 DEF Named
  <2>2. CASE code'[d].link = rows[d].link
    <3>1. code'[d].link = code[d].link
      BY <1>3, <1>7, <2>2
    <3>2. Named(code[d].link, d) /\ code[d].link \in Items
      BY <1>7, <3>1, NamesBefore DEF Inv, TypeOK, CodeRows
    <3>3. CASE code[d].link # i
      BY <1>1, <1>2, <3>1, <3>2, <3>3 DEF Named
    <3>4. CASE code[d].link = i /\ i \notin overtaken'
      <4>1. seen.code = d /\ item[i] = seen
        BY <1>2, <3>2, <3>4 DEF Named
      <4>2. ~NewCode(seen, body)
        BY <1>3, <2>2, <3>1, <3>4, <4>1
      <4> QED
        BY <1>1, <3>1, <3>4, <4>1, <4>2 DEF Named, NewCode
    <3>5. CASE code[d].link = i /\ i \in overtaken'
      BY <3>1, <3>5 DEF Named
    <3> QED
      BY <3>3, <3>4, <3>5
  <2> QED
    BY <1>6, <2>1, <2>2
<1>8. RowsAfter
  BY <1>1, <1>2, <1>6, <1>7 DEF RowsAfter, UpdateLinked, Inv, TypeOK, ActiveExist, OneFortnight
<1> QED
  BY <1>8, AnswerStep DEF UpdateLinked, Answers

LEMMA LinkItemKeeps ==
    ASSUME Inv, NEW w \in Workers, NEW choice \in Choices, LinkItem(w, choice)
    PROVE  Inv'
<1> DEFINE i == req[w].item
           c == req[w].seen.code
<1>1. req[w] \in Changes /\ item[i].known
  BY Kinds DEF LinkItem, Inv, TypeOK, At, Memory
<1>2. i \in Items /\ c \in Codes
  BY <1>1 DEF LinkItem, Changes, ItemRows
<1>3. /\ overtaken' \subseteq Items /\ overtaken \subseteq overtaken'
      /\ item[i] # req[w].seen => i \in overtaken'
  BY <1>2 DEF LinkItem, Answers, Inv, TypeOK
<1>4. Register(code) /\ product \in [Products -> ProductRows]
      /\ \A p \in Products : product[p].active => product[p].origin # "none"
  BY DEF Register, Inv, TypeOK, Registered, ActiveExist
<1>5. /\ Register(code')
      /\ \A d \in Codes : code'[d].link = code[d].link \/ (d = c /\ code'[d].link = i)
      /\ product' \in [Products -> ProductRows]
      /\ \A p \in Products : product'[p].active => product'[p].origin # "none"
  <2>1. Linked(code, i, c, choice, TRUE)
    BY DEF LinkItem
  <2> QED
    BY <1>2, <1>4, <2>1, LinkedEffects
<1>6. ASSUME NEW d \in Codes, code'[d].link # "none"
      PROVE  Named(code[d].link, d)'
  <2>1. CASE d = c /\ code'[d].link = i
    BY <1>1, <1>3, <2>1 DEF Named, LinkItem
  <2>2. CASE code'[d].link = code[d].link
    BY <1>3, <1>6, <2>2, NamesBefore DEF Named, LinkItem
  <2> QED
    BY <1>5, <2>1, <2>2
<1>7. RowsAfter
  BY <1>3, <1>5, <1>6 DEF RowsAfter, LinkItem, Inv, TypeOK, ActiveExist, OneFortnight
<1> QED
  BY <1>7, AnswerStep DEF LinkItem, Answers

LEMMA AbortKeeps ==
    ASSUME Inv, NEW w \in Workers, Abort(w)
    PROVE  Inv'
<1>1. /\ req' \in [Workers -> {Idle} \cup Plans \cup Rewrites \cup Changes]
      /\ req'[w] = Idle /\ \A v \in Workers \ {w} : req'[v] = req[v]
  BY BecomesFrame DEF Inv, TypeOK, Abort
<1>2. lock' # w /\ \A v \in Workers \ {w} : lock' = v <=> lock = v
  BY ForecastRegisterAssumption DEF Abort, Inv, TypeOK
<1>3. TypeOK'
  BY <1>1, <1>2 DEF Abort, Inv, TypeOK, Registered, Idle
<1>4. ASSUME NEW v \in Workers
      PROVE  Memory(v)'
  <2>1. CASE v = w
    BY <1>1, <1>2, <2>1 DEF Memory, Idle
  <2>2. CASE v # w
    BY <1>1, <1>2, <2>2 DEF Abort, Memory, Named, Inv
  <2> QED
    BY <2>1, <2>2
<1>5. ActiveExist' /\ OneFortnight' /\ LinkedAsNamed'
  BY DEF Inv, ActiveExist, OneFortnight, LinkedAsNamed, Abort
<1> QED
  BY <1>3, <1>4, <1>5 DEF Inv

-----------------------------------------------------------------------------
(* The invariant, and what follows from it.                                *)

LEMMA StepKeeps == Inv /\ [Next]_vars => Inv'
<1> SUFFICES ASSUME Inv, [Next]_vars PROVE Inv'
  OBVIOUS
<1>1. ASSUME NEW w \in Workers, Step(w)
      PROVE  Inv'
  <2>1. CASE ImportPlan(w)
    BY <2>1, ImportPlanKeeps
  <2>2. CASE ImportRead(w)
    BY <2>2, ImportReadKeeps
  <2>3. CASE Abort(w)
    BY <2>3, AbortKeeps
  <2>4. CASE \E sheet \in Sheets : ImportCommit(w, sheet)
    BY <2>4, ImportCommitKeeps
  <2>5. CASE \E label \in Labels : StoreCommit(w, label)
    BY <2>5, StoreCommitKeeps
  <2>6. CASE \E i \in Items : ChangeRead(w, i)
    BY <2>6, ChangeReadKeeps
  <2>7. CASE \E body \in Bodies : UpdatePlain(w, body)
    BY <2>7, UpdatePlainKeeps
  <2>8. CASE \E body \in Bodies, choice \in Choices : UpdateLinked(w, body, choice)
    BY <2>8, UpdateLinkedKeeps
  <2>9. CASE \E choice \in Choices : LinkItem(w, choice)
    BY <2>9, LinkItemKeeps
  <2> QED
    BY <1>1, <2>1, <2>2, <2>3, <2>4, <2>5, <2>6, <2>7, <2>8, <2>9 DEF Step
<1>2. CASE Screen
  <2>1. CASE \E l \in Labels : DeleteFortnight(l)
    BY <2>1, DeleteFortnightKeeps
  <2>2. CASE \E p \in Products : Reactivate(p)
    BY <2>2, ReactivateKeeps
  <2>3. CASE \E p \in Products, codes \in SUBSET Codes : CreateProduct(p, codes)
    BY <2>3, CreateProductKeeps
  <2>4. CASE \E p \in Products, c \in Codes : AddCode(p, c)
    BY <2>4, AddCodeKeeps
  <2>5. CASE \E p \in Products, filled \in SUBSET Codes : PatchPackaging(p, filled)
    BY <2>5, PatchPackagingKeeps
  <2> QED
    BY <1>2, <2>1, <2>2, <2>3, <2>4, <2>5 DEF Screen
<1>3. CASE Catalog
  <2>1. CASE \E i \in Items, c \in Codes \cup {"none"}, active \in BOOLEAN, choice \in Choices :
               CreateItem(i, c, active, choice)
    BY <2>1, CreateItemKeeps
  <2>2. CASE \E i \in Items, c \in Codes \cup {"none"} : ImportItem(i, c)
    BY <2>2, ImportItemKeeps
  <2>3. CASE \E i \in Items : RemoveItem(i)
    BY <2>3, RemoveItemKeeps
  <2>4. CASE \E i \in Items, p \in Products : Backfill(i, p)
    BY <2>4, BackfillKeeps
  <2>5. CASE \E p \in Products, items \in SUBSET Items : Batch(p, items)
    BY <2>5, BatchKeeps
  <2> QED
    BY <1>3, <2>1, <2>2, <2>3, <2>4, <2>5 DEF Catalog
<1>4. CASE UNCHANGED vars
  <2>1. TypeOK'
    BY <1>4 DEF Inv, TypeOK, Registered, vars
  <2>2. ASSUME NEW v \in Workers PROVE Memory(v)'
    BY <1>4 DEF Inv, Memory, Named, vars
  <2> QED
    BY <1>4, <2>1, <2>2 DEF Inv, ActiveExist, OneFortnight, LinkedAsNamed, vars
<1> QED
  BY <1>1, <1>2, <1>3, <1>4 DEF Next

\* The inductive invariant holds in every reachable state of the register.
THEOREM Invariance == Spec => []Inv
BY Starts, StepKeeps, PTL DEF Spec

\* Rows keep their shape, and only an import in progress holds the lock
\* (travarImportForecast).
THEOREM TypeCorrect == Spec => []TypeOK
<1>1. Inv => TypeOK
  BY DEF Inv
<1> QED
  BY <1>1, Invariance, PTL

\* No label is given to two fortnights that are not deleted (assertLabelFree).
THEOREM LabelsAreUnique == Spec => []OneFortnight
<1>1. Inv => OneFortnight
  BY DEF Inv
<1> QED
  BY <1>1, Invariance, PTL

\* A code is linked to an item that has it, unless a request wrote to the item
\* without having seen its last change (CatalogItemController.update).
THEOREM LinksAreNamed == Spec => []LinkedAsNamed
<1>1. Inv => LinkedAsNamed
  BY DEF Inv
<1> QED
  BY <1>1, Invariance, PTL

\* An import never changes the packaging of a code that stays (patchEmbalagens).
THEOREM PackagingIsKept == Spec => PackagingKept
<1> DEFINE Kept == imports' # imports =>
              \A c \in Codes : Registered(c) /\ Registered(c)' => code'[c].filled = code[c].filled
<1>1. Inv /\ [Next]_vars => [Kept]_vars
  <2> SUFFICES ASSUME Inv, Next, imports' # imports, NEW c \in Codes, Registered(c), Registered(c)'
               PROVE  code'[c].filled = code[c].filled
    OBVIOUS
  <2>1. PICK w \in Workers, sheet \in Sheets : ImportCommit(w, sheet)
    <3>1. ~Screen
      BY DEF Screen, DeleteFortnight, Reactivate, CreateProduct, AddCode, PatchPackaging
    <3>2. ~Catalog
      BY DEF Catalog, CreateItem, ImportItem, RemoveItem, Backfill, Batch
    <3>3. PICK w \in Workers : Step(w)
      BY <3>1, <3>2 DEF Next
    <3> QED
      BY <3>3 DEF Step, ImportPlan, ImportRead, Abort, StoreCommit, ChangeRead, UpdatePlain,
         UpdateLinked, LinkItem
  <2>2. req[w].kept = code /\ code' = NewCodes(req[w], sheet)
    BY <2>1, ImportEffects DEF ImportCommit
  <2>3. code[c] \in CodeRows
    BY DEF Inv, TypeOK
  <2>4. CASE sheet.owner[c] # "none"
    BY <2>2, <2>3, <2>4 DEF NewCodes, Rewritten, CodeRows
  <2>5. CASE sheet.owner[c] = "none"
    <3>1. code'[c] \in {Absent, code[c]}
      BY <2>2, <2>5 DEF NewCodes
    <3> QED
      BY <3>1, AbsentTyped DEF Registered
  <2> QED
    BY <2>4, <2>5
<1> QED
  BY <1>1, Invariance, PTL DEF Spec, PackagingKept

\* After an import the active products and the places of its codes are what the
\* workbook says of the register as it is then (ForecastProductService).
THEOREM ImportsSettle == Spec => ImportSettles
<1> DEFINE Settled == imports' # imports => \A w \in Workers, sheet \in Sheets : ImportCommit(w, sheet) =>
          /\ \A p \in Products :
                product'[p].active <=> \/ p \in sheet.listed
                                       \/ product[p].active /\ product[p].origin = "dbcorp"
          /\ \A c \in Codes : code'[c].owner \in sheet.listed => sheet.owner[c] = code'[c].owner
<1>1. Inv /\ [Next]_vars => [Settled]_vars
  <2> SUFFICES ASSUME Inv, NEW w \in Workers, NEW sheet \in Sheets, ImportCommit(w, sheet)
               PROVE  /\ \A p \in Products :
                           product'[p].active <=> \/ p \in sheet.listed
                                                  \/ product[p].active /\ product[p].origin = "dbcorp"
                      /\ \A c \in Codes : code'[c].owner \in sheet.listed => sheet.owner[c] = code'[c].owner
    OBVIOUS
  <2>1. /\ req[w].products = product /\ req[w].kept = code
        /\ code' = NewCodes(req[w], sheet) /\ product' = NewProducts(req[w], sheet)
    BY ImportEffects DEF ImportCommit
  <2>2. sheet.listed \subseteq Products
    BY DEF Sheets
  <2>3. ASSUME NEW p \in Products
        PROVE  product'[p].active <=> \/ p \in sheet.listed
                                      \/ product[p].active /\ product[p].origin = "dbcorp"
    <3>1. product[p] \in ProductRows /\ (product[p].active => product[p].origin # "none")
      BY DEF Inv, TypeOK, ActiveExist
    <3>2. CASE p \in sheet.listed
      BY <2>1, <3>2 DEF NewProducts
    <3>3. CASE p \notin sheet.listed
      <4>1. product'[p].active = (product[p].active /\ p \notin Missing(req[w], sheet))
        BY <2>1, <3>1, <3>3 DEF NewProducts, ProductRows
      <4>2. p \in Missing(req[w], sheet) <=> product[p].active /\ product[p].origin = "planilha"
        BY <2>1, <3>3 DEF Missing
      <4> QED
        BY <3>1, <3>3, <4>1, <4>2 DEF ProductRows, Origins
    <3> QED
      BY <3>2, <3>3
  <2>4. ASSUME NEW c \in Codes, code'[c].owner \in sheet.listed
        PROVE  sheet.owner[c] = code'[c].owner
    <3>1. code[c] \in CodeRows
      BY DEF Inv, TypeOK
    <3>2. CASE sheet.owner[c] # "none"
      BY <2>1, <3>1, <3>2 DEF NewCodes, Rewritten, CodeRows
    <3>3. CASE sheet.owner[c] = "none"
      <4>1. code'[c] = IF code[c].owner \in sheet.listed THEN Absent ELSE code[c]
        BY <2>1, <3>3 DEF NewCodes
      <4> QED
        BY <2>2, <2>4, <4>1, AbsentTyped, ForecastRegisterAssumption
    <3> QED
      BY <3>2, <3>3
  <2> QED
    BY <2>3, <2>4
<1> QED
  BY <1>1, Invariance, PTL DEF Spec, ImportSettles

\* An edition of an item that changed since it was read is remembered as such; one
\* that saw the item as it is writes what it decided from.
LEMMA SeenOrOvertaken ==
    ASSUME Inv, NEW w \in Workers, At(w, "change"), NEW body \in Bodies,
           item' = Written(req[w].item, body), Answers(w)
    PROVE  LET i == req[w].item
               seen == req[w].seen
           IN  i \in overtaken' \/ /\ item[i] = seen
                                   /\ item'[i].code = CodeAfter(seen, body)
                                   /\ item'[i].active = ActiveAfter(seen, body)
BY WrittenRow DEF Answers, Inv, TypeOK

\* An item that is given a code or comes back to life has its code registered, unless
\* it was written to unseen (FORECAST_VINCULO_OBRIGATORIO).
THEOREM SavedAreRegistered == Spec => SavedIsRegistered
<1> DEFINE Saved == \A i \in Items :
          /\ item[i].known /\ item'[i].active /\ item'[i].code # "none"
          /\ item'[i].code # item[i].code \/ ~item[i].active
          => i \in overtaken' \/ code'[item'[i].code].owner # "none"
<1>1. Inv /\ [Next]_vars => [Saved]_vars
  <2> SUFFICES ASSUME Inv, Next, NEW i \in Items,
                      item[i].known, item'[i].active, item'[i].code # "none",
                      item'[i].code # item[i].code \/ ~item[i].active
               PROVE  i \in overtaken' \/ code'[item'[i].code].owner # "none"
    OBVIOUS
  <2>1. item' # item
    OBVIOUS
  <2>2. ASSUME NEW w \in Workers, NEW body \in Bodies, UpdatePlain(w, body)
        PROVE  i \in overtaken'
    <3>1. i = req[w].item
      BY <2>2, WrittenRow DEF UpdatePlain
    <3>2. i \in overtaken' \/ /\ item[i] = req[w].seen
                              /\ item'[i].code = CodeAfter(req[w].seen, body)
                              /\ item'[i].active = ActiveAfter(req[w].seen, body)
      BY <2>2, <3>1, SeenOrOvertaken DEF UpdatePlain
    <3> QED
      BY <2>2, <3>2 DEF UpdatePlain, NeedsNoLink, NewCode, Revived
  <2>3. ASSUME NEW w \in Workers, NEW body \in Bodies, NEW choice \in Choices, UpdateLinked(w, body, choice)
        PROVE  i \in overtaken' \/ code'[item'[i].code].owner # "none"
    <3> DEFINE seen == req[w].seen
               rows == AfterRelease(i, seen, body)
               c == CodeAfter(seen, body)
               required == NewCode(seen, body) \/ Revived(seen, body)
    <3>1. i = req[w].item /\ seen \in ItemRows
      BY <2>3, WrittenRow DEF UpdateLinked
    <3>2. i \in overtaken' \/ /\ item[i] = seen
                              /\ item'[i].code = c
                              /\ item'[i].active = ActiveAfter(seen, body)
      BY <2>3, <3>1, SeenOrOvertaken DEF UpdateLinked
    <3>3. CASE i \notin overtaken'
      <4>1. Wanted(seen, body) /\ required
        BY <3>2, <3>3 DEF Wanted, NewCode, Revived
      <4>2. Register(rows)
        BY <3>1, AfterReleaseRegister
      <4>3. c \in Codes /\ Linked(rows, i, c, choice, TRUE)
        BY <2>3, <3>1, <4>1 DEF UpdateLinked, Wanted, CodeAfter, Bodies, ItemRows
      <4>4. product \in [Products -> ProductRows]
            /\ \A p \in Products : product[p].active => product[p].origin # "none"
        BY DEF Inv, TypeOK, ActiveExist
      <4> HIDE DEF rows, c
      <4>5. code'[c].owner # "none"
        BY <4>2, <4>3, <4>4, LinkedEffects
      <4> QED
        BY <3>2, <3>3, <4>5
    <3> QED
      BY <3>3
  <2>4. ASSUME NEW j \in Items, NEW c \in Codes \cup {"none"}, NEW active \in BOOLEAN,
               item' = [item EXCEPT ![j] = [known |-> TRUE, code |-> c, active |-> active]], ~item[j].known
        PROVE  FALSE
    BY <2>4, <2>1 DEF Inv, TypeOK
  <2>5. ASSUME NEW j \in Items, RemoveItem(j)
        PROVE  FALSE
    BY <2>5 DEF RemoveItem, Inv, TypeOK, ItemRows
  <2>6. CASE Screen
    BY <2>1, <2>6 DEF Screen, DeleteFortnight, Reactivate, CreateProduct, AddCode, PatchPackaging
  <2>7. CASE Catalog
    BY <2>1, <2>4, <2>5, <2>7 DEF Catalog, CreateItem, ImportItem, Backfill, Batch
  <2>8. ASSUME NEW w \in Workers, Step(w)
        PROVE  i \in overtaken' \/ code'[item'[i].code].owner # "none"
    BY <2>1, <2>2, <2>3, <2>8 DEF Step, ImportPlan, ImportRead, Abort, ImportCommit, StoreCommit,
       ChangeRead, LinkItem
  <2> QED
    BY <2>6, <2>7, <2>8 DEF Next
<1> QED
  BY <1>1, Invariance, PTL DEF Spec, SavedIsRegistered
===============================================================================
