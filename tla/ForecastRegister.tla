---------------------------- MODULE ForecastRegister ----------------------------
(***************************************************************************)
(* The products the forecast is made for, their codes and the catalog      *)
(* items behind them (ForecastProductCadastroService, the import of the    *)
(* workbook and of the DBCorp reports, CatalogItemForecastLinkService).    *)
(*                                                                         *)
(* All that write products or codes hold one advisory lock for the whole   *)
(* transaction (travarImportForecast).  An import remembers what it read   *)
(* and writes it later; the others are short, and as nobody else can write *)
(* between their reading and their writing each is one action that needs   *)
(* the lock to be free.  A catalog route decides what to do from a row of  *)
(* the catalog read before the lock, and routes that leave the code of an  *)
(* item alone do not take it.                                              *)
(*                                                                         *)
(* A worker is a request in flight.  Names stand for products: a product   *)
(* that is registered keeps its name, and no product is ever deleted.      *)
(* Fields no property is about, and the checks of source and family that   *)
(* only refuse, are left out.                                              *)
(***************************************************************************)
EXTENDS Naturals, FiniteSets

CONSTANTS
    Products,   \* normalized names of products
    Codes,      \* DBCorp codes
    Items,      \* catalog items
    Labels,     \* labels of fortnights
    Workers,    \* requests in flight at once
    MaxCodes,   \* FORECAST_MAX_CODES_PER_PRODUCT
    MaxImports  \* bound: imports that rewrite the register

ASSUME ForecastRegisterAssumption ==
    /\ MaxCodes \in Nat \ {0} /\ MaxImports \in Nat
    /\ "none" \notin Products \cup Codes \cup Items \cup Labels \cup Workers
    /\ "keep" \notin Codes

VARIABLES
    product,    \* origin and isActive of each product
    code,       \* the row of each code
    item,       \* the row of each catalog item
    live,       \* how many fortnights that are not deleted have each label
    lock,       \* who holds the advisory lock forecast:import
    req,        \* what each worker remembers
    imports,    \* how many imports have rewritten the register
    overtaken   \* items a request wrote to that had changed since it read them

vars == <<product, code, item, live, lock, req, imports, overtaken>>

Origins == {"none", "planilha", "dbcorp"}
ProductRows == [origin: Origins, active: BOOLEAN]
\* filled: its packaging has a quantity.
CodeRows == [owner: Products \cup {"none"}, link: Items \cup {"none"}, filled: BOOLEAN]
ItemRows == [known: BOOLEAN, code: Codes \cup {"none"}, active: BOOLEAN]

\* A row of the register without a product or without a code.
Absent == [owner |-> "none", link |-> "none", filled |-> FALSE]
New(p, i) == [Absent EXCEPT !.owner = p, !.link = i]

\* A workbook: the products it lists and the product it gives each code to.  It
\* has room for MaxCodes codes of a product.
Sheets == {s \in [listed: SUBSET Products, owner: [Codes -> Products \cup {"none"}]] :
             /\ \A c \in Codes : s.owner[c] \in s.listed \cup {"none"}
             /\ \A p \in s.listed : Cardinality({c \in Codes : s.owner[c] = p}) <= MaxCodes}
\* The product a person picks for a code: an existing or a new one, or none.
Choices == [mode: {"existente", "novo"}, product: Products] \cup {[mode |-> "none", product |-> "none"]}
NoChoice == [mode |-> "none", product |-> "none"]
Bodies == [code: Codes \cup {"none", "keep"}, active: {"keep", "on", "off"}]

\* What a request has read; what it asks for is picked when it writes.  An import
\* remembers the products, the items its codes mean, the labels that are free and,
\* before it deletes them, the codes; a catalog route remembers its item's row.
Idle == [op |-> "idle"]
Plans == [op: {"plan"}, products: [Products -> ProductRows], links: [Codes -> Items \cup {"none"}],
          free: SUBSET Labels]
Rewrites == [op: {"rewrite"}, products: [Products -> ProductRows], links: [Codes -> Items \cup {"none"}],
             free: SUBSET Labels, kept: [Codes -> CodeRows]]
Changes == [op: {"change"}, item: Items, seen: ItemRows]

Registered(c) == code[c].owner # "none"
CodesOf(p) == {c \in Codes : code[c].owner = p}
Known(p) == product[p].origin # "none"
\* The item a code means: the only active one that has it.
Meant(c) ==
    LET namesakes == {i \in Items : item[i].active /\ item[i].code = c}
    IN  IF Cardinality(namesakes) = 1 THEN CHOOSE i \in namesakes : TRUE ELSE "none"

\* Earlier workbooks may have left products that later ones dropped.
Init ==
    /\ product \in [Products -> {row \in ProductRows : row.origin # "dbcorp" /\ ~row.active}]
    /\ code = [c \in Codes |-> Absent]
    /\ item = [i \in Items |-> [known |-> FALSE, code |-> "none", active |-> FALSE]]
    /\ live = [l \in Labels |-> 0]
    /\ lock = "none"
    /\ req = [w \in Workers |-> Idle]
    /\ imports = 0
    /\ overtaken = {}

-----------------------------------------------------------------------------
Unlocked == TRUE  \* mutant: the advisory lock is not taken
Free == lock = "none"
At(w, op) == req[w].op = op
Becomes(w, r) == req' = [req EXCEPT ![w] = r]

-----------------------------------------------------------------------------
(* Imports.                                                                *)

ImportPlan(w) ==
    /\ At(w, "idle") /\ Free
    /\ Becomes(w, [op |-> "plan", products |-> product, links |-> [c \in Codes |-> Meant(c)],
                   free |-> {l \in Labels : live[l] = 0}])
    /\ lock' = w
    /\ UNCHANGED <<product, code, item, live, imports, overtaken>>

ImportRead(w) ==
    /\ At(w, "plan")
    /\ Becomes(w, [op |-> "rewrite", products |-> req[w].products, links |-> req[w].links,
                   free |-> req[w].free, kept |-> code])
    /\ UNCHANGED <<product, code, item, live, lock, imports, overtaken>>

\* The products of earlier workbooks that this one lacks; those of the screen stay.
Missing(r, sheet) ==
    {p \in Products \ sheet.listed : r.products[p].active /\ r.products[p].origin = "planilha"}

NewProducts(r, sheet) == [p \in Products |->
    IF p \in sheet.listed THEN [origin |-> "planilha", active |-> TRUE]
    ELSE [product[p] EXCEPT !.active = @ /\ p \notin Missing(r, sheet)]]

\* A code keeps its packaging wherever it goes.
RewrittenBare(old, p, i) == New(p, i)  \* mutant: the packaging is not carried over
Rewritten(old, p, i) == [old EXCEPT !.owner = p, !.link = i]

NewCodes(r, sheet) == [c \in Codes |->
    IF sheet.owner[c] # "none" THEN Rewritten(r.kept[c], sheet.owner[c], r.links[c])
    ELSE IF code[c].owner \in sheet.listed THEN Absent
    ELSE code[c]]

Stores(w, label) ==
    /\ label \in req[w].free
    /\ live' = [live EXCEPT ![label] = @ + 1]

Commits(w) ==
    /\ Becomes(w, Idle)
    /\ lock' = "none"

\* A workbook rewrites the register, and may create a fortnight.
ImportCommit(w, sheet) ==
    /\ At(w, "rewrite")
    /\ product' = NewProducts(req[w], sheet)
    /\ code' = NewCodes(req[w], sheet)
    /\ UNCHANGED live \/ \E label \in Labels : Stores(w, label)
    /\ Commits(w)
    /\ imports < MaxImports /\ imports' = imports + 1
    /\ UNCHANGED <<item, overtaken>>

\* A workbook imported for its fortnight only, or DBCorp reports.
StoreCommit(w, label) ==
    /\ At(w, "plan")
    /\ Stores(w, label)
    /\ Commits(w)
    /\ UNCHANGED <<product, code, item, imports, overtaken>>

DeleteFortnight(l) ==
    /\ Free /\ live[l] > 0
    /\ live' = [live EXCEPT ![l] = @ - 1]
    /\ UNCHANGED <<product, code, item, lock, req, imports, overtaken>>

-----------------------------------------------------------------------------
(* Products and codes from the screen.                                     *)

CreateProduct(p, codes) ==
    /\ Free /\ ~Known(p)
    /\ codes # {} /\ Cardinality(codes) <= MaxCodes
    /\ \A c \in codes : ~Registered(c)
    /\ product' = [product EXCEPT ![p] = [origin |-> "dbcorp", active |-> TRUE]]
    /\ code' = [c \in Codes |-> IF c \in codes THEN New(p, Meant(c)) ELSE code[c]]
    /\ UNCHANGED <<item, live, lock, req, imports, overtaken>>

HasRoom(p) == product[p].active /\ Cardinality(CodesOf(p)) < MaxCodes

AddCode(p, c) ==
    /\ Free /\ HasRoom(p) /\ ~Registered(c)
    /\ code' = [code EXCEPT ![c] = New(p, Meant(c))]
    /\ UNCHANGED <<product, item, live, lock, req, imports, overtaken>>

Reactivate(p) ==
    /\ Free /\ Known(p) /\ ~product[p].active
    /\ product' = [product EXCEPT ![p].active = TRUE]
    /\ UNCHANGED <<code, item, live, lock, req, imports, overtaken>>

\* Quantities are given to some codes of a product and taken from others.
PatchPackaging(p, filled) ==
    /\ Free /\ Known(p) /\ filled \subseteq CodesOf(p)
    /\ code' = [c \in Codes |-> IF c \in CodesOf(p) THEN [code[c] EXCEPT !.filled = c \in filled]
                               ELSE code[c]]
    /\ UNCHANGED <<product, item, live, lock, req, imports, overtaken>>

-----------------------------------------------------------------------------
(* The link between a catalog item and its code (vincularNaTransacao).     *)
(* `rows` are the codes as the transaction has left them so far.           *)

\* The code is in the register: its link is filled in, never replaced.
LinksRegistered(rows, i, c, choice) ==
    /\ rows[c].owner # "none" /\ choice.mode # "novo"
    /\ choice.mode = "existente" => choice.product = rows[c].owner
    /\ code' = [rows EXCEPT ![c].link = IF @ = "none" THEN i ELSE @]
    /\ UNCHANGED product

AddsToProduct(rows, i, c, choice) ==
    /\ rows[c].owner = "none" /\ choice.mode = "existente"
    /\ product[choice.product].active
    /\ Cardinality({d \in Codes : rows[d].owner = choice.product}) < MaxCodes
    /\ code' = [rows EXCEPT ![c] = New(choice.product, i)]
    /\ UNCHANGED product

AddsWithProduct(rows, i, c, choice) ==
    /\ rows[c].owner = "none" /\ choice.mode = "novo" /\ ~Known(choice.product)
    /\ product' = [product EXCEPT ![choice.product] = [origin |-> "dbcorp", active |-> TRUE]]
    /\ code' = [rows EXCEPT ![c] = New(choice.product, i)]

\* Nothing was chosen for a code that is not in the register: an error if a link
\* is required.
LeavesOut(rows, c, choice, required) ==
    /\ rows[c].owner = "none" /\ choice = NoChoice /\ ~required
    /\ code' = rows
    /\ UNCHANGED product

Linked(rows, i, c, choice, required) ==
    \/ LinksRegistered(rows, i, c, choice)
    \/ AddsToProduct(rows, i, c, choice)
    \/ AddsWithProduct(rows, i, c, choice)
    \/ LeavesOut(rows, c, choice, required)

\* The old code of an item stays in the register, without the item.
StillLinked(rows, i, c) == rows  \* mutant: the old code keeps its link
Released(rows, i, c) ==
    [rows EXCEPT ![c].link = IF @ = i THEN "none" ELSE @]

-----------------------------------------------------------------------------
(* Catalog items.                                                          *)

CreateItem(i, c, active, choice) ==
    /\ ~item[i].known /\ (choice # NoChoice => active)
    /\ item' = [item EXCEPT ![i] = [known |-> TRUE, code |-> c, active |-> active]]
    /\ IF c = "none"
       THEN choice = NoChoice /\ UNCHANGED <<product, code>>
       ELSE Free /\ Linked(code, i, c, choice, active)
    /\ UNCHANGED <<live, lock, req, imports, overtaken>>

\* A line of the catalog's own spreadsheet: no link, no lock.
ImportItem(i, c) ==
    /\ ~item[i].known
    /\ item' = [item EXCEPT ![i] = [known |-> TRUE, code |-> c, active |-> TRUE]]
    /\ UNCHANGED <<product, code, live, lock, req, imports, overtaken>>

RemoveItem(i) ==
    /\ item[i].known
    /\ item' = [item EXCEPT ![i].active = FALSE]
    /\ UNCHANGED <<product, code, live, lock, req, imports, overtaken>>

\* A route reads the item, and what it decides from that row it carries out on
\* another, if the item has changed in between.
ChangeRead(w, i) ==
    /\ At(w, "idle") /\ item[i].known
    /\ Becomes(w, [op |-> "change", item |-> i, seen |-> item[i]])
    /\ UNCHANGED <<product, code, item, live, lock, imports, overtaken>>

CodeAfter(seen, body) == IF body.code = "keep" THEN seen.code ELSE body.code
ActiveAfter(seen, body) == IF body.active = "keep" THEN seen.active ELSE body.active = "on"
NewCode(seen, body) == CodeAfter(seen, body) # seen.code
Revived(seen, body) == ActiveAfter(seen, body) /\ ~seen.active
Wanted(seen, body) == CodeAfter(seen, body) # "none" /\ ActiveAfter(seen, body)

\* Only the fields the request names are written.
Written(i, body) ==
    [item EXCEPT ![i].code = IF body.code = "keep" THEN @ ELSE body.code,
                 ![i].active = IF body.active = "keep" THEN @ ELSE body.active = "on"]

SameCode(seen, body) == ~NewCode(seen, body)  \* mutant: an item that becomes active again is let through
NeedsNoLink(seen, body) ==
    ~NewCode(seen, body) /\ (Revived(seen, body) => CodeAfter(seen, body) = "none")

\* The request ends; it may have written to an item it no longer knew.
Answers(w) ==
    LET i == req[w].item
    IN  /\ overtaken' = IF item[i] = req[w].seen THEN overtaken ELSE overtaken \cup {i}
        /\ Becomes(w, Idle)

UpdatePlain(w, body) ==
    /\ At(w, "change") /\ NeedsNoLink(req[w].seen, body)
    /\ item' = Written(req[w].item, body)
    /\ Answers(w)
    /\ UNCHANGED <<product, code, live, lock, imports>>

AfterRelease(i, seen, body) ==
    IF NewCode(seen, body) /\ seen.code # "none" THEN Released(code, i, seen.code) ELSE code

UpdateLinked(w, body, choice) ==
    /\ At(w, "change") /\ Free
    /\ LET i == req[w].item
           seen == req[w].seen
           rows == AfterRelease(i, seen, body)
       IN  /\ IF choice = NoChoice THEN ~NeedsNoLink(seen, body) ELSE Wanted(seen, body)
           /\ item' = Written(i, body)
           /\ IF Wanted(seen, body)
              THEN Linked(rows, i, CodeAfter(seen, body), choice, NewCode(seen, body) \/ Revived(seen, body))
              ELSE code' = rows /\ UNCHANGED product
    /\ Answers(w)
    /\ UNCHANGED <<live, lock, imports>>

LinkItem(w, choice) ==
    /\ At(w, "change") /\ Free
    /\ req[w].seen.active /\ req[w].seen.code # "none" /\ choice # NoChoice
    /\ Linked(code, req[w].item, req[w].seen.code, choice, TRUE)
    /\ Answers(w)
    /\ UNCHANGED <<item, live, lock, imports>>

-----------------------------------------------------------------------------
(* The scripts that link the items that came before this register.  They   *)
(* read the item under the lock.                                           *)

Backfill(i, p) ==
    /\ Free /\ item[i].active /\ item[i].code # "none"
    /\ Linked(code, i, item[i].code, [mode |-> "existente", product |-> p], TRUE)
    /\ UNCHANGED <<item, live, lock, req, imports, overtaken>>

\* A product for items that share it, or the links still missing if it is there.
Batch(p, items) ==
    LET named == {item[i].code : i \in items}
    IN  /\ Free
        /\ items # {} /\ Cardinality(named) <= MaxCodes
        /\ \A i \in items : item[i].active /\ item[i].code # "none" /\ Meant(item[i].code) = i
        /\ \/ /\ ~Known(p) /\ \A c \in named : ~Registered(c)
              /\ product' = [product EXCEPT ![p] = [origin |-> "dbcorp", active |-> TRUE]]
              /\ code' = [c \in Codes |-> IF c \in named THEN New(p, Meant(c)) ELSE code[c]]
           \/ /\ product[p].active
              /\ \A c \in named : code[c].owner = p /\ code[c].link \in {"none", Meant(c)}
              /\ code' = [c \in Codes |-> IF c \in named THEN [code[c] EXCEPT !.link = Meant(c)] ELSE code[c]]
              /\ UNCHANGED product
        /\ UNCHANGED <<item, live, lock, req, imports, overtaken>>

-----------------------------------------------------------------------------
\* A refusal, a transaction timed out or chosen to break a deadlock, an instance
\* that stops: nothing was written and the lock goes with the transaction.
Abort(w) ==
    /\ ~At(w, "idle")
    /\ Becomes(w, Idle)
    /\ lock' = IF lock = w THEN "none" ELSE lock
    /\ UNCHANGED <<product, code, item, live, imports, overtaken>>

Step(w) ==
    \/ ImportPlan(w) \/ ImportRead(w) \/ Abort(w)
    \/ \E sheet \in Sheets : ImportCommit(w, sheet)
    \/ \E label \in Labels : StoreCommit(w, label)
    \/ \E i \in Items : ChangeRead(w, i)
    \/ \E body \in Bodies : UpdatePlain(w, body)
    \/ \E body \in Bodies, choice \in Choices : UpdateLinked(w, body, choice)
    \/ \E choice \in Choices : LinkItem(w, choice)

Screen ==
    \/ \E l \in Labels : DeleteFortnight(l)
    \/ \E p \in Products : Reactivate(p)
    \/ \E p \in Products, codes \in SUBSET Codes : CreateProduct(p, codes)
    \/ \E p \in Products, c \in Codes : AddCode(p, c)
    \/ \E p \in Products, filled \in SUBSET Codes : PatchPackaging(p, filled)

Catalog ==
    \/ \E i \in Items, c \in Codes \cup {"none"}, active \in BOOLEAN, choice \in Choices :
          CreateItem(i, c, active, choice)
    \/ \E i \in Items, c \in Codes \cup {"none"} : ImportItem(i, c)
    \/ \E i \in Items : RemoveItem(i)
    \/ \E i \in Items, p \in Products : Backfill(i, p)
    \/ \E p \in Products, items \in SUBSET Items : Batch(p, items)

Next == (\E w \in Workers : Step(w)) \/ Screen \/ Catalog

Spec == Init /\ [][Next]_vars

-----------------------------------------------------------------------------
(* Properties.                                                             *)

\* Every row has its shape, what is not registered has no packaging, and only an
\* import in progress holds the lock.
TypeOK ==
    /\ product \in [Products -> ProductRows]
    /\ code \in [Codes -> CodeRows]
    /\ item \in [Items -> ItemRows]
    /\ live \in [Labels -> Nat]
    /\ lock \in Workers \cup {"none"}
    /\ req \in [Workers -> {Idle} \cup Plans \cup Rewrites \cup Changes]
    /\ imports \in 0..MaxImports
    /\ overtaken \subseteq Items
    /\ \A c \in Codes : ~Registered(c) => code[c] = Absent
    /\ \A w \in Workers : lock = w <=> req[w].op \in {"plan", "rewrite"}

\* An import leaves the packaging of every code that stays in the register as it is,
\* whatever has been edited while it ran (ForecastProductService, patchEmbalagens).
PackagingKept ==
    [][imports' # imports =>
          \A c \in Codes : Registered(c) /\ Registered(c)' => code'[c].filled = code[c].filled]_vars

\* When a workbook has been imported, the active products are those it lists and
\* those of the screen that were active, and its codes are where it puts them,
\* whatever was asked for while it ran (reativar, create, addCode).
ImportSettles ==
    [][imports' # imports => \A w \in Workers, sheet \in Sheets : ImportCommit(w, sheet) =>
          /\ \A p \in Products :
                product'[p].active <=> \/ p \in sheet.listed
                                       \/ product[p].active /\ product[p].origin = "dbcorp"
          /\ \A c \in Codes : code'[c].owner \in sheet.listed => sheet.owner[c] = code'[c].owner
      ]_vars

\* No two fortnights that are not deleted have one label (assertLabelFree; there
\* is no unique index for it).
OneFortnight == \A l \in Labels : live[l] <= 1

\* The item a code is linked to is an item of that code, unless a request wrote to
\* the item without having seen its last change (CatalogItemController.update).
LinkedAsNamed ==
    \A c \in Codes : code[c].link # "none" =>
        \/ code[c].link \in overtaken
        \/ item[code[c].link].known /\ item[code[c].link].code = c

\* An active item that is given a code, or becomes active again, has its code in
\* the register, with the same exception (FORECAST_VINCULO_OBRIGATORIO).
SavedIsRegistered ==
    [][\A i \in Items :
          /\ item[i].known /\ item'[i].active /\ item'[i].code # "none"
          /\ item'[i].code # item[i].code \/ ~item[i].active
          => i \in overtaken' \/ code'[item'[i].code].owner # "none"]_vars
===============================================================================
