------------------------------ MODULE OrderList ------------------------------
(***************************************************************************)
(* What the purchase orders (POs) of a quote promise, whatever rows, locks *)
(* and overlapping transactions they are made of: a list that each         *)
(* operation changes at once, and items that have a home in it or are      *)
(* loose.  A position is a place in the list, so there is nothing to       *)
(* renumber.                                                               *)
(***************************************************************************)
EXTENDS Naturals, SequencesExt

CONSTANTS Orders, Items, None

VARIABLES
    list,    \* the POs in their order
    listed,  \* the items
    home     \* PO of each item, None for a loose one

vars == <<list, listed, home>>

Places == 1..Len(list)
Homes == {list[k] : k \in Places} \cup {None}
Loose == {i \in listed : home[i] = None}
Settle(items, o) == home' = [i \in Items |-> IF i \in items THEN o ELSE home[i]]
New(o) == o \in Orders \ Homes

Init ==
    /\ list = <<>>
    /\ listed \in SUBSET Items
    /\ home = [i \in Items |-> None]

\* A new PO comes last, with all the loose items or with none.
Create(o) ==
    /\ New(o)
    /\ list' = Append(list, o)
    /\ Settle(Loose, o) \/ UNCHANGED home
    /\ UNCHANGED listed

\* Grouping leads to two POs, and every loose item goes to the first.
Group(a, b) ==
    /\ \/ list = <<>> /\ New(a)
       \/ list = <<a>>
    /\ New(b) /\ a # b
    /\ list' = <<a, b>>
    /\ Settle(Loose, a)
    /\ UNCHANGED listed

\* The same POs in another order, each of them once.
Reorder ==
    /\ \E turn \in [Places -> Places] :
          /\ \A k \in Places : \E j \in Places : turn[j] = k
          /\ list' = [k \in Places |-> list[turn[k]]]
    /\ UNCHANGED <<listed, home>>

\* Of two POs none stays.
Dissolve ==
    /\ Len(list) = 2
    /\ list' = <<>>
    /\ home' = [i \in Items |-> None]
    /\ UNCHANGED listed

\* The PO at a place goes.  Its items follow the one before it, or the one
\* after it; the late ones, added while it was going, are left loose.
Heir(k) == IF Len(list) = 1 THEN None ELSE IF k = 1 THEN list[2] ELSE list[k - 1]

Delete(k, late) ==
    /\ Len(list) # 2
    /\ list' = RemoveAt(list, k)
    /\ home' = [i \in Items |->
                  IF home[i] # list[k] THEN home[i]
                  ELSE IF i \in late THEN None
                  ELSE Heir(k)]
    /\ UNCHANGED listed

Add(i, o) ==
    /\ i \notin listed
    /\ listed' = listed \cup {i}
    /\ Settle({i}, o)
    /\ UNCHANGED list

Drop(i) ==
    /\ i \in listed
    /\ listed' = listed \ {i}
    /\ Settle({i}, None)
    /\ UNCHANGED list

Move(i, o) ==
    /\ i \in listed
    /\ Settle({i}, o)
    /\ UNCHANGED <<list, listed>>

Next ==
    \/ \E o \in Orders : Create(o)
    \/ \E a, b \in Orders : Group(a, b)
    \/ Reorder
    \/ Dissolve
    \/ \E k \in Places, late \in SUBSET listed : Delete(k, late)
    \/ \E i \in Items : Drop(i) \/ \E o \in Homes : Add(i, o) \/ Move(i, o)

Spec == Init /\ [][Next]_vars
==============================================================================
