----------------------------- MODULE ReminderLedger -----------------------------
(***************************************************************************)
(* The ledger of the reminders of a day, as a supplier and a buyer who     *)
(* reads the claims may rely on it: one step for each thing that is done,  *)
(* without sweeps, links or stages.  Yesterday's page is still open for    *)
(* what was begun before midnight.                                         *)
(***************************************************************************)
EXTENDS Naturals

CONSTANTS Pairs, Addresses

VARIABLES
    day,       \* the key of today's page
    taken,     \* addresses somebody works on or has worked on, by day
    claim,     \* what is recorded of each pair, by day
    mailed,    \* letters to each address, by day
    reminded   \* letters about each pair, by day

vars == <<day, taken, claim, mailed, reminded>>

Days == {0, 1}

Init ==
    /\ day = 0
    /\ taken = [d \in Days |-> {}]
    /\ claim = [d \in Days |-> [p \in Pairs |-> "none"]]
    /\ mailed = [d \in Days |-> [a \in Addresses |-> 0]]
    /\ reminded = [d \in Days |-> [p \in Pairs |-> 0]]

\* An address is taken on once a day, and only on that day.
Take(a) ==
    /\ a \notin taken[day]
    /\ taken' = [taken EXCEPT ![day] = @ \cup {a}]
    /\ UNCHANGED <<day, claim, mailed, reminded>>

Claim(d, p) ==
    /\ claim[d][p] = "none"
    /\ claim' = [claim EXCEPT ![d][p] = "claimed"]
    /\ UNCHANGED <<day, taken, mailed, reminded>>

\* One letter to an address that was taken on and had none, about pairs that
\* were claimed, are not settled and were in no letter.
Letter(d, a, pairs) ==
    /\ a \in taken[d] /\ mailed[d][a] = 0
    /\ \A p \in pairs : claim[d][p] = "claimed" /\ reminded[d][p] = 0
    /\ mailed' = [mailed EXCEPT ![d][a] = 1]
    /\ reminded' = [reminded EXCEPT ![d] = [p \in Pairs |-> IF p \in pairs THEN 1 ELSE @[p]]]
    /\ UNCHANGED <<day, taken, claim>>

\* What may be recorded of a pair, once and for all.
Outcomes(d, p) == {"failed"} \cup IF reminded[d][p] > 0 THEN {"sent"} ELSE {"skipped", "suppressed"}

Settle(d) ==
    /\ \A p \in Pairs : \/ claim'[d][p] = claim[d][p]
                        \/ claim[d][p] = "claimed" /\ claim'[d][p] \in Outcomes(d, p)
    /\ \A e \in Days \ {d} : claim'[e] = claim[e]
    /\ UNCHANGED <<day, taken, mailed, reminded>>

\* The page of tomorrow is new.
Tomorrow ==
    /\ day' = 1 - day
    /\ taken' = [taken EXCEPT ![day'] = {}]
    /\ claim' = [claim EXCEPT ![day'] = [p \in Pairs |-> "none"]]
    /\ mailed' = [mailed EXCEPT ![day'] = [a \in Addresses |-> 0]]
    /\ reminded' = [reminded EXCEPT ![day'] = [p \in Pairs |-> 0]]

Next ==
    \/ \E d \in Days : Settle(d)
    \/ \E a \in Addresses : Take(a)
    \/ \E d \in Days, p \in Pairs : Claim(d, p)
    \/ \E d \in Days, a \in Addresses, pairs \in SUBSET Pairs : Letter(d, a, pairs)
    \/ Tomorrow

Spec == Init /\ [][Next]_vars
=================================================================================
