---------------------------- MODULE AwardRegister ----------------------------
(***************************************************************************)
(* What the award of a quote promises, whatever tables and transactions it *)
(* is made of: a register that is empty or holds one candidate.  A         *)
(* candidate gets in only by a decision that judged it before, and then    *)
(* alone; everything else that happens to a quote can at most empty it.    *)
(***************************************************************************)
CONSTANT Candidates

VARIABLES
    winner,  \* the candidate in the register: a set of at most one
    judged   \* candidates that some decision under way has found acceptable

vars == <<winner, judged>>

Init == winner = {} /\ judged = {}

\* A decision is over; another one may still be about the same candidate.
Over(x) == x \in judged /\ judged' \in {judged, judged \ {x}}

Judge(x) == judged' = judged \cup {x} /\ UNCHANGED winner

Elect(x) == Over(x) /\ winner' = {x}

\* It comes too late, is put off until someone approves it, or is lost.
Dismiss(x) == Over(x) /\ winner' \in {winner, {}}

\* Answered again, edited, removed, revoked, reopened: the award is gone.
Withdraw == winner' = {} /\ UNCHANGED judged

Next == Withdraw \/ \E x \in Candidates : Judge(x) \/ Elect(x) \/ Dismiss(x)

Spec == Init /\ [][Next]_vars
==============================================================================
