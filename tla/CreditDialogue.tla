----------------------------- MODULE CreditDialogue -----------------------------
(***************************************************************************)
(* What buyers, partners and the quote agree on about each forward,        *)
(* whatever requests overlap behind it: one step to forward, to replace    *)
(* the link, to answer, to end.                                            *)
(***************************************************************************)
EXTENDS Naturals

CONSTANTS Forwards, Offers

VARIABLES
    quote,    \* "open", "closed" or "removed"
    offerOf,  \* what each forward is about
    status,   \* "unused", "live", "lapsed" (its deadline passed) or "revoked"
    link,     \* how many links each forward had; the last one is valid
    held,     \* forwards whose valid link the partner holds
    answers,  \* how many answers each forward had
    heard     \* which of them buyers heard of

vars == <<quote, offerOf, status, link, held, answers, heard>>

Init ==
    /\ quote = "open"
    /\ offerOf = [f \in Forwards |-> "none"]
    /\ status = [f \in Forwards |-> "unused"]
    /\ link = [f \in Forwards |-> 0]
    /\ held = {}
    /\ answers = [f \in Forwards |-> 0]
    /\ heard = [f \in Forwards |-> {}]

\* Nothing is forwarded or answered about a quote that is closed, and one offer
\* is not forwarded twice.
Forward(f, o) ==
    /\ quote = "open"
    /\ status[f] = "unused"
    /\ \A g \in Forwards : status[g] = "live" => offerOf[g] # o
    /\ offerOf' = [offerOf EXCEPT ![f] = o]
    /\ status' = [status EXCEPT ![f] = "live"]
    /\ link' = [link EXCEPT ![f] = 1]
    /\ UNCHANGED <<quote, held, answers, heard>>

\* Before the first answer, a new link takes the place of the last one, which
\* opens nothing any more.  It does not bring back what was revoked.
Relink(f) ==
    /\ quote = "open"
    /\ status[f] # "unused" /\ answers[f] = 0
    /\ link' = [link EXCEPT ![f] = @ + 1]
    /\ held' = held \ {f}
    /\ status' = [status EXCEPT ![f] = IF @ = "revoked" THEN @ ELSE "live"]
    /\ UNCHANGED <<quote, offerOf, answers, heard>>

Disclose(f) ==
    /\ status[f] # "unused"
    /\ held' = held \cup {f}
    /\ UNCHANGED <<quote, offerOf, status, link, answers, heard>>

\* Only who holds the valid link answers.  The deadline may pass while he does.
Answer(f) ==
    /\ quote = "open"
    /\ f \in held
    /\ status[f] \in {"live", "lapsed"}
    /\ answers' = [answers EXCEPT ![f] = @ + 1]
    /\ UNCHANGED <<quote, offerOf, status, link, held, heard>>

\* Buyers hear of an answer that is there.
Hear(f, n) ==
    /\ n \in 1..answers[f]
    /\ heard' = [heard EXCEPT ![f] = @ \cup {n}]
    /\ UNCHANGED <<quote, offerOf, status, link, held, answers>>

Lapse(f) ==
    /\ status[f] = "live"
    /\ status' = [status EXCEPT ![f] = "lapsed"]
    /\ UNCHANGED <<quote, offerOf, link, held, answers, heard>>

\* For good.
Revoke(fs) ==
    /\ \A f \in fs : status[f] # "unused"
    /\ status' = [f \in Forwards |-> IF f \in fs THEN "revoked" ELSE status[f]]
    /\ UNCHANGED <<quote, offerOf, link, held, answers, heard>>

\* The quote is closed and reopened, and removed for good.
Turn ==
    /\ quote' \in IF quote = "removed" THEN {"removed"} ELSE {"open", "closed", "removed"}
    /\ UNCHANGED <<offerOf, status, link, held, answers, heard>>

Next ==
    \/ Turn
    \/ \E f \in Forwards : \/ \E o \in Offers : Forward(f, o)
                           \/ Relink(f) \/ Disclose(f) \/ Answer(f) \/ Lapse(f)
                           \/ \E n \in 1..answers[f] : Hear(f, n)
    \/ \E fs \in SUBSET Forwards : Revoke(fs)

Spec == Init /\ [][Next]_vars
================================================================================
