------------------------------ MODULE AnswerRecord ------------------------------
(***************************************************************************)
(* What a supplier and the buyers may rely on about the links of a portal  *)
(* and the answers given through them.  An answer is on one link, with     *)
(* every version that was kept of it.  A revision begins, and when it is   *)
(* done it keeps the version it began with: of two that overlap, what the  *)
(* first one said is lost.                                                 *)
(***************************************************************************)
EXTENDS Naturals

CONSTANTS Ids, Answers, None

VARIABLES
    quote,     \* "open", "closed" or "removed"
    proposal,  \* "none", "live" or "deleted"
    link,      \* each is "unused", "valid", "expired" or "revoked"
    carrier,   \* the link of each answer
    text,      \* what each answer says, named by the submission that said it
    earlier,   \* what is kept of what it said before, as its link shows it
    begun,     \* what it said when the revisions under way began
    count      \* submissions so far

vars == <<quote, proposal, link, carrier, text, earlier, begun, count>>

Init ==
    /\ quote = "open" /\ proposal = "none"
    /\ link = [t \in Ids |-> "unused"]
    /\ carrier = [p \in Answers |-> None]
    /\ text = [p \in Answers |-> None]
    /\ earlier = [p \in Answers |-> {}]
    /\ begun = [p \in Answers |-> {}]
    /\ count = 0

\* But for those of ts, links stay as they are, or are used and revoked now.
SomeRevoked(ts) ==
    \A u \in Ids \ ts : link'[u] = link[u] \/ (link[u] # "unused" /\ link'[u] = "revoked")

\* A new link, perhaps in place of others.
NewLink(t) ==
    /\ link[t] = "unused" /\ link'[t] = "valid"
    /\ SomeRevoked({t})
    /\ UNCHANGED <<quote, proposal, text, earlier, begun, count>>

Issue(t) == NewLink(t) /\ UNCHANGED carrier

\* It takes an answer over from a link that is valid no more; what is kept of
\* the answer comes along.
Move(p, t) ==
    /\ carrier[p] # None
    /\ NewLink(t)
    /\ link'[carrier[p]] = "revoked"
    /\ carrier' = [carrier EXCEPT ![p] = t]

Revoke ==
    /\ SomeRevoked({})
    /\ UNCHANGED <<quote, proposal, carrier, text, earlier, begun, count>>

Expire(t) ==
    /\ link[t] = "valid"
    /\ link' = [link EXCEPT ![t] = "expired"]
    /\ UNCHANGED <<quote, proposal, carrier, text, earlier, begun, count>>

\* Through a valid link, while the quote is open; the proposal is there again.
Submission(t) ==
    /\ quote = "open"
    /\ link[t] = "valid"
    /\ count' = count + 1
    /\ proposal' = "live"
    /\ UNCHANGED <<quote, link>>

\* The first answer through t is a new one.
FirstAnswer(t) ==
    /\ Submission(t)
    /\ \A p \in Answers : carrier[p] # t
    /\ carrier' = [carrier EXCEPT ![count'] = t]
    /\ text' = [text EXCEPT ![count'] = count']
    /\ UNCHANGED <<earlier, begun>>

\* Later ones are revisions of the answer that the link carries.
Begin(p) ==
    /\ carrier[p] # None /\ link[carrier[p]] = "valid"
    /\ begun' = [begun EXCEPT ![p] = @ \cup {text[p]}]
    /\ UNCHANGED <<quote, proposal, link, carrier, text, earlier, count>>

\* Kept is what the answer said when the revision began, which may have been
\* kept already: then another revision came in between, and what that one said
\* is kept only if a third began with it.
Revise(p, n) ==
    /\ carrier[p] # None /\ Submission(carrier[p])
    /\ n \in begun[p]
    /\ text' = [text EXCEPT ![p] = count']
    /\ earlier' = [earlier EXCEPT ![p] = @ \cup {n}]
    /\ begun' \in {begun, [begun EXCEPT ![p] = @ \ {n}]}
    /\ UNCHANGED carrier

\* Refused, or cut short.
GiveUp(p, n) ==
    /\ n \in begun[p]
    /\ begun' = [begun EXCEPT ![p] = @ \ {n}]
    /\ UNCHANGED <<quote, proposal, link, carrier, text, earlier, count>>

Remove ==
    /\ proposal = "live" /\ proposal' = "deleted"
    /\ SomeRevoked({})
    /\ UNCHANGED <<quote, carrier, text, earlier, begun, count>>

TypeIn ==
    /\ quote = "open"
    /\ proposal' = "live"
    /\ UNCHANGED <<quote, link, carrier, text, earlier, begun, count>>

Turn ==
    /\ quote # "removed"
    /\ quote' \in {"open", "closed"}
    /\ UNCHANGED <<proposal, link, carrier, text, earlier, begun, count>>

RemoveQuote ==
    /\ quote' = "removed"
    /\ proposal' = IF proposal = "none" THEN "none" ELSE "deleted"
    /\ link' = [t \in Ids |-> IF link[t] = "unused" THEN "unused" ELSE "revoked"]
    /\ UNCHANGED <<carrier, text, earlier, begun, count>>

Next ==
    \/ Revoke \/ TypeIn \/ Turn \/ RemoveQuote \/ Remove
    \/ \E t \in Ids : Issue(t) \/ Expire(t) \/ FirstAnswer(t) \/ \E p \in Answers : Move(p, t)
    \/ \E p \in Answers : Begin(p) \/ \E n \in begun[p] : Revise(p, n) \/ GiveUp(p, n)

Spec == Init /\ [][Next]_vars
=================================================================================
