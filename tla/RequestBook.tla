------------------------------ MODULE RequestBook ------------------------------
(***************************************************************************)
(* What becomes of the requests of sales, whatever rows, locks and         *)
(* overlapping transactions are behind it: a book that is changed at one   *)
(* stroke, and a list for each requester of what he is still to hear.      *)
(***************************************************************************)
EXTENDS Naturals

CONSTANTS Requests, Lines, RequestOf, NewLines, Catalog, Quotes

VARIABLES
    status,   \* of each request
    quoteOf,  \* the quote a request is tied to
    itemOf,   \* what each line is for
    stage,    \* whether a quote is still unused, open, or shut
    unheard,  \* requests with a change of status that is still to be told
    mailed    \* how many mails there were about each

vars == <<status, quoteOf, itemOf, stage, unheard, mailed>>

Statuses == {"pending", "quoting", "fulfilled", "rejected"}

Init ==
    /\ status = [r \in Requests |-> "pending"]
    /\ quoteOf = [r \in Requests |-> "none"]
    /\ itemOf \in [Lines -> Catalog \cup {"none"}]
    /\ \A l \in Lines : l \in NewLines <=> itemOf[l] = "none"
    /\ stage = [q \in Quotes |-> "unused"]
    /\ unheard = {}
    /\ mailed = [r \in Requests |-> [s \in Statuses |-> 0]]

\* What a new thing is, is chosen before its request is quoted.
Choose(l, c) ==
    /\ status[RequestOf[l]] = "pending"
    /\ itemOf' = [itemOf EXCEPT ![l] = c]
    /\ UNCHANGED <<status, quoteOf, stage, unheard, mailed>>

Open(q) ==
    /\ stage[q] # "open"
    /\ stage' = [stage EXCEPT ![q] = "open"]
    /\ UNCHANGED <<status, quoteOf, itemOf, unheard, mailed>>

Shut(q) ==
    /\ stage[q] # "unused"
    /\ stage' = [stage EXCEPT ![q] = "shut"]
    /\ UNCHANGED <<status, quoteOf, itemOf, unheard, mailed>>

\* All of rs get the status s, and their requesters are to hear of it.
Change(rs, s) ==
    /\ status' = [r \in Requests |-> IF r \in rs THEN s ELSE status[r]]
    /\ unheard' = unheard \cup (rs \X {s})
    /\ UNCHANGED <<itemOf, mailed>>

\* Pending requests, all of whose lines are for something, are tied together to
\* a quote that is open, or that is opened for them.
Link(rs, q) ==
    /\ \A r \in rs : status[r] = "pending"
    /\ \A l \in Lines : RequestOf[l] \in rs => itemOf[l] # "none"
    /\ Change(rs, "quoting")
    /\ quoteOf' = [r \in Requests |-> IF r \in rs THEN q ELSE quoteOf[r]]
    /\ stage[q] \in {"unused", "open"}
    /\ stage' = [stage EXCEPT ![q] = "open"]

Fulfil(r) ==
    /\ status[r] = "quoting"
    /\ Change({r}, "fulfilled")
    /\ UNCHANGED <<quoteOf, stage>>

Reject(r) ==
    /\ status[r] \in {"pending", "quoting"}
    /\ Change({r}, "rejected")
    /\ UNCHANGED <<quoteOf, stage>>

\* One requester hears of one change.
Tell(r, s) ==
    /\ <<r, s>> \in unheard
    /\ unheard' = unheard \ {<<r, s>>}
    /\ mailed' = [mailed EXCEPT ![r][s] = @ + 1]
    /\ UNCHANGED <<status, quoteOf, itemOf, stage>>

\* Mails are lost, or whoever was to send them is.
Lose ==
    /\ unheard' \subseteq unheard
    /\ UNCHANGED <<status, quoteOf, itemOf, stage, mailed>>

Next ==
    \/ Lose
    \/ \E l \in NewLines, c \in Catalog : Choose(l, c)
    \/ \E q \in Quotes : Open(q) \/ Shut(q)
    \/ \E rs \in (SUBSET {r \in Requests : status[r] = "pending"}) \ {{}}, q \in Quotes : Link(rs, q)
    \/ \E r \in Requests : Fulfil(r) \/ Reject(r)
    \/ \E n \in unheard : Tell(n[1], n[2])

Spec == Init /\ [][Next]_vars
===============================================================================
