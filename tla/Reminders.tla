------------------------------- MODULE Reminders -------------------------------
(***************************************************************************)
(* The sweep that reminds suppliers who have not answered                  *)
(* (SupplierPortalReminderService), on the links of the supplier portal.   *)
(*                                                                         *)
(* Only the hash of a link is stored, so a reminder has to issue a fresh   *)
(* link, mail it and then revoke the links it replaces.  A run claims an   *)
(* address for the day, then each (quote, contact) pair of that address,   *)
(* reads everything again, issues the links, mails once and settles.       *)
(* Sweeps overlap, also over midnight, calls fail, the instance dies, and  *)
(* the office hands out and revokes links of the same contacts meanwhile.  *)
(*                                                                         *)
(* Days alternate between two keys: a run is cut off after minutes, so no  *)
(* run of the day before yesterday is alive.  Weekends, on which a sweep   *)
(* does nothing, are left out.                                             *)
(***************************************************************************)
EXTENDS Naturals

CONSTANTS
    Pairs,       \* (quote, contact) pairs
    Offers,      \* (quote, supplier) pairs
    OfferOf,     \* the offer each pair belongs to
    Addresses,   \* e-mail addresses
    Comercial,   \* addresses of "comercial" users, which the mailer refuses
    Movers,      \* bound: pairs whose contact may change address
    Sweeps,      \* runs of the job that may overlap
    Stoppers,    \* bound: pairs that may come to have a reason not to remind
    MaxCalls,    \* bound: calls of the job on one day
    MaxFailures  \* bound: failed calls, restarts, and runs that are too slow

ASSUME RemindersAssumption ==
    /\ OfferOf \in [Pairs -> Offers] /\ Comercial \subseteq Addresses
    /\ Movers \subseteq Pairs /\ Stoppers \subseteq Pairs
    /\ MaxCalls \in Nat /\ MaxFailures \in Nat
    /\ Sweeps \cap {"nobody", "office"} = {}

VARIABLES
    day,       \* today's key
    called,    \* how often the Scheduler has called the job today
    links,     \* the active links of each pair
    email,     \* the address of each pair's contact
    stopped,   \* pairs with a reason not to remind: quote closed, winner chosen, link opened, ...
    answered,  \* offers that have been answered
    office,    \* what a buyer's request is doing with the links of each pair
    claim,     \* the row of each day and pair
    taken,     \* the addresses claimed on each day
    run,       \* what each sweep remembers
    mailed,    \* how many reminders of each day went to each address
    reminded,  \* how many reminders of each day were about each pair
    owed,      \* pairs given a link that no buyer or deadline took back
    crossed,   \* pairs whose link the office issued under a sweep that lost its own
    failures   \* failed calls, restarts and slow runs so far

sweepVars == <<claim, taken, run, mailed, reminded>>
worldVars == <<day, called, email, stopped, answered, office>>
vars == <<day, called, links, email, stopped, answered, office, claim, taken, run,
          mailed, reminded, owed, crossed, failures>>

Days == {0, 1}
\* A link of today, one of last night (less than ten hours old), an older one.
Ages == {"today", "night", "old"}
Links == [age: Ages, byMail: BOOLEAN, held: BOOLEAN, by: Sweeps \cup {"office", "nobody"}]
Claims == {"none", "claimed", "sent", "failed", "suppressed", "skipped"}
Stages == {"idle", "next", "claim", "issue", "mail", "settle", "undo"}
\* todo: pairs still to be processed, with the address read for them; to: the
\* address in hand; rest: its pairs the current loop has not reached; mine: the
\* pairs claimed for it; fresh: those given a new link; verdict, keep: what to
\* record when nothing was delivered, and whether the new links survive.
Runs == [pc: Stages, day: Days, todo: SUBSET (Pairs \X Addresses), to: Addresses \cup {"none"},
         rest: SUBSET Pairs, mine: SUBSET Pairs, fresh: SUBSET Pairs,
         verdict: {"failed", "suppressed", "skipped"}, keep: BOOLEAN]

Idle == [pc |-> "idle", day |-> 0, todo |-> {}, to |-> "none",
         rest |-> {}, mine |-> {}, fresh |-> {}, verdict |-> "failed", keep |-> FALSE]

Init ==
    /\ day = 0
    /\ called = 0
    /\ links = [p \in Pairs |-> {[age |-> "old", byMail |-> TRUE, held |-> TRUE, by |-> "nobody"]}]
    /\ email \in [Pairs -> Addresses]
    /\ stopped = {}
    /\ answered = {}
    /\ office = [p \in Pairs |-> "idle"]
    /\ claim = [d \in Days |-> [p \in Pairs |-> "none"]]
    /\ taken = [d \in Days |-> {}]
    /\ run = [s \in Sweeps |-> Idle]
    /\ mailed = [d \in Days |-> [a \in Addresses |-> 0]]
    /\ reminded = [d \in Days |-> [p \in Pairs |-> 0]]
    /\ owed = Pairs
    /\ crossed = {}
    /\ failures = 0

-----------------------------------------------------------------------------
At(s, pc) == run[s].pc = pc
Becomes(s, r) == run' = [run EXCEPT ![s] = r]
Goes(s, pc) == Becomes(s, [run[s] EXCEPT !.pc = pc])
\* The address in hand is done with.
NextAddress(s) ==
    Becomes(s, [Idle EXCEPT !.pc = "next", !.day = run[s].day, !.todo = run[s].todo])
Fails == failures < MaxFailures /\ failures' = failures + 1

\* mutant: the day is computed again when the outcome is written
MarkedToday(s, pairs, c) ==
    [claim EXCEPT ![day] = [p \in Pairs |-> IF p \in pairs THEN c ELSE @[p]]]
Marked(s, pairs, c) == [claim EXCEPT ![run[s].day] =
                            [p \in Pairs |-> IF p \in pairs THEN c ELSE @[p]]]

FreshLinks(s, p) == {l \in links[p] : l.by = s}
\* The sweep no longer refers to its links.
LetGo(s, ls) == {IF l.by = s THEN [l EXCEPT !.by = "nobody"] ELSE l : l \in ls}
Forgotten(s) == [p \in Pairs |-> LetGo(s, links[p])]
Revoked(s) == [p \in Pairs |-> links[p] \ FreshLinks(s, p)]

OldByDate(p) == \A l \in links[p] : l.age # "today"  \* mutant: the ten hours are not asked
\* The newest link is of an earlier day and ten hours old (then all are).
OldEnough(p) == \A l \in links[p] : l.age = "old"

\* None of the reasons to stop holds.
Due(p) ==
    /\ \E l \in links[p] : l.byMail
    /\ p \notin stopped
    /\ OfferOf[p] \notin answered
    /\ OldEnough(p)

\* One pair of each offer for each address.
Unique(pairs) == \A p, q \in pairs : p # q => email[p] # email[q] \/ OfferOf[p] # OfferOf[q]
Candidates(pairs) == {c \in SUBSET pairs :
                        /\ Unique(c)
                        /\ \A p \in pairs : \E q \in c : email[p] = email[q] /\ OfferOf[p] = OfferOf[q]}

-----------------------------------------------------------------------------
(* The sweep.                                                              *)

\* The first reading leaves out the pairs claimed today.
Start(s) ==
    /\ At(s, "idle")
    /\ called < MaxCalls
    /\ \E c \in Candidates({p \in Pairs : Due(p) /\ claim[day][p] = "none"}) :
          Becomes(s, IF c = {} THEN Idle
                     ELSE [Idle EXCEPT !.pc = "next", !.day = day,
                                       !.todo = {<<p, email[p]>> : p \in c}])
    /\ called' = called + 1
    /\ UNCHANGED <<day, links, email, stopped, answered, office, claim, taken, mailed,
                   reminded, owed, crossed, failures>>

AddressFree(s, a) == a \notin taken[run[s].day]

\* The claim of an address for the day is created, or another sweep has it.
TakeAddress(s) ==
    /\ At(s, "next")
    /\ run[s].day = day
    /\ \E a \in {t[2] : t \in run[s].todo} :
          LET its == {t \in run[s].todo : t[2] = a}
          IN IF AddressFree(s, a)
             THEN /\ taken' = [taken EXCEPT ![day] = @ \cup {a}]
                  /\ Becomes(s, [run[s] EXCEPT !.pc = "claim", !.to = a, !.todo = @ \ its,
                                               !.rest = {t[1] : t \in its}])
             ELSE Becomes(s, [run[s] EXCEPT !.todo = @ \ its]) /\ UNCHANGED taken
    /\ UNCHANGED <<worldVars, links, claim, mailed, reminded, owed, crossed, failures>>

\* No address is left, it is past midnight, or 120 seconds are over.
Finish(s) ==
    /\ At(s, "next")
    /\ \/ (run[s].todo = {} \/ run[s].day # day) /\ UNCHANGED failures
       \/ run[s].todo # {} /\ Fails
    /\ Becomes(s, Idle)
    /\ UNCHANGED <<worldVars, links, claim, taken, mailed, reminded, owed, crossed>>

ClaimedBlindly(s, p) == TRUE  \* mutant: a P2002 is read as success
Claimable(s, p) == claim[run[s].day][p] = "none"

\* The claim of a pair is created, or another sweep has it.
ClaimPair(s) ==
    /\ At(s, "claim")
    /\ \E p \in run[s].rest :
          IF Claimable(s, p)
          THEN /\ claim' = Marked(s, {p}, "claimed")
               /\ Becomes(s, [run[s] EXCEPT !.rest = @ \ {p}, !.mine = @ \cup {p}])
          ELSE Becomes(s, [run[s] EXCEPT !.rest = @ \ {p}]) /\ UNCHANGED claim
    /\ UNCHANGED <<worldVars, links, taken, mailed, reminded, owed, crossed, failures>>

\* Everything is read again; what changed since the first reading is skipped,
\* also a contact who has another address by now.
Stands(s) == {p \in run[s].mine : Due(p) /\ email[p] = run[s].to}

Revalidate(s) ==
    /\ At(s, "claim")
    /\ run[s].rest = {}
    /\ claim' = Marked(s, run[s].mine \ Stands(s), "skipped")
    /\ IF Stands(s) = {} THEN NextAddress(s)
       ELSE Becomes(s, [run[s] EXCEPT !.pc = "issue", !.mine = Stands(s), !.rest = Stands(s)])
    /\ UNCHANGED <<worldVars, links, taken, mailed, reminded, owed, crossed, failures>>

\* The database fails among the claims, the reading or the skips: the claims
\* become failed, unless that fails too.
Breaks(s) ==
    /\ At(s, "claim")
    /\ Fails
    /\ \E failed \in SUBSET run[s].mine, skipped \in SUBSET (run[s].mine \ Stands(s)) :
          /\ skipped # {} => run[s].rest = {}
          /\ claim' = [claim EXCEPT ![run[s].day] =
                         [p \in Pairs |-> IF p \in failed THEN "failed"
                                          ELSE IF p \in skipped THEN "skipped" ELSE @[p]]]
    /\ NextAddress(s)
    /\ UNCHANGED <<worldVars, links, taken, mailed, reminded, owed, crossed>>

\* A fresh link with the deadline of the old one.
Issue(s) ==
    /\ At(s, "issue")
    /\ \E p \in run[s].rest :
          /\ links' = [links EXCEPT ![p] = @ \cup
                          {[age |-> "today", byMail |-> TRUE, held |-> FALSE, by |-> s]}]
          /\ Becomes(s, [run[s] EXCEPT !.rest = @ \ {p}, !.fresh = @ \cup {p}])
    /\ UNCHANGED <<worldVars, claim, taken, mailed, reminded, owed, crossed, failures>>

\* Creating or rendering fails; or, just before the mail, it is past midnight or
\* 240 seconds are over.
Cancels(s, verdict) ==
    \/ verdict = "failed" /\ Fails
    \/ verdict = "skipped" /\ run[s].rest = {} /\ run[s].day # day /\ UNCHANGED failures
    \/ verdict = "skipped" /\ run[s].rest = {} /\ run[s].day = day /\ Fails

Cancel(s) ==
    /\ At(s, "issue")
    /\ \E v \in {"failed", "skipped"} :
          /\ Cancels(s, v)
          /\ Becomes(s, [run[s] EXCEPT !.pc = "undo", !.verdict = v])
    /\ UNCHANGED <<worldVars, links, claim, taken, mailed, reminded, owed, crossed>>

GoAhead(s) ==
    /\ At(s, "issue")
    /\ run[s].rest = {}
    /\ run[s].day = day
    /\ Goes(s, "mail")
    /\ UNCHANGED <<worldVars, links, claim, taken, mailed, reminded, owed, crossed, failures>>

\* The mail reaches the supplier, with all the links in it.
Arrives(s) ==
    /\ mailed' = [mailed EXCEPT ![run[s].day][run[s].to] = @ + 1]
    /\ reminded' = [reminded EXCEPT ![run[s].day] =
                      [p \in Pairs |-> IF p \in run[s].mine THEN @[p] + 1 ELSE @[p]]]
    /\ links' = [p \in Pairs |-> {IF l.by = s THEN [l EXCEPT !.held = TRUE] ELSE l : l \in links[p]}]
    /\ owed' = owed \cup {p \in Pairs : FreshLinks(s, p) # {}}

Mail(s) ==
    /\ At(s, "mail")
    /\ run[s].to \notin Comercial
    /\ Arrives(s)
    /\ Becomes(s, [run[s] EXCEPT !.pc = "settle", !.rest = run[s].mine])
    /\ UNCHANGED <<worldVars, claim, taken, crossed, failures>>

\* The mailer does not write to comercial users: nothing left the server.
Suppressed(s) ==
    /\ At(s, "mail")
    /\ run[s].to \in Comercial
    /\ Becomes(s, [run[s] EXCEPT !.pc = "undo", !.verdict = "suppressed"])
    /\ UNCHANGED <<worldVars, links, claim, taken, mailed, reminded, owed, crossed, failures>>

\* The roles cannot be read, and nothing is sent; or the transport fails, and
\* the mail may have gone out: the new links stay.
MailFails(s) ==
    /\ At(s, "mail")
    /\ Fails
    /\ \E keep \in BOOLEAN :
          /\ keep => run[s].to \notin Comercial
          /\ Becomes(s, [run[s] EXCEPT !.pc = "undo", !.verdict = "failed", !.keep = keep])
          /\ \/ keep /\ Arrives(s)
             \/ UNCHANGED <<links, mailed, reminded, owed>>
    /\ UNCHANGED <<worldVars, claim, taken, crossed>>

\* What is left of the links when nothing was reported as delivered.
Leftover(s) == IF run[s].keep THEN Forgotten(s) ELSE Revoked(s)

Undo(s) ==
    /\ At(s, "undo")
    /\ links' = Leftover(s)
    /\ claim' = Marked(s, run[s].mine, run[s].verdict)
    /\ NextAddress(s)
    /\ UNCHANGED <<worldVars, taken, mailed, reminded, owed, crossed, failures>>

\* The database fails on the way: no link is revoked, or some claim stays.
UndoFails(s) ==
    /\ At(s, "undo")
    /\ Fails
    /\ \/ links' = Forgotten(s) /\ UNCHANGED claim
       \/ links' = Leftover(s) /\ claim' \in {Marked(s, c, run[s].verdict) : c \in SUBSET run[s].mine}
    /\ NextAddress(s)
    /\ UNCHANGED <<worldVars, taken, mailed, reminded, owed, crossed>>

\* After the mail: every other active link of the pair is revoked.
Replaced(s, p) == [links EXCEPT ![p] = LetGo(s, FreshLinks(s, p))]

IsSettled(s, p) ==
    IF run[s].rest = {p} THEN NextAddress(s)
    ELSE Becomes(s, [run[s] EXCEPT !.rest = @ \ {p}, !.fresh = @ \ {p}])

Settle(s) ==
    /\ At(s, "settle")
    /\ \E p \in run[s].rest :
          /\ links' = Replaced(s, p)
          /\ claim' = Marked(s, {p}, "sent")
          /\ IsSettled(s, p)
    /\ UNCHANGED <<worldVars, taken, mailed, reminded, owed, crossed, failures>>

\* The revocation or the update of the claim fails; the mail has gone out.
SettleFails(s) ==
    /\ At(s, "settle")
    /\ Fails
    /\ \E p \in run[s].rest :
          /\ links' \in {Replaced(s, p), [links EXCEPT ![p] = LetGo(s, @)]}
          /\ IsSettled(s, p)
    /\ UNCHANGED <<worldVars, claim, taken, mailed, reminded, owed, crossed>>

\* The instance dies, or Cloud Run cuts the run off.
Dies(s) ==
    /\ ~ At(s, "idle")
    /\ Fails
    /\ Becomes(s, Idle)
    /\ links' = Forgotten(s)
    /\ UNCHANGED <<worldVars, claim, taken, mailed, reminded, owed, crossed>>

-----------------------------------------------------------------------------
(* Days and hours.                                                         *)

SomeRun == \E s \in Sweeps : ~ At(s, "idle")
ClaimedBefore == claim[day]  \* mutant: the key of a claim lacks the day
\* The claims carry the day in their key.
NewClaims == [p \in Pairs |-> "none"]

Overdue == \E s \in Sweeps : ~ At(s, "idle") /\ run[s].day # day

\* The next working day.  Links made while a run is alive are minutes old; of
\* the others of today, some have the ten hours behind them.
NewDay ==
    LET tomorrow == 1 - day
        aged(p, night) == {[l EXCEPT !.age = IF @ = "today" /\ night THEN "night" ELSE "old"] :
                               l \in links[p]}
    IN /\ called > 0
       /\ ~ Overdue
       /\ IF SomeRun THEN Fails ELSE UNCHANGED failures
       /\ \E young \in SUBSET Pairs :
             /\ SomeRun => young = Pairs
             /\ links' = [p \in Pairs |-> aged(p, p \in young)]
       /\ day' = tomorrow
       /\ called' = 0
       /\ claim' = [claim EXCEPT ![tomorrow] = NewClaims]
       /\ taken' = [taken EXCEPT ![tomorrow] = {}]
       /\ mailed' = [mailed EXCEPT ![tomorrow] = [a \in Addresses |-> 0]]
       /\ reminded' = [reminded EXCEPT ![tomorrow] = [p \in Pairs |-> 0]]
       /\ UNCHANGED <<email, stopped, answered, office, run, owed, crossed>>

\* A link of last night turns ten hours old.
HoursPass(p) ==
    /\ ~ Overdue
    /\ links' = [links EXCEPT ![p] = {[l EXCEPT !.age = IF @ = "night" THEN "old" ELSE @] : l \in links[p]}]
    /\ UNCHANGED <<worldVars, sweepVars, owed, crossed, failures>>

-----------------------------------------------------------------------------
(* The office and the suppliers.                                           *)

\* A dispatch, a generation or a revocation takes the links of a contact.
OfficeRevokes(p) ==
    /\ office[p] = "idle"
    /\ office' = [office EXCEPT ![p] = "revoked"]
    /\ links' = [links EXCEPT ![p] = {}]
    /\ owed' = owed \ {p}
    /\ UNCHANGED <<day, called, email, stopped, answered, sweepVars, crossed, failures>>

\* Some sweep has issued a link for p and no longer has it.
LostBySweep(p) == \E s \in Sweeps : p \in run[s].fresh /\ FreshLinks(s, p) = {}

\* It issues the new one, to be mailed or to be passed on by the buyer.
OfficeIssues(p) ==
    /\ office[p] = "revoked"
    /\ \E byMail \in BOOLEAN :
          /\ links' = [links EXCEPT ![p] = @ \cup {[age |-> "today", byMail |-> byMail, held |-> ~ byMail,
                                                    by |-> IF byMail THEN "office" ELSE "nobody"]}]
          /\ office' = [office EXCEPT ![p] = IF byMail THEN "issued" ELSE "idle"]
          /\ owed' = IF byMail THEN owed ELSE owed \cup {p}
    /\ crossed' = IF LostBySweep(p) THEN crossed \cup {p} ELSE crossed \ {p}
    /\ UNCHANGED <<day, called, email, stopped, answered, sweepVars, failures>>

\* The office is done with its link, which the supplier has or not.
OfficeLink(p, held) == {IF l.by = "office" THEN [l EXCEPT !.by = "nobody", !.held = held] ELSE l : l \in links[p]}

\* The mail of a dispatch arrives.
OfficeMails(p) ==
    /\ office[p] = "issued"
    /\ office' = [office EXCEPT ![p] = "idle"]
    /\ links' = [links EXCEPT ![p] = OfficeLink(p, TRUE)]
    /\ owed' = owed \cup {p}
    /\ UNCHANGED <<day, called, email, stopped, answered, sweepVars, crossed, failures>>

\* It is a revocation only, the mail fails, or the instance dies.
OfficeStops(p) ==
    /\ office[p] # "idle"
    /\ office' = [office EXCEPT ![p] = "idle"]
    /\ links' = [links EXCEPT ![p] = OfficeLink(p, FALSE)]
    /\ UNCHANGED <<day, called, email, stopped, answered, sweepVars, owed, crossed, failures>>

\* An answer through a link: reminders leave it alone from then on.
Answers(p) ==
    /\ \E l \in links[p] : l.held /\ links' = [links EXCEPT ![p] = @ \ {l}]
    /\ answered' = answered \cup {OfferOf[p]}
    /\ UNCHANGED <<day, called, email, stopped, office, sweepVars, owed, crossed, failures>>

\* The deadline passes.
Expires(p) ==
    /\ links[p] # {} /\ office[p] = "idle"
    /\ links' = [links EXCEPT ![p] = {}]
    /\ owed' = owed \ {p}
    /\ UNCHANGED <<worldVars, sweepVars, crossed, failures>>

\* The quote closes or reopens, gets or loses its winner, the link is opened, ...
Toggles ==
    /\ stopped' \in SUBSET Stoppers
    /\ UNCHANGED <<day, called, links, email, answered, office, sweepVars, owed, crossed, failures>>

Moves(p) ==
    /\ p \in Movers
    /\ \E a \in Addresses : email' = [email EXCEPT ![p] = a]
    /\ UNCHANGED <<day, called, links, stopped, answered, office, sweepVars, owed, crossed, failures>>

-----------------------------------------------------------------------------
Advance(s) ==
    \/ TakeAddress(s) \/ Finish(s) \/ ClaimPair(s) \/ Revalidate(s) \/ Issue(s)
    \/ Cancel(s) \/ GoAhead(s) \/ Mail(s) \/ Suppressed(s) \/ Undo(s) \/ Settle(s)
Fault(s) == Breaks(s) \/ MailFails(s) \/ UndoFails(s) \/ SettleFails(s) \/ Dies(s)
World(p) ==
    \/ OfficeRevokes(p) \/ OfficeIssues(p) \/ OfficeMails(p) \/ OfficeStops(p)
    \/ Answers(p) \/ Expires(p) \/ Moves(p)

Next ==
    \/ \E s \in Sweeps : Start(s) \/ Advance(s) \/ Fault(s)
    \/ \E p \in Pairs : World(p) \/ HoursPass(p)
    \/ Toggles \/ NewDay

Spec == Init /\ [][Next]_vars

FairSpec ==
    /\ Spec
    /\ WF_vars(\E s \in Sweeps : Start(s))
    /\ \A s \in Sweeps : WF_vars(Advance(s))
    /\ WF_vars(NewDay)

-----------------------------------------------------------------------------
\* The types of the rows and of what sweeps remember.
TypeOK ==
    /\ day \in Days /\ called \in 0..MaxCalls
    /\ links \in [Pairs -> SUBSET Links]
    /\ email \in [Pairs -> Addresses]
    /\ stopped \subseteq Pairs /\ answered \subseteq Offers
    /\ office \in [Pairs -> {"idle", "revoked", "issued"}]
    /\ claim \in [Days -> [Pairs -> Claims]]
    /\ taken \in [Days -> SUBSET Addresses]
    /\ run \in [Sweeps -> Runs]
    /\ mailed \in [Days -> [Addresses -> Nat]]
    /\ reminded \in [Days -> [Pairs -> Nat]]
    /\ owed \subseteq Pairs /\ crossed \subseteq Pairs
    /\ failures \in 0..MaxFailures

\* "1 e-mail por endereco por dia util mesmo com sweeps concorrentes", and no
\* pair is reminded twice in a day, also when its contact changes address
\* between two sweeps.
OneLetterADay ==
    \A d \in Days : /\ \A a \in Addresses : mailed[d][a] <= 1
                    /\ \A p \in Pairs : reminded[d][p] <= 1

\* The claims tell what happened: sent was mailed, and what was skipped or
\* suppressed was not, whatever failed or died in between.
ClaimsTellTheTruth ==
    \A d \in Days, p \in Pairs :
        /\ claim[d][p] = "sent" => reminded[d][p] > 0
        /\ claim[d][p] \in {"none", "skipped", "suppressed"} => reminded[d][p] = 0

\* A supplier who was given a link and has not answered keeps one that works: whatever sweeps fail, die
\* or meet over midnight, only a buyer or the deadline takes it.  (Not
\* when the office issues a link under a sweep that lost its own, see LinkHolds.)
Waiting == {p \in owed : OfferOf[p] \notin answered}
SupplierKeepsALink == \A p \in Waiting \ crossed : \E l \in links[p] : l.held

\* "Cada contato recebe um link unico que vale pelo prazo escolhido no envio":
\* a link the supplier was given works until a buyer, the deadline or an
\* answer ends it.
LinkHolds == \A p \in Waiting : \E l \in links[p] : l.held

\* A pair that from some time on has everything a reminder asks for, at an
\* address the mailer serves, is reminded on day after day.
Remindable(p, a) ==
    /\ \E l \in links[p] : l.byMail
    /\ p \notin stopped /\ OfferOf[p] \notin answered
    /\ email[p] = a
    /\ \A q \in Pairs \ {p} : email[q] = a => OfferOf[q] # OfferOf[p]
KeepsReminding ==
    \A p \in Pairs, a \in Addresses \ Comercial :
        <>[] Remindable(p, a) => []<> (reminded[day][p] > 0)

\* The claims and the letters of overlapping sweeps are the ledger that one clerk
\* would keep: an address and a pair are taken on once a day, a letter goes out
\* for what is claimed and nothing else, and an outcome is recorded once and is true.
Ledger == INSTANCE ReminderLedger
ImplementsLedger == Ledger!Spec
===============================================================================
