---------------------------- MODULE DocumentAlerts ----------------------------
(***************************************************************************)
(* The daily sweep that mails the COMEX team about supplier documents that *)
(* have reached an expiry milestone (SupplierDocumentAlertService).        *)
(*                                                                         *)
(* A run claims one row per (document, cycle, milestone) by creating it,   *)
(* the unique constraint deciding between overlapping runs, sends one mail *)
(* for what it claimed and marks the rows sent.  Each statement is a step: *)
(* runs overlap, calls fail and the server restarts between any two.  A    *)
(* run that starts settles the claims of runs dead for fifteen minutes.    *)
(***************************************************************************)
EXTENDS Naturals

CONSTANTS
    Docs,        \* supplier documents
    Slots,       \* runs that are alive or have left claims behind
    MaxStage,    \* number of milestones a document goes through
    MaxCycle,    \* bound: renewals of a document
    MaxFailures  \* bound: failed calls and restarts

ASSUME AlertsAssumption == /\ MaxStage \in Nat /\ MaxCycle \in Nat /\ MaxFailures \in Nat
                           /\ Slots \cap {"none", "sent"} = {}

VARIABLES
    doc,       \* [stage, cycle, state] of each document; stage 0: no milestone yet
    comex,     \* whether the list of recipients has an address
    alert,     \* the row of each key: none, claimed by a run, or sent
    logged,    \* runs whose MailLog says sent
    old,       \* runs whose claims are older than ALERT_ORPHAN_MINUTES
    run,       \* what each run remembers
    mails,     \* mails that went out about each key
    traced,    \* keys whose delivery the database has recorded at some time
    failures   \* failed calls and restarts so far

vars == <<doc, comex, alert, logged, old, run, mails, traced, failures>>

Keys == Docs \X (0..MaxCycle) \X (1..MaxStage)

Stages == {"ended", "settle", "candidates", "prefilter", "recipients", "claim",
           "conflicts", "mail", "log", "mark", "release"}
Outcomes == {"none", "sent", "nothing_due", "already_claimed", "in_progress",
             "no_recipients", "send_failed", "error"}

Runs == [pc: Stages, orphans: SUBSET Slots, due: SUBSET Keys, pending: SUBSET Keys,
         claimed: SUBSET Keys, conflicts: SUBSET Keys, inFlight: BOOLEAN, outcome: Outcomes]

Fresh == [pc |-> "ended", orphans |-> {}, due |-> {}, pending |-> {}, claimed |-> {},
          conflicts |-> {}, inFlight |-> FALSE, outcome |-> "none"]

Init ==
    /\ doc = [d \in Docs |-> [stage |-> 0, cycle |-> 0, state |-> "listed"]]
    /\ comex = TRUE
    /\ alert = [k \in Keys |-> "none"]
    /\ logged = {}
    /\ old = {}
    /\ run = [s \in Slots |-> Fresh]
    /\ mails = [k \in Keys |-> 0]
    /\ traced = {}
    /\ failures = 0

-----------------------------------------------------------------------------
ClaimsOf(s) == {k \in Keys : alert[k] = s}

Current(d) == <<d, doc[d].cycle, doc[d].stage>>
\* The candidates of a run, each with the milestone it has reached.
DueKeys == {Current(d) : d \in {e \in Docs : doc[e].state = "listed" /\ doc[e].stage > 0}}

\* The runs that settleOrphans takes for dead.
AnyClaims == {s \in Slots : ClaimsOf(s) # {}}  \* mutant: the age of a claim is not asked
Orphans == {s \in old : ClaimsOf(s) # {}}

\* Every claim of s becomes a row r (updateMany, deleteMany by runId).
Resolved(s, r) == [k \in Keys |-> IF alert[k] = s THEN r ELSE alert[k]]

SettledFree(t) == Resolved(t, "none")  \* mutant: MailLog is not looked up
SettledSent(t) == Resolved(t, "sent")  \* mutant: an orphan counts as delivered
SettledKept(t) == alert                \* mutant: a dead run keeps its claims
\* Claims of a dead run: delivered if its MailLog says so, free again otherwise.
Settled(t) == IF t \in logged THEN Resolved(t, "sent") ELSE Resolved(t, "none")

NeverInFlight(keys) == FALSE  \* mutant: a claim of another run counts as delivered
\* Some of these keys are claimed, or were just released, by another run.
InFlight(keys) == \E k \in keys : alert[k] # "sent"

At(s, pc) == run[s].pc = pc
Becomes(s, r) == run' = [run EXCEPT ![s] = r]
Goes(s, pc) == Becomes(s, [run[s] EXCEPT !.pc = pc])
Ends(s, outcome) == Becomes(s, [Fresh EXCEPT !.outcome = outcome])
Fails == failures < MaxFailures /\ failures' = failures + 1

-----------------------------------------------------------------------------
(* The sweep.                                                              *)

\* The Scheduler calls the job, also while another run is alive; the run
\* computes its cutoff and reads the orphans.  A slot is used again once
\* nothing refers to the run that had it: run ids are never reused.
Start(s) ==
    /\ At(s, "ended")
    /\ ClaimsOf(s) = {}
    /\ \A t \in Slots : s \notin run[t].orphans
    /\ Becomes(s, [Fresh EXCEPT !.pc = "settle", !.orphans = Orphans])
    /\ logged' = logged \ {s}
    /\ UNCHANGED <<doc, comex, alert, old, mails, traced, failures>>

\* settleOrphans, one dead run after the other.
Settle(s) ==
    /\ At(s, "settle")
    /\ \E t \in run[s].orphans :
          /\ alert' = Settled(t)
          /\ old' = old \ {t}
          /\ Becomes(s, [run[s] EXCEPT !.orphans = @ \ {t}])
    /\ UNCHANGED <<doc, comex, logged, mails, traced, failures>>

EndSettle(s) ==
    /\ At(s, "settle")
    /\ run[s].orphans = {}
    /\ Goes(s, "candidates")
    /\ UNCHANGED <<doc, comex, alert, logged, old, mails, traced, failures>>

ReadCandidates(s) ==
    /\ At(s, "candidates")
    /\ Becomes(s, [run[s] EXCEPT !.due = DueKeys, !.pc = "prefilter"])
    /\ UNCHANGED <<doc, comex, alert, logged, old, mails, traced, failures>>

\* Keys without a row are pending; the others are delivered or in flight.
Prefilter(s) ==
    LET free == {k \in run[s].due : alert[k] = "none"}
        waits == InFlight(run[s].due \ free)
    IN /\ At(s, "prefilter")
       /\ \/ /\ free # {}
             /\ Becomes(s, [run[s] EXCEPT !.pending = free, !.inFlight = waits,
                                          !.pc = "recipients"])
          \/ free = {} /\ waits /\ Ends(s, "in_progress")
          \/ free = {} /\ ~waits /\ Ends(s, "nothing_due")
       /\ UNCHANGED <<doc, comex, alert, logged, old, mails, traced, failures>>

LoadRecipients(s) ==
    /\ At(s, "recipients")
    /\ IF comex THEN Goes(s, "claim") ELSE Ends(s, "no_recipients")
    /\ UNCHANGED <<doc, comex, alert, logged, old, mails, traced, failures>>

\* One create per pending key: it makes the row or meets P2002.
Claim(s) ==
    /\ At(s, "claim")
    /\ \E k \in run[s].pending :
          \/ /\ alert[k] = "none"
             /\ alert' = [alert EXCEPT ![k] = s]
             /\ Becomes(s, [run[s] EXCEPT !.pending = @ \ {k}, !.claimed = @ \cup {k}])
          \/ /\ alert[k] # "none"
             /\ Becomes(s, [run[s] EXCEPT !.pending = @ \ {k}, !.conflicts = @ \cup {k}])
             /\ UNCHANGED alert
    /\ UNCHANGED <<doc, comex, logged, old, mails, traced, failures>>

EndClaims(s) ==
    /\ At(s, "claim")
    /\ run[s].pending = {}
    /\ Goes(s, IF run[s].conflicts # {} THEN "conflicts" ELSE "mail")
    /\ UNCHANGED <<doc, comex, alert, logged, old, mails, traced, failures>>

\* A conflict that is not delivered by now is in flight.
ReadConflicts(s) ==
    LET waits == run[s].inFlight \/ InFlight(run[s].conflicts)
    IN /\ At(s, "conflicts")
       /\ \/ /\ run[s].claimed # {}
             /\ Becomes(s, [run[s] EXCEPT !.inFlight = waits, !.pc = "mail"])
          \/ run[s].claimed = {} /\ waits /\ Ends(s, "in_progress")
          \/ run[s].claimed = {} /\ ~waits /\ Ends(s, "already_claimed")
       /\ UNCHANGED <<doc, comex, alert, logged, old, mails, traced, failures>>

\* A create or the read of the conflicts throws: the claims are released.
ClaimingFails(s) ==
    /\ run[s].pc \in {"claim", "conflicts"}
    /\ Fails
    /\ Becomes(s, [run[s] EXCEPT !.pc = "release", !.outcome = "error"])
    /\ UNCHANGED <<doc, comex, alert, logged, old, mails, traced>>

Delivered(s) == [k \in Keys |-> IF k \in run[s].claimed THEN mails[k] + 1 ELSE mails[k]]

\* sendAndLog reports a failure; the provider may have taken the mail.
MailFails(s) ==
    /\ At(s, "mail")
    /\ Fails
    /\ mails' \in {mails, Delivered(s)}
    /\ Becomes(s, [run[s] EXCEPT !.pc = "release", !.outcome = "send_failed"])
    /\ UNCHANGED <<doc, comex, alert, logged, old, traced>>

MailOut(s) ==
    /\ At(s, "mail")
    /\ mails' = Delivered(s)
    /\ Goes(s, "log")
    /\ UNCHANGED <<doc, comex, alert, logged, old, traced, failures>>

LogSent(s) ==
    /\ At(s, "log")
    /\ logged' = logged \cup {s}
    /\ traced' = traced \cup run[s].claimed
    /\ Goes(s, "mark")
    /\ UNCHANGED <<doc, comex, alert, old, mails, failures>>

\* The MailLog stays queued and sendAndLog still answers sent.
LogFails(s) ==
    /\ At(s, "log")
    /\ Fails
    /\ Goes(s, "mark")
    /\ UNCHANGED <<doc, comex, alert, logged, old, mails, traced>>

MarkSent(s) ==
    /\ At(s, "mark")
    /\ alert' = Resolved(s, "sent")
    /\ traced' = traced \cup ClaimsOf(s)
    /\ Ends(s, "sent")
    /\ UNCHANGED <<doc, comex, logged, old, mails, failures>>

\* The failure is only logged: the claims stay, the run answers sent.
MarkFails(s) ==
    /\ At(s, "mark")
    /\ Fails
    /\ Ends(s, "sent")
    /\ UNCHANGED <<doc, comex, alert, logged, old, mails, traced>>

\* releaseRunClaims.
Release(s) ==
    /\ At(s, "release")
    /\ alert' = Resolved(s, "none")
    /\ Ends(s, run[s].outcome)
    /\ UNCHANGED <<doc, comex, logged, old, mails, traced, failures>>

\* A restart at any point, a read that throws before the claims, or a
\* release that fails: the run is over and its claims stay.
Dies(s) ==
    /\ ~At(s, "ended")
    /\ Fails
    /\ Ends(s, "error")
    /\ UNCHANGED <<doc, comex, alert, logged, old, mails, traced>>

\* Fifteen minutes pass after a run has ended, which it does in five.
Age(s) ==
    /\ At(s, "ended")
    /\ ClaimsOf(s) # {}
    /\ s \notin old
    /\ old' = old \cup {s}
    /\ UNCHANGED <<doc, comex, alert, logged, run, mails, traced, failures>>

-----------------------------------------------------------------------------
(* Documents and recipients.                                               *)

\* Days pass until the document reaches its next milestone.
NextMilestone(d) ==
    /\ doc[d].stage < MaxStage
    /\ doc' = [doc EXCEPT ![d].stage = @ + 1]
    /\ UNCHANGED <<comex, alert, logged, old, run, mails, traced, failures>>

\* update and replaceFile with another date, which may be close or past.
Renew(d) ==
    /\ doc[d].state # "gone"
    /\ doc[d].cycle < MaxCycle
    /\ \E stage \in 0..MaxStage :
          doc' = [doc EXCEPT ![d] = [doc[d] EXCEPT !.cycle = @ + 1, !.stage = stage]]
    /\ UNCHANGED <<comex, alert, logged, old, run, mails, traced, failures>>

\* The supplier of the document is deactivated or activated again.
Pause(d) ==
    /\ doc[d].state \in {"listed", "paused"}
    /\ doc' = [doc EXCEPT ![d].state = IF @ = "listed" THEN "paused" ELSE "listed"]
    /\ UNCHANGED <<comex, alert, logged, old, run, mails, traced, failures>>

\* softDelete of the document, or its supplier is removed.
Remove(d) ==
    /\ doc[d].state # "gone"
    /\ doc' = [doc EXCEPT ![d].state = "gone"]
    /\ UNCHANGED <<comex, alert, logged, old, run, mails, traced, failures>>

EditRecipients ==
    /\ comex' = ~comex
    /\ UNCHANGED <<doc, alert, logged, old, run, mails, traced, failures>>

-----------------------------------------------------------------------------
Advance(s) ==
    \/ Settle(s) \/ EndSettle(s) \/ ReadCandidates(s) \/ Prefilter(s) \/ LoadRecipients(s)
    \/ Claim(s) \/ EndClaims(s) \/ ReadConflicts(s)
    \/ MailOut(s) \/ LogSent(s) \/ MarkSent(s) \/ Release(s)

Failure(s) == ClaimingFails(s) \/ MailFails(s) \/ LogFails(s) \/ MarkFails(s) \/ Dies(s)

Change(d) == NextMilestone(d) \/ Renew(d) \/ Pause(d) \/ Remove(d)

Next ==
    \/ \E s \in Slots : Start(s) \/ Advance(s) \/ Failure(s) \/ Age(s)
    \/ \E d \in Docs : Change(d)
    \/ EditRecipients

Spec == Init /\ [][Next]_vars

\* The Scheduler keeps calling the job, a run that neither fails nor dies
\* takes its next step, and time passes.
Fairness ==
    /\ WF_vars(\E s \in Slots : Start(s))
    /\ \A s \in Slots : WF_vars(Advance(s)) /\ WF_vars(Age(s))

FairSpec == Spec /\ Fairness

-----------------------------------------------------------------------------
(* Properties.                                                             *)

TypeOK ==
    /\ doc \in [Docs -> [stage: 0..MaxStage, cycle: 0..MaxCycle,
                     state: {"listed", "paused", "gone"}]]
    /\ comex \in BOOLEAN
    /\ alert \in [Keys -> {"none", "sent"} \cup Slots]
    /\ logged \subseteq Slots
    /\ old \subseteq Slots
    /\ run \in [Slots -> Runs]
    /\ mails \in [Keys -> Nat]
    /\ traced \subseteq Keys
    /\ failures \in 0..MaxFailures

\* A row says sent only if a mail about its document, cycle and milestone
\* went out: settling an orphan never buries an alert nobody received.
SentMeansMailed == \A k \in Keys : alert[k] = "sent" => mails[k] > 0

\* "Um run vivo nunca tem claim orfao": from the mail to the end a run owns
\* every row it mails about, whatever the runs that settle orphans do.
LiveClaimsKept ==
    \A s \in Slots : run[s].pc \in {"mail", "log", "mark"} =>
        \A k \in run[s].claimed : alert[k] = s

\* A delivery the database has recorded, in the MailLog of a run or in the
\* row, is never repeated, whatever fails between the mail and the row.
NoMailAfterTrace == [][\A k \in Keys : mails'[k] > mails[k] => k \notin traced]_vars

\* A run that tells the Scheduler there is nothing left to do (200, without
\* a retry) leaves nothing behind: all it found due was mailed by then.
NothingLeftMeansMailed ==
    [][\A s \in Slots :
          run[s].pc # "ended" /\ run'[s].outcome \in {"nothing_due", "already_claimed"}
          => \A k \in run[s].due : mails[k] > 0]_vars

\* An alert that is due is mailed, unless the document is renewed, paused, removed
\* or reaches another milestone first, or there is nobody to mail.
DueEventuallyMailed ==
    \A k \in Keys : k \in DueKeys ~> mails[k] > 0 \/ k \notin DueKeys \/ ~comex
=============================================================================
