---------------------------- MODULE Reminders_proof ----------------------------
(***************************************************************************)
(* Proofs about Reminders: type correctness, one letter a day for each     *)
(* address and each pair, claims that tell what happened, and links that   *)
(* the suppliers keep, for any number of pairs, addresses, sweeps, calls   *)
(* and failures.                                                           *)
(***************************************************************************)
EXTENDS Reminders, TLAPS

-----------------------------------------------------------------------------
(* What the steps of a sweep do to what it remembers.                      *)

\* Only the record of s changes.
LEMMA BecomesFrame ==
    ASSUME run \in [Sweeps -> Runs], NEW s \in Sweeps, NEW r \in Runs, Becomes(s, r)
    PROVE  /\ run' \in [Sweeps -> Runs]
           /\ run'[s] = r
           /\ \A t \in Sweeps \ {s} : run'[t] = run[t]
BY DEF Becomes

\* The record of a sweep that has nothing in hand is well typed.
LEMMA IdleTyped == Idle \in Runs
BY DEF Idle, Runs, Stages, Days

LEMMA NextTyped ==
    ASSUME NEW r \in Runs
    PROVE  [Idle EXCEPT !.pc = "next", !.day = r.day, !.todo = r.todo] \in Runs
BY DEF Idle, Runs, Stages, Days

\* A sweep done with an address holds nothing, and its day stays.
LEMMA NextAddressFrame ==
    ASSUME run \in [Sweeps -> Runs], NEW s \in Sweeps, NextAddress(s)
    PROVE  /\ run' \in [Sweeps -> Runs]
           /\ run'[s].pc = "next" /\ run'[s].day = run[s].day /\ run'[s].mine = {}
           /\ \A t \in Sweeps \ {s} : run'[t] = run[t]
<1> DEFINE r == [Idle EXCEPT !.pc = "next", !.day = run[s].day, !.todo = run[s].todo]
<1>1. r \in Runs /\ r.pc = "next" /\ r.day = run[s].day /\ r.mine = {}
  <2>1. run[s] \in Runs
    OBVIOUS
  <2>2. r \in Runs
    BY <2>1, NextTyped
  <2> QED
    BY <2>2 DEF Idle
<1>2. Becomes(s, r)
  BY DEF NextAddress
<1> HIDE DEF r
<1> QED
  BY <1>1, <1>2, BecomesFrame

\* Going to another stage changes nothing else.
LEMMA GoesFrame ==
    ASSUME run \in [Sweeps -> Runs], NEW s \in Sweeps, NEW pc \in Stages, Goes(s, pc)
    PROVE  /\ run' \in [Sweeps -> Runs]
           /\ run'[s].pc = pc
           /\ run'[s].day = run[s].day /\ run'[s].to = run[s].to
           /\ run'[s].mine = run[s].mine
           /\ \A t \in Sweeps \ {s} : run'[t] = run[t]
<1> DEFINE r == [run[s] EXCEPT !.pc = pc]
<1>1. /\ r \in Runs /\ r.pc = pc /\ r.day = run[s].day
      /\ r.to = run[s].to /\ r.mine = run[s].mine
  BY DEF Runs
<1>2. Becomes(s, r)
  BY DEF Goes
<1> HIDE DEF r
<1> QED
  BY <1>1, <1>2, BecomesFrame

\* The claims of some pairs are given a status.
LEMMA MarkedTyped ==
    ASSUME claim \in [Days -> [Pairs -> Claims]], run \in [Sweeps -> Runs],
           NEW s \in Sweeps, NEW pairs, NEW c \in Claims
    PROVE  /\ Marked(s, pairs, c) \in [Days -> [Pairs -> Claims]]
           /\ \A d \in Days, p \in Pairs : Marked(s, pairs, c)[d][p] =
                 IF d = run[s].day /\ p \in pairs THEN c ELSE claim[d][p]
<1>1. run[s].day \in Days
  BY DEF Runs
<1> QED
  BY <1>1 DEF Marked

\* What the steps do to links leaves them links.
LEMMA LinkTyped ==
    ASSUME NEW l \in Links, NEW held \in BOOLEAN, NEW age \in Ages
    PROVE  /\ [l EXCEPT !.by = "nobody"] \in Links
           /\ [l EXCEPT !.by = "nobody", !.held = held] \in Links
           /\ [l EXCEPT !.held = held] \in Links
           /\ [l EXCEPT !.age = age] \in Links
BY DEF Links

LEMMA LetGoTyped ==
    ASSUME NEW s, NEW ls \in SUBSET Links
    PROVE  LetGo(s, ls) \in SUBSET Links
<1>1. SUFFICES ASSUME NEW l \in ls
               PROVE  (IF l.by = s THEN [l EXCEPT !.by = "nobody"] ELSE l) \in Links
  BY DEF LetGo
<1>2. l \in Links
  OBVIOUS
<1>3. [l EXCEPT !.by = "nobody"] \in Links
  BY <1>2 DEF Links
<1> QED
  BY <1>2, <1>3

LEMMA LinksTyped ==
    ASSUME links \in [Pairs -> SUBSET Links], NEW s, NEW p \in Pairs
    PROVE  /\ Forgotten(s) \in [Pairs -> SUBSET Links]
           /\ Revoked(s) \in [Pairs -> SUBSET Links]
           /\ Leftover(s) \in [Pairs -> SUBSET Links]
           /\ Replaced(s, p) \in [Pairs -> SUBSET Links]
           /\ [links EXCEPT ![p] = LetGo(s, links[p])] \in [Pairs -> SUBSET Links]
<1>1. \A q \in Pairs : LetGo(s, links[q]) \in SUBSET Links
  BY LetGoTyped
<1>2. Forgotten(s) \in [Pairs -> SUBSET Links]
  BY <1>1 DEF Forgotten
<1>3. Revoked(s) \in [Pairs -> SUBSET Links]
  BY DEF Revoked
<1>4. LetGo(s, FreshLinks(s, p)) \in SUBSET Links
  BY LetGoTyped DEF FreshLinks
<1> QED
  BY <1>1, <1>2, <1>3, <1>4 DEF Leftover, Replaced

-----------------------------------------------------------------------------
(* Type correctness.                                                       *)

LEMMA InitTyped == Init => TypeOK
<1> SUFFICES ASSUME Init PROVE TypeOK
  OBVIOUS
<1>1. [age |-> "old", byMail |-> TRUE, held |-> TRUE, by |-> "nobody"] \in Links
  BY DEF Links, Ages
<1>2. links \in [Pairs -> SUBSET Links]
  BY <1>1 DEF Init
<1>3. run \in [Sweeps -> Runs]
  BY IdleTyped DEF Init
<1> QED
  BY <1>2, <1>3, RemindersAssumption DEF Init, TypeOK, Days, Claims

LEMMA StartTyped ==
    ASSUME TypeOK, NEW s \in Sweeps, Start(s) PROVE TypeOK'
<1> USE DEF TypeOK
<1>1. PICK c \in SUBSET Pairs :
          Becomes(s, IF c = {} THEN Idle
                     ELSE [Idle EXCEPT !.pc = "next", !.day = day,
                                       !.todo = {<<p, email[p]>> : p \in c}])
  BY DEF Start, Candidates
<1>2. {<<p, email[p]>> : p \in c} \in SUBSET (Pairs \X Addresses)
  OBVIOUS
<1> DEFINE todo == {<<p, email[p]>> : p \in c}
           r == IF c = {} THEN Idle ELSE [Idle EXCEPT !.pc = "next", !.day = day, !.todo = todo]
<1>3. r \in Runs
  <2>1. todo \in SUBSET (Pairs \X Addresses)
    BY <1>2
  <2> HIDE DEF todo
  <2> QED
    BY <2>1, IdleTyped DEF Idle, Runs, Stages
<1>4. Becomes(s, r)
  BY <1>1
<1> HIDE DEF r
<1>5. run' \in [Sweeps -> Runs]
  BY <1>3, <1>4, BecomesFrame
<1>6. called' \in 0..MaxCalls
  BY RemindersAssumption DEF Start
<1> QED
  BY <1>5, <1>6 DEF Start

LEMMA TakeAddressTyped ==
    ASSUME TypeOK, NEW s \in Sweeps, TakeAddress(s) PROVE TypeOK'
<1> USE DEF TypeOK
<1>1. run[s] \in Runs /\ run[s].todo \in SUBSET (Pairs \X Addresses)
  BY DEF Runs
<1>2. PICK a \in {t[2] : t \in run[s].todo} :
          \/ /\ taken' = [taken EXCEPT ![day] = @ \cup {a}]
             /\ Becomes(s, [run[s] EXCEPT !.pc = "claim", !.to = a,
                              !.todo = @ \ {t \in run[s].todo : t[2] = a},
                              !.rest = {t[1] : t \in {t \in run[s].todo : t[2] = a}}])
          \/ /\ Becomes(s, [run[s] EXCEPT !.todo = @ \ {t \in run[s].todo : t[2] = a}])
             /\ UNCHANGED taken
  BY DEF TakeAddress
<1>3. a \in Addresses
  BY <1>1
<1> DEFINE todo == run[s].todo \ {t \in run[s].todo : t[2] = a}
           rest == {t[1] : t \in {t \in run[s].todo : t[2] = a}}
<1>4. todo \in SUBSET (Pairs \X Addresses) /\ rest \in SUBSET Pairs
  BY <1>1
<1> HIDE DEF todo, rest
<1>5. /\ [run[s] EXCEPT !.pc = "claim", !.to = a, !.todo = todo, !.rest = rest] \in Runs
      /\ [run[s] EXCEPT !.todo = todo] \in Runs
  BY <1>1, <1>3, <1>4 DEF Runs, Stages
<1>6. run' \in [Sweeps -> Runs]
  <2>1. \/ Becomes(s, [run[s] EXCEPT !.pc = "claim", !.to = a, !.todo = todo, !.rest = rest])
        \/ Becomes(s, [run[s] EXCEPT !.todo = todo])
    BY <1>2 DEF todo, rest
  <2> QED
    BY <1>5, <2>1, BecomesFrame
<1>7. taken' \in [Days -> SUBSET Addresses]
  <2>1. taken \in [Days -> SUBSET Addresses] /\ day \in Days
    OBVIOUS
  <2>2. [taken EXCEPT ![day] = @ \cup {a}] \in [Days -> SUBSET Addresses]
    BY <2>1, <1>3
  <2> QED
    BY <1>2, <2>1, <2>2
<1> QED
  BY <1>6, <1>7 DEF TakeAddress, worldVars

\* A call of the database, or the instance, fails once more.
LEMMA FailsTyped == ASSUME TypeOK, Fails PROVE failures' \in 0..MaxFailures
BY RemindersAssumption DEF TypeOK, Fails

LEMMA FinishTyped ==
    ASSUME TypeOK, NEW s \in Sweeps, Finish(s) PROVE TypeOK'
<1>1. run' \in [Sweeps -> Runs]
  BY IdleTyped, BecomesFrame DEF TypeOK, Finish
<1>2. failures' \in 0..MaxFailures
  BY FailsTyped DEF TypeOK, Finish
<1> QED
  BY <1>1, <1>2 DEF TypeOK, Finish, worldVars

LEMMA ClaimPairTyped ==
    ASSUME TypeOK, NEW s \in Sweeps, ClaimPair(s) PROVE TypeOK'
<1>1. PICK p \in run[s].rest :
          \/ /\ claim' = Marked(s, {p}, "claimed")
             /\ Becomes(s, [run[s] EXCEPT !.rest = @ \ {p}, !.mine = @ \cup {p}])
          \/ /\ Becomes(s, [run[s] EXCEPT !.rest = @ \ {p}])
             /\ UNCHANGED claim
  BY DEF ClaimPair
<1>2. run[s] \in Runs /\ p \in Pairs
  BY DEF TypeOK, Runs
<1>3. /\ [run[s] EXCEPT !.rest = @ \ {p}, !.mine = @ \cup {p}] \in Runs
      /\ [run[s] EXCEPT !.rest = @ \ {p}] \in Runs
  BY <1>2 DEF Runs
<1>4. run' \in [Sweeps -> Runs]
  BY <1>1, <1>3, BecomesFrame DEF TypeOK
<1>5. claim' \in [Days -> [Pairs -> Claims]]
  BY <1>1, MarkedTyped DEF TypeOK, Claims
<1> QED
  BY <1>4, <1>5 DEF TypeOK, ClaimPair, worldVars

LEMMA RevalidateTyped ==
    ASSUME TypeOK, NEW s \in Sweeps, Revalidate(s) PROVE TypeOK'
<1>1. run[s] \in Runs /\ Stands(s) \in SUBSET Pairs
  BY DEF TypeOK, Runs, Stands
<1>2. [run[s] EXCEPT !.pc = "issue", !.mine = Stands(s), !.rest = Stands(s)] \in Runs
  BY <1>1 DEF Runs, Stages
<1>3. run' \in [Sweeps -> Runs]
  BY <1>2, BecomesFrame, NextAddressFrame DEF TypeOK, Revalidate
<1>4. claim' \in [Days -> [Pairs -> Claims]]
  BY MarkedTyped DEF TypeOK, Claims, Revalidate
<1> QED
  BY <1>3, <1>4 DEF TypeOK, Revalidate, worldVars

LEMMA BreaksTyped ==
    ASSUME TypeOK, NEW s \in Sweeps, Breaks(s) PROVE TypeOK'
<1>1. run' \in [Sweeps -> Runs]
  BY NextAddressFrame DEF TypeOK, Breaks
<1>2. run[s].day \in Days
  BY DEF TypeOK, Runs
<1>3. PICK failed \in SUBSET run[s].mine, skipped \in SUBSET (run[s].mine \ Stands(s)) :
          claim' = [claim EXCEPT ![run[s].day] =
                      [p \in Pairs |-> IF p \in failed THEN "failed"
                                       ELSE IF p \in skipped THEN "skipped" ELSE @[p]]]
  BY DEF Breaks
<1>4. claim' \in [Days -> [Pairs -> Claims]]
  BY <1>2, <1>3 DEF TypeOK, Claims
<1>5. failures' \in 0..MaxFailures
  BY FailsTyped DEF Breaks
<1> QED
  BY <1>1, <1>4, <1>5 DEF TypeOK, Breaks, worldVars

LEMMA IssueTyped ==
    ASSUME TypeOK, NEW s \in Sweeps, Issue(s) PROVE TypeOK'
<1> DEFINE new == [age |-> "today", byMail |-> TRUE, held |-> FALSE, by |-> s]
<1>1. new \in Links
  BY DEF Links, Ages
<1>2. PICK p \in run[s].rest :
          /\ links' = [links EXCEPT ![p] = @ \cup {new}]
          /\ Becomes(s, [run[s] EXCEPT !.rest = @ \ {p}, !.fresh = @ \cup {p}])
  BY DEF Issue
<1> HIDE DEF new
<1>3. run[s] \in Runs /\ p \in Pairs
  BY DEF TypeOK, Runs
<1>4. [run[s] EXCEPT !.rest = @ \ {p}, !.fresh = @ \cup {p}] \in Runs
  BY <1>3 DEF Runs
<1>5. run' \in [Sweeps -> Runs]
  BY <1>2, <1>4, BecomesFrame DEF TypeOK
<1>6. links' \in [Pairs -> SUBSET Links]
  BY <1>1, <1>2, <1>3 DEF TypeOK
<1> QED
  BY <1>5, <1>6 DEF TypeOK, Issue, worldVars

LEMMA CancelTyped ==
    ASSUME TypeOK, NEW s \in Sweeps, Cancel(s) PROVE TypeOK'
<1>1. PICK v \in {"failed", "skipped"} :
          Cancels(s, v) /\ Becomes(s, [run[s] EXCEPT !.pc = "undo", !.verdict = v])
  BY DEF Cancel
<1>r. run[s] \in Runs
  BY DEF TypeOK
<1>2. [run[s] EXCEPT !.pc = "undo", !.verdict = v] \in Runs
  BY <1>1, <1>r DEF Runs, Stages
<1>3. run' \in [Sweeps -> Runs]
  BY <1>1, <1>2, BecomesFrame DEF TypeOK
<1>4. failures' \in 0..MaxFailures
  BY <1>1, FailsTyped DEF TypeOK, Cancels
<1> QED
  BY <1>3, <1>4 DEF TypeOK, Cancel, worldVars

LEMMA GoAheadTyped ==
    ASSUME TypeOK, NEW s \in Sweeps, GoAhead(s) PROVE TypeOK'
<1>1. run' \in [Sweeps -> Runs]
  BY GoesFrame DEF TypeOK, GoAhead, Stages
<1> QED
  BY <1>1 DEF TypeOK, GoAhead, worldVars

\* The mail changes counts and links only.
LEMMA ArrivesTyped ==
    ASSUME TypeOK, NEW s \in Sweeps, run[s].to \in Addresses, Arrives(s)
    PROVE  /\ mailed' \in [Days -> [Addresses -> Nat]]
           /\ reminded' \in [Days -> [Pairs -> Nat]]
           /\ links' \in [Pairs -> SUBSET Links]
           /\ owed' \subseteq Pairs
<1>1. run[s].day \in Days
  BY DEF TypeOK, Runs
<1>2. mailed' \in [Days -> [Addresses -> Nat]]
  BY <1>1 DEF TypeOK, Arrives
<1>3. reminded' \in [Days -> [Pairs -> Nat]]
  BY <1>1 DEF TypeOK, Arrives
<1>4. \A l \in Links : [l EXCEPT !.held = TRUE] \in Links
  BY DEF Links
<1>5. ASSUME NEW p \in Pairs
      PROVE  {IF l.by = s THEN [l EXCEPT !.held = TRUE] ELSE l : l \in links[p]} \in SUBSET Links
  <2>1. links[p] \subseteq Links
    BY DEF TypeOK
  <2> QED
    BY <1>4, <2>1
<1>6. links' \in [Pairs -> SUBSET Links]
  BY <1>5 DEF Arrives
<1> QED
  BY <1>2, <1>3, <1>6 DEF TypeOK, Arrives

LEMMA MailTyped ==
    ASSUME TypeOK, NEW s \in Sweeps, run[s].to \in Addresses, Mail(s) PROVE TypeOK'
<1>r. run[s] \in Runs
  BY DEF TypeOK
<1>1. [run[s] EXCEPT !.pc = "settle", !.rest = run[s].mine] \in Runs
  BY <1>r DEF Runs, Stages
<1>2. run' \in [Sweeps -> Runs]
  BY <1>1, BecomesFrame DEF TypeOK, Mail
<1> QED
  BY <1>2, ArrivesTyped DEF TypeOK, Mail, worldVars

LEMMA SuppressedTyped ==
    ASSUME TypeOK, NEW s \in Sweeps, Suppressed(s) PROVE TypeOK'
<1>r. run[s] \in Runs
  BY DEF TypeOK
<1>1. [run[s] EXCEPT !.pc = "undo", !.verdict = "suppressed"] \in Runs
  BY <1>r DEF Runs, Stages
<1>2. run' \in [Sweeps -> Runs]
  BY <1>1, BecomesFrame DEF TypeOK, Suppressed
<1> QED
  BY <1>2 DEF TypeOK, Suppressed, worldVars

LEMMA MailFailsTyped ==
    ASSUME TypeOK, NEW s \in Sweeps, run[s].to \in Addresses, MailFails(s) PROVE TypeOK'
<1>1. PICK keep \in BOOLEAN :
          /\ Becomes(s, [run[s] EXCEPT !.pc = "undo", !.verdict = "failed", !.keep = keep])
          /\ \/ Arrives(s)
             \/ UNCHANGED <<links, mailed, reminded, owed>>
  BY DEF MailFails
<1>r. run[s] \in Runs
  BY DEF TypeOK
<1>2. [run[s] EXCEPT !.pc = "undo", !.verdict = "failed", !.keep = keep] \in Runs
  BY <1>r DEF Runs, Stages
<1>3. run' \in [Sweeps -> Runs]
  BY <1>1, <1>2, BecomesFrame DEF TypeOK
<1>4. failures' \in 0..MaxFailures
  BY FailsTyped DEF MailFails
<1>5. /\ mailed' \in [Days -> [Addresses -> Nat]]
      /\ reminded' \in [Days -> [Pairs -> Nat]]
      /\ links' \in [Pairs -> SUBSET Links]
      /\ owed' \subseteq Pairs
  <2>1. CASE Arrives(s)
    BY <2>1, ArrivesTyped
  <2>2. CASE UNCHANGED <<links, mailed, reminded, owed>>
    BY <2>2 DEF TypeOK
  <2> QED
    BY <1>1, <2>1, <2>2
<1> QED
  BY <1>3, <1>4, <1>5 DEF TypeOK, MailFails, worldVars

\* The verdicts are statuses of a claim.
LEMMA VerdictTyped ==
    ASSUME TypeOK, NEW s \in Sweeps
    PROVE  run[s].verdict \in {"failed", "suppressed", "skipped"} /\ run[s].verdict \in Claims
BY DEF TypeOK, Runs, Claims

LEMMA UndoTyped ==
    ASSUME TypeOK, NEW s \in Sweeps, Undo(s) PROVE TypeOK'
<1>1. run' \in [Sweeps -> Runs]
  BY NextAddressFrame DEF TypeOK, Undo
<1>2. claim' \in [Days -> [Pairs -> Claims]]
  BY MarkedTyped, VerdictTyped DEF TypeOK, Undo
<1>3. links' \in [Pairs -> SUBSET Links]
  <2>1. /\ Forgotten(s) \in [Pairs -> SUBSET Links]
        /\ Revoked(s) \in [Pairs -> SUBSET Links]
    BY LetGoTyped DEF TypeOK, Forgotten, Revoked
  <2> QED
    BY <2>1 DEF Undo, Leftover
<1> QED
  BY <1>1, <1>2, <1>3 DEF TypeOK, Undo, worldVars

LEMMA UndoFailsTyped ==
    ASSUME TypeOK, NEW s \in Sweeps, UndoFails(s) PROVE TypeOK'
<1>1. run' \in [Sweeps -> Runs]
  BY NextAddressFrame DEF TypeOK, UndoFails
<1>2. claim' \in [Days -> [Pairs -> Claims]]
  <2>1. CASE UNCHANGED claim
    BY <2>1 DEF TypeOK
  <2>2. CASE claim' \in {Marked(s, c, run[s].verdict) : c \in SUBSET run[s].mine}
    BY <2>2, MarkedTyped, VerdictTyped DEF TypeOK
  <2> QED
    BY <2>1, <2>2 DEF UndoFails
<1>3. links' \in [Pairs -> SUBSET Links]
  <2>1. /\ Forgotten(s) \in [Pairs -> SUBSET Links]
        /\ Revoked(s) \in [Pairs -> SUBSET Links]
    BY LetGoTyped DEF TypeOK, Forgotten, Revoked
  <2> QED
    BY <2>1 DEF UndoFails, Leftover
<1>4. failures' \in 0..MaxFailures
  BY FailsTyped DEF UndoFails
<1> QED
  BY <1>1, <1>2, <1>3, <1>4 DEF TypeOK, UndoFails, worldVars

\* A pair is done with, or the address is.
LEMMA IsSettledTyped ==
    ASSUME TypeOK, NEW s \in Sweeps, NEW p \in run[s].rest, IsSettled(s, p)
    PROVE  run' \in [Sweeps -> Runs]
<1>r. run[s] \in Runs
  BY DEF TypeOK
<1>1. [run[s] EXCEPT !.rest = @ \ {p}, !.fresh = @ \ {p}] \in Runs
  BY <1>r DEF Runs
<1> QED
  BY <1>1, BecomesFrame, NextAddressFrame DEF TypeOK, IsSettled

LEMMA SettleTyped ==
    ASSUME TypeOK, NEW s \in Sweeps, Settle(s) PROVE TypeOK'
<1>1. PICK p \in run[s].rest :
          links' = Replaced(s, p) /\ claim' = Marked(s, {p}, "sent") /\ IsSettled(s, p)
  BY DEF Settle
<1>2. p \in Pairs
  BY DEF TypeOK, Runs
<1>3. run' \in [Sweeps -> Runs]
  BY <1>1, IsSettledTyped
<1>4. links' \in [Pairs -> SUBSET Links]
  BY <1>1, <1>2, LinksTyped DEF TypeOK
<1>5. claim' \in [Days -> [Pairs -> Claims]]
  BY <1>1, MarkedTyped DEF TypeOK, Claims
<1> QED
  BY <1>3, <1>4, <1>5 DEF TypeOK, Settle, worldVars

LEMMA SettleFailsTyped ==
    ASSUME TypeOK, NEW s \in Sweeps, SettleFails(s) PROVE TypeOK'
<1>1. PICK p \in run[s].rest :
          /\ \/ links' = Replaced(s, p)
             \/ links' = [links EXCEPT ![p] = LetGo(s, links[p])]
          /\ IsSettled(s, p)
  BY DEF SettleFails
<1>2. p \in Pairs
  BY DEF TypeOK, Runs
<1>3. run' \in [Sweeps -> Runs]
  BY <1>1, IsSettledTyped
<1>4. links' \in [Pairs -> SUBSET Links]
  <2>1. /\ Replaced(s, p) \in [Pairs -> SUBSET Links]
        /\ [links EXCEPT ![p] = LetGo(s, links[p])] \in [Pairs -> SUBSET Links]
    BY <1>2, LinksTyped DEF TypeOK
  <2> QED
    BY <1>1, <2>1
<1>5. failures' \in 0..MaxFailures
  BY FailsTyped DEF SettleFails
<1> QED
  BY <1>3, <1>4, <1>5 DEF TypeOK, SettleFails, worldVars

LEMMA DiesTyped ==
    ASSUME TypeOK, NEW s \in Sweeps, Dies(s) PROVE TypeOK'
<1>1. run' \in [Sweeps -> Runs]
  BY IdleTyped, BecomesFrame DEF TypeOK, Dies
<1>2. links' \in [Pairs -> SUBSET Links]
  BY LetGoTyped DEF TypeOK, Dies, Forgotten
<1>3. failures' \in 0..MaxFailures
  BY FailsTyped DEF Dies
<1> QED
  BY <1>1, <1>2, <1>3 DEF TypeOK, Dies, worldVars

LEMMA NewDayTyped ==
    ASSUME TypeOK, NewDay PROVE TypeOK'
<1> DEFINE aged(p, night) == {[l EXCEPT !.age = IF @ = "today" /\ night THEN "night" ELSE "old"] : l \in links[p]}
<1>1. PICK young \in SUBSET Pairs : links' = [p \in Pairs |-> aged(p, p \in young)]
  BY DEF NewDay
<1>2. ASSUME NEW p \in Pairs PROVE aged(p, p \in young) \in SUBSET Links
  <2>1. SUFFICES ASSUME NEW l \in links[p]
                 PROVE  [l EXCEPT !.age = IF l.age = "today" /\ p \in young THEN "night" ELSE "old"] \in Links
    OBVIOUS
  <2>2. l \in Links
    BY DEF TypeOK
  <2> QED
    BY <2>2 DEF Links, Ages
<1> HIDE DEF aged
<1>3. links' \in [Pairs -> SUBSET Links]
  BY <1>1, <1>2
<1>4. failures' \in 0..MaxFailures
  BY FailsTyped DEF TypeOK, NewDay
<1>5. day' \in Days /\ 1 - day \in Days
  BY DEF TypeOK, NewDay, Days
<1>6. NewClaims \in [Pairs -> Claims]
  BY DEF NewClaims, Claims
<1>7. /\ claim' \in [Days -> [Pairs -> Claims]] /\ taken' \in [Days -> SUBSET Addresses]
      /\ mailed' \in [Days -> [Addresses -> Nat]] /\ reminded' \in [Days -> [Pairs -> Nat]]
  BY <1>5, <1>6 DEF TypeOK, NewDay
<1> QED
  BY <1>3, <1>4, <1>5, <1>7, RemindersAssumption DEF TypeOK, NewDay

\* Hours, the office and the suppliers touch links, addresses and bookkeeping.
LEMMA HoursPassTyped ==
    ASSUME TypeOK, NEW p \in Pairs, HoursPass(p) PROVE TypeOK'
<1> DEFINE later == {[l EXCEPT !.age = IF @ = "night" THEN "old" ELSE @] : l \in links[p]}
<1>1. later \in SUBSET Links
  <2>1. SUFFICES ASSUME NEW l \in links[p]
                 PROVE  [l EXCEPT !.age = IF l.age = "night" THEN "old" ELSE l.age] \in Links
    OBVIOUS
  <2>2. l \in Links
    BY DEF TypeOK
  <2> QED
    BY <2>2 DEF Links, Ages
<1>2. links' = [links EXCEPT ![p] = later]
  BY DEF HoursPass
<1> HIDE DEF later
<1>3. links' \in [Pairs -> SUBSET Links]
  BY <1>1, <1>2 DEF TypeOK
<1> QED
  BY <1>3 DEF TypeOK, HoursPass, worldVars, sweepVars

LEMMA OfficeLinkTyped ==
    ASSUME TypeOK, NEW p \in Pairs, NEW held \in BOOLEAN
    PROVE  OfficeLink(p, held) \in SUBSET Links
<1>1. SUFFICES ASSUME NEW l \in links[p]
               PROVE  (IF l.by = "office" THEN [l EXCEPT !.by = "nobody", !.held = held] ELSE l) \in Links
  BY DEF OfficeLink
<1>2. l \in Links
  BY DEF TypeOK
<1>3. [l EXCEPT !.by = "nobody", !.held = held] \in Links
  BY <1>2 DEF Links
<1> QED
  BY <1>2, <1>3

LEMMA OfficeIssuesTyped ==
    ASSUME TypeOK, NEW p \in Pairs, OfficeIssues(p) PROVE TypeOK'
<1>1. PICK byMail \in BOOLEAN :
          /\ links' = [links EXCEPT ![p] = @ \cup {[age |-> "today", byMail |-> byMail, held |-> ~ byMail,
                                                    by |-> IF byMail THEN "office" ELSE "nobody"]}]
          /\ office' = [office EXCEPT ![p] = IF byMail THEN "issued" ELSE "idle"]
          /\ owed' = IF byMail THEN owed ELSE owed \cup {p}
  BY DEF OfficeIssues
<1>2. [age |-> "today", byMail |-> byMail, held |-> ~ byMail,
       by |-> IF byMail THEN "office" ELSE "nobody"] \in Links
  BY DEF Links, Ages
<1>3. links' \in [Pairs -> SUBSET Links]
  BY <1>1, <1>2 DEF TypeOK
<1>4. crossed' \subseteq Pairs
  BY DEF TypeOK, OfficeIssues
<1> QED
  BY <1>1, <1>3, <1>4 DEF TypeOK, OfficeIssues, sweepVars

LEMMA WorldTyped ==
    ASSUME TypeOK, NEW p \in Pairs, World(p) PROVE TypeOK'
<1>1. CASE OfficeRevokes(p)
  BY <1>1 DEF TypeOK, OfficeRevokes, sweepVars
<1>2. CASE OfficeIssues(p)
  BY <1>2, OfficeIssuesTyped
<1>3. CASE OfficeMails(p)
  <2>1. links' \in [Pairs -> SUBSET Links]
    BY <1>3, OfficeLinkTyped DEF TypeOK, OfficeMails
  <2> QED
    BY <1>3, <2>1 DEF TypeOK, OfficeMails, sweepVars
<1>4. CASE OfficeStops(p)
  <2>1. links' \in [Pairs -> SUBSET Links]
    BY <1>4, OfficeLinkTyped DEF TypeOK, OfficeStops
  <2> QED
    BY <1>4, <2>1 DEF TypeOK, OfficeStops, sweepVars
<1>5. CASE Answers(p)
  <2>1. PICK l \in links[p] : links' = [links EXCEPT ![p] = @ \ {l}]
    BY <1>5 DEF Answers
  <2>2. links' \in [Pairs -> SUBSET Links]
    BY <2>1 DEF TypeOK
  <2>3. answered' \subseteq Offers
    <3>1. OfferOf[p] \in Offers
      BY RemindersAssumption
    <3>2. answered' = answered \cup {OfferOf[p]} /\ answered \subseteq Offers
      BY <1>5 DEF TypeOK, Answers
    <3> QED
      BY <3>1, <3>2
  <2> QED
    BY <1>5, <2>2, <2>3 DEF TypeOK, Answers, sweepVars
<1>6. CASE Expires(p)
  BY <1>6 DEF TypeOK, Expires, worldVars, sweepVars
<1>7. CASE Moves(p)
  BY <1>7 DEF TypeOK, Moves, sweepVars
<1> QED
  BY <1>1, <1>2, <1>3, <1>4, <1>5, <1>6, <1>7 DEF World

LEMMA TogglesTyped == ASSUME TypeOK, Toggles PROVE TypeOK'
BY RemindersAssumption DEF TypeOK, Toggles, sweepVars

LEMMA StutterTyped == ASSUME TypeOK, UNCHANGED vars PROVE TypeOK'
BY DEF TypeOK, vars

-----------------------------------------------------------------------------
(* The inductive invariant.                                                *)

\* The stages in which a sweep has an address in hand, and those before its mail.
Working == {"claim", "issue", "mail", "settle", "undo"}
BeforeMail == {"claim", "issue", "mail"}

\* What a sweep has in hand was claimed by it, and its rows say so until it is
\* done with them.
Owns(s) ==
    /\ run[s].pc = "next" => run[s].mine = {}
    /\ run[s].pc \in Working =>
          /\ run[s].to \in taken[run[s].day]
          /\ \A p \in run[s].mine : claim[run[s].day][p] # "none"
          /\ run[s].pc # "settle" => \A p \in run[s].mine : claim[run[s].day][p] = "claimed"
          /\ run[s].pc = "settle" =>
                \A p \in run[s].rest : p \in run[s].mine /\ claim[run[s].day][p] = "claimed"

\* Two sweeps of a day have neither an address nor a pair in common.
Apart(s, t) ==
    s # t /\ run[s].pc \in Working /\ run[t].pc \in Working /\ run[s].day = run[t].day =>
        run[s].to # run[t].to /\ run[s].mine \cap run[t].mine = {}

\* What a sweep has in hand was not mailed before its mail, and was after it.
Tells(s) ==
    /\ run[s].pc \in BeforeMail =>
          /\ mailed[run[s].day][run[s].to] = 0
          /\ \A p \in run[s].mine : reminded[run[s].day][p] = 0
    /\ run[s].pc = "undo" /\ run[s].verdict # "failed" =>
          \A p \in run[s].mine : reminded[run[s].day][p] = 0
    /\ run[s].pc = "settle" => \A p \in run[s].mine : reminded[run[s].day][p] > 0

\* Nothing was mailed that was not claimed.
Claimed ==
    \A d \in Days :
        /\ \A a \in Addresses : a \notin taken[d] => mailed[d][a] = 0
        /\ \A p \in Pairs : claim[d][p] = "none" => reminded[d][p] = 0

Inv ==
    /\ TypeOK
    /\ \A s \in Sweeps : Owns(s) /\ Tells(s)
    /\ \A s, t \in Sweeps : Apart(s, t)
    /\ Claimed
    /\ OneLetterADay
    /\ ClaimsTellTheTruth

-----------------------------------------------------------------------------
(* Steps that leave the sweep's own state alone, and steps of one sweep.   *)

\* The invariant speaks of the rows and the runs only.
LEMMA SweepStateKept == ASSUME Inv, TypeOK', UNCHANGED sweepVars PROVE Inv'
BY DEF Inv, Owns, Apart, Tells, Claimed, OneLetterADay, ClaimsTellTheTruth, sweepVars

\* Other sweeps have neither the address nor the pairs of this one.
LEMMA OthersApart ==
    ASSUME Inv, NEW s \in Sweeps, NEW t \in Sweeps \ {s}, run[s].pc \in Working, run[t].pc \in Working
    PROVE  run[t].day = run[s].day => run[t].to # run[s].to /\ run[t].mine \cap run[s].mine = {}
BY DEF Inv, Apart

LEMMA InitInv == Init => Inv
<1> SUFFICES ASSUME Init PROVE Inv
  OBVIOUS
<1>1. \A s \in Sweeps : run[s].pc = "idle"
  BY DEF Init, Idle
<1>2. \A s, t \in Sweeps : Apart(s, t)
  BY <1>1 DEF Apart, Working
<1>3. \A s \in Sweeps : Owns(s) /\ Tells(s)
  BY <1>1 DEF Owns, Tells, Working, BeforeMail
<1>4. Claimed /\ OneLetterADay /\ ClaimsTellTheTruth
  BY DEF Init, Claimed, OneLetterADay, ClaimsTellTheTruth
<1> QED
  BY <1>2, <1>3, <1>4, InitTyped DEF Inv

\* A step that moves one sweep to where it holds nothing, and leaves the rows.
LEMMA Released ==
    ASSUME Inv, TypeOK', NEW s \in Sweeps, run'[s].pc \notin Working,
           run'[s].pc = "next" => run'[s].mine = {},
           \A t \in Sweeps \ {s} : run'[t] = run[t],
           UNCHANGED <<claim, taken, mailed, reminded>>
    PROVE  Inv'
<1>1. \A t \in Sweeps : Owns(t)' /\ Tells(t)'
  BY DEF Inv, Owns, Tells, Working, BeforeMail
<1>2. \A t, u \in Sweeps : Apart(t, u)'
  BY DEF Inv, Apart
<1>3. (Claimed /\ OneLetterADay /\ ClaimsTellTheTruth)'
  BY DEF Inv, Claimed, OneLetterADay, ClaimsTellTheTruth
<1> QED
  BY <1>1, <1>2, <1>3 DEF Inv

LEMMA StartInv ==
    ASSUME Inv, NEW s \in Sweeps, Start(s) PROVE Inv'
<1>1. TypeOK'
  BY StartTyped DEF Inv
<1>2. PICK c : Becomes(s, IF c = {} THEN Idle
                          ELSE [Idle EXCEPT !.pc = "next", !.day = day,
                                            !.todo = {<<p, email[p]>> : p \in c}])
  BY DEF Start
<1> DEFINE todo == {<<p, email[p]>> : p \in c}
<1>3. Becomes(s, IF c = {} THEN Idle ELSE [Idle EXCEPT !.pc = "next", !.day = day, !.todo = todo])
  BY <1>2
<1> HIDE DEF todo
<1>4. /\ run'[s].pc \notin Working
      /\ run'[s].pc = "next" => run'[s].mine = {}
      /\ \A t \in Sweeps \ {s} : run'[t] = run[t]
  BY <1>3 DEF Inv, TypeOK, Becomes, Idle, Working
<1> QED
  BY <1>1, <1>4, Released DEF Start

LEMMA FinishInv ==
    ASSUME Inv, NEW s \in Sweeps, Finish(s) PROVE Inv'
<1>1. TypeOK'
  BY FinishTyped DEF Inv
<1>2. /\ run'[s].pc \notin Working
      /\ run'[s].pc = "next" => run'[s].mine = {}
      /\ \A t \in Sweeps \ {s} : run'[t] = run[t]
  BY DEF Inv, TypeOK, Finish, Becomes, Idle, Working
<1> QED
  BY <1>1, <1>2, Released DEF Finish

LEMMA DiesInv ==
    ASSUME Inv, NEW s \in Sweeps, Dies(s) PROVE Inv'
<1>1. TypeOK'
  BY DiesTyped DEF Inv
<1>2. /\ run'[s].pc \notin Working
      /\ run'[s].pc = "next" => run'[s].mine = {}
      /\ \A t \in Sweeps \ {s} : run'[t] = run[t]
  BY DEF Inv, TypeOK, Dies, Becomes, Idle, Working
<1> QED
  BY <1>1, <1>2, Released DEF Dies

LEMMA TakeAddressInv ==
    ASSUME Inv, NEW s \in Sweeps, TakeAddress(s) PROVE Inv'
<1>1. TypeOK'
  BY TakeAddressTyped DEF Inv
<1>2. PICK a \in Addresses :
          \/ /\ a \notin taken[day]
             /\ taken' = [taken EXCEPT ![day] = @ \cup {a}]
             /\ run'[s].pc = "claim" /\ run'[s].to = a
             /\ run'[s].day = run[s].day /\ run'[s].mine = run[s].mine
             /\ \A t \in Sweeps \ {s} : run'[t] = run[t]
          \/ /\ run'[s].pc = "next" /\ run'[s].mine = run[s].mine
             /\ \A t \in Sweeps \ {s} : run'[t] = run[t]
             /\ UNCHANGED taken
  <2>1. run \in [Sweeps -> Runs] /\ run[s] \in Runs /\ run[s].todo \in SUBSET (Pairs \X Addresses)
    BY DEF Inv, TypeOK, Runs
  <2>2. PICK a \in {t[2] : t \in run[s].todo} :
            \/ /\ AddressFree(s, a)
               /\ taken' = [taken EXCEPT ![day] = @ \cup {a}]
               /\ Becomes(s, [run[s] EXCEPT !.pc = "claim", !.to = a,
                                !.todo = @ \ {t \in run[s].todo : t[2] = a},
                                !.rest = {t[1] : t \in {t \in run[s].todo : t[2] = a}}])
            \/ /\ Becomes(s, [run[s] EXCEPT !.todo = @ \ {t \in run[s].todo : t[2] = a}])
               /\ UNCHANGED taken
    BY DEF TakeAddress
  <2>3. a \in Addresses
    BY <2>1
  <2> DEFINE todo == run[s].todo \ {t \in run[s].todo : t[2] = a}
             rest == {t[1] : t \in {t \in run[s].todo : t[2] = a}}
  <2>4. \/ /\ AddressFree(s, a)
           /\ taken' = [taken EXCEPT ![day] = @ \cup {a}]
           /\ Becomes(s, [run[s] EXCEPT !.pc = "claim", !.to = a, !.todo = todo, !.rest = rest])
        \/ Becomes(s, [run[s] EXCEPT !.todo = todo]) /\ UNCHANGED taken
    BY <2>2
  <2> HIDE DEF todo, rest
  <2>5. run[s].pc = "next" /\ run[s].day = day
    BY DEF TakeAddress, At
  <2>6. CASE /\ AddressFree(s, a)
             /\ taken' = [taken EXCEPT ![day] = @ \cup {a}]
             /\ Becomes(s, [run[s] EXCEPT !.pc = "claim", !.to = a, !.todo = todo, !.rest = rest])
    BY <2>1, <2>3, <2>5, <2>6 DEF Becomes, AddressFree, Runs
  <2>7. CASE Becomes(s, [run[s] EXCEPT !.todo = todo]) /\ UNCHANGED taken
    BY <2>1, <2>3, <2>5, <2>7 DEF Becomes, Runs
  <2> QED
    BY <2>4, <2>6, <2>7
<1>3. run[s].pc = "next" /\ run[s].day = day /\ run[s].mine = {} /\ day \in Days
  BY DEF Inv, Owns, TypeOK, TakeAddress, At
<1>4. UNCHANGED <<claim, mailed, reminded>>
  BY DEF TakeAddress
<1>5. CASE UNCHANGED taken
  <2>1. /\ run'[s].pc \notin Working \/ run'[s].pc = "claim"
        /\ a \notin taken[day] \/ run'[s].pc = "next"
    BY <1>2 DEF Working
  <2>2. run'[s].pc = "next"
    <3>1. taken \in [Days -> SUBSET Addresses]
      BY DEF Inv, TypeOK
    <3> QED
      BY <1>2, <1>3, <1>5, <3>1
  <2> QED
    BY <1>1, <1>2, <1>3, <1>4, <1>5, <2>2, Released DEF Working
<1>6. CASE /\ a \notin taken[day]
           /\ taken' = [taken EXCEPT ![day] = @ \cup {a}]
           /\ run'[s].pc = "claim" /\ run'[s].to = a
           /\ run'[s].day = day /\ run'[s].mine = {}
           /\ \A t \in Sweeps \ {s} : run'[t] = run[t]
  <2>1. \A d \in Days : taken[d] \subseteq taken'[d]
    BY <1>3, <1>6 DEF Inv, TypeOK
  <2>2. Owns(s)' /\ Tells(s)'
    BY <1>3, <1>4, <1>6 DEF Inv, TypeOK, Owns, Tells, Claimed, Working, BeforeMail
  <2>3. ASSUME NEW t \in Sweeps \ {s} PROVE Owns(t)' /\ Tells(t)'
    <3>1. Owns(t) /\ Tells(t) /\ run'[t] = run[t] /\ run[t].day \in Days
      BY <1>6 DEF Inv, TypeOK, Runs
    <3> QED
      BY <1>4, <2>1, <3>1 DEF Owns, Tells
  <2>4. ASSUME NEW t \in Sweeps \ {s} PROVE Apart(s, t)' /\ Apart(t, s)'
    <3>1. Owns(t) /\ run'[t] = run[t]
      BY <1>6 DEF Inv
    <3> QED
      BY <1>6, <3>1 DEF Owns, Apart
  <2>5. \A t, u \in Sweeps : Apart(t, u)'
    <3>1. SUFFICES ASSUME NEW t \in Sweeps, NEW u \in Sweeps PROVE Apart(t, u)'
      OBVIOUS
    <3>2. CASE t = u
      BY <3>2 DEF Apart
    <3>3. CASE t # s /\ u # s
      BY <1>6, <3>3 DEF Inv, Apart
    <3> QED
      BY <2>4, <3>2, <3>3
  <2>6. (Claimed /\ OneLetterADay /\ ClaimsTellTheTruth)'
    BY <1>4, <2>1 DEF Inv, TypeOK, Claimed, OneLetterADay, ClaimsTellTheTruth
  <2> QED
    BY <1>1, <2>2, <2>3, <2>5, <2>6 DEF Inv
<1> QED
  BY <1>2, <1>3, <1>5, <1>6

\* A step of s that writes only about what s has in hand, or claims free pairs,
\* leaves the other sweeps with what they have.
LEMMA OthersKept ==
    ASSUME Inv, TypeOK', NEW s \in Sweeps, run[s].pc \in Working,
           \A t \in Sweeps \ {s} : run'[t] = run[t],
           UNCHANGED taken,
           \A d \in Days, p \in Pairs : claim'[d][p] # claim[d][p] =>
               d = run[s].day /\ (p \in run[s].mine \/ claim[d][p] = "none"),
           \A d \in Days, a \in Addresses : mailed'[d][a] # mailed[d][a] =>
               d = run[s].day /\ a = run[s].to,
           \A d \in Days, p \in Pairs : reminded'[d][p] # reminded[d][p] =>
               d = run[s].day /\ p \in run[s].mine,
           run'[s].pc \in Working =>
               /\ run'[s].day = run[s].day /\ run'[s].to = run[s].to
               /\ \A p \in run'[s].mine : p \in run[s].mine \/ claim[run[s].day][p] = "none"
    PROVE  /\ \A t \in Sweeps \ {s} : Owns(t)' /\ Tells(t)'
           /\ \A t, u \in Sweeps : Apart(t, u)'
<1>1. ASSUME NEW t \in Sweeps \ {s} PROVE Owns(t)' /\ Tells(t)'
  <2>1. /\ run'[t] = run[t] /\ Owns(t) /\ Tells(t)
        /\ run[t].day \in Days /\ run[t].mine \subseteq Pairs
    BY DEF Inv, TypeOK, Runs
  <2>2. CASE run[t].pc \notin Working
    BY <2>1, <2>2 DEF Owns, Tells, Working, BeforeMail
  <2>3. CASE run[t].pc \in Working
    <3>1. run[t].to \in taken[run[t].day] /\ run[t].to \in Addresses
      BY <2>1, <2>3 DEF Inv, TypeOK, Owns
    <3>2. run[t].day = run[s].day => run[t].to # run[s].to /\ run[t].mine \cap run[s].mine = {}
      BY <2>3, OthersApart
    <3>3. \A p \in run[t].mine : /\ claim'[run[t].day][p] = claim[run[t].day][p]
                                 /\ reminded'[run[t].day][p] = reminded[run[t].day][p]
      BY <2>1, <2>3, <3>2 DEF Owns
    <3>4. mailed'[run[t].day][run[t].to] = mailed[run[t].day][run[t].to]
      BY <2>1, <3>1, <3>2
    <3> QED
      BY <2>1, <3>1, <3>3, <3>4 DEF Owns, Tells
  <2> QED
    BY <2>2, <2>3
<1>2. ASSUME NEW t \in Sweeps \ {s} PROVE Apart(s, t)' /\ Apart(t, s)'
  <2>1. run'[t] = run[t] /\ Owns(t) /\ run[t].mine \subseteq Pairs
    BY DEF Inv, TypeOK, Runs
  <2>2. CASE run[t].pc \in Working /\ run'[s].pc \in Working /\ run[t].day = run[s].day
    <3>1. run[t].to # run[s].to /\ run[t].mine \cap run[s].mine = {}
      BY <2>2, OthersApart
    <3>2. run[t].mine \cap run'[s].mine = {}
      BY <2>1, <2>2, <3>1 DEF Owns
    <3> QED
      BY <2>1, <2>2, <3>1, <3>2 DEF Apart
  <2> QED
    BY <2>1, <2>2 DEF Apart
<1>3. ASSUME NEW t \in Sweeps, NEW u \in Sweeps PROVE Apart(t, u)'
  <2>1. CASE t = u
    BY <2>1 DEF Apart
  <2>2. CASE t # s /\ u # s
    BY <2>2 DEF Inv, Apart
  <2> QED
    BY <1>2, <2>1, <2>2
<1> QED
  BY <1>1, <1>3

LEMMA ClaimPairInv ==
    ASSUME Inv, NEW s \in Sweeps, ClaimPair(s) PROVE Inv'
<1>1. TypeOK'
  BY ClaimPairTyped DEF Inv
<1>2. run[s] \in Runs /\ run[s].pc = "claim" /\ run[s].pc \in Working /\ run[s].day \in Days
  BY DEF Inv, TypeOK, Runs, ClaimPair, At, Working
<1>3. PICK p \in run[s].rest :
          \/ /\ Claimable(s, p)
             /\ claim' = Marked(s, {p}, "claimed")
             /\ Becomes(s, [run[s] EXCEPT !.rest = @ \ {p}, !.mine = @ \cup {p}])
          \/ Becomes(s, [run[s] EXCEPT !.rest = @ \ {p}]) /\ UNCHANGED claim
  BY DEF ClaimPair
<1>4. p \in Pairs
  BY <1>2 DEF Runs
<1>5. /\ run'[s].pc = "claim" /\ run'[s].day = run[s].day /\ run'[s].to = run[s].to
      /\ \A t \in Sweeps \ {s} : run'[t] = run[t]
      /\ \/ /\ claim[run[s].day][p] = "none" /\ run'[s].mine = run[s].mine \cup {p}
            /\ \A d \in Days, q \in Pairs :
                  claim'[d][q] = IF d = run[s].day /\ q = p THEN "claimed" ELSE claim[d][q]
         \/ claim' = claim /\ run'[s].mine = run[s].mine
  <2>1. run \in [Sweeps -> Runs]
    BY DEF Inv, TypeOK
  <2>2. CASE /\ Claimable(s, p)
             /\ claim' = Marked(s, {p}, "claimed")
             /\ Becomes(s, [run[s] EXCEPT !.rest = @ \ {p}, !.mine = @ \cup {p}])
    <3>1. /\ run'[s].pc = "claim" /\ run'[s].day = run[s].day /\ run'[s].to = run[s].to
          /\ \A t \in Sweeps \ {s} : run'[t] = run[t]
          /\ run'[s].mine = run[s].mine \cup {p}
      BY <1>2, <2>1, <2>2 DEF Becomes, Runs
    <3>2. claim[run[s].day][p] = "none"
      BY <2>2 DEF Claimable
    <3>3. \A d \in Days, q \in Pairs :
              claim'[d][q] = IF d = run[s].day /\ q \in {p} THEN "claimed" ELSE claim[d][q]
      BY <2>2, MarkedTyped DEF Inv, TypeOK, Claims
    <3> QED
      BY <3>1, <3>2, <3>3
  <2>3. CASE Becomes(s, [run[s] EXCEPT !.rest = @ \ {p}]) /\ UNCHANGED claim
    BY <1>2, <2>1, <2>3 DEF Becomes, Runs
  <2> QED
    BY <1>3, <2>2, <2>3
<1>6. UNCHANGED <<taken, mailed, reminded>>
  BY DEF ClaimPair
<1>7. /\ \A t \in Sweeps \ {s} : Owns(t)' /\ Tells(t)'
      /\ \A t, u \in Sweeps : Apart(t, u)'
  BY <1>1, <1>2, <1>5, <1>6, OthersKept
<1>8. Owns(s)' /\ Tells(s)'
  <2>1. Owns(s) /\ Tells(s) /\ Claimed
    BY DEF Inv
  <2>2. reminded[run[s].day][p] = 0 \/ run'[s].mine = run[s].mine
    BY <1>2, <1>4, <1>5, <2>1 DEF Claimed
  <2>3. \A q \in run'[s].mine : q \in Pairs
    BY <1>1, <1>4 DEF TypeOK, Runs
  <2>4. Owns(s)'
    BY <1>2, <1>5, <1>6, <2>1, <2>3 DEF Owns
  <2>5. Tells(s)'
    BY <1>2, <1>5, <1>6, <2>1, <2>2 DEF Tells, BeforeMail
  <2> QED
    BY <2>4, <2>5
<1>9. (Claimed /\ OneLetterADay /\ ClaimsTellTheTruth)'
  BY <1>2, <1>4, <1>5, <1>6 DEF Inv, Claimed, OneLetterADay, ClaimsTellTheTruth
<1> QED
  BY <1>1, <1>7, <1>8, <1>9 DEF Inv

\* Recording an outcome that the mail bears out keeps what is said of the rows.
LEMMA Recorded ==
    ASSUME Inv, UNCHANGED <<taken, mailed, reminded>>,
           \A d \in Days, p \in Pairs : claim'[d][p] # claim[d][p] =>
               /\ claim'[d][p] \in {"skipped", "suppressed"} => reminded[d][p] = 0
               /\ claim'[d][p] = "sent" => reminded[d][p] > 0
               /\ claim'[d][p] # "none"
    PROVE  (Claimed /\ OneLetterADay /\ ClaimsTellTheTruth)'
BY DEF Inv, Claimed, OneLetterADay, ClaimsTellTheTruth

LEMMA RevalidateInv ==
    ASSUME Inv, NEW s \in Sweeps, Revalidate(s) PROVE Inv'
<1>1. TypeOK'
  BY RevalidateTyped DEF Inv
<1>2. /\ run \in [Sweeps -> Runs] /\ run[s] \in Runs /\ run[s].pc = "claim" /\ run[s].pc \in Working
      /\ run[s].day \in Days /\ run[s].mine \subseteq Pairs /\ Stands(s) \subseteq run[s].mine
  BY DEF Inv, TypeOK, Runs, Revalidate, At, Working, Stands
<1>3. /\ \A t \in Sweeps \ {s} : run'[t] = run[t]
      /\ \/ run'[s].pc = "next" /\ run'[s].mine = {}
         \/ /\ run'[s].pc = "issue" /\ run'[s].day = run[s].day /\ run'[s].to = run[s].to
            /\ run'[s].mine = Stands(s)
  <2>1. CASE NextAddress(s)
    BY <1>2, <2>1, NextAddressFrame
  <2>2. CASE Becomes(s, [run[s] EXCEPT !.pc = "issue", !.mine = Stands(s), !.rest = Stands(s)])
    BY <1>2, <2>2 DEF Becomes, Runs
  <2> QED
    BY <2>1, <2>2 DEF Revalidate
<1>4. UNCHANGED <<taken, mailed, reminded>>
  BY DEF Revalidate
<1>5. \A d \in Days, q \in Pairs : claim'[d][q] =
          IF d = run[s].day /\ q \in run[s].mine \ Stands(s) THEN "skipped" ELSE claim[d][q]
  <2>1. claim' = Marked(s, run[s].mine \ Stands(s), "skipped")
    BY DEF Revalidate
  <2> HIDE DEF Stands
  <2> QED
    BY <2>1, MarkedTyped DEF Inv, TypeOK, Claims
<1>6. Owns(s) /\ Tells(s)
  BY DEF Inv
<1>7. \A q \in run[s].mine : reminded[run[s].day][q] = 0
  BY <1>2, <1>6 DEF Tells, BeforeMail
<1>8. /\ \A t \in Sweeps \ {s} : Owns(t)' /\ Tells(t)'
      /\ \A t, u \in Sweeps : Apart(t, u)'
  BY <1>1, <1>2, <1>3, <1>4, <1>5, OthersKept DEF Working
<1>9. Owns(s)' /\ Tells(s)'
  <2>1. CASE run'[s].pc = "next" /\ run'[s].mine = {}
    BY <2>1 DEF Owns, Tells, Working, BeforeMail
  <2>2. CASE /\ run'[s].pc = "issue" /\ run'[s].day = run[s].day /\ run'[s].to = run[s].to
             /\ run'[s].mine = Stands(s)
    <3>1. \A q \in Stands(s) : q \in Pairs /\ claim'[run[s].day][q] = "claimed"
      BY <1>2, <1>5, <1>6 DEF Owns
    <3> QED
      BY <1>2, <1>4, <1>6, <1>7, <2>2, <3>1 DEF Owns, Tells, BeforeMail
  <2> QED
    BY <1>3, <2>1, <2>2
<1>10. (Claimed /\ OneLetterADay /\ ClaimsTellTheTruth)'
  BY <1>4, <1>5, <1>7, Recorded
<1> QED
  BY <1>1, <1>8, <1>9, <1>10 DEF Inv

LEMMA BreaksInv ==
    ASSUME Inv, NEW s \in Sweeps, Breaks(s) PROVE Inv'
<1>1. TypeOK'
  BY BreaksTyped DEF Inv
<1>2. /\ run \in [Sweeps -> Runs] /\ run[s].pc = "claim" /\ run[s].pc \in Working
      /\ run[s].day \in Days /\ run[s].mine \subseteq Pairs
  BY DEF Inv, TypeOK, Runs, Breaks, At, Working
<1>3. /\ \A t \in Sweeps \ {s} : run'[t] = run[t]
      /\ run'[s].pc = "next" /\ run'[s].mine = {}
  BY <1>2, NextAddressFrame DEF Breaks
<1>4. UNCHANGED <<taken, mailed, reminded>>
  BY DEF Breaks
<1>5. \A d \in Days, q \in Pairs : claim'[d][q] # claim[d][q] =>
          /\ d = run[s].day /\ q \in run[s].mine
          /\ claim'[d][q] \in {"failed", "skipped"}
  <2>1. PICK failed \in SUBSET run[s].mine, skipped \in SUBSET (run[s].mine \ Stands(s)) :
            claim' = [claim EXCEPT ![run[s].day] =
                        [p \in Pairs |-> IF p \in failed THEN "failed"
                                         ELSE IF p \in skipped THEN "skipped" ELSE @[p]]]
    BY DEF Breaks
  <2> QED
    BY <1>2, <2>1 DEF Inv, TypeOK
<1>6. \A q \in run[s].mine : reminded[run[s].day][q] = 0
  BY <1>2 DEF Inv, Tells, BeforeMail
<1>7. /\ \A t \in Sweeps \ {s} : Owns(t)' /\ Tells(t)'
      /\ \A t, u \in Sweeps : Apart(t, u)'
  BY <1>1, <1>2, <1>3, <1>4, <1>5, OthersKept DEF Working
<1>8. Owns(s)' /\ Tells(s)'
  BY <1>3 DEF Owns, Tells, Working, BeforeMail
<1>9. (Claimed /\ OneLetterADay /\ ClaimsTellTheTruth)'
  BY <1>4, <1>5, <1>6, Recorded
<1> QED
  BY <1>1, <1>7, <1>8, <1>9 DEF Inv

\* A sweep goes on with what it has, before the mail or, having reported that
\* nothing went out, to the undoing.
LEMMA GoesOn ==
    ASSUME Inv, TypeOK', NEW s \in Sweeps, run[s].pc \in BeforeMail,
           \A t \in Sweeps \ {s} : run'[t] = run[t],
           run'[s].pc \in {"issue", "mail", "undo"},
           run'[s].day = run[s].day, run'[s].to = run[s].to, run'[s].mine = run[s].mine,
           UNCHANGED <<claim, taken, mailed, reminded>>
    PROVE  Inv'
<1>1. run[s].pc \in Working /\ run[s].pc # "settle"
  BY DEF Working, BeforeMail
<1>2. /\ \A t \in Sweeps \ {s} : Owns(t)' /\ Tells(t)'
      /\ \A t, u \in Sweeps : Apart(t, u)'
  BY <1>1, OthersKept
<1>3. Owns(s)' /\ Tells(s)'
  <2>1. Owns(s) /\ Tells(s)
    BY DEF Inv
  <2> QED
    BY <1>1, <2>1 DEF Owns, Tells, Working, BeforeMail
<1>4. (Claimed /\ OneLetterADay /\ ClaimsTellTheTruth)'
  BY Recorded
<1> QED
  BY <1>2, <1>3, <1>4 DEF Inv

LEMMA IssueInv ==
    ASSUME Inv, NEW s \in Sweeps, Issue(s) PROVE Inv'
<1>1. TypeOK'
  BY IssueTyped DEF Inv
<1>2. PICK p \in run[s].rest : Becomes(s, [run[s] EXCEPT !.rest = @ \ {p}, !.fresh = @ \cup {p}])
  BY DEF Issue
<1>3. /\ run'[s].pc = "issue" /\ run[s].pc = "issue"
      /\ run'[s].day = run[s].day /\ run'[s].to = run[s].to /\ run'[s].mine = run[s].mine
      /\ \A t \in Sweeps \ {s} : run'[t] = run[t]
  <2>1. run \in [Sweeps -> Runs] /\ run[s] \in Runs
    BY DEF Inv, TypeOK
  <2> QED
    BY <1>2, <2>1 DEF Becomes, Runs, Issue, At
<1> QED
  BY <1>1, <1>3, GoesOn DEF Issue, BeforeMail

LEMMA CancelInv ==
    ASSUME Inv, NEW s \in Sweeps, Cancel(s) PROVE Inv'
<1>1. TypeOK'
  BY CancelTyped DEF Inv
<1>2. PICK v \in {"failed", "skipped"} : Becomes(s, [run[s] EXCEPT !.pc = "undo", !.verdict = v])
  BY DEF Cancel
<1>3. /\ run'[s].pc = "undo" /\ run[s].pc = "issue"
      /\ run'[s].day = run[s].day /\ run'[s].to = run[s].to /\ run'[s].mine = run[s].mine
      /\ \A t \in Sweeps \ {s} : run'[t] = run[t]
  <2>1. run \in [Sweeps -> Runs] /\ run[s] \in Runs
    BY DEF Inv, TypeOK
  <2> QED
    BY <1>2, <2>1 DEF Becomes, Runs, Cancel, At
<1> QED
  BY <1>1, <1>3, GoesOn DEF Cancel, BeforeMail

LEMMA GoAheadInv ==
    ASSUME Inv, NEW s \in Sweeps, GoAhead(s) PROVE Inv'
<1>1. TypeOK'
  BY GoAheadTyped DEF Inv
<1>2. /\ run'[s].pc = "mail" /\ run[s].pc = "issue"
      /\ run'[s].day = run[s].day /\ run'[s].to = run[s].to /\ run'[s].mine = run[s].mine
      /\ \A t \in Sweeps \ {s} : run'[t] = run[t]
  BY GoesFrame DEF Inv, TypeOK, GoAhead, At, Stages
<1> QED
  BY <1>1, <1>2, GoesOn DEF GoAhead, BeforeMail

LEMMA SuppressedInv ==
    ASSUME Inv, NEW s \in Sweeps, Suppressed(s) PROVE Inv'
<1>1. TypeOK'
  BY SuppressedTyped DEF Inv
<1>2. /\ run'[s].pc = "undo" /\ run[s].pc = "mail"
      /\ run'[s].day = run[s].day /\ run'[s].to = run[s].to /\ run'[s].mine = run[s].mine
      /\ \A t \in Sweeps \ {s} : run'[t] = run[t]
  <2>1. run \in [Sweeps -> Runs] /\ run[s] \in Runs
    BY DEF Inv, TypeOK
  <2> QED
    BY <2>1 DEF Suppressed, Becomes, Runs, At
<1> QED
  BY <1>1, <1>2, GoesOn DEF Suppressed, BeforeMail

\* What the mail of s changes: the counts of the address and the pairs it holds.
LEMMA ArrivesFrame ==
    ASSUME Inv, NEW s \in Sweeps, run[s].pc = "mail", Arrives(s)
    PROVE  /\ \A d \in Days, a \in Addresses : mailed'[d][a] =
                 IF d = run[s].day /\ a = run[s].to THEN mailed[d][a] + 1 ELSE mailed[d][a]
           /\ \A d \in Days, p \in Pairs : reminded'[d][p] =
                 IF d = run[s].day /\ p \in run[s].mine THEN reminded[d][p] + 1 ELSE reminded[d][p]
           /\ run[s].day \in Days /\ run[s].to \in Addresses /\ run[s].to \in taken[run[s].day]
           /\ mailed[run[s].day][run[s].to] = 0
           /\ \A p \in run[s].mine : /\ reminded[run[s].day][p] = 0
                                     /\ claim[run[s].day][p] = "claimed"
           /\ run[s].mine \subseteq Pairs
<1>1. /\ TypeOK /\ Owns(s) /\ Tells(s) /\ run[s].day \in Days /\ run[s].mine \subseteq Pairs
  BY DEF Inv, TypeOK, Runs
<1>2. run[s].to \in taken[run[s].day] /\ run[s].to \in Addresses
  BY <1>1 DEF Owns, TypeOK, Working
<1>3. /\ mailed[run[s].day][run[s].to] = 0
      /\ \A p \in run[s].mine : /\ reminded[run[s].day][p] = 0
                                /\ claim[run[s].day][p] = "claimed"
  BY <1>1 DEF Owns, Tells, Working, BeforeMail
<1>4. /\ mailed \in [Days -> [Addresses -> Nat]] /\ reminded \in [Days -> [Pairs -> Nat]]
  BY <1>1 DEF TypeOK
<1>5. mailed' = [mailed EXCEPT ![run[s].day][run[s].to] = @ + 1]
  BY DEF Arrives
<1>6. \A d \in Days, a \in Addresses : mailed'[d][a] =
          IF d = run[s].day /\ a = run[s].to THEN mailed[d][a] + 1 ELSE mailed[d][a]
  BY <1>1, <1>2, <1>4, <1>5
<1>7. \A d \in Days, p \in Pairs : reminded'[d][p] =
          IF d = run[s].day /\ p \in run[s].mine THEN reminded[d][p] + 1 ELSE reminded[d][p]
  BY <1>1, <1>4 DEF Arrives
<1> QED
  BY <1>1, <1>2, <1>3, <1>6, <1>7

\* After the mail: to the settlement, or to the undoing with failed claims.
LEMMA Mailed ==
    ASSUME Inv, TypeOK', NEW s \in Sweeps, run[s].pc = "mail", Arrives(s),
           \A t \in Sweeps \ {s} : run'[t] = run[t],
           \/ run'[s].pc = "settle" /\ run'[s].rest = run[s].mine
           \/ run'[s].pc = "undo" /\ run'[s].verdict = "failed",
           run'[s].day = run[s].day, run'[s].to = run[s].to, run'[s].mine = run[s].mine,
           UNCHANGED <<claim, taken>>
    PROVE  Inv'
<1>1. run[s].pc \in Working /\ Owns(s)
  BY DEF Inv, Working
<1>2. /\ \A t \in Sweeps \ {s} : Owns(t)' /\ Tells(t)'
      /\ \A t, u \in Sweeps : Apart(t, u)'
  BY <1>1, ArrivesFrame, OthersKept
<1>3. Owns(s)'
  BY <1>1, ArrivesFrame DEF Owns, Working
<1>4. Tells(s)'
  BY <1>1, ArrivesFrame DEF Tells, BeforeMail
<1>5. Claimed' /\ OneLetterADay'
  BY ArrivesFrame DEF Inv, Claimed, OneLetterADay
<1>6. ClaimsTellTheTruth'
  BY ArrivesFrame DEF Inv, TypeOK, ClaimsTellTheTruth
<1> QED
  BY <1>2, <1>3, <1>4, <1>5, <1>6 DEF Inv

LEMMA MailInv ==
    ASSUME Inv, NEW s \in Sweeps, Mail(s) PROVE Inv'
<1>1. run[s].pc = "mail" /\ Arrives(s)
  BY DEF Mail, At
<1>2. TypeOK'
  BY <1>1, ArrivesFrame, MailTyped DEF Inv
<1>3. /\ run'[s].pc = "settle" /\ run'[s].rest = run[s].mine
      /\ run'[s].day = run[s].day /\ run'[s].to = run[s].to /\ run'[s].mine = run[s].mine
      /\ \A t \in Sweeps \ {s} : run'[t] = run[t]
  <2>1. run \in [Sweeps -> Runs] /\ run[s] \in Runs
    BY DEF Inv, TypeOK
  <2> QED
    BY <2>1 DEF Mail, Becomes, Runs
<1> QED
  BY <1>1, <1>2, <1>3, Mailed DEF Mail

LEMMA MailFailsInv ==
    ASSUME Inv, NEW s \in Sweeps, MailFails(s) PROVE Inv'
<1>1. run[s].pc = "mail" /\ run[s].to \in Addresses
  <2>1. run[s].pc = "mail" /\ Owns(s) /\ TypeOK
    BY DEF MailFails, At, Inv
  <2> QED
    BY <2>1 DEF Owns, Working, TypeOK, Runs
<1>2. TypeOK'
  BY <1>1, MailFailsTyped DEF Inv
<1>3. PICK keep \in BOOLEAN :
          /\ Becomes(s, [run[s] EXCEPT !.pc = "undo", !.verdict = "failed", !.keep = keep])
          /\ \/ Arrives(s)
             \/ UNCHANGED <<links, mailed, reminded, owed>>
  BY DEF MailFails
<1>4. /\ run'[s].pc = "undo" /\ run'[s].verdict = "failed"
      /\ run'[s].day = run[s].day /\ run'[s].to = run[s].to /\ run'[s].mine = run[s].mine
      /\ \A t \in Sweeps \ {s} : run'[t] = run[t]
  <2>1. run \in [Sweeps -> Runs] /\ run[s] \in Runs
    BY DEF Inv, TypeOK
  <2> QED
    BY <1>3, <2>1 DEF Becomes, Runs
<1>5. CASE Arrives(s)
  BY <1>1, <1>2, <1>4, <1>5, Mailed DEF MailFails
<1>6. CASE UNCHANGED <<mailed, reminded>>
  BY <1>1, <1>2, <1>4, <1>6, GoesOn DEF MailFails, BeforeMail
<1> QED
  BY <1>3, <1>5, <1>6

\* Undoing records the verdict for some or all of the pairs.
LEMMA Undone ==
    ASSUME Inv, TypeOK', NEW s \in Sweeps, run[s].pc = "undo",
           NextAddress(s), UNCHANGED <<taken, mailed, reminded>>,
           NEW c \in SUBSET run[s].mine, claim' = Marked(s, c, run[s].verdict)
    PROVE  Inv'
<1>1. /\ run \in [Sweeps -> Runs] /\ run[s].day \in Days /\ run[s].mine \subseteq Pairs
      /\ run[s].pc \in Working
  BY DEF Inv, TypeOK, Runs, Working
<1>2. /\ \A t \in Sweeps \ {s} : run'[t] = run[t]
      /\ run'[s].pc = "next" /\ run'[s].mine = {}
  BY <1>1, NextAddressFrame
<1>3. \A d \in Days, q \in Pairs : claim'[d][q] =
          IF d = run[s].day /\ q \in c THEN run[s].verdict ELSE claim[d][q]
  BY MarkedTyped, VerdictTyped DEF Inv, TypeOK
<1>4. run[s].verdict \in {"failed", "suppressed", "skipped"}
  BY VerdictTyped DEF Inv
<1>5. run[s].verdict # "failed" => \A q \in c : reminded[run[s].day][q] = 0
  BY DEF Inv, Tells
<1>6. /\ \A t \in Sweeps \ {s} : Owns(t)' /\ Tells(t)'
      /\ \A t, u \in Sweeps : Apart(t, u)'
  BY <1>1, <1>2, <1>3, OthersKept DEF Working
<1>7. Owns(s)' /\ Tells(s)'
  BY <1>2 DEF Owns, Tells, Working, BeforeMail
<1>8. (Claimed /\ OneLetterADay /\ ClaimsTellTheTruth)'
  BY <1>3, <1>4, <1>5, Recorded
<1> QED
  BY <1>6, <1>7, <1>8 DEF Inv

LEMMA UndoInv ==
    ASSUME Inv, NEW s \in Sweeps, Undo(s) PROVE Inv'
<1>1. TypeOK'
  BY UndoTyped DEF Inv
<1>2. run[s].pc = "undo" /\ run[s].mine \in SUBSET run[s].mine
  BY DEF Undo, At
<1> QED
  BY <1>1, <1>2, Undone DEF Undo

LEMMA UndoFailsInv ==
    ASSUME Inv, NEW s \in Sweeps, UndoFails(s) PROVE Inv'
<1>1. TypeOK'
  BY UndoFailsTyped DEF Inv
<1>2. run[s].pc = "undo"
  BY DEF UndoFails, At
<1>3. CASE claim' \in {Marked(s, c, run[s].verdict) : c \in SUBSET run[s].mine}
  BY <1>1, <1>2, <1>3, Undone DEF UndoFails
<1>4. CASE UNCHANGED claim
  <2>1. /\ \A t \in Sweeps \ {s} : run'[t] = run[t]
        /\ run'[s].pc = "next" /\ run'[s].mine = {}
    BY NextAddressFrame DEF Inv, TypeOK, UndoFails
  <2> QED
    BY <1>1, <1>4, <2>1, Released DEF UndoFails, Working
<1> QED
  BY <1>3, <1>4 DEF UndoFails

\* What is settled stays with the sweep until it goes to the next address.
LEMMA SettledFrame ==
    ASSUME Inv, NEW s \in Sweeps, run[s].pc = "settle", NEW p \in run[s].rest, IsSettled(s, p)
    PROVE  /\ \A t \in Sweeps \ {s} : run'[t] = run[t]
           /\ \/ run'[s].pc = "next" /\ run'[s].mine = {}
              \/ /\ run'[s].pc = "settle" /\ run'[s].rest = run[s].rest \ {p}
                 /\ run'[s].day = run[s].day /\ run'[s].to = run[s].to
                 /\ run'[s].mine = run[s].mine
<1>1. run \in [Sweeps -> Runs] /\ run[s] \in Runs
  BY DEF Inv, TypeOK
<1>2. CASE NextAddress(s)
  BY <1>1, <1>2, NextAddressFrame
<1>3. CASE Becomes(s, [run[s] EXCEPT !.rest = @ \ {p}, !.fresh = @ \ {p}])
  BY <1>1, <1>3 DEF Becomes, Runs
<1> QED
  BY <1>2, <1>3 DEF IsSettled

\* A pair is settled, and its claim becomes sent or stays.
LEMMA SettledInv ==
    ASSUME Inv, TypeOK', NEW s \in Sweeps, run[s].pc = "settle",
           NEW p \in run[s].rest, IsSettled(s, p),
           UNCHANGED <<taken, mailed, reminded>>,
           \A d \in Days, q \in Pairs : claim'[d][q] # claim[d][q] =>
               d = run[s].day /\ q = p /\ claim'[d][q] = "sent"
    PROVE  Inv'
<1>1. /\ run[s].pc \in Working /\ run[s].mine \subseteq Pairs /\ p \in run[s].mine
      /\ run[s].day \in Days /\ Owns(s) /\ Tells(s)
  BY DEF Inv, TypeOK, Runs, Owns, Working
<1>2. /\ \A t \in Sweeps \ {s} : run'[t] = run[t]
      /\ \/ run'[s].pc = "next" /\ run'[s].mine = {}
         \/ /\ run'[s].pc = "settle" /\ run'[s].rest = run[s].rest \ {p}
            /\ run'[s].day = run[s].day /\ run'[s].to = run[s].to
            /\ run'[s].mine = run[s].mine
  BY SettledFrame
<1>3. /\ \A t \in Sweeps \ {s} : Owns(t)' /\ Tells(t)'
      /\ \A t, u \in Sweeps : Apart(t, u)'
  BY <1>1, <1>2, OthersKept DEF Working
<1>4. Owns(s)' /\ Tells(s)'
  <2>1. CASE run'[s].pc = "next" /\ run'[s].mine = {}
    BY <2>1 DEF Owns, Tells, Working, BeforeMail
  <2>2. CASE /\ run'[s].pc = "settle" /\ run'[s].rest = run[s].rest \ {p}
             /\ run'[s].day = run[s].day /\ run'[s].to = run[s].to
             /\ run'[s].mine = run[s].mine
    <3>1. \A q \in run[s].mine : claim'[run[s].day][q] # "none"
      BY <1>1 DEF Owns
    <3> QED
      BY <1>1, <2>2, <3>1 DEF Owns, Tells, BeforeMail
  <2> QED
    BY <1>2, <2>1, <2>2
<1>5. (Claimed /\ OneLetterADay /\ ClaimsTellTheTruth)'
  <2>1. reminded[run[s].day][p] > 0
    BY <1>1 DEF Tells
  <2> QED
    BY <2>1, Recorded
<1> QED
  BY <1>3, <1>4, <1>5 DEF Inv

LEMMA SettleInv ==
    ASSUME Inv, NEW s \in Sweeps, Settle(s) PROVE Inv'
<1>1. TypeOK'
  BY SettleTyped DEF Inv
<1>2. PICK p \in run[s].rest : claim' = Marked(s, {p}, "sent") /\ IsSettled(s, p)
  BY DEF Settle
<1>3. \A d \in Days, q \in Pairs : claim'[d][q] =
          IF d = run[s].day /\ q \in {p} THEN "sent" ELSE claim[d][q]
  BY <1>2, MarkedTyped DEF Inv, TypeOK, Claims
<1>4. run[s].pc = "settle"
  BY DEF Settle, At
<1>5. \A d \in Days, q \in Pairs : claim'[d][q] # claim[d][q] =>
          d = run[s].day /\ q = p /\ claim'[d][q] = "sent"
  BY <1>3
<1>6. UNCHANGED <<taken, mailed, reminded>>
  BY DEF Settle
<1> QED
  BY <1>1, <1>2, <1>4, <1>5, <1>6, SettledInv

LEMMA SettleFailsInv ==
    ASSUME Inv, NEW s \in Sweeps, SettleFails(s) PROVE Inv'
<1>1. TypeOK'
  BY SettleFailsTyped DEF Inv
<1>2. PICK p \in run[s].rest : IsSettled(s, p)
  BY DEF SettleFails
<1>3. run[s].pc = "settle"
  BY DEF SettleFails, At
<1> QED
  BY <1>1, <1>2, <1>3, SettledInv DEF SettleFails

\* The rows of the new day are fresh, and no sweep at work is of that day.
LEMMA NewDayInv ==
    ASSUME Inv, NewDay PROVE Inv'
<1>1. TypeOK'
  BY NewDayTyped DEF Inv
<1> DEFINE tomorrow == 1 - day
<1>2. /\ tomorrow \in Days /\ tomorrow # day /\ run' = run
      /\ claim' = [claim EXCEPT ![tomorrow] = NewClaims]
      /\ taken' = [taken EXCEPT ![tomorrow] = {}]
      /\ mailed' = [mailed EXCEPT ![tomorrow] = [a \in Addresses |-> 0]]
      /\ reminded' = [reminded EXCEPT ![tomorrow] = [p \in Pairs |-> 0]]
  BY DEF Inv, TypeOK, Days, NewDay
<1>3. \A s \in Sweeps : run[s].pc = "idle" \/ run[s].day # tomorrow
  BY <1>2 DEF NewDay, Overdue, At
<1> HIDE DEF tomorrow
<1>4. \A d \in Days \ {tomorrow} : /\ claim'[d] = claim[d] /\ taken'[d] = taken[d]
                                   /\ mailed'[d] = mailed[d] /\ reminded'[d] = reminded[d]
  BY <1>2 DEF Inv, TypeOK
<1>5. ASSUME NEW s \in Sweeps PROVE Owns(s)' /\ Tells(s)'
  <2>1. Owns(s) /\ Tells(s) /\ run[s].day \in Days
    BY DEF Inv, TypeOK, Runs
  <2>2. CASE run[s].pc = "idle"
    BY <1>2, <2>2 DEF Owns, Tells, Working, BeforeMail
  <2>3. CASE run[s].day # tomorrow
    <3>1. /\ claim'[run[s].day] = claim[run[s].day] /\ taken'[run[s].day] = taken[run[s].day]
          /\ mailed'[run[s].day] = mailed[run[s].day] /\ reminded'[run[s].day] = reminded[run[s].day]
      BY <1>4, <2>1, <2>3
    <3> QED
      BY <1>2, <2>1, <3>1 DEF Owns, Tells
  <2> QED
    BY <1>3, <2>2, <2>3
<1>6. \A s, t \in Sweeps : Apart(s, t)'
  BY <1>2 DEF Inv, Apart
<1>7. /\ \A p \in Pairs : claim'[tomorrow][p] = "none" /\ reminded'[tomorrow][p] = 0
      /\ \A a \in Addresses : mailed'[tomorrow][a] = 0
  BY <1>2 DEF Inv, TypeOK, NewClaims
<1>8. (Claimed /\ OneLetterADay /\ ClaimsTellTheTruth)'
  BY <1>4, <1>7 DEF Inv, Claimed, OneLetterADay, ClaimsTellTheTruth
<1> QED
  BY <1>1, <1>5, <1>6, <1>8 DEF Inv

LEMMA WorldInv ==
    ASSUME Inv, NEW p \in Pairs, World(p) \/ HoursPass(p) PROVE Inv'
<1>1. TypeOK'
  BY WorldTyped, HoursPassTyped DEF Inv
<1>2. UNCHANGED sweepVars
  BY DEF World, OfficeRevokes, OfficeIssues, OfficeMails, OfficeStops, Answers, Expires, Moves, HoursPass
<1> QED
  BY <1>1, <1>2, SweepStateKept

-----------------------------------------------------------------------------
(* The theorems.                                                           *)

LEMMA NextInv == Inv /\ [Next]_vars => Inv'
<1> SUFFICES ASSUME Inv, [Next]_vars PROVE Inv'
  OBVIOUS
<1>1. ASSUME NEW s \in Sweeps, Start(s) \/ Advance(s) \/ Fault(s) PROVE Inv'
  <2>1. CASE Start(s)
    BY <2>1, StartInv
  <2>2. CASE Advance(s)
    BY <2>2, TakeAddressInv, FinishInv, ClaimPairInv, RevalidateInv, IssueInv, CancelInv,
       GoAheadInv, MailInv, SuppressedInv, UndoInv, SettleInv DEF Advance
  <2>3. CASE Fault(s)
    BY <2>3, BreaksInv, MailFailsInv, UndoFailsInv, SettleFailsInv, DiesInv DEF Fault
  <2> QED
    BY <1>1, <2>1, <2>2, <2>3
<1>2. CASE Toggles
  <2>1. UNCHANGED sweepVars
    BY <1>2 DEF Toggles
  <2> QED
    BY <1>2, <2>1, TogglesTyped, SweepStateKept DEF Inv
<1>3. CASE UNCHANGED vars
  <2>1. UNCHANGED sweepVars
    BY <1>3 DEF vars, sweepVars
  <2> QED
    BY <1>3, <2>1, StutterTyped, SweepStateKept DEF Inv
<1> QED
  BY <1>1, <1>2, <1>3, WorldInv, NewDayInv DEF Next

LEMMA Invariance == Spec => []Inv
BY InitInv, NextInv, PTL DEF Spec

\* Rows, runs and counts keep their shape.
THEOREM TypeCorrect == Spec => []TypeOK
<1>1. Inv => TypeOK
  BY DEF Inv
<1> QED
  BY <1>1, Invariance, PTL

\* One reminder of a day to an address and about a pair, however sweeps overlap,
\* fail and die and contacts change address (the claims of SupplierPortalReminderService).
THEOREM OneLetter == Spec => []OneLetterADay
<1>1. Inv => OneLetterADay
  BY DEF Inv
<1> QED
  BY <1>1, Invariance, PTL

\* What the claims say was mailed was, and what they say was not was not.
THEOREM TruthfulClaims == Spec => []ClaimsTellTheTruth
<1>1. Inv => ClaimsTellTheTruth
  BY DEF Inv
<1> QED
  BY <1>1, Invariance, PTL

-----------------------------------------------------------------------------
(* The ledger.                                                             *)

LEMMA InitLedger == Init => Ledger!Init
BY DEF Init, Ledger!Init, Days, Ledger!Days

\* A step that leaves the rows and the day alone is none of the ledger.
LEMMA QuietLedger ==
    ASSUME UNCHANGED <<day, taken, claim, mailed, reminded>>
    PROVE  UNCHANGED Ledger!vars
BY DEF Ledger!vars

LEMMA TakesAddress ==
    ASSUME Inv, NEW s \in Sweeps, TakeAddress(s)
    PROVE  Ledger!Next \/ UNCHANGED Ledger!vars
<1>1. UNCHANGED <<day, claim, mailed, reminded>> /\ run[s].day = day
  BY DEF TakeAddress, worldVars
<1>2. PICK a \in {t[2] : t \in run[s].todo} :
          \/ AddressFree(s, a) /\ taken' = [taken EXCEPT ![day] = @ \cup {a}]
          \/ UNCHANGED taken
  BY DEF TakeAddress
<1>3. run[s].todo \in SUBSET (Pairs \X Addresses)
  BY DEF Inv, TypeOK, Runs
<1>4. a \in Addresses
  BY <1>2, <1>3
<1>5. CASE AddressFree(s, a) /\ taken' = [taken EXCEPT ![day] = @ \cup {a}]
  <2>1. Ledger!Take(a)
    BY <1>1, <1>5 DEF AddressFree, Ledger!Take
  <2> QED
    BY <1>4, <2>1 DEF Ledger!Next
<1>6. CASE UNCHANGED taken
  BY <1>1, <1>6, QuietLedger
<1> QED
  BY <1>2, <1>5, <1>6

LEMMA ClaimsPair ==
    ASSUME Inv, NEW s \in Sweeps, ClaimPair(s)
    PROVE  Ledger!Next \/ UNCHANGED Ledger!vars
<1> DEFINE d == run[s].day
<1>1. UNCHANGED <<day, taken, mailed, reminded>>
  BY DEF ClaimPair, worldVars
<1>2. PICK p \in run[s].rest :
          \/ Claimable(s, p) /\ claim' = Marked(s, {p}, "claimed")
          \/ UNCHANGED claim
  BY DEF ClaimPair
<1>3. d \in Ledger!Days /\ p \in Pairs /\ claim \in [Days -> [Pairs -> Claims]]
  BY DEF Inv, TypeOK, Runs, Days, Ledger!Days
<1>4. CASE Claimable(s, p) /\ claim' = Marked(s, {p}, "claimed")
  <2>1. [claim[d] EXCEPT ![p] = "claimed"] = [q \in Pairs |-> IF q \in {p} THEN "claimed" ELSE claim[d][q]]
    BY <1>3 DEF Days, Ledger!Days
  <2>2. claim' = [claim EXCEPT ![d] = [claim[d] EXCEPT ![p] = "claimed"]]
    BY <1>3, <1>4, <2>1 DEF Marked, Days, Ledger!Days
  <2>3. Ledger!Claim(d, p)
    BY <1>1, <1>4, <2>2 DEF Claimable, Ledger!Claim
  <2> QED
    BY <1>3, <2>3 DEF Ledger!Next
<1>5. CASE UNCHANGED claim
  BY <1>1, <1>5, QuietLedger
<1> QED
  BY <1>2, <1>4, <1>5

\* The mail is one letter, about the pairs the sweep has claimed.
LEMMA ArrivesOnce ==
    ASSUME Inv, NEW s \in Sweeps, run[s].pc = "mail", Arrives(s), UNCHANGED <<day, taken, claim>>
    PROVE  Ledger!Next
<1> DEFINE d == run[s].day
           a == run[s].to
<1>1. /\ d \in Days /\ d \in Ledger!Days /\ a \in Addresses /\ a \in taken[d]
      /\ mailed[d][a] = 0 /\ run[s].mine \in SUBSET Pairs
      /\ \A p \in run[s].mine : reminded[d][p] = 0 /\ claim[d][p] = "claimed"
  BY ArrivesFrame DEF Days, Ledger!Days
<1>2. reminded \in [Days -> [Pairs -> Nat]] /\ mailed \in [Days -> [Addresses -> Nat]]
  BY DEF Inv, TypeOK
<1>3. mailed' = [mailed EXCEPT ![d][a] = 1]
  BY <1>1, <1>2 DEF Arrives
<1>4. reminded' = [reminded EXCEPT ![d] = [p \in Pairs |-> IF p \in run[s].mine THEN reminded[d][p] + 1 ELSE reminded[d][p]]]
  BY <1>1, <1>2 DEF Arrives
<1>5. [p \in Pairs |-> IF p \in run[s].mine THEN reminded[d][p] + 1 ELSE reminded[d][p]]
         = [p \in Pairs |-> IF p \in run[s].mine THEN 1 ELSE reminded[d][p]]
  BY <1>1
<1>6. reminded' = [reminded EXCEPT ![d] = [p \in Pairs |-> IF p \in run[s].mine THEN 1 ELSE reminded[d][p]]]
  BY <1>4, <1>5
<1>7. Ledger!Letter(d, a, run[s].mine)
  BY <1>1, <1>3, <1>6 DEF Ledger!Letter
<1> QED
  BY <1>1, <1>7 DEF Ledger!Next

\* Claims of the day of a sweep that are still open get an outcome that is true.
LEMMA SettlesPage ==
    ASSUME Inv, NEW s \in Sweeps, UNCHANGED <<day, taken, mailed, reminded>>,
           \A e \in Days, p \in Pairs : claim'[e][p] # claim[e][p] =>
               /\ e = run[s].day /\ claim[e][p] = "claimed"
               /\ \/ claim'[e][p] = "failed"
                  \/ claim'[e][p] = "sent" /\ reminded[e][p] > 0
                  \/ claim'[e][p] \in {"skipped", "suppressed"} /\ reminded[e][p] = 0,
           claim' \in [Days -> [Pairs -> Claims]]
    PROVE  Ledger!Next
<1> DEFINE d == run[s].day
<1>1. d \in Days /\ claim \in [Days -> [Pairs -> Claims]] /\ reminded \in [Days -> [Pairs -> Nat]]
  BY DEF Inv, TypeOK, Runs
<1>2. \A e \in Days \ {d} : claim'[e] = claim[e]
  <2> SUFFICES ASSUME NEW e \in Days \ {d} PROVE claim'[e] = claim[e]
    OBVIOUS
  <2>1. \A p \in Pairs : claim'[e][p] = claim[e][p]
    OBVIOUS
  <2>2. claim'[e] \in [Pairs -> Claims] /\ claim[e] \in [Pairs -> Claims]
    BY <1>1
  <2> QED
    BY <2>1, <2>2
<1>3. \A p \in Pairs : \/ claim'[d][p] = claim[d][p]
                       \/ claim[d][p] = "claimed" /\ claim'[d][p] \in Ledger!Outcomes(d, p)
  <2> SUFFICES ASSUME NEW p \in Pairs, claim'[d][p] # claim[d][p]
               PROVE  claim[d][p] = "claimed" /\ claim'[d][p] \in Ledger!Outcomes(d, p)
    OBVIOUS
  <2>1. reminded[d][p] \in Nat
    BY <1>1
  <2> QED
    BY <1>1, <2>1 DEF Ledger!Outcomes
<1>4. Ledger!Settle(d)
  BY <1>2, <1>3 DEF Ledger!Settle, Days, Ledger!Days
<1> QED
  BY <1>1, <1>4 DEF Ledger!Next, Days, Ledger!Days

LEMMA RevalidateSettles ==
    ASSUME Inv, Inv', NEW s \in Sweeps, Revalidate(s) PROVE Ledger!Next
<1>1. /\ run[s].pc = "claim" /\ Stands(s) \subseteq run[s].mine /\ run[s].mine \subseteq Pairs
      /\ UNCHANGED <<day, taken, mailed, reminded>>
  BY DEF Inv, TypeOK, Runs, Revalidate, At, Stands, worldVars
<1>2. \A p \in run[s].mine : claim[run[s].day][p] = "claimed" /\ reminded[run[s].day][p] = 0
  BY <1>1 DEF Inv, Owns, Tells, Working, BeforeMail
<1>3. \A e \in Days, q \in Pairs : claim'[e][q] =
          IF e = run[s].day /\ q \in run[s].mine \ Stands(s) THEN "skipped" ELSE claim[e][q]
  <2>1. claim' = Marked(s, run[s].mine \ Stands(s), "skipped")
    BY DEF Revalidate
  <2> HIDE DEF Stands
  <2> QED
    BY <2>1, MarkedTyped DEF Inv, TypeOK, Claims
<1>4. claim' \in [Days -> [Pairs -> Claims]]
  BY DEF Inv, TypeOK
<1> QED
  BY <1>1, <1>2, <1>3, <1>4, SettlesPage

LEMMA BreaksSettles ==
    ASSUME Inv, Inv', NEW s \in Sweeps, Breaks(s) PROVE Ledger!Next
<1>1. run[s].pc = "claim" /\ UNCHANGED <<day, taken, mailed, reminded>> /\ run[s].mine \subseteq Pairs
  BY DEF Inv, TypeOK, Runs, Breaks, At, worldVars
<1>2. \A p \in run[s].mine : claim[run[s].day][p] = "claimed" /\ reminded[run[s].day][p] = 0
  BY <1>1 DEF Inv, Owns, Tells, Working, BeforeMail
<1>3. PICK failed \in SUBSET run[s].mine, skipped \in SUBSET (run[s].mine \ Stands(s)) :
          claim' = [claim EXCEPT ![run[s].day] =
                      [p \in Pairs |-> IF p \in failed THEN "failed"
                                       ELSE IF p \in skipped THEN "skipped" ELSE @[p]]]
  BY DEF Breaks
<1>4. \A e \in Days, q \in Pairs : claim'[e][q] # claim[e][q] =>
          e = run[s].day /\ q \in run[s].mine /\ claim'[e][q] \in {"failed", "skipped"}
  BY <1>3 DEF Inv, TypeOK, Runs
<1>5. claim' \in [Days -> [Pairs -> Claims]]
  BY DEF Inv, TypeOK
<1> QED
  BY <1>1, <1>2, <1>4, <1>5, SettlesPage

\* Undoing settles claims with the verdict, or leaves them open.
LEMMA UndoSettles ==
    ASSUME Inv, Inv', NEW s \in Sweeps, run[s].pc = "undo", UNCHANGED <<day, taken, mailed, reminded>>,
           NEW c \in SUBSET run[s].mine, claim' = Marked(s, c, run[s].verdict)
    PROVE  Ledger!Next
<1>1. \A e \in Days, q \in Pairs : claim'[e][q] =
          IF e = run[s].day /\ q \in c THEN run[s].verdict ELSE claim[e][q]
  BY MarkedTyped, VerdictTyped DEF Inv, TypeOK
<1>2. run[s].verdict \in {"failed", "suppressed", "skipped"}
  BY VerdictTyped DEF Inv
<1>3. \A p \in run[s].mine : /\ claim[run[s].day][p] = "claimed"
                             /\ run[s].verdict # "failed" => reminded[run[s].day][p] = 0
  BY DEF Inv, Owns, Tells, Working
<1>4. claim' \in [Days -> [Pairs -> Claims]]
  BY DEF Inv, TypeOK
<1> QED
  BY <1>1, <1>2, <1>3, <1>4, SettlesPage

LEMMA SentSettles ==
    ASSUME Inv, Inv', NEW s \in Sweeps, Settle(s) PROVE Ledger!Next
<1>1. run[s].pc = "settle" /\ UNCHANGED <<day, taken, mailed, reminded>>
  BY DEF Settle, At, worldVars
<1>2. PICK p \in run[s].rest : claim' = Marked(s, {p}, "sent")
  BY DEF Settle
<1>3. claim[run[s].day][p] = "claimed" /\ reminded[run[s].day][p] > 0
  BY <1>1 DEF Inv, Owns, Tells, Working
<1>4. \A e \in Days, q \in Pairs : claim'[e][q] =
          IF e = run[s].day /\ q \in {p} THEN "sent" ELSE claim[e][q]
  BY <1>2, MarkedTyped DEF Inv, TypeOK, Claims
<1>5. claim' \in [Days -> [Pairs -> Claims]]
  BY DEF Inv, TypeOK
<1> QED
  BY <1>1, <1>3, <1>4, <1>5, SettlesPage

LEMMA FaultsLedger ==
    ASSUME Inv, Inv', NEW s \in Sweeps, Fault(s)
    PROVE  Ledger!Next \/ UNCHANGED Ledger!vars
<1>1. CASE Breaks(s)
  BY <1>1, BreaksSettles
<1>2. CASE MailFails(s)
  <2>1. run[s].pc = "mail" /\ UNCHANGED <<day, taken, claim>>
    BY <1>2 DEF MailFails, At, worldVars
  <2>2. Arrives(s) \/ UNCHANGED <<mailed, reminded>>
    BY <1>2 DEF MailFails
  <2> QED
    BY <2>1, <2>2, ArrivesOnce, QuietLedger
<1>3. CASE UndoFails(s)
  <2>1. run[s].pc = "undo" /\ UNCHANGED <<day, taken, mailed, reminded>>
    BY <1>3 DEF UndoFails, At, worldVars
  <2>2. \/ UNCHANGED claim
        \/ \E c \in SUBSET run[s].mine : claim' = Marked(s, c, run[s].verdict)
    BY <1>3 DEF UndoFails
  <2> QED
    BY <2>1, <2>2, UndoSettles, QuietLedger
<1>4. CASE SettleFails(s) \/ Dies(s)
  BY <1>4, QuietLedger DEF SettleFails, Dies, worldVars
<1> QED
  BY <1>1, <1>2, <1>3, <1>4 DEF Fault

LEMMA AdvancesLedger ==
    ASSUME Inv, Inv', NEW s \in Sweeps, Advance(s)
    PROVE  Ledger!Next \/ UNCHANGED Ledger!vars
<1>1. CASE TakeAddress(s) \/ ClaimPair(s) \/ Revalidate(s) \/ Settle(s)
  BY <1>1, TakesAddress, ClaimsPair, RevalidateSettles, SentSettles
<1>2. CASE Mail(s)
  BY <1>2, ArrivesOnce DEF Mail, At, worldVars
<1>3. CASE Undo(s)
  BY <1>3, UndoSettles DEF Undo, At, worldVars
<1>4. CASE Finish(s) \/ Issue(s) \/ Cancel(s) \/ GoAhead(s) \/ Suppressed(s)
  BY <1>4, QuietLedger DEF Finish, Issue, Cancel, GoAhead, Suppressed, worldVars
<1> QED
  BY <1>1, <1>2, <1>3, <1>4 DEF Advance

\* The claims of overlapping sweeps that fail and die, also over midnight, are the
\* ledger a single clerk would keep (the unique keys of SupplierPortalReminderService).
THEOREM KeepsTheLedger == Spec => ImplementsLedger
<1>1. Inv /\ Inv' /\ [Next]_vars => [Ledger!Next]_(Ledger!vars)
  <2> SUFFICES ASSUME Inv, Inv', [Next]_vars PROVE Ledger!Next \/ UNCHANGED Ledger!vars
    OBVIOUS
  <2>1. ASSUME NEW s \in Sweeps, Start(s) \/ Advance(s) \/ Fault(s)
        PROVE  Ledger!Next \/ UNCHANGED Ledger!vars
    <3>1. CASE Start(s)
      BY <3>1, QuietLedger DEF Start
    <3> QED
      BY <2>1, <3>1, AdvancesLedger, FaultsLedger
  <2>2. ASSUME NEW p \in Pairs, World(p) \/ HoursPass(p) PROVE UNCHANGED Ledger!vars
    BY <2>2, QuietLedger DEF World, OfficeRevokes, OfficeIssues, OfficeMails, OfficeStops, Answers,
       Expires, Moves, HoursPass, sweepVars, worldVars
  <2>3. CASE Toggles \/ UNCHANGED vars
    BY <2>3, QuietLedger DEF Toggles, vars, sweepVars
  <2>4. CASE NewDay
    <3>1. Ledger!Tomorrow
      BY <2>4 DEF NewDay, NewClaims, Ledger!Tomorrow
    <3> QED
      BY <3>1 DEF Ledger!Next
  <2> QED
    BY <2>1, <2>2, <2>3, <2>4 DEF Next
<1> QED
  BY <1>1, InitLedger, Invariance, PTL DEF Spec, ImplementsLedger, Ledger!Spec

-----------------------------------------------------------------------------
(* The links.                                                              *)

\* Before its mail a sweep has issued some links, then all; after it, what it
\* has still to settle is what it gave new links.
FreshInHand(s) ==
    /\ run[s].pc \in {"idle", "next", "claim"} => run[s].fresh = {}
    /\ run[s].pc = "issue" => run[s].fresh \cup run[s].rest = run[s].mine
    /\ run[s].pc = "mail" => run[s].fresh = run[s].mine
    /\ run[s].pc = "settle" => run[s].rest = run[s].fresh /\ run[s].fresh \subseteq run[s].mine

\* Nothing of what s issued has reached a supplier.
Undelivered(s) == run[s].pc \in {"issue", "mail"} \/ (run[s].pc = "undo" /\ ~ run[s].keep)

\* A link that a sweep or the office has in hand: recent, of a pair the sweep
\* remembers, and with the supplier from the mail on.
LinkKnown(p, l) ==
    /\ l.by \in Sweeps =>
          /\ p \in run[l.by].fresh
          /\ l.age # "old" /\ (run[l.by].day = day => l.age = "today")
          /\ Undelivered(l.by) => ~ l.held
          /\ run[l.by].pc = "settle" => l.held
    /\ l.by = "office" => ~ l.held

\* Past the check of the day; bound to reach it in time; past the second reading.
Sending(s) == run[s].pc \in {"mail", "settle"}
Timely(s) == Sending(s) \/ (run[s].pc = "issue" /\ run[s].day = day)
Joined(s) == run[s].pc \in {"issue", "mail", "settle"}

\* A pair a sweep has given a link, which is still there or was replaced by
\* recent ones only.
Young(s, p) ==
    Timely(s) /\ p \in run[s].fresh /\ OfferOf[p] \notin answered =>
        \/ FreshLinks(s, p) # {}
        \/ \A l \in links[p] : l.age # "old" /\ (run[s].day = day => l.age = "today")

\* A sweep past midnight with a mail under way shares no pair with one of today.
Overtaken(s, t, p) ==
    (/\ Sending(s) /\ p \in run[s].fresh /\ run[s].day # day
     /\ Joined(t) /\ p \in run[t].mine /\ run[t].day = day)
    => OfferOf[p] \in answered

\* Pairs the property is about, while the office is between two links too.
Counts(p) == OfferOf[p] \notin answered /\ (p \notin crossed \/ office[p] = "revoked")

\* A sweep that may settle such a pair has the link it will leave.
HasItsLink(s, p) ==
    Timely(s) /\ p \in run[s].fresh /\ Counts(p) /\ (p \in owed \/ office[p] = "issued")
    => FreshLinks(s, p) # {}

\* A link the office is mailing, or one that arrived, is there.
OfficeHasIts(p) ==
    office[p] = "issued" /\ Counts(p) => \E l \in links[p] : l.held \/ l.by = "office"

HasOne(p) == p \in owed /\ Counts(p) => \E l \in links[p] : l.held

Kept ==
    /\ \A s \in Sweeps : FreshInHand(s)
    /\ \A p \in Pairs : \A l \in links[p] : LinkKnown(p, l)
    /\ \A s \in Sweeps, p \in Pairs : Young(s, p)
    /\ \A s, t \in Sweeps, p \in Pairs : Overtaken(s, t, p)
    /\ \A s \in Sweeps, p \in Pairs : HasItsLink(s, p)
    /\ \A p \in Pairs : OfficeHasIts(p) /\ HasOne(p)

LEMMA InitKept == Init => Kept
<1> SUFFICES ASSUME Init PROVE Kept
  OBVIOUS
<1> DEFINE old == [age |-> "old", byMail |-> TRUE, held |-> TRUE, by |-> "nobody"]
<1>1. \A s \in Sweeps : run[s].pc = "idle" /\ run[s].fresh = {}
  BY DEF Init, Idle
<1>2. \A s \in Sweeps : FreshInHand(s)
  BY <1>1 DEF FreshInHand
<1>3. \A p \in Pairs : links[p] = {old} /\ office[p] = "idle"
  BY DEF Init
<1>4. old.held /\ old.by = "nobody"
  OBVIOUS
<1> HIDE DEF old
<1>5. \A p \in Pairs : \A l \in links[p] : LinkKnown(p, l)
  BY <1>3, <1>4, RemindersAssumption DEF LinkKnown
<1>6. \A p \in Pairs : OfficeHasIts(p) /\ HasOne(p)
  BY <1>3, <1>4 DEF OfficeHasIts, HasOne
<1> QED
  BY <1>1, <1>2, <1>5, <1>6 DEF Kept, Young, Overtaken, HasItsLink

\* What a sweep with a link in hand looks like.
LEMMA InHand ==
    ASSUME Inv, Kept, NEW s \in Sweeps, NEW p \in run[s].fresh
    PROVE  /\ p \in Pairs
           /\ run[s].pc \in {"issue", "mail", "settle", "undo"}
           /\ Joined(s) => p \in run[s].mine /\ run[s].pc \in Working
           /\ run[s].day \in Days
<1>1. run[s] \in Runs /\ FreshInHand(s)
  BY DEF Inv, TypeOK, Kept
<1>2. run[s].pc \in Stages /\ run[s].day \in Days /\ run[s].fresh \subseteq Pairs
  BY <1>1 DEF Runs
<1> QED
  BY <1>1, <1>2 DEF FreshInHand, Stages, Joined, Working

\* Two sweeps that both have a link for a pair and may both mail it: it was answered.
LEMMA OneMails ==
    ASSUME Inv, Kept, NEW s \in Sweeps, NEW t \in Sweeps, s # t,
           NEW p \in run[s].fresh, p \in run[t].fresh, Timely(s), Sending(t)
    PROVE  OfferOf[p] \in answered
<1>1. Joined(s) /\ Joined(t)
  BY DEF Timely, Sending, Joined
<1>2. /\ p \in Pairs /\ p \in run[s].mine /\ p \in run[t].mine
      /\ run[s].pc \in Working /\ run[t].pc \in Working
      /\ run[s].day \in Days /\ run[t].day \in Days
  BY <1>1, InHand
<1>3. run[s].day # run[t].day
  BY <1>2, OthersApart
<1>4. day \in Days
  BY DEF Inv, TypeOK
<1>5. CASE run[s].day = day
  BY <1>1, <1>2, <1>3, <1>5 DEF Kept, Overtaken
<1>6. CASE run[s].day # day
  <2>1. Sending(s) /\ run[t].day = day
    BY <1>2, <1>3, <1>4, <1>6 DEF Timely, Days
  <2> QED
    BY <1>1, <1>2, <1>6, <2>1 DEF Kept, Overtaken
<1> QED
  BY <1>5, <1>6

\* A step of one sweep that leaves the links alone.
LEMMA RunKeeps ==
    ASSUME Inv, Kept, NEW s \in Sweeps,
           UNCHANGED <<day, links, owed, answered, office, crossed>>,
           \A t \in Sweeps \ {s} : run'[t] = run[t],
           FreshInHand(s)', run'[s].fresh = run[s].fresh,
           run[s].fresh # {} =>
               /\ run'[s].day = run[s].day
               /\ Timely(s)' => Timely(s)
               /\ Undelivered(s)' => Undelivered(s)
               /\ run'[s].pc = "settle" => run[s].pc = "settle",
           Sending(s)' => Sending(s) \/ run'[s].day = day,
           Joined(s)' =>
               \/ Joined(s) /\ run'[s].mine = run[s].mine /\ run'[s].day = run[s].day
               \/ \A p \in run'[s].mine : Due(p)
    PROVE  Kept'
<1>1. \A t \in Sweeps : FreshInHand(t)'
  BY DEF Kept, FreshInHand
<1>2. ASSUME NEW p \in Pairs, NEW l \in links[p] PROVE LinkKnown(p, l)'
  <2>1. LinkKnown(p, l)
    BY DEF Kept
  <2>2. CASE l.by \in Sweeps /\ l.by # s
    BY <2>1, <2>2 DEF LinkKnown, Undelivered
  <2>3. CASE l.by = s
    BY <2>1, <2>3 DEF LinkKnown
  <2>4. CASE l.by \notin Sweeps
    BY <2>1, <2>4 DEF LinkKnown
  <2> QED
    BY <2>2, <2>3, <2>4
<1>3. ASSUME NEW t \in Sweeps, NEW p \in Pairs PROVE Young(t, p)' /\ HasItsLink(t, p)'
  <2>1. Young(t, p) /\ HasItsLink(t, p)
    BY DEF Kept
  <2>2. FreshLinks(t, p)' = FreshLinks(t, p) /\ Counts(p)' = Counts(p)
    BY DEF FreshLinks, Counts
  <2>3. CASE t = s
    BY <2>1, <2>2, <2>3 DEF Young, HasItsLink
  <2>4. CASE t # s
    BY <2>1, <2>2, <2>4 DEF Young, HasItsLink, Timely, Sending
  <2> QED
    BY <2>3, <2>4
<1>4. ASSUME NEW t \in Sweeps, NEW u \in Sweeps, NEW p \in Pairs PROVE Overtaken(t, u, p)'
  <2> SUFFICES ASSUME Sending(t)', p \in run'[t].fresh, run'[t].day # day,
                      Joined(u)', p \in run'[u].mine, run'[u].day = day,
                      OfferOf[p] \notin answered
               PROVE  FALSE
    BY DEF Overtaken
  <2>1. Sending(t) /\ p \in run[t].fresh /\ run[t].day # day
    BY DEF Sending
  <2>2. Overtaken(t, u, p) /\ Young(t, p)
    BY DEF Kept
  <2>3. t # u
    OBVIOUS
  <2>4. CASE u # s \/ (Joined(s) /\ run'[s].mine = run[s].mine /\ run'[s].day = run[s].day)
    BY <2>1, <2>2, <2>4 DEF Overtaken, Joined
  <2>5. CASE u = s /\ \A q \in run'[s].mine : Due(q)
    <3>1. Due(p)
      BY <2>5
    <3>2. PICK l \in links[p] : TRUE
      BY <3>1 DEF Due
    <3>3. \A k \in links[p] : k.age = "old"
      BY <3>1 DEF Due, OldEnough
    <3>4. FreshLinks(t, p) # {}
      BY <2>1, <2>2, <3>2, <3>3 DEF Young, Timely
    <3>5. PICK k \in links[p] : k.by = t
      BY <3>4 DEF FreshLinks
    <3> QED
      BY <3>3, <3>5 DEF Kept, LinkKnown
  <2> QED
    BY <2>4, <2>5
<1>5. ASSUME NEW p \in Pairs PROVE OfficeHasIts(p)' /\ HasOne(p)'
  BY DEF Kept, OfficeHasIts, HasOne, Counts
<1> QED
  BY <1>1, <1>2, <1>3, <1>4, <1>5 DEF Kept

LEMMA QuietKeeps ==
    ASSUME Kept, UNCHANGED <<day, links, owed, answered, office, crossed, run>> PROVE Kept'
BY DEF Kept, FreshInHand, LinkKnown, Undelivered, Young, Overtaken, HasItsLink, OfficeHasIts, HasOne,
   Timely, Sending, Joined, Counts, FreshLinks

\* What letting go of links keeps of each of them.
Copies(m, l, by) == m.held = l.held /\ m.age = l.age /\ m.by = by

LEMMA LetGoCopies ==
    ASSUME NEW s, NEW ls \in SUBSET Links
    PROVE  /\ \A m \in LetGo(s, ls) : \E l \in ls : Copies(m, l, IF l.by = s THEN "nobody" ELSE l.by)
           /\ \A l \in ls : \E m \in LetGo(s, ls) : Copies(m, l, IF l.by = s THEN "nobody" ELSE l.by)
<1> DEFINE c(l) == IF l.by = s THEN [l EXCEPT !.by = "nobody"] ELSE l
<1>1. \A l \in ls : Copies(c(l), l, IF l.by = s THEN "nobody" ELSE l.by)
  BY DEF Copies, Links
<1>2. LetGo(s, ls) = {c(l) : l \in ls}
  BY DEF LetGo
<1> HIDE DEF c
<1> QED
  BY <1>1, <1>2

LEMMA IssueKeeps == ASSUME Inv, Kept, NEW s \in Sweeps, Issue(s) PROVE Kept'
<1> DEFINE new == [age |-> "today", byMail |-> TRUE, held |-> FALSE, by |-> s]
<1>1. PICK p \in run[s].rest :
          /\ links' = [links EXCEPT ![p] = @ \cup {new}]
          /\ Becomes(s, [run[s] EXCEPT !.rest = @ \ {p}, !.fresh = @ \cup {p}])
  BY DEF Issue
<1>2. new.by = s /\ ~ new.held /\ new.age = "today"
  OBVIOUS
<1> HIDE DEF new
<1>3. run \in [Sweeps -> Runs] /\ run[s] \in Runs /\ links \in [Pairs -> SUBSET Links]
  BY DEF Inv, TypeOK
<1>4. p \in Pairs
  BY <1>3 DEF Runs
<1>5. /\ run[s].pc = "issue" /\ run'[s].pc = "issue"
      /\ run'[s].day = run[s].day /\ run'[s].mine = run[s].mine /\ run'[s].keep = run[s].keep
      /\ run'[s].rest = run[s].rest \ {p} /\ run'[s].fresh = run[s].fresh \cup {p}
      /\ \A t \in Sweeps \ {s} : run'[t] = run[t]
  BY <1>1, <1>3 DEF Becomes, Runs, Issue, At
<1>6. UNCHANGED <<day, owed, answered, office, crossed>>
  BY DEF Issue, worldVars
<1>7. \A q \in Pairs : /\ links[q] \subseteq links'[q]
                       /\ \A l \in links'[q] : l \in links[q] \/ (q = p /\ l = new)
  BY <1>1, <1>3
<1>8. new \in links'[p]
  BY <1>1, <1>3, <1>4
<1>9. \A t \in Sweeps : FreshInHand(t)'
  BY <1>5 DEF Kept, FreshInHand
<1>10. ASSUME NEW q \in Pairs, NEW l \in links'[q] PROVE LinkKnown(q, l)'
  <2>1. CASE l \in links[q]
    <3>1. LinkKnown(q, l)
      BY <2>1 DEF Kept
    <3>2. CASE l.by = s
      BY <1>5, <1>6, <3>1, <3>2 DEF LinkKnown, Undelivered
    <3>3. CASE l.by # s
      BY <1>5, <1>6, <3>1, <3>3 DEF LinkKnown, Undelivered
    <3> QED
      BY <3>2, <3>3
  <2>2. CASE q = p /\ l = new
    BY <1>2, <1>5, <2>2, RemindersAssumption DEF LinkKnown
  <2> QED
    BY <1>7, <2>1, <2>2
<1>11. ASSUME NEW t \in Sweeps, NEW q \in Pairs PROVE Young(t, q)' /\ HasItsLink(t, q)'
  <2>1. Young(t, q) /\ HasItsLink(t, q) /\ Counts(q)' = Counts(q) /\ Timely(t)' = Timely(t)
    BY <1>5, <1>6 DEF Kept, Counts, Timely, Sending
  <2>2. FreshLinks(t, q) \subseteq FreshLinks(t, q)'
    BY <1>7 DEF FreshLinks
  <2>3. CASE t = s /\ q = p
    <3>1. FreshLinks(t, q)' # {}
      BY <1>2, <1>8, <2>3 DEF FreshLinks
    <3> QED
      BY <3>1 DEF Young, HasItsLink
  <2>4. CASE t # s \/ q # p
    <3>1. q \in run'[t].fresh <=> q \in run[t].fresh
      BY <1>5, <2>4
    <3>2. run'[t].day = run[t].day
      BY <1>5
    <3> QED
      BY <1>2, <1>6, <1>7, <2>1, <2>2, <3>1, <3>2 DEF Young, HasItsLink
  <2> QED
    BY <2>3, <2>4
<1>12. \A t, u \in Sweeps, q \in Pairs : Overtaken(t, u, q)'
  BY <1>5, <1>6 DEF Kept, Overtaken, Sending, Joined
<1>13. \A q \in Pairs : OfficeHasIts(q)' /\ HasOne(q)'
  BY <1>6, <1>7 DEF Kept, OfficeHasIts, HasOne, Counts
<1> QED
  BY <1>9, <1>10, <1>11, <1>12, <1>13 DEF Kept

\* The mail goes out: its links are with the supplier.
LEMMA ArrivesKeeps ==
    ASSUME Inv, Kept, NEW s \in Sweeps, run[s].pc = "mail", Arrives(s),
           \A t \in Sweeps \ {s} : run'[t] = run[t],
           \/ run'[s].pc = "settle" /\ run'[s].rest = run[s].mine
           \/ run'[s].pc = "undo" /\ run'[s].keep,
           run'[s].day = run[s].day, run'[s].mine = run[s].mine, run'[s].fresh = run[s].fresh,
           UNCHANGED <<day, answered, office, crossed>>
    PROVE  Kept'
<1> DEFINE c(l) == IF l.by = s THEN [l EXCEPT !.held = TRUE] ELSE l
<1>1. \A q \in Pairs : links'[q] = {c(l) : l \in links[q]} /\ links[q] \subseteq Links
  BY DEF Arrives, Inv, TypeOK
<1>2. \A q \in Pairs : \A l \in links[q] :
          c(l).by = l.by /\ c(l).age = l.age /\ c(l).held = (l.held \/ l.by = s)
  BY <1>1 DEF Links
<1> HIDE DEF c
<1>3. owed' = owed \cup {q \in Pairs : FreshLinks(s, q) # {}}
  BY DEF Arrives
<1>4. \A t \in Sweeps : FreshInHand(t)'
  BY DEF Kept, FreshInHand
<1>5. ASSUME NEW q \in Pairs, NEW m \in links'[q] PROVE LinkKnown(q, m)'
  <2>1. PICK l \in links[q] : m = c(l)
    BY <1>1
  <2>2. m.by = l.by /\ m.age = l.age /\ m.held = (l.held \/ l.by = s) /\ LinkKnown(q, l)
    BY <1>2, <2>1 DEF Kept
  <2>3. CASE l.by = s
    BY <2>2, <2>3, RemindersAssumption DEF LinkKnown, Undelivered
  <2>4. CASE l.by # s
    BY <2>2, <2>4 DEF LinkKnown, Undelivered
  <2> QED
    BY <2>3, <2>4
<1>6. ASSUME NEW t \in Sweeps, NEW q \in Pairs PROVE Young(t, q)' /\ HasItsLink(t, q)'
  <2>1. Young(t, q) /\ HasItsLink(t, q) /\ Counts(q)' = Counts(q)
    BY DEF Kept, Counts
  <2>2. Timely(t)' => Timely(t)
    BY DEF Timely, Sending
  <2>3. run'[t].fresh = run[t].fresh /\ run'[t].day = run[t].day
    OBVIOUS
  <2>4. FreshLinks(t, q) # {} => FreshLinks(t, q)' # {}
    BY <1>1, <1>2 DEF FreshLinks
  <2>5. \A m \in links'[q] : \E l \in links[q] : m.age = l.age
    BY <1>1, <1>2
  <2>6. Young(t, q)'
    BY <2>1, <2>2, <2>3, <2>4, <2>5 DEF Young
  <2>7. HasItsLink(t, q)'
    <3> SUFFICES ASSUME Timely(t), q \in run[t].fresh, Counts(q), q \in owed' \/ office[q] = "issued"
                 PROVE  FreshLinks(t, q) # {}
      BY <2>1, <2>2, <2>3, <2>4 DEF HasItsLink
    <3>1. CASE q \in owed \/ office[q] = "issued"
      BY <2>1, <3>1 DEF HasItsLink
    <3>2. CASE FreshLinks(s, q) # {} /\ t # s
      <4>1. q \in run[s].fresh
        BY <3>2 DEF Kept, LinkKnown, FreshLinks
      <4> QED
        BY <3>2, <4>1, OneMails DEF Sending, Counts
    <3> QED
      BY <1>3, <3>1, <3>2
  <2> QED
    BY <2>6, <2>7
<1>7. \A t, u \in Sweeps, q \in Pairs : Overtaken(t, u, q)'
  BY DEF Kept, Overtaken, Sending, Joined
<1>8. ASSUME NEW q \in Pairs PROVE OfficeHasIts(q)' /\ HasOne(q)'
  <2>1. OfficeHasIts(q) /\ HasOne(q) /\ Counts(q)' = Counts(q)
    BY DEF Kept, Counts
  <2>0. \A l \in links[q] : \E m \in links'[q] :
            m.by = l.by /\ (l.held => m.held) /\ (l.by = s => m.held)
    <3>1. SUFFICES ASSUME NEW l \in links[q]
                   PROVE  /\ c(l) \in links'[q] /\ c(l).by = l.by
                          /\ l.held => c(l).held
                          /\ l.by = s => c(l).held
      OBVIOUS
    <3>2. c(l).by = l.by /\ c(l).held = (l.held \/ l.by = s)
      BY <1>2
    <3>3. c(l) \in links'[q]
      BY <1>1
    <3> QED
      BY <3>2, <3>3
  <2>2. OfficeHasIts(q)'
    BY <2>0, <2>1 DEF OfficeHasIts
  <2>3. HasOne(q)'
    <3>1. CASE q \in owed
      BY <2>0, <2>1, <3>1 DEF HasOne
    <3>2. CASE FreshLinks(s, q) # {}
      BY <2>0, <3>2 DEF HasOne, FreshLinks
    <3> QED
      BY <1>3, <3>1, <3>2 DEF HasOne
  <2> QED
    BY <2>2, <2>3
<1> QED
  BY <1>4, <1>5, <1>6, <1>7, <1>8 DEF Kept

\* A sweep lets go of all its links, or takes back what has reached nobody.
LEMMA DropsKeeps ==
    ASSUME Inv, Kept, NEW s \in Sweeps,
           links' = Forgotten(s) \/ (Undelivered(s) /\ links' = Revoked(s)),
           \A t \in Sweeps \ {s} : run'[t] = run[t],
           run'[s].pc \in {"idle", "next"}, run'[s].fresh = {},
           UNCHANGED <<day, owed, answered, office, crossed>>
    PROVE  Kept'
<1>1. \A q \in Pairs : links[q] \subseteq Links
  BY DEF Inv, TypeOK
<1>2. ASSUME NEW q \in Pairs
      PROVE  /\ \A m \in links'[q] : \E l \in links[q] :
                   Copies(m, l, IF l.by = s THEN "nobody" ELSE l.by)
             /\ \A l \in links[q] : l.by # s \/ l.held => \E m \in links'[q] :
                   Copies(m, l, IF l.by = s THEN "nobody" ELSE l.by)
  <2>1. CASE links' = Forgotten(s)
    <3>1. links'[q] = LetGo(s, links[q])
      BY <2>1 DEF Forgotten
    <3> QED
      BY <1>1, <3>1, LetGoCopies
  <2>2. CASE Undelivered(s) /\ links' = Revoked(s)
    <3>1. links'[q] = {l \in links[q] : l.by # s}
      BY <2>2 DEF Revoked, FreshLinks
    <3>2. \A l \in links[q] : l.by = s => ~ l.held
      BY <2>2 DEF Kept, LinkKnown
    <3>3. \A l \in links[q] : l.by # s => Copies(l, l, IF l.by = s THEN "nobody" ELSE l.by)
      BY DEF Copies
    <3> QED
      BY <3>1, <3>2, <3>3
  <2> QED
    BY <2>1, <2>2
<1>3. \A t \in Sweeps : FreshInHand(t)'
  BY DEF Kept, FreshInHand
<1>4. ASSUME NEW q \in Pairs, NEW m \in links'[q] PROVE LinkKnown(q, m)'
  <2>1. PICK l \in links[q] : Copies(m, l, IF l.by = s THEN "nobody" ELSE l.by)
    BY <1>2
  <2>2. LinkKnown(q, l)
    BY DEF Kept
  <2>3. CASE l.by = s
    BY <2>1, <2>3, RemindersAssumption DEF LinkKnown, Copies
  <2>4. CASE l.by # s
    BY <2>1, <2>2, <2>4 DEF LinkKnown, Copies, Undelivered
  <2> QED
    BY <2>3, <2>4
<1>5. ASSUME NEW t \in Sweeps, NEW q \in Pairs PROVE Young(t, q)' /\ HasItsLink(t, q)'
  <2>1. CASE t = s
    BY <2>1 DEF Young, HasItsLink
  <2>2. CASE t # s
    <3>1. Young(t, q) /\ HasItsLink(t, q) /\ Counts(q)' = Counts(q) /\ Timely(t)' = Timely(t)
      BY <2>2 DEF Kept, Counts, Timely, Sending
    <3>2. FreshLinks(t, q) # {} => FreshLinks(t, q)' # {}
      BY <1>2, <2>2 DEF FreshLinks, Copies
    <3>3. \A m \in links'[q] : \E l \in links[q] : m.age = l.age
      BY <1>2 DEF Copies
    <3> QED
      BY <2>2, <3>1, <3>2, <3>3 DEF Young, HasItsLink
  <2> QED
    BY <2>1, <2>2
<1>6. \A t, u \in Sweeps, q \in Pairs : Overtaken(t, u, q)'
  BY DEF Kept, Overtaken, Sending, Joined
<1>7. ASSUME NEW q \in Pairs PROVE OfficeHasIts(q)' /\ HasOne(q)'
  <2>1. OfficeHasIts(q) /\ HasOne(q) /\ Counts(q)' = Counts(q)
    BY DEF Kept, Counts
  <2>2. \A l \in links[q] : l.held => \E m \in links'[q] : m.held
    BY <1>2 DEF Copies
  <2>3. \A l \in links[q] : l.by = "office" => \E m \in links'[q] : m.by = "office"
    BY <1>2, RemindersAssumption DEF Copies
  <2> QED
    BY <2>1, <2>2, <2>3 DEF OfficeHasIts, HasOne
<1> QED
  BY <1>3, <1>4, <1>5, <1>6, <1>7 DEF Kept

\* A pair is settled: the other links of the pair are revoked, or that fails.
LEMMA SettledKeeps ==
    ASSUME Inv, Kept, NEW s \in Sweeps, run[s].pc = "settle",
           NEW p \in run[s].rest, IsSettled(s, p),
           links' \in {Replaced(s, p), [links EXCEPT ![p] = LetGo(s, @)]},
           UNCHANGED <<day, owed, answered, office, crossed>>
    PROVE  Kept'
<1>1. /\ run \in [Sweeps -> Runs] /\ run[s] \in Runs /\ links \in [Pairs -> SUBSET Links]
      /\ run[s].rest = run[s].fresh /\ run[s].fresh \subseteq run[s].mine /\ p \in Pairs
  BY DEF Inv, TypeOK, Kept, FreshInHand, Runs
<1>2. /\ \A t \in Sweeps \ {s} : run'[t] = run[t]
      /\ run'[s].fresh = run[s].fresh \ {p}
      /\ \/ run'[s].pc = "next" /\ run'[s].fresh = {}
         \/ /\ run'[s].pc = "settle" /\ run'[s].rest = run[s].rest \ {p}
            /\ run'[s].day = run[s].day /\ run'[s].mine = run[s].mine
  <2>1. CASE run[s].rest = {p} /\ NextAddress(s)
    <3> DEFINE r == [Idle EXCEPT !.pc = "next", !.day = run[s].day, !.todo = run[s].todo]
    <3>1. r.pc = "next" /\ r.fresh = {}
      BY DEF Idle
    <3>2. run'[s] = r /\ \A t \in Sweeps \ {s} : run'[t] = run[t]
      BY <1>1, <2>1 DEF NextAddress, Becomes
    <3> HIDE DEF r
    <3> QED
      BY <1>1, <2>1, <3>1, <3>2
  <2>2. CASE Becomes(s, [run[s] EXCEPT !.rest = @ \ {p}, !.fresh = @ \ {p}])
    BY <1>1, <2>2 DEF Becomes, Runs
  <2> QED
    BY <2>1, <2>2 DEF IsSettled
<1>3. \A q \in Pairs \ {p} : links'[q] = links[q]
  BY <1>1 DEF Replaced
<1>4. /\ \A m \in links'[p] : \E l \in links[p] : Copies(m, l, IF l.by = s THEN "nobody" ELSE l.by)
      /\ \A l \in links[p] : l.by = s => \E m \in links'[p] : Copies(m, l, "nobody")
  <2>1. CASE links' = Replaced(s, p)
    <3>1. links'[p] = LetGo(s, FreshLinks(s, p)) /\ FreshLinks(s, p) \in SUBSET Links
      BY <1>1, <2>1 DEF Replaced, FreshLinks
    <3>2. /\ \A m \in links'[p] : \E l \in FreshLinks(s, p) :
                 Copies(m, l, IF l.by = s THEN "nobody" ELSE l.by)
          /\ \A l \in FreshLinks(s, p) : \E m \in links'[p] :
                 Copies(m, l, IF l.by = s THEN "nobody" ELSE l.by)
      BY <3>1, LetGoCopies
    <3>3. FreshLinks(s, p) = {l \in links[p] : l.by = s}
      BY DEF FreshLinks
    <3> QED
      BY <3>2, <3>3
  <2>2. CASE links' = [links EXCEPT ![p] = LetGo(s, @)]
    <3>1. links'[p] = LetGo(s, links[p]) /\ links[p] \in SUBSET Links
      BY <1>1, <2>2
    <3> QED
      BY <3>1, LetGoCopies
  <2> QED
    BY <2>1, <2>2
<1>5. \A l \in links[p] : l.by = s => l.held
  BY <1>1 DEF Kept, LinkKnown
<1>6. ASSUME NEW t \in Sweeps PROVE FreshInHand(t)'
  <2>1. CASE t = s
    BY <1>1, <1>2, <2>1 DEF FreshInHand
  <2>2. CASE t # s
    BY <1>2, <2>2 DEF Kept, FreshInHand
  <2> QED
    BY <2>1, <2>2
<1>7. ASSUME NEW q \in Pairs, NEW m \in links'[q] PROVE LinkKnown(q, m)'
  <2>1. CASE q # p
    <3>1. LinkKnown(q, m)
      BY <1>3, <2>1 DEF Kept
    <3>2. CASE m.by = s
      BY <1>2, <2>1, <3>1, <3>2 DEF LinkKnown, Undelivered
    <3>3. CASE m.by # s
      BY <1>2, <3>1, <3>3 DEF LinkKnown, Undelivered
    <3> QED
      BY <3>2, <3>3
  <2>2. CASE q = p
    <3>1. PICK l \in links[p] : Copies(m, l, IF l.by = s THEN "nobody" ELSE l.by)
      BY <1>4, <2>2
    <3>2. LinkKnown(p, l)
      BY <1>1 DEF Kept
    <3>3. CASE l.by = s
      BY <3>1, <3>3, RemindersAssumption DEF LinkKnown, Copies
    <3>4. CASE l.by # s
      BY <1>2, <2>2, <3>1, <3>2, <3>4 DEF LinkKnown, Copies, Undelivered
    <3> QED
      BY <3>3, <3>4
  <2> QED
    BY <2>1, <2>2
<1>8. ASSUME NEW t \in Sweeps, NEW q \in Pairs PROVE Young(t, q)' /\ HasItsLink(t, q)'
  <2>1. Young(t, q) /\ HasItsLink(t, q) /\ Counts(q)' = Counts(q)
    BY DEF Kept, Counts
  <2>2. CASE q # p
    <3>1. FreshLinks(t, q)' = FreshLinks(t, q) /\ links'[q] = links[q]
      BY <1>3, <2>2 DEF FreshLinks
    <3>2. CASE t = s
      <4>1. Timely(t) /\ run'[t].fresh \subseteq run[t].fresh
        BY <1>2, <3>2 DEF Timely, Sending
      <4>2. run'[t].fresh = {} \/ run'[t].day = run[t].day
        BY <1>2, <3>2
      <4> QED
        BY <2>1, <3>1, <4>1, <4>2 DEF Young, HasItsLink
    <3>3. CASE t # s
      <4>1. run'[t] = run[t] /\ Timely(t)' = Timely(t)
        BY <1>2, <3>3 DEF Timely, Sending
      <4> QED
        BY <2>1, <3>1, <4>1 DEF Young, HasItsLink
    <3> QED
      BY <3>2, <3>3
  <2>3. CASE q = p /\ t = s
    BY <1>2, <2>3 DEF Young, HasItsLink
  <2>4. CASE q = p /\ t # s
    <3>1. run'[t] = run[t] /\ Timely(t)' = Timely(t)
      BY <1>2, <2>4 DEF Timely, Sending
    <3>2. Timely(t) /\ p \in run[t].fresh => OfferOf[p] \in answered
      BY <1>1, <2>4, OneMails DEF Sending
    <3> QED
      BY <2>1, <2>4, <3>1, <3>2 DEF Young, HasItsLink, Counts
  <2> QED
    BY <2>2, <2>3, <2>4
<1>9. \A t, u \in Sweeps, q \in Pairs : Overtaken(t, u, q)'
  BY <1>2 DEF Kept, Overtaken, Sending, Joined
<1>10. ASSUME NEW q \in Pairs PROVE OfficeHasIts(q)' /\ HasOne(q)'
  <2>1. OfficeHasIts(q) /\ HasOne(q) /\ HasItsLink(s, q) /\ Counts(q)' = Counts(q)
    BY DEF Kept, Counts
  <2>2. CASE q # p
    BY <1>3, <2>1, <2>2 DEF OfficeHasIts, HasOne
  <2>3. CASE q = p
    <3>1. Counts(p) /\ (p \in owed \/ office[p] = "issued") => FreshLinks(s, p) # {}
      BY <1>1, <2>1, <2>3 DEF HasItsLink, Timely, Sending
    <3>2. FreshLinks(s, p) # {} => \E m \in links'[p] : m.held
      BY <1>4, <1>5 DEF FreshLinks, Copies
    <3> QED
      BY <2>1, <2>3, <3>1, <3>2 DEF OfficeHasIts, HasOne
  <2> QED
    BY <2>2, <2>3
<1> QED
  BY <1>6, <1>7, <1>8, <1>9, <1>10 DEF Kept

\* A sweep with a link in hand is of today, as long as none is overdue.
LEMMA InTime ==
    ASSUME Inv, Kept, ~ Overdue, NEW s \in Sweeps, NEW p \in run[s].fresh
    PROVE  run[s].day = day /\ SomeRun
<1>1. run[s].pc # "idle"
  BY InHand
<1> QED
  BY <1>1 DEF Overdue, SomeRun, At

\* Links grow older, but those a sweep has in hand do not get old.
LEMMA AgesKeep ==
    ASSUME Inv, Kept, ~ Overdue,
           \A q \in Pairs : \A m \in links'[q] : \E l \in links[q] :
               /\ m.by = l.by /\ m.held = l.held
               /\ l.age = "today" /\ SomeRun => m.age # "old" /\ (day' = day => m.age = "today"),
           \A q \in Pairs : \A l \in links[q] : \E m \in links'[q] : m.by = l.by /\ m.held = l.held,
           \A s \in Sweeps : run[s].pc # "idle" => day' = day \/ run[s].day # day',
           UNCHANGED <<run, owed, answered, office, crossed>>
    PROVE  Kept'
<1>1. \A s \in Sweeps : FreshInHand(s)'
  BY DEF Kept, FreshInHand
<1>2. ASSUME NEW s \in Sweeps, NEW p \in run[s].fresh
      PROVE  /\ run[s].day = day /\ SomeRun
             /\ run[s].pc # "idle" /\ (day' = day \/ run[s].day # day')
  BY InTime, InHand
<1>3. ASSUME NEW q \in Pairs, NEW m \in links'[q] PROVE LinkKnown(q, m)'
  <2>1. PICK l \in links[q] :
            /\ m.by = l.by /\ m.held = l.held
            /\ l.age = "today" /\ SomeRun => m.age # "old" /\ (day' = day => m.age = "today")
    OBVIOUS
  <2>2. LinkKnown(q, l)
    BY DEF Kept
  <2>3. CASE l.by \in Sweeps
    <3>1. q \in run[l.by].fresh /\ (run[l.by].day = day => l.age = "today")
      BY <2>2, <2>3 DEF LinkKnown
    <3>2. run[l.by].day = day /\ SomeRun /\ (day' = day \/ run[l.by].day # day')
      BY <1>2, <2>3, <3>1
    <3>3. m.age # "old" /\ (run[l.by].day = day' => m.age = "today")
      BY <2>1, <3>1, <3>2
    <3> QED
      BY <2>1, <2>2, <2>3, <3>3 DEF LinkKnown, Undelivered
  <2>4. CASE l.by \notin Sweeps
    BY <2>1, <2>2, <2>4 DEF LinkKnown
  <2> QED
    BY <2>3, <2>4
<1>4. ASSUME NEW s \in Sweeps, NEW q \in Pairs PROVE Young(s, q)' /\ HasItsLink(s, q)'
  <2>1. Young(s, q) /\ HasItsLink(s, q) /\ Counts(q)' = Counts(q)
    BY DEF Kept, Counts
  <2>2. CASE q \notin run[s].fresh
    BY <2>2 DEF Young, HasItsLink
  <2>3. CASE q \in run[s].fresh
    <3>1. run[s].day = day /\ SomeRun /\ (day' = day \/ run[s].day # day')
      BY <1>2, <2>3
    <3>2. Timely(s)' => Timely(s)
      BY <3>1 DEF Timely, Sending
    <3>3. FreshLinks(s, q) # {} => FreshLinks(s, q)' # {}
      BY DEF FreshLinks
    <3>4. Young(s, q)'
      BY <2>1, <2>3, <3>1, <3>2, <3>3 DEF Young
    <3> QED
      BY <2>1, <3>2, <3>3, <3>4 DEF HasItsLink
  <2> QED
    BY <2>2, <2>3
<1>5. ASSUME NEW s \in Sweeps, NEW t \in Sweeps, NEW q \in Pairs PROVE Overtaken(s, t, q)'
  <2> SUFFICES ASSUME Joined(t), run[t].day = day', q \in run[s].fresh, run[s].day # day'
               PROVE  FALSE
    BY DEF Overtaken, Joined
  <2>1. run[s].day = day /\ day' # day
    BY <1>2
  <2>2. run[t].pc # "idle"
    BY DEF Joined
  <2> QED
    BY <2>1, <2>2
<1>6. \A q \in Pairs : OfficeHasIts(q)' /\ HasOne(q)'
  BY DEF Kept, OfficeHasIts, HasOne, Counts
<1> QED
  BY <1>1, <1>3, <1>4, <1>5, <1>6 DEF Kept

LEMMA NewDayKeeps == ASSUME Inv, Kept, NewDay PROVE Kept'
<1>1. PICK young \in SUBSET Pairs :
          /\ SomeRun => young = Pairs
          /\ links' = [p \in Pairs |-> {[l EXCEPT !.age = IF @ = "today" /\ p \in young THEN "night" ELSE "old"] :
                                           l \in links[p]}]
  BY DEF NewDay
<1> DEFINE c(p, l) == [l EXCEPT !.age = IF @ = "today" /\ p \in young THEN "night" ELSE "old"]
<1>2. ASSUME NEW q \in Pairs
      PROVE  /\ links'[q] = {c(q, l) : l \in links[q]}
             /\ \A l \in links[q] : /\ c(q, l).by = l.by /\ c(q, l).held = l.held
                                    /\ l.age = "today" /\ SomeRun => c(q, l).age # "old"
  <2>1. links'[q] = {c(q, l) : l \in links[q]} /\ links[q] \in SUBSET Links
    BY <1>1 DEF Inv, TypeOK
  <2>2. \A l \in Links : /\ c(q, l).by = l.by /\ c(q, l).held = l.held
                         /\ l.age = "today" /\ SomeRun => c(q, l).age # "old"
    BY <1>1 DEF Links
  <2> QED
    BY <2>1, <2>2
<1> HIDE DEF c
<1>3. ~ Overdue /\ day' # day /\ UNCHANGED <<run, owed, answered, office, crossed>>
  BY DEF NewDay, Inv, TypeOK, Days
<1>4. \A s \in Sweeps : run[s].pc # "idle" => day' = day \/ run[s].day # day'
  BY <1>3 DEF Overdue, At
<1>5. \A q \in Pairs : \A m \in links'[q] : \E l \in links[q] :
          /\ m.by = l.by /\ m.held = l.held
          /\ l.age = "today" /\ SomeRun => m.age # "old" /\ (day' = day => m.age = "today")
  BY <1>2, <1>3
<1>6. \A q \in Pairs : \A l \in links[q] : \E m \in links'[q] : m.by = l.by /\ m.held = l.held
  BY <1>2
<1> QED
  BY <1>3, <1>4, <1>5, <1>6, AgesKeep

LEMMA HoursPassKeeps == ASSUME Inv, Kept, NEW p \in Pairs, HoursPass(p) PROVE Kept'
<1> DEFINE c(l) == [l EXCEPT !.age = IF @ = "night" THEN "old" ELSE @]
<1>1. /\ links'[p] = {c(l) : l \in links[p]} /\ links[p] \in SUBSET Links
      /\ \A q \in Pairs \ {p} : links'[q] = links[q]
  BY DEF HoursPass, Inv, TypeOK
<1>2. \A l \in Links : /\ c(l).by = l.by /\ c(l).held = l.held
                       /\ l.age = "today" => c(l).age = "today"
  BY DEF Links
<1> HIDE DEF c
<1>3. ~ Overdue /\ day' = day /\ UNCHANGED <<run, owed, answered, office, crossed>>
  BY DEF HoursPass, worldVars, sweepVars
<1>4. \A q \in Pairs : \A m \in links'[q] : \E l \in links[q] :
          /\ m.by = l.by /\ m.held = l.held
          /\ l.age = "today" /\ SomeRun => m.age # "old" /\ (day' = day => m.age = "today")
  <2>1. SUFFICES ASSUME NEW q \in Pairs, NEW m \in links'[q]
                 PROVE  \E l \in links[q] : /\ m.by = l.by /\ m.held = l.held
                                            /\ l.age = "today" => m.age = "today"
    OBVIOUS
  <2> QED
    BY <1>1, <1>2
<1>5. \A q \in Pairs : \A l \in links[q] : \E m \in links'[q] : m.by = l.by /\ m.held = l.held
  BY <1>1, <1>2
<1> QED
  BY <1>3, <1>4, <1>5, AgesKeep

\* A step of the world about pair p: no sweep moves, and the links of other
\* pairs stay.  What p's links have to be afterwards.
LEMMA PairKeeps ==
    ASSUME Inv, Kept, NEW p \in Pairs, UNCHANGED <<day, run>>,
           \A q \in Pairs \ {p} : /\ links'[q] = links[q] /\ office'[q] = office[q]
                                  /\ (q \in owed') = (q \in owed)
                                  /\ (q \in crossed') = (q \in crossed),
           answered \subseteq answered',
           \A m \in links'[p] : LinkKnown(p, m),
           \A s \in Sweeps : OfferOf[p] \notin answered' =>
               \/ FreshLinks(s, p) # {} /\ FreshLinks(s, p)' # {}
               \/ FreshLinks(s, p) = {} /\ \A m \in links'[p] : m.age = "today" \/ \E l \in links[p] : l.age = m.age
               \/ \A m \in links'[p] : m.age = "today",
           \A s \in Sweeps : HasItsLink(s, p)',
           OfficeHasIts(p)', HasOne(p)'
    PROVE  Kept'
<1>1. \A s \in Sweeps : FreshInHand(s)'
  BY DEF Kept, FreshInHand
<1>2. ASSUME NEW q \in Pairs, NEW m \in links'[q] PROVE LinkKnown(q, m)'
  <2>1. LinkKnown(q, m)
    BY DEF Kept
  <2> QED
    BY <2>1 DEF LinkKnown, Undelivered
<1>3. ASSUME NEW s \in Sweeps, NEW q \in Pairs PROVE Young(s, q)'
  <2>1. Young(s, q) /\ Timely(s)' = Timely(s)
    BY DEF Kept, Timely, Sending
  <2>2. CASE q = p
    BY <2>1, <2>2 DEF Young
  <2>3. CASE q # p
    <3>1. FreshLinks(s, q)' = FreshLinks(s, q)
      BY <2>3 DEF FreshLinks
    <3> QED
      BY <2>1, <2>3, <3>1 DEF Young
  <2> QED
    BY <2>2, <2>3
<1>4. ASSUME NEW s \in Sweeps, NEW q \in Pairs \ {p} PROVE HasItsLink(s, q)'
  <2>1. HasItsLink(s, q) /\ Timely(s)' = Timely(s) /\ FreshLinks(s, q)' = FreshLinks(s, q)
    BY DEF Kept, Timely, Sending, FreshLinks
  <2>2. Counts(q)' => Counts(q)
    BY DEF Counts
  <2> QED
    BY <2>1, <2>2 DEF HasItsLink
<1>5. \A s, t \in Sweeps, q \in Pairs : Overtaken(s, t, q)'
  BY DEF Kept, Overtaken, Sending, Joined
<1>6. ASSUME NEW q \in Pairs \ {p} PROVE OfficeHasIts(q)' /\ HasOne(q)'
  <2>1. OfficeHasIts(q) /\ HasOne(q)
    BY DEF Kept
  <2>2. Counts(q)' => Counts(q)
    BY DEF Counts
  <2> QED
    BY <2>1, <2>2 DEF OfficeHasIts, HasOne
<1> QED
  BY <1>1, <1>2, <1>3, <1>4, <1>5, <1>6 DEF Kept

\* The office or the deadline takes the links of a pair.
LEMMA TakenKeeps == ASSUME Inv, Kept, NEW p \in Pairs, OfficeRevokes(p) \/ Expires(p) PROVE Kept'
<1>1. /\ UNCHANGED <<day, run, crossed, answered>> /\ owed' = owed \ {p}
      /\ links' = [links EXCEPT ![p] = {}]
      /\ office[p] = "idle" /\ (office' = office \/ office' = [office EXCEPT ![p] = "revoked"])
  BY DEF OfficeRevokes, Expires, worldVars, sweepVars
<1>2. links'[p] = {} /\ office'[p] # "issued" /\ p \notin owed'
  BY <1>1 DEF Inv, TypeOK
<1>3. \A q \in Pairs \ {p} : links'[q] = links[q] /\ office'[q] = office[q] /\ (q \in owed') = (q \in owed)
  BY <1>1 DEF Inv, TypeOK
<1>4. OfficeHasIts(p)' /\ HasOne(p)' /\ \A s \in Sweeps : HasItsLink(s, p)'
  BY <1>2 DEF OfficeHasIts, HasOne, HasItsLink
<1> QED
  BY <1>1, <1>2, <1>3, <1>4, PairKeeps

\* The office issues another one.
LEMMA OfficeIssuesKeeps == ASSUME Inv, Kept, NEW p \in Pairs, OfficeIssues(p) PROVE Kept'
<1>1. PICK byMail \in BOOLEAN :
          /\ links' = [links EXCEPT ![p] = @ \cup {[age |-> "today", byMail |-> byMail, held |-> ~ byMail,
                                                    by |-> IF byMail THEN "office" ELSE "nobody"]}]
          /\ office' = [office EXCEPT ![p] = IF byMail THEN "issued" ELSE "idle"]
          /\ owed' = IF byMail THEN owed ELSE owed \cup {p}
  BY DEF OfficeIssues
<1> DEFINE new == [age |-> "today", byMail |-> byMail, held |-> ~ byMail,
                   by |-> IF byMail THEN "office" ELSE "nobody"]
<1>2. /\ links'[p] = links[p] \cup {new}
      /\ \A q \in Pairs \ {p} : links'[q] = links[q]
  BY <1>1 DEF Inv, TypeOK
<1>3. /\ new.age = "today" /\ new.by \notin Sweeps
      /\ byMail => new.by = "office" /\ ~ new.held
      /\ ~ byMail => new.by = "nobody" /\ new.held
  BY RemindersAssumption
<1> HIDE DEF new
<1>4. /\ UNCHANGED <<day, run, answered>> /\ office[p] = "revoked"
      /\ crossed' = IF LostBySweep(p) THEN crossed \cup {p} ELSE crossed \ {p}
  BY DEF OfficeIssues, sweepVars
<1>5. /\ office'[p] = IF byMail THEN "issued" ELSE "idle"
      /\ \A q \in Pairs \ {p} : office'[q] = office[q]
  BY <1>1 DEF Inv, TypeOK
<1>6. \A q \in Pairs \ {p} : (q \in owed') = (q \in owed) /\ (q \in crossed') = (q \in crossed)
  BY <1>1, <1>4
<1>7. \A m \in links'[p] : LinkKnown(p, m)
  BY <1>2, <1>3 DEF Kept, LinkKnown
<1>8. \A s \in Sweeps : FreshLinks(s, p)' = FreshLinks(s, p)
  BY <1>2, <1>3 DEF FreshLinks
<1>9. \A s \in Sweeps : \/ FreshLinks(s, p) # {} /\ FreshLinks(s, p)' # {}
                        \/ /\ FreshLinks(s, p) = {}
                           /\ \A m \in links'[p] : m.age = "today" \/ \E l \in links[p] : l.age = m.age
  BY <1>2, <1>3, <1>8
<1>10. /\ OfficeHasIts(p)' /\ HasOne(p)'
       /\ \A s \in Sweeps : HasItsLink(s, p)'
  <2>1. CASE LostBySweep(p)
    <3>1. ~ Counts(p)'
      BY <1>4, <1>5, <2>1 DEF Counts
    <3> QED
      BY <3>1 DEF OfficeHasIts, HasOne, HasItsLink
  <2>2. CASE ~ LostBySweep(p)
    <3>1. \A s \in Sweeps : HasItsLink(s, p)'
      BY <1>4, <1>8, <2>2 DEF LostBySweep, HasItsLink
    <3>2. OfficeHasIts(p)'
      BY <1>2, <1>3, <1>5 DEF OfficeHasIts
    <3>3. HasOne(p)'
      BY <1>1, <1>2, <1>3, <1>4 DEF Kept, HasOne, Counts
    <3> QED
      BY <3>1, <3>2, <3>3
  <2> QED
    BY <2>1, <2>2
<1> QED
  BY <1>2, <1>4, <1>5, <1>6, <1>7, <1>9, <1>10, PairKeeps

\* The mail of the office arrives, or does not.
LEMMA OfficeDoneKeeps ==
    ASSUME Inv, Kept, NEW p \in Pairs, OfficeMails(p) \/ OfficeStops(p) PROVE Kept'
<1>1. PICK held \in BOOLEAN :
          /\ links' = [links EXCEPT ![p] = OfficeLink(p, held)]
          /\ held => office[p] = "issued" /\ owed' = owed \cup {p}
          /\ ~ held => owed' = owed
  BY DEF OfficeMails, OfficeStops
<1> DEFINE c(l) == IF l.by = "office" THEN [l EXCEPT !.by = "nobody", !.held = held] ELSE l
<1>2. /\ links'[p] = {c(l) : l \in links[p]} /\ links[p] \in SUBSET Links
      /\ \A q \in Pairs \ {p} : links'[q] = links[q]
  BY <1>1 DEF OfficeLink, Inv, TypeOK
<1>3. \A l \in Links : /\ c(l).age = l.age
                       /\ l.by # "office" => c(l) = l
                       /\ l.by = "office" => c(l).by = "nobody" /\ c(l).held = held
  BY DEF Links
<1> HIDE DEF c
<1>4. /\ UNCHANGED <<day, run, answered, crossed>> /\ office[p] # "idle"
      /\ office' = [office EXCEPT ![p] = "idle"]
  BY DEF OfficeMails, OfficeStops, sweepVars
<1>5. office'[p] = "idle" /\ \A q \in Pairs \ {p} : office'[q] = office[q]
  BY <1>4 DEF Inv, TypeOK
<1>6. \A q \in Pairs \ {p} : (q \in owed') = (q \in owed)
  BY <1>1
<1>7. ASSUME NEW m \in links'[p] PROVE LinkKnown(p, m)
  <2>1. PICK l \in links[p] : m = c(l) /\ l \in Links
    BY <1>2
  <2>2. CASE l.by = "office"
    BY <1>3, <2>1, <2>2, RemindersAssumption DEF LinkKnown
  <2>3. CASE l.by # "office"
    BY <1>3, <2>1, <2>3 DEF Kept
  <2> QED
    BY <2>2, <2>3
<1>8. \A s \in Sweeps : FreshLinks(s, p) # {} => FreshLinks(s, p)' # {}
  <2>1. SUFFICES ASSUME NEW s \in Sweeps, NEW l \in links[p], l.by = s
                 PROVE  \E m \in links'[p] : m.by = s
    BY DEF FreshLinks
  <2>2. c(l) = l
    BY <1>2, <1>3, <2>1, RemindersAssumption
  <2> QED
    BY <1>2, <2>1, <2>2
<1>9. \A m \in links'[p] : \E l \in links[p] : l.age = m.age
  BY <1>2, <1>3
<1>10. Counts(p)' => Counts(p)
  BY <1>4, <1>5 DEF Counts
<1>11. \A s \in Sweeps : HasItsLink(s, p)'
  <2>1. p \in owed' => p \in owed \/ office[p] = "issued"
    BY <1>1
  <2>2. \A s \in Sweeps : Timely(s)' = Timely(s) /\ run'[s].fresh = run[s].fresh
    BY <1>4 DEF Timely, Sending
  <2> QED
    BY <1>5, <1>8, <1>10, <2>1, <2>2 DEF Kept, HasItsLink
<1>12. HasOne(p)'
  <2> SUFFICES ASSUME p \in owed', Counts(p) PROVE \E m \in links'[p] : m.held
    BY <1>10 DEF HasOne
  <2>1. CASE held
    <3>1. PICK l \in links[p] : l.held \/ l.by = "office"
      BY <1>1, <2>1 DEF Kept, OfficeHasIts
    <3>2. c(l) \in links'[p] /\ c(l).held
      BY <1>2, <1>3, <2>1, <3>1
    <3> QED
      BY <3>2
  <2>2. CASE ~ held
    <3>1. PICK l \in links[p] : l.held
      BY <1>1, <2>2 DEF Kept, HasOne
    <3>2. l.by # "office"
      BY <3>1 DEF Kept, LinkKnown
    <3>3. c(l) \in links'[p] /\ c(l) = l
      BY <1>2, <1>3, <3>2
    <3> QED
      BY <3>1, <3>3
  <2> QED
    BY <2>1, <2>2
<1>13. OfficeHasIts(p)'
  BY <1>5 DEF OfficeHasIts
<1>14. answered \subseteq answered' /\ \A q \in Pairs \ {p} : (q \in crossed') = (q \in crossed)
  BY <1>4
<1> QED
  BY <1>2, <1>4, <1>5, <1>6, <1>7, <1>8, <1>9, <1>11, <1>12, <1>13, <1>14, PairKeeps

\* An answer uses a link up, and nothing is owed to whoever gave it.
LEMMA AnswersKeeps == ASSUME Inv, Kept, NEW p \in Pairs, Answers(p) PROVE Kept'
<1>1. /\ UNCHANGED <<day, run, office, owed, crossed>> /\ answered' = answered \cup {OfferOf[p]}
      /\ \E l \in links[p] : links' = [links EXCEPT ![p] = @ \ {l}]
  BY DEF Answers, sweepVars
<1>2. links'[p] \subseteq links[p] /\ \A q \in Pairs \ {p} : links'[q] = links[q]
  BY <1>1 DEF Inv, TypeOK
<1>3. OfferOf[p] \in answered'
  BY <1>1
<1>4. \A m \in links'[p] : LinkKnown(p, m)
  BY <1>2 DEF Kept
<1>5. OfficeHasIts(p)' /\ HasOne(p)' /\ \A s \in Sweeps : HasItsLink(s, p)'
  BY <1>3 DEF OfficeHasIts, HasOne, HasItsLink, Counts
<1> QED
  BY <1>1, <1>2, <1>3, <1>4, <1>5, PairKeeps

\* The steps of a sweep that has issued nothing.
LEMMA EmptyHandedKeeps ==
    ASSUME Inv, Kept, NEW s \in Sweeps,
           Start(s) \/ TakeAddress(s) \/ Finish(s) \/ ClaimPair(s) \/ Revalidate(s) \/ Breaks(s)
    PROVE  Kept'
<1>1. /\ run \in [Sweeps -> Runs] /\ run[s] \in Runs /\ run[s].fresh = {}
      /\ run[s].pc \in {"idle", "next", "claim"}
  BY DEF Inv, TypeOK, Kept, FreshInHand, At, Start, TakeAddress, Finish, ClaimPair, Revalidate, Breaks
<1>2. UNCHANGED <<day, links, owed, answered, office, crossed>>
  BY DEF Start, TakeAddress, Finish, ClaimPair, Revalidate, Breaks, worldVars
<1>3. PICK r : Becomes(s, r) /\ r.fresh = {}
               /\ \/ r.pc \in {"idle", "next", "claim"}
                  \/ r.pc = "issue" /\ r.rest = r.mine /\ \A p \in r.mine : Due(p)
  <2>1. CASE Start(s)
    <3>1. PICK c : Becomes(s, IF c = {} THEN Idle
                              ELSE [Idle EXCEPT !.pc = "next", !.day = day,
                                                !.todo = {<<p, email[p]>> : p \in c}])
      BY <2>1 DEF Start
    <3> DEFINE todo == {<<p, email[p]>> : p \in c}
               r == IF c = {} THEN Idle ELSE [Idle EXCEPT !.pc = "next", !.day = day, !.todo = todo]
    <3>2. Becomes(s, r)
      BY <3>1
    <3> HIDE DEF todo
    <3>3. r.fresh = {} /\ r.pc \in {"idle", "next", "claim"}
      BY DEF Idle
    <3> HIDE DEF r
    <3> QED
      BY <3>2, <3>3
  <2>2. CASE TakeAddress(s)
    <3>1. PICK a : \/ Becomes(s, [run[s] EXCEPT !.pc = "claim", !.to = a,
                                    !.todo = @ \ {t \in run[s].todo : t[2] = a},
                                    !.rest = {t[1] : t \in {t \in run[s].todo : t[2] = a}}])
                   \/ Becomes(s, [run[s] EXCEPT !.todo = @ \ {t \in run[s].todo : t[2] = a}])
      BY <2>2 DEF TakeAddress
    <3> DEFINE todo == run[s].todo \ {t \in run[s].todo : t[2] = a}
               rest == {t[1] : t \in {t \in run[s].todo : t[2] = a}}
    <3>2. \/ Becomes(s, [run[s] EXCEPT !.pc = "claim", !.to = a, !.todo = todo, !.rest = rest])
          \/ Becomes(s, [run[s] EXCEPT !.todo = todo])
      BY <3>1
    <3> HIDE DEF todo, rest
    <3>3. CASE Becomes(s, [run[s] EXCEPT !.pc = "claim", !.to = a, !.todo = todo, !.rest = rest])
      <4> DEFINE r == [run[s] EXCEPT !.pc = "claim", !.to = a, !.todo = todo, !.rest = rest]
      <4>1. r.fresh = {} /\ r.pc = "claim"
        BY <1>1 DEF Runs
      <4>2. Becomes(s, r)
        BY <3>3
      <4> HIDE DEF r
      <4> QED
        BY <4>1, <4>2
    <3>4. CASE Becomes(s, [run[s] EXCEPT !.todo = todo])
      <4> DEFINE r == [run[s] EXCEPT !.todo = todo]
      <4>1. r.fresh = {} /\ r.pc = run[s].pc
        BY <1>1 DEF Runs
      <4>2. Becomes(s, r)
        BY <3>4
      <4> HIDE DEF r
      <4> QED
        BY <1>1, <4>1, <4>2
    <3> QED
      BY <3>2, <3>3, <3>4
  <2>3. CASE Finish(s)
    BY <2>3 DEF Finish, Idle
  <2>4. CASE ClaimPair(s)
    <3>1. PICK p : \/ Becomes(s, [run[s] EXCEPT !.rest = @ \ {p}, !.mine = @ \cup {p}])
                   \/ Becomes(s, [run[s] EXCEPT !.rest = @ \ {p}])
      BY <2>4 DEF ClaimPair
    <3> DEFINE r1 == [run[s] EXCEPT !.rest = @ \ {p}, !.mine = @ \cup {p}]
               r2 == [run[s] EXCEPT !.rest = @ \ {p}]
    <3>2. r1.fresh = {} /\ r1.pc = run[s].pc /\ r2.fresh = {} /\ r2.pc = run[s].pc
      BY <1>1 DEF Runs
    <3>3. Becomes(s, r1) \/ Becomes(s, r2)
      BY <3>1
    <3> HIDE DEF r1, r2
    <3> QED
      BY <1>1, <3>2, <3>3
  <2>5. CASE NextAddress(s)
    <3> DEFINE r == [Idle EXCEPT !.pc = "next", !.day = run[s].day, !.todo = run[s].todo]
    <3>1. r.fresh = {} /\ r.pc = "next"
      BY DEF Idle
    <3>2. Becomes(s, r)
      BY <2>5 DEF NextAddress
    <3> HIDE DEF r
    <3> QED
      BY <3>1, <3>2
  <2>6. CASE Becomes(s, [run[s] EXCEPT !.pc = "issue", !.mine = Stands(s), !.rest = Stands(s)])
    <3>1. \A p \in Stands(s) : Due(p)
      BY DEF Stands
    <3> HIDE DEF Stands
    <3> DEFINE r == [run[s] EXCEPT !.pc = "issue", !.mine = Stands(s), !.rest = Stands(s)]
    <3>2. r.fresh = {} /\ r.pc = "issue" /\ r.rest = Stands(s) /\ r.mine = Stands(s)
      BY <1>1 DEF Runs
    <3>3. Becomes(s, r)
      BY <2>6
    <3> HIDE DEF r
    <3> QED
      BY <3>1, <3>2, <3>3
  <2> QED
    BY <2>1, <2>2, <2>3, <2>4, <2>5, <2>6 DEF Revalidate, Breaks
<1>4. run'[s] = r /\ \A t \in Sweeps \ {s} : run'[t] = run[t]
  BY <1>1, <1>3 DEF Becomes
<1>5. FreshInHand(s)'
  BY <1>3, <1>4 DEF FreshInHand
<1>6. ~ Sending(s)' /\ (Joined(s)' => \A p \in run'[s].mine : Due(p))
  BY <1>3, <1>4 DEF Sending, Joined
<1> QED
  BY <1>1, <1>2, <1>3, <1>4, <1>5, <1>6, RunKeeps

\* The steps between the second reading and the mail that issue nothing.
LEMMA OnwardsKeeps ==
    ASSUME Inv, Kept, NEW s \in Sweeps, run[s].pc \in {"issue", "mail"},
           \A t \in Sweeps \ {s} : run'[t] = run[t],
           run'[s].fresh = run[s].fresh, run'[s].day = run[s].day, run'[s].mine = run[s].mine,
           \/ run'[s].pc = "undo"
           \/ run'[s].pc = "mail" /\ run[s].rest = {} /\ run[s].day = day /\ run[s].pc = "issue",
           UNCHANGED <<day, links, owed, answered, office, crossed>>
    PROVE  Kept'
<1>1. FreshInHand(s)
  BY DEF Kept
<1>2. FreshInHand(s)'
  BY <1>1 DEF FreshInHand
<1>3. /\ Timely(s)' => Timely(s)
      /\ Undelivered(s)' => Undelivered(s)
      /\ run'[s].pc # "settle"
      /\ Sending(s)' => run'[s].day = day
      /\ Joined(s)' => Joined(s)
  BY DEF Timely, Undelivered, Sending, Joined
<1> QED
  BY <1>2, <1>3, RunKeeps

LEMMA AtWorkKeeps ==
    ASSUME Inv, Kept, NEW s \in Sweeps,
           \/ Cancel(s) \/ GoAhead(s) \/ Mail(s) \/ Suppressed(s) \/ MailFails(s)
           \/ Undo(s) \/ UndoFails(s) \/ Settle(s) \/ SettleFails(s) \/ Dies(s)
    PROVE  Kept'
<1>1. run \in [Sweeps -> Runs] /\ run[s] \in Runs
  BY DEF Inv, TypeOK
<1>2. CASE Cancel(s)
  <2>1. PICK v : Becomes(s, [run[s] EXCEPT !.pc = "undo", !.verdict = v])
    BY <1>2 DEF Cancel
  <2>2. /\ run'[s].pc = "undo"
        /\ run'[s].day = run[s].day /\ run'[s].mine = run[s].mine /\ run'[s].fresh = run[s].fresh
        /\ \A t \in Sweeps \ {s} : run'[t] = run[t]
    BY <1>1, <2>1 DEF Becomes, Runs
  <2>3. run[s].pc = "issue" /\ UNCHANGED <<day, links, owed, answered, office, crossed>>
    BY <1>2 DEF Cancel, At, worldVars
  <2> QED
    BY <2>2, <2>3, OnwardsKeeps
<1>3. CASE Suppressed(s)
  <2>1. /\ run'[s].pc = "undo"
        /\ run'[s].day = run[s].day /\ run'[s].mine = run[s].mine /\ run'[s].fresh = run[s].fresh
        /\ \A t \in Sweeps \ {s} : run'[t] = run[t]
    BY <1>1, <1>3 DEF Suppressed, Becomes, Runs
  <2>2. run[s].pc = "mail" /\ UNCHANGED <<day, links, owed, answered, office, crossed>>
    BY <1>3 DEF Suppressed, At, worldVars
  <2> QED
    BY <2>1, <2>2, OnwardsKeeps
<1>4. CASE GoAhead(s)
  <2>1. /\ run'[s].pc = "mail"
        /\ run'[s].day = run[s].day /\ run'[s].mine = run[s].mine /\ run'[s].fresh = run[s].fresh
        /\ \A t \in Sweeps \ {s} : run'[t] = run[t]
    BY <1>1, <1>4 DEF GoAhead, Goes, Becomes, Runs
  <2>2. /\ run[s].pc = "issue" /\ run[s].rest = {} /\ run[s].day = day
        /\ UNCHANGED <<day, links, owed, answered, office, crossed>>
    BY <1>4 DEF GoAhead, At, worldVars
  <2> QED
    BY <2>1, <2>2, OnwardsKeeps
<1>5. CASE Mail(s)
  <2>1. /\ run[s].pc = "mail" /\ Arrives(s) /\ UNCHANGED <<day, answered, office, crossed>>
        /\ Becomes(s, [run[s] EXCEPT !.pc = "settle", !.rest = run[s].mine])
    BY <1>5 DEF Mail, At, worldVars
  <2>2. /\ run'[s].pc = "settle" /\ run'[s].rest = run[s].mine
        /\ run'[s].day = run[s].day /\ run'[s].mine = run[s].mine /\ run'[s].fresh = run[s].fresh
        /\ \A t \in Sweeps \ {s} : run'[t] = run[t]
    BY <1>1, <2>1 DEF Becomes, Runs
  <2> QED
    BY <2>1, <2>2, ArrivesKeeps
<1>6. CASE MailFails(s)
  <2>1. PICK keep \in BOOLEAN :
            /\ Becomes(s, [run[s] EXCEPT !.pc = "undo", !.verdict = "failed", !.keep = keep])
            /\ \/ keep /\ Arrives(s)
               \/ UNCHANGED <<links, mailed, reminded, owed>>
    BY <1>6 DEF MailFails
  <2>2. run[s].pc = "mail" /\ UNCHANGED <<day, answered, office, crossed>>
    BY <1>6 DEF MailFails, At, worldVars
  <2>3. CASE keep /\ Arrives(s)
    <3>1. /\ run'[s].pc = "undo" /\ run'[s].keep
          /\ run'[s].day = run[s].day /\ run'[s].mine = run[s].mine /\ run'[s].fresh = run[s].fresh
          /\ \A t \in Sweeps \ {s} : run'[t] = run[t]
      BY <1>1, <2>1, <2>3 DEF Becomes, Runs
    <3> QED
      BY <2>2, <2>3, <3>1, ArrivesKeeps
  <2>4. CASE UNCHANGED <<links, owed>>
    <3>1. /\ run'[s].pc = "undo"
          /\ run'[s].day = run[s].day /\ run'[s].mine = run[s].mine /\ run'[s].fresh = run[s].fresh
          /\ \A t \in Sweeps \ {s} : run'[t] = run[t]
      BY <1>1, <2>1 DEF Becomes, Runs
    <3> QED
      BY <2>2, <2>4, <3>1, OnwardsKeeps
  <2> QED
    BY <2>1, <2>3, <2>4
<1>7. CASE Settle(s) \/ SettleFails(s)
  <2>1. PICK p \in run[s].rest :
            /\ IsSettled(s, p)
            /\ links' \in {Replaced(s, p), [links EXCEPT ![p] = LetGo(s, @)]}
    BY <1>7 DEF Settle, SettleFails
  <2>2. run[s].pc = "settle" /\ UNCHANGED <<day, owed, answered, office, crossed>>
    BY <1>7 DEF Settle, SettleFails, At, worldVars
  <2> QED
    BY <2>1, <2>2, SettledKeeps
<1>8. CASE Undo(s) \/ UndoFails(s) \/ Dies(s)
  <2>1. /\ links' = Forgotten(s) \/ (Undelivered(s) /\ links' = Revoked(s))
        /\ UNCHANGED <<day, owed, answered, office, crossed>>
    BY <1>8 DEF Undo, UndoFails, Dies, At, Leftover, Undelivered, worldVars
  <2>2. PICK r : Becomes(s, r) /\ r.pc \in {"idle", "next"} /\ r.fresh = {}
    <3> DEFINE r == [Idle EXCEPT !.pc = "next", !.day = run[s].day, !.todo = run[s].todo]
    <3>1. r.fresh = {} /\ r.pc = "next" /\ Idle.fresh = {} /\ Idle.pc = "idle"
      BY DEF Idle
    <3>2. Becomes(s, r) \/ Becomes(s, Idle)
      BY <1>8 DEF Undo, UndoFails, Dies, NextAddress
    <3> HIDE DEF r
    <3> QED
      BY <3>1, <3>2
  <2>3. run'[s] = r /\ \A t \in Sweeps \ {s} : run'[t] = run[t]
    BY <1>1, <2>2 DEF Becomes
  <2> QED
    BY <2>1, <2>2, <2>3, DropsKeeps
<1> QED
  BY <1>2, <1>3, <1>4, <1>5, <1>6, <1>7, <1>8

LEMMA NextKept == Inv /\ Kept /\ [Next]_vars => Kept'
<1> SUFFICES ASSUME Inv, Kept, [Next]_vars PROVE Kept'
  OBVIOUS
<1>1. ASSUME NEW s \in Sweeps, Start(s) \/ Advance(s) \/ Fault(s) PROVE Kept'
  BY <1>1, EmptyHandedKeeps, IssueKeeps, AtWorkKeeps DEF Advance, Fault
<1>2. ASSUME NEW p \in Pairs, World(p) \/ HoursPass(p) PROVE Kept'
  <2>1. CASE Moves(p)
    BY <2>1, QuietKeeps DEF Moves, sweepVars
  <2> QED
    BY <1>2, <2>1, HoursPassKeeps, TakenKeeps, OfficeIssuesKeeps, OfficeDoneKeeps, AnswersKeeps DEF World
<1>3. CASE Toggles
  BY <1>3, QuietKeeps DEF Toggles, sweepVars
<1>4. CASE UNCHANGED vars
  BY <1>4, QuietKeeps DEF vars
<1> QED
  BY <1>1, <1>2, <1>3, <1>4, NewDayKeeps DEF Next

\* Whatever sweeps fail, die, or meet over midnight and whatever the office does
\* meanwhile, a supplier who waits keeps a link that works, unless the office
\* issued one under a sweep that had lost its own.
THEOREM SuppliersKeepTheirLinks == Spec => []SupplierKeepsALink
<1>1. Init => Inv /\ Kept
  BY InitInv, InitKept
<1>2. Inv /\ Kept /\ [Next]_vars => Inv' /\ Kept'
  BY NextInv, NextKept
<1>3. Inv /\ Kept => SupplierKeepsALink
  BY DEF Inv, TypeOK, Kept, HasOne, Counts, SupplierKeepsALink, Waiting
<1> QED
  BY <1>1, <1>2, <1>3, PTL DEF Spec
===============================================================================
