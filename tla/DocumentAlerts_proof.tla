-------------------------- MODULE DocumentAlerts_proof --------------------------
(***************************************************************************)
(* Proofs about DocumentAlerts: type correctness, ownership of the claims  *)
(* a live run works on, and that deliveries are neither forgotten nor made *)
(* up, for any number of documents, runs, milestones and failures.         *)
(***************************************************************************)
EXTENDS DocumentAlerts, TLAPS

-----------------------------------------------------------------------------
(* The inductive invariant.                                                *)

\* A live run owns the rows it remembers having claimed, and no other.
Owns ==
    \A s \in Slots : ~At(s, "ended") =>
        \A k \in Keys : alert[k] = s <=> k \in run[s].claimed

\* Only dead runs with claims are old, and only dead runs are settled.
OnlyDeadSettled ==
    /\ \A s \in old : At(s, "ended") /\ \E k \in Keys : alert[k] = s
    /\ \A s \in Slots : \A t \in run[s].orphans : At(t, "ended")

\* What the database records as delivered was mailed.
RecordedMailed ==
    /\ SentMeansMailed
    /\ \A s \in Slots : run[s].pc \in {"log", "mark"} =>
          \A k \in run[s].claimed : mails[k] > 0
    /\ \A s \in logged : \A k \in Keys : alert[k] = s => mails[k] > 0
    /\ \A s \in logged : run[s].pc \in {"mark", "ended"}

\* What was once recorded is still recorded.
TraceKept == \A k \in traced : alert[k] = "sent" \/ alert[k] \in logged

\* A run that has met nothing in flight has accounted for all it found due.
Accounted ==
    \A s \in Slots :
        /\ run[s].pc \in {"recipients", "claim", "conflicts"} /\ ~run[s].inFlight =>
              \A k \in run[s].due :
                  \/ k \in run[s].pending \cup run[s].claimed \cup run[s].conflicts
                  \/ alert[k] = "sent"
        /\ run[s].pc = "conflicts" => run[s].pending = {}

\* A run at work has not said that nothing is left.
Undecided ==
    \A s \in Slots : ~At(s, "ended") => run[s].outcome \notin {"nothing_due", "already_claimed"}

Inv ==
    /\ TypeOK
    /\ Owns
    /\ OnlyDeadSettled
    /\ RecordedMailed
    /\ TraceKept
    /\ Accounted
    /\ Undecided

-----------------------------------------------------------------------------
(* What the steps of a run do to what it remembers.                        *)

\* Only the record of s changes.
LEMMA BecomesFrame ==
    ASSUME run \in [Slots -> Runs], NEW s \in Slots, NEW r \in Runs, Becomes(s, r)
    PROVE  /\ run' \in [Slots -> Runs]
           /\ \A t \in Slots : t # s => run'[t] = run[t]
           /\ run'[s] = r
BY DEF Becomes

\* Goes moves the run and leaves what it remembers.
LEMMA GoesFrame ==
    ASSUME run \in [Slots -> Runs], NEW s \in Slots, NEW pc \in Stages, Goes(s, pc)
    PROVE  /\ run' \in [Slots -> Runs]
           /\ \A t \in Slots : t # s => run'[t] = run[t]
           /\ run'[s].pc = pc /\ run'[s].orphans = run[s].orphans
           /\ run'[s].due = run[s].due /\ run'[s].pending = run[s].pending
           /\ run'[s].claimed = run[s].claimed /\ run'[s].conflicts = run[s].conflicts
           /\ run'[s].inFlight = run[s].inFlight /\ run'[s].outcome = run[s].outcome
BY DEF Goes, Becomes, Runs

\* Ends forgets all but the outcome.
LEMMA EndsFrame ==
    ASSUME run \in [Slots -> Runs], NEW s \in Slots, NEW o \in Outcomes, Ends(s, o)
    PROVE  /\ run' \in [Slots -> Runs]
           /\ \A t \in Slots : t # s => run'[t] = run[t]
           /\ run'[s].pc = "ended" /\ run'[s].orphans = {} /\ run'[s].claimed = {}
           /\ run'[s].outcome = o
<1>1. [Fresh EXCEPT !.outcome = o] \in Runs
  BY DEF Fresh, Runs, Stages
<1> QED BY <1>1, BecomesFrame DEF Ends, Fresh

\* One more failure stays within the bound.
LEMMA FailsType == ASSUME failures \in 0..MaxFailures, Fails PROVE failures' \in 0..MaxFailures
BY AlertsAssumption DEF Fails

\* The rows of s become r; the others stay.
LEMMA ResolvedFrame ==
    ASSUME alert \in [Keys -> {"none", "sent"} \cup Slots], NEW s \in Slots,
           NEW r \in {"none", "sent"}
    PROVE  /\ Resolved(s, r) \in [Keys -> {"none", "sent"} \cup Slots]
           /\ s # r
           /\ \A k \in Keys : Resolved(s, r)[k] = IF alert[k] = s THEN r ELSE alert[k]
BY AlertsAssumption DEF Resolved

-----------------------------------------------------------------------------
(* Every step preserves the invariant.                                     *)

LEMMA RunSteps ==
    ASSUME Inv, NEW s \in Slots, Start(s) \/ Advance(s) \/ Failure(s) \/ Age(s)
    PROVE  Inv'
<1>a. run \in [Slots -> Runs] /\ run[s] \in Runs
  BY DEF Inv, TypeOK
<1>b. \A t \in Slots : t \notin {"none", "sent"}
  BY AlertsAssumption
<1>c. /\ failures \in 0..MaxFailures
      /\ alert \in [Keys -> {"none", "sent"} \cup Slots]
      /\ mails \in [Keys -> Nat]
      /\ old \subseteq Slots /\ logged \subseteq Slots /\ traced \subseteq Keys
  BY DEF Inv, TypeOK
<1>d. \A t \in Slots :
         /\ run[t].orphans \subseteq Slots /\ run[t].due \subseteq Keys
         /\ run[t].pending \subseteq Keys /\ run[t].claimed \subseteq Keys
         /\ run[t].conflicts \subseteq Keys
  BY DEF Inv, TypeOK, Runs
<1>1. CASE Start(s)
  <2>1. [Fresh EXCEPT !.pc = "settle", !.orphans = Orphans] \in Runs
    BY DEF Runs, Stages, Outcomes, Fresh, Orphans, Inv, TypeOK
  <2>2. /\ run' \in [Slots -> Runs]
        /\ \A t \in Slots : t # s => run'[t] = run[t]
        /\ run'[s].pc = "settle" /\ run'[s].claimed = {} /\ run'[s].orphans \subseteq old
        /\ run'[s].outcome = "none"
    BY <1>a, <1>1, <2>1 DEF Becomes, Runs, Fresh, Start, Orphans
  <2>3. TypeOK'
    BY <1>1, <2>2 DEF Inv, TypeOK, Start
  <2>4. Owns'
    BY <1>1, <2>2 DEF Inv, Owns, Start, At, ClaimsOf
  <2>5. OnlyDeadSettled'
    BY <1>1, <2>2, <1>c, <1>d DEF Inv, OnlyDeadSettled, Start, At, ClaimsOf
  <2>6. RecordedMailed'
    BY <1>1, <2>2, <1>c DEF Inv, RecordedMailed, Start, At, SentMeansMailed, ClaimsOf
  <2>7. TraceKept'
    BY <1>1, <2>2, <1>c DEF Inv, TraceKept, Start, At, ClaimsOf
  <2>8. Accounted'
    BY <1>1, <2>2, <1>d DEF Inv, Accounted, Start, At
  <2>9. Undecided'
    BY <1>1, <2>2 DEF Inv, Undecided, Start, At
  <2> QED BY <2>3, <2>4, <2>5, <2>6, <2>7, <2>8, <2>9 DEF Inv
<1>2. CASE Settle(s)
  <2>1. PICK t \in run[s].orphans :
           /\ alert' = Settled(t) /\ old' = old \ {t}
           /\ Becomes(s, [run[s] EXCEPT !.orphans = @ \ {t}])
    BY <1>2 DEF Settle
  <2>2. UNCHANGED <<doc, comex, logged, mails, traced, failures>> /\ At(s, "settle")
    BY <1>2 DEF Settle
  <2>3. t \in Slots /\ At(t, "ended") /\ t # s
    BY <1>d, <2>2 DEF Inv, OnlyDeadSettled, At
  <2>4. [run[s] EXCEPT !.orphans = @ \ {t}] \in Runs
    BY <1>a DEF Runs
  <2>5. /\ run' \in [Slots -> Runs]
        /\ \A u \in Slots : u # s => run'[u] = run[u]
        /\ run'[s].pc = "settle" /\ run'[s].orphans = run[s].orphans \ {t}
        /\ run'[s].claimed = run[s].claimed /\ run'[s].outcome = run[s].outcome
    BY <1>a, <2>1, <2>2, <2>4, BecomesFrame DEF Runs, At
  <2>6. /\ alert' \in [Keys -> {"none", "sent"} \cup Slots]
        /\ \A k \in Keys :
              alert'[k] = IF alert[k] = t THEN IF t \in logged THEN "sent" ELSE "none"
                          ELSE alert[k]
    BY <1>c, <2>1, <2>3, ResolvedFrame DEF Settled
  <2>7. TypeOK'
    BY <2>1, <2>2, <2>5, <2>6 DEF Inv, TypeOK
  <2>8. Owns'
    BY <1>b, <2>2, <2>3, <2>5, <2>6 DEF Inv, Owns, At
  <2>9. OnlyDeadSettled'
    BY <1>b, <1>c, <1>d, <2>1, <2>2, <2>3, <2>5, <2>6 DEF Inv, OnlyDeadSettled, At
  <2>10. RecordedMailed'
    BY <1>b, <1>c, <2>2, <2>3, <2>5, <2>6 DEF Inv, RecordedMailed, SentMeansMailed, At
  <2>11. TraceKept'
    BY <1>b, <1>c, <2>2, <2>3, <2>6 DEF Inv, TraceKept
  <2>12. Accounted'
    BY <1>d, <2>2, <2>5, <2>6, <1>b, <2>3 DEF Inv, Accounted, At
  <2>13. Undecided'
    BY <2>2, <2>5 DEF Inv, Undecided, At
  <2> QED BY <2>7, <2>8, <2>9, <2>10, <2>11, <2>12, <2>13 DEF Inv
<1>3. CASE EndSettle(s)
  <2>1. /\ run' \in [Slots -> Runs]
        /\ \A t \in Slots : t # s => run'[t] = run[t]
        /\ run'[s].pc = "candidates"
        /\ run'[s].orphans = run[s].orphans /\ run'[s].due = run[s].due
        /\ run'[s].pending = run[s].pending /\ run'[s].claimed = run[s].claimed
        /\ run'[s].conflicts = run[s].conflicts /\ run'[s].inFlight = run[s].inFlight
        /\ run'[s].outcome = run[s].outcome
    BY <1>a, <1>3, GoesFrame DEF Stages, EndSettle
  <2>2. TypeOK'
    BY <1>3, <2>1 DEF Inv, TypeOK, EndSettle
  <2>3. Owns'
    BY <1>3, <2>1 DEF Inv, Owns, EndSettle, At
  <2>4. OnlyDeadSettled'
    BY <1>3, <2>1, <1>c, <1>d DEF Inv, OnlyDeadSettled, EndSettle, At
  <2>5. RecordedMailed'
    BY <1>3, <2>1, <1>c DEF Inv, RecordedMailed, EndSettle, At, SentMeansMailed
  <2>6. TraceKept'
    BY <1>3, <2>1, <1>c DEF Inv, TraceKept, EndSettle, At
  <2>7. Accounted'
    BY <1>3, <2>1, <1>d DEF Inv, Accounted, EndSettle, At
  <2>8. Undecided'
    BY <1>3, <2>1 DEF Inv, Undecided, EndSettle, At
  <2> QED BY <2>2, <2>3, <2>4, <2>5, <2>6, <2>7, <2>8 DEF Inv
<1>4. CASE ReadCandidates(s)
  <2>1. DueKeys \subseteq Keys
    BY DEF Inv, TypeOK, DueKeys, Current, Keys
  <2>2. [run[s] EXCEPT !.due = DueKeys, !.pc = "prefilter"] \in Runs
    BY <1>a, <2>1 DEF Runs, Stages
  <2>3. /\ run' \in [Slots -> Runs]
        /\ \A t \in Slots : t # s => run'[t] = run[t]
        /\ run'[s].pc = "prefilter"
        /\ run'[s].orphans = run[s].orphans /\ run'[s].claimed = run[s].claimed
        /\ run'[s].outcome = run[s].outcome
    BY <1>a, <1>4, <2>2 DEF Becomes, Runs, Fresh, ReadCandidates
  <2>4. TypeOK'
    BY <1>4, <2>3 DEF Inv, TypeOK, ReadCandidates
  <2>5. Owns'
    BY <1>4, <2>3 DEF Inv, Owns, ReadCandidates, At
  <2>6. OnlyDeadSettled'
    BY <1>4, <2>3, <1>c, <1>d DEF Inv, OnlyDeadSettled, ReadCandidates, At
  <2>7. RecordedMailed'
    BY <1>4, <2>3, <1>c DEF Inv, RecordedMailed, ReadCandidates, At, SentMeansMailed
  <2>8. TraceKept'
    BY <1>4, <2>3, <1>c DEF Inv, TraceKept, ReadCandidates, At
  <2>9. Accounted'
    BY <1>4, <2>3, <1>d DEF Inv, Accounted, ReadCandidates, At
  <2>10. Undecided'
    BY <1>4, <2>3 DEF Inv, Undecided, ReadCandidates, At
  <2> QED BY <2>4, <2>5, <2>6, <2>7, <2>8, <2>9, <2>10 DEF Inv
<1>5. CASE Prefilter(s)
  <2> DEFINE free == {k \in run[s].due : alert[k] = "none"}
             waits == InFlight(run[s].due \ free)
             kept == [run[s] EXCEPT !.pending = free, !.inFlight = waits, !.pc = "recipients"]
  <2>1. waits \in BOOLEAN
    BY DEF InFlight
  <2>2. free \in SUBSET Keys
    BY <1>d
  <2>3. kept \in Runs
    <3> HIDE DEF free, waits
    <3> QED BY <1>a, <2>1, <2>2 DEF Runs, Stages
  <2>4. Becomes(s, kept) \/ \E o \in Outcomes : Ends(s, o)
    BY <1>5 DEF Prefilter, Outcomes
  <2>5. UNCHANGED <<doc, comex, alert, logged, old, mails, traced, failures>>
    BY <1>5 DEF Prefilter
  <2>6. /\ run' \in [Slots -> Runs]
        /\ \A t \in Slots : t # s => run'[t] = run[t]
        /\ run'[s].pc \in {"recipients", "ended"} /\ run'[s].orphans \subseteq run[s].orphans
    <3>1. CASE Becomes(s, kept)
      <4>1. run'[s] = kept /\ run' \in [Slots -> Runs] /\ \A t \in Slots : t # s => run'[t] = run[t]
        BY <1>a, <2>3, <3>1, BecomesFrame
      <4> HIDE DEF free, waits
      <4> QED BY <1>a, <4>1 DEF Runs
    <3> QED BY <1>a, <2>4, <3>1, EndsFrame
  <2>7. run'[s].pc = "recipients" =>
           /\ run'[s].due = run[s].due /\ run'[s].claimed = run[s].claimed
           /\ run'[s].pending = free /\ run'[s].inFlight = waits
           /\ run'[s].outcome = run[s].outcome
    <3>1. CASE Becomes(s, kept)
      <4>1. run'[s] = kept /\ run' \in [Slots -> Runs] /\ \A t \in Slots : t # s => run'[t] = run[t]
        BY <1>a, <2>3, <3>1, BecomesFrame
      <4> HIDE DEF free, waits
      <4> QED BY <1>a, <4>1 DEF Runs
    <3> QED BY <1>a, <2>4, <3>1, EndsFrame
  <2>8. TypeOK'
    BY <2>5, <2>6 DEF Inv, TypeOK
  <2>9. Owns'
    BY <1>5, <2>5, <2>6, <2>7 DEF Inv, Owns, At, Prefilter
  <2>10. OnlyDeadSettled'
    BY <1>5, <1>c, <1>d, <2>5, <2>6 DEF Inv, OnlyDeadSettled, At, Prefilter
  <2>11. RecordedMailed'
    BY <1>5, <1>c, <2>5, <2>6 DEF Inv, RecordedMailed, SentMeansMailed, At, Prefilter
  <2>12. TraceKept'
    BY <2>5 DEF Inv, TraceKept
  <2>13. Accounted'
    <3>1. ~waits => \A k \in run[s].due : k \in free \/ alert[k] = "sent"
      BY DEF InFlight
    <3> HIDE DEF free, waits
    <3> QED BY <2>5, <2>6, <2>7, <3>1 DEF Inv, Accounted
  <2>14. Undecided'
    BY <1>5, <2>6, <2>7 DEF Inv, Undecided, At, Prefilter
  <2> QED BY <2>8, <2>9, <2>10, <2>11, <2>12, <2>13, <2>14 DEF Inv
<1>6. CASE LoadRecipients(s)
  <2>1. Goes(s, "claim") \/ Ends(s, "no_recipients")
    BY <1>6 DEF LoadRecipients
  <2>2. /\ UNCHANGED <<doc, comex, alert, logged, old, mails, traced, failures>>
        /\ run[s].pc = "recipients"
    BY <1>6 DEF LoadRecipients, At
  <2>3. /\ run' \in [Slots -> Runs]
        /\ \A t \in Slots : t # s => run'[t] = run[t]
        /\ run'[s].pc \in {"claim", "ended"} /\ run'[s].orphans \subseteq run[s].orphans
        /\ run'[s].pc = "claim" =>
              /\ run'[s].due = run[s].due /\ run'[s].pending = run[s].pending
              /\ run'[s].claimed = run[s].claimed /\ run'[s].conflicts = run[s].conflicts
              /\ run'[s].inFlight = run[s].inFlight /\ run'[s].outcome = run[s].outcome
    <3>1. CASE Goes(s, "claim")
      BY <1>a, <3>1, GoesFrame DEF Stages
    <3>2. CASE Ends(s, "no_recipients")
      BY <1>a, <3>2, EndsFrame DEF Outcomes
    <3> QED BY <2>1, <3>1, <3>2
  <2>4. TypeOK'
    BY <2>2, <2>3 DEF Inv, TypeOK
  <2>5. Owns'
    BY <2>2, <2>3 DEF Inv, Owns, At
  <2>6. OnlyDeadSettled'
    BY <1>c, <1>d, <2>2, <2>3 DEF Inv, OnlyDeadSettled, At
  <2>7. RecordedMailed'
    BY <1>c, <2>2, <2>3 DEF Inv, RecordedMailed, SentMeansMailed
  <2>8. TraceKept'
    BY <2>2 DEF Inv, TraceKept
  <2>9. Accounted'
    BY <2>2, <2>3 DEF Inv, Accounted
  <2>10. Undecided'
    BY <2>2, <2>3 DEF Inv, Undecided, At
  <2> QED BY <2>4, <2>5, <2>6, <2>7, <2>8, <2>9, <2>10 DEF Inv
<1>7. CASE Claim(s)
  <2>1. UNCHANGED <<doc, comex, logged, old, mails, traced, failures>> /\ run[s].pc = "claim"
    BY <1>7 DEF Claim, At
  <2>2. PICK k \in run[s].pending :
           \/ /\ alert[k] = "none" /\ alert' = [alert EXCEPT ![k] = s]
              /\ Becomes(s, [run[s] EXCEPT !.pending = @ \ {k}, !.claimed = @ \cup {k}])
           \/ /\ alert[k] # "none" /\ alert' = alert
              /\ Becomes(s, [run[s] EXCEPT !.pending = @ \ {k}, !.conflicts = @ \cup {k}])
    BY <1>7 DEF Claim
  <2>3. k \in Keys
    BY <1>d
  <2>4. /\ [run[s] EXCEPT !.pending = @ \ {k}, !.claimed = @ \cup {k}] \in Runs
        /\ [run[s] EXCEPT !.pending = @ \ {k}, !.conflicts = @ \cup {k}] \in Runs
    BY <1>a, <2>3 DEF Runs
  <2>5. /\ run' \in [Slots -> Runs]
        /\ \A t \in Slots : t # s => run'[t] = run[t]
        /\ run'[s].pc = "claim" /\ run'[s].orphans = run[s].orphans
        /\ run'[s].due = run[s].due /\ run'[s].inFlight = run[s].inFlight
        /\ run'[s].pending = run[s].pending \ {k} /\ run'[s].outcome = run[s].outcome
        /\ run'[s].claimed = run[s].claimed \cup (IF alert[k] = "none" THEN {k} ELSE {})
        /\ run'[s].conflicts = run[s].conflicts \cup (IF alert[k] = "none" THEN {} ELSE {k})
    <3>1. CASE alert[k] = "none"
      <4>1. /\ run'[s] = [run[s] EXCEPT !.pending = @ \ {k}, !.claimed = @ \cup {k}]
            /\ run' \in [Slots -> Runs] /\ \A t \in Slots : t # s => run'[t] = run[t]
        BY <1>a, <2>2, <2>4, <3>1, BecomesFrame
      <4> QED BY <1>a, <2>1, <3>1, <4>1 DEF Runs
    <3>2. CASE alert[k] # "none"
      <4>1. /\ run'[s] = [run[s] EXCEPT !.pending = @ \ {k}, !.conflicts = @ \cup {k}]
            /\ run' \in [Slots -> Runs] /\ \A t \in Slots : t # s => run'[t] = run[t]
        BY <1>a, <2>2, <2>4, <3>2, BecomesFrame
      <4> QED BY <1>a, <2>1, <3>2, <4>1 DEF Runs
    <3> QED BY <3>1, <3>2
  <2>6. /\ alert' \in [Keys -> {"none", "sent"} \cup Slots]
        /\ \A j \in Keys : alert'[j] = IF j = k /\ alert[k] = "none" THEN s ELSE alert[j]
    BY <1>c, <2>2, <2>3
  <2>7. TypeOK'
    BY <2>1, <2>5, <2>6 DEF Inv, TypeOK
  <2>8. Owns'
    BY <1>b, <1>d, <2>1, <2>3, <2>5, <2>6 DEF Inv, Owns, At
  <2>9. OnlyDeadSettled'
    BY <1>b, <1>c, <1>d, <2>1, <2>3, <2>5, <2>6 DEF Inv, OnlyDeadSettled, At
  <2>10. RecordedMailed'
    BY <1>b, <1>c, <2>1, <2>3, <2>5, <2>6 DEF Inv, RecordedMailed, SentMeansMailed
  <2>11. TraceKept'
    BY <1>b, <1>c, <2>1, <2>3, <2>6 DEF Inv, TraceKept
  <2>12. Accounted'
    BY <1>b, <1>d, <2>1, <2>3, <2>5, <2>6 DEF Inv, Accounted
  <2>13. Undecided'
    BY <2>1, <2>5 DEF Inv, Undecided, At
  <2> QED BY <2>7, <2>8, <2>9, <2>10, <2>11, <2>12, <2>13 DEF Inv
<1>8. CASE EndClaims(s)
  <2>1. /\ run' \in [Slots -> Runs]
        /\ \A t \in Slots : t # s => run'[t] = run[t]
        /\ run'[s].pc \in {"conflicts", "mail"}
        /\ run'[s].pc = "conflicts" => run[s].pending = {}
        /\ run'[s].orphans = run[s].orphans /\ run'[s].due = run[s].due
        /\ run'[s].pending = run[s].pending /\ run'[s].claimed = run[s].claimed
        /\ run'[s].conflicts = run[s].conflicts /\ run'[s].inFlight = run[s].inFlight
        /\ run'[s].outcome = run[s].outcome
    BY <1>a, <1>8, GoesFrame DEF Stages, EndClaims
  <2>2. TypeOK'
    BY <1>8, <2>1 DEF Inv, TypeOK, EndClaims
  <2>3. Owns'
    BY <1>8, <2>1 DEF Inv, Owns, EndClaims, At
  <2>4. OnlyDeadSettled'
    BY <1>8, <2>1, <1>c, <1>d DEF Inv, OnlyDeadSettled, EndClaims, At
  <2>5. RecordedMailed'
    BY <1>8, <2>1, <1>c DEF Inv, RecordedMailed, EndClaims, At, SentMeansMailed
  <2>6. TraceKept'
    BY <1>8, <2>1, <1>c DEF Inv, TraceKept, EndClaims, At
  <2>7. Accounted'
    BY <1>8, <2>1, <1>d DEF Inv, Accounted, EndClaims, At
  <2>8. Undecided'
    BY <1>8, <2>1 DEF Inv, Undecided, EndClaims, At
  <2> QED BY <2>2, <2>3, <2>4, <2>5, <2>6, <2>7, <2>8 DEF Inv
<1>9. CASE ReadConflicts(s)
  <2> DEFINE waits == run[s].inFlight \/ InFlight(run[s].conflicts)
             kept == [run[s] EXCEPT !.inFlight = waits, !.pc = "mail"]
  <2>1. UNCHANGED <<doc, comex, alert, logged, old, mails, traced, failures>> /\ run[s].pc = "conflicts"
    BY <1>9 DEF ReadConflicts, At
  <2>2. Becomes(s, kept) \/ \E o \in Outcomes : Ends(s, o)
    BY <1>9 DEF ReadConflicts, Outcomes
  <2>3. kept \in Runs
    <3>1. waits \in BOOLEAN
      OBVIOUS
    <3> HIDE DEF waits
    <3> QED BY <1>a, <3>1 DEF Runs, Stages
  <2>4. /\ run' \in [Slots -> Runs]
        /\ \A t \in Slots : t # s => run'[t] = run[t]
        /\ run'[s].pc \in {"mail", "ended"} /\ run'[s].orphans \subseteq run[s].orphans
        /\ run'[s].pc = "mail" => /\ run'[s].claimed = run[s].claimed
                                  /\ run'[s].outcome = run[s].outcome
    <3>1. CASE Becomes(s, kept)
      <4>1. run'[s] = kept /\ run' \in [Slots -> Runs] /\ \A t \in Slots : t # s => run'[t] = run[t]
        BY <1>a, <2>3, <3>1, BecomesFrame
      <4> HIDE DEF waits
      <4> QED BY <1>a, <4>1 DEF Runs
    <3> QED BY <1>a, <2>2, <3>1, EndsFrame
  <2>5. TypeOK'
    BY <2>1, <2>4 DEF Inv, TypeOK
  <2>6. Owns'
    BY <2>1, <2>4 DEF Inv, Owns, At
  <2>7. OnlyDeadSettled'
    BY <1>c, <1>d, <2>1, <2>4 DEF Inv, OnlyDeadSettled, At
  <2>8. RecordedMailed'
    BY <1>c, <2>1, <2>4 DEF Inv, RecordedMailed, SentMeansMailed
  <2>9. TraceKept'
    BY <2>1 DEF Inv, TraceKept
  <2>10. Accounted'
    BY <2>1, <2>4 DEF Inv, Accounted
  <2>11. Undecided'
    BY <2>1, <2>4 DEF Inv, Undecided, At
  <2> QED BY <2>5, <2>6, <2>7, <2>8, <2>9, <2>10, <2>11 DEF Inv
<1>10. CASE ClaimingFails(s)
  <2>1. [run[s] EXCEPT !.pc = "release", !.outcome = "error"] \in Runs
    BY <1>a DEF Runs, Stages, Outcomes
  <2>2. /\ run' \in [Slots -> Runs]
        /\ \A t \in Slots : t # s => run'[t] = run[t]
        /\ run'[s].pc = "release"
        /\ run'[s].orphans = run[s].orphans /\ run'[s].claimed = run[s].claimed
        /\ run'[s].outcome = "error"
    BY <1>a, <1>10, <2>1 DEF Becomes, Runs, Fresh, ClaimingFails
  <2>3. TypeOK'
    BY <1>10, <2>2, <1>c, FailsType DEF Inv, TypeOK, ClaimingFails
  <2>4. Owns'
    BY <1>10, <2>2 DEF Inv, Owns, ClaimingFails, At
  <2>5. OnlyDeadSettled'
    BY <1>10, <2>2, <1>c, <1>d DEF Inv, OnlyDeadSettled, ClaimingFails, At
  <2>6. RecordedMailed'
    BY <1>10, <2>2, <1>c DEF Inv, RecordedMailed, ClaimingFails, At, SentMeansMailed
  <2>7. TraceKept'
    BY <1>10, <2>2, <1>c DEF Inv, TraceKept, ClaimingFails, At
  <2>8. Accounted'
    BY <1>10, <2>2, <1>d DEF Inv, Accounted, ClaimingFails, At
  <2>9. Undecided'
    BY <1>10, <2>2 DEF Inv, Undecided, ClaimingFails, At
  <2> QED BY <2>3, <2>4, <2>5, <2>6, <2>7, <2>8, <2>9 DEF Inv
<1>11. CASE MailFails(s)
  <2>1. [run[s] EXCEPT !.pc = "release", !.outcome = "send_failed"] \in Runs
    BY <1>a DEF Runs, Stages, Outcomes
  <2>2. /\ run' \in [Slots -> Runs]
        /\ \A t \in Slots : t # s => run'[t] = run[t]
        /\ run'[s].pc = "release"
        /\ run'[s].orphans = run[s].orphans /\ run'[s].claimed = run[s].claimed
        /\ run'[s].outcome = "send_failed"
    BY <1>a, <1>11, <2>1 DEF Becomes, Runs, Fresh, MailFails
  <2>3. TypeOK'
    BY <1>11, <2>2, <1>c, FailsType DEF Inv, TypeOK, MailFails, Delivered
  <2>4. Owns'
    BY <1>11, <2>2 DEF Inv, Owns, MailFails, At
  <2>5. OnlyDeadSettled'
    BY <1>11, <2>2, <1>c, <1>d DEF Inv, OnlyDeadSettled, MailFails, At
  <2>6. RecordedMailed'
    BY <1>11, <2>2, <1>c, <1>d DEF Inv, RecordedMailed, MailFails, At, SentMeansMailed,
       Delivered
  <2>7. TraceKept'
    BY <1>11, <2>2, <1>c DEF Inv, TraceKept, MailFails, At
  <2>8. Accounted'
    BY <1>11, <2>2, <1>d DEF Inv, Accounted, MailFails, At
  <2>9. Undecided'
    BY <1>11, <2>2 DEF Inv, Undecided, MailFails, At
  <2> QED BY <2>3, <2>4, <2>5, <2>6, <2>7, <2>8, <2>9 DEF Inv
<1>12. CASE MailOut(s)
  <2>1. /\ run' \in [Slots -> Runs]
        /\ \A t \in Slots : t # s => run'[t] = run[t]
        /\ run'[s].pc = "log"
        /\ run'[s].orphans = run[s].orphans /\ run'[s].due = run[s].due
        /\ run'[s].pending = run[s].pending /\ run'[s].claimed = run[s].claimed
        /\ run'[s].conflicts = run[s].conflicts /\ run'[s].inFlight = run[s].inFlight
        /\ run'[s].outcome = run[s].outcome
    BY <1>a, <1>12, GoesFrame DEF Stages, MailOut
  <2>2. TypeOK'
    BY <1>12, <2>1 DEF Inv, TypeOK, MailOut, Delivered
  <2>3. Owns'
    BY <1>12, <2>1 DEF Inv, Owns, MailOut, At
  <2>4. OnlyDeadSettled'
    BY <1>12, <2>1, <1>c, <1>d DEF Inv, OnlyDeadSettled, MailOut, At
  <2>5. RecordedMailed'
    BY <1>12, <2>1, <1>c, <1>d DEF Inv, RecordedMailed, MailOut, At, SentMeansMailed,
       Delivered
  <2>6. TraceKept'
    BY <1>12, <2>1, <1>c DEF Inv, TraceKept, MailOut, At
  <2>7. Accounted'
    BY <1>12, <2>1, <1>d DEF Inv, Accounted, MailOut, At
  <2>8. Undecided'
    BY <1>12, <2>1 DEF Inv, Undecided, MailOut, At
  <2> QED BY <2>2, <2>3, <2>4, <2>5, <2>6, <2>7, <2>8 DEF Inv
<1>13. CASE LogSent(s)
  <2>1. /\ run' \in [Slots -> Runs]
        /\ \A t \in Slots : t # s => run'[t] = run[t]
        /\ run'[s].pc = "mark"
        /\ run'[s].orphans = run[s].orphans /\ run'[s].due = run[s].due
        /\ run'[s].pending = run[s].pending /\ run'[s].claimed = run[s].claimed
        /\ run'[s].conflicts = run[s].conflicts /\ run'[s].inFlight = run[s].inFlight
        /\ run'[s].outcome = run[s].outcome
    BY <1>a, <1>13, GoesFrame DEF Stages, LogSent
  <2>2. TypeOK'
    BY <1>13, <2>1, <1>d DEF Inv, TypeOK, LogSent
  <2>3. Owns'
    BY <1>13, <2>1 DEF Inv, Owns, LogSent, At
  <2>4. OnlyDeadSettled'
    BY <1>13, <2>1, <1>c, <1>d DEF Inv, OnlyDeadSettled, LogSent, At
  <2>5. RecordedMailed'
    BY <1>13, <2>1, <1>c, <1>d DEF Inv, RecordedMailed, LogSent, At, SentMeansMailed, Owns
  <2>6. TraceKept'
    BY <1>13, <2>1, <1>c, <1>b, <1>d DEF Inv, TraceKept, LogSent, At, Owns, RecordedMailed
  <2>7. Accounted'
    BY <1>13, <2>1, <1>d DEF Inv, Accounted, LogSent, At
  <2>8. Undecided'
    BY <1>13, <2>1 DEF Inv, Undecided, LogSent, At
  <2> QED BY <2>2, <2>3, <2>4, <2>5, <2>6, <2>7, <2>8 DEF Inv
<1>14. CASE LogFails(s)
  <2>1. /\ run' \in [Slots -> Runs]
        /\ \A t \in Slots : t # s => run'[t] = run[t]
        /\ run'[s].pc = "mark"
        /\ run'[s].orphans = run[s].orphans /\ run'[s].due = run[s].due
        /\ run'[s].pending = run[s].pending /\ run'[s].claimed = run[s].claimed
        /\ run'[s].conflicts = run[s].conflicts /\ run'[s].inFlight = run[s].inFlight
        /\ run'[s].outcome = run[s].outcome
    BY <1>a, <1>14, GoesFrame DEF Stages, LogFails
  <2>2. TypeOK'
    BY <1>14, <2>1, <1>c, FailsType DEF Inv, TypeOK, LogFails
  <2>3. Owns'
    BY <1>14, <2>1 DEF Inv, Owns, LogFails, At
  <2>4. OnlyDeadSettled'
    BY <1>14, <2>1, <1>c, <1>d DEF Inv, OnlyDeadSettled, LogFails, At
  <2>5. RecordedMailed'
    BY <1>14, <2>1, <1>c DEF Inv, RecordedMailed, LogFails, At, SentMeansMailed
  <2>6. TraceKept'
    BY <1>14, <2>1, <1>c DEF Inv, TraceKept, LogFails, At
  <2>7. Accounted'
    BY <1>14, <2>1, <1>d DEF Inv, Accounted, LogFails, At
  <2>8. Undecided'
    BY <1>14, <2>1 DEF Inv, Undecided, LogFails, At
  <2> QED BY <2>2, <2>3, <2>4, <2>5, <2>6, <2>7, <2>8 DEF Inv
<1>15. CASE MarkSent(s)
  <2>1. /\ run' \in [Slots -> Runs]
        /\ \A t \in Slots : t # s => run'[t] = run[t]
        /\ run'[s].pc = "ended" /\ run'[s].orphans = {} /\ run'[s].claimed = {}
    BY <1>a, <1>15, EndsFrame DEF Outcomes, MarkSent
  <2>2. /\ alert' \in [Keys -> {"none", "sent"} \cup Slots]
        /\ \A k \in Keys : alert'[k] = IF alert[k] = s THEN "sent" ELSE alert[k]
    BY <1>c, <1>15, ResolvedFrame DEF MarkSent
  <2>3. TypeOK'
    BY <1>15, <2>1, <2>2 DEF Inv, TypeOK, MarkSent, ClaimsOf
  <2>4. Owns'
    BY <1>15, <2>1, <2>2, <1>b DEF Inv, Owns, MarkSent, At, ClaimsOf
  <2>5. OnlyDeadSettled'
    BY <1>15, <2>1, <2>2, <1>c, <1>d, <1>b DEF Inv, OnlyDeadSettled, MarkSent, At, Owns,
       ClaimsOf
  <2>6. RecordedMailed'
    BY <1>15, <2>1, <2>2, <1>c, <1>d, <1>b DEF Inv, RecordedMailed, MarkSent, At,
       SentMeansMailed, Owns, ClaimsOf
  <2>7. TraceKept'
    BY <1>15, <2>1, <2>2, <1>c DEF Inv, TraceKept, MarkSent, At, ClaimsOf
  <2>8. Accounted'
    BY <1>15, <2>1, <2>2, <1>d, <1>b DEF Inv, Accounted, MarkSent, At
  <2>9. Undecided'
    BY <1>15, <2>1, <2>2 DEF Inv, Undecided, MarkSent, At
  <2> QED BY <2>3, <2>4, <2>5, <2>6, <2>7, <2>8, <2>9 DEF Inv
<1>16. CASE MarkFails(s)
  <2>1. /\ run' \in [Slots -> Runs]
        /\ \A t \in Slots : t # s => run'[t] = run[t]
        /\ run'[s].pc = "ended" /\ run'[s].orphans = {} /\ run'[s].claimed = {}
    BY <1>a, <1>16, EndsFrame DEF Outcomes, MarkFails
  <2>2. TypeOK'
    BY <1>16, <2>1, <1>c, FailsType DEF Inv, TypeOK, MarkFails
  <2>3. Owns'
    BY <1>16, <2>1 DEF Inv, Owns, MarkFails, At
  <2>4. OnlyDeadSettled'
    BY <1>16, <2>1, <1>c, <1>d DEF Inv, OnlyDeadSettled, MarkFails, At
  <2>5. RecordedMailed'
    BY <1>16, <2>1, <1>c DEF Inv, RecordedMailed, MarkFails, At, SentMeansMailed
  <2>6. TraceKept'
    BY <1>16, <2>1, <1>c DEF Inv, TraceKept, MarkFails, At
  <2>7. Accounted'
    BY <1>16, <2>1, <1>d DEF Inv, Accounted, MarkFails, At
  <2>8. Undecided'
    BY <1>16, <2>1 DEF Inv, Undecided, MarkFails, At
  <2> QED BY <2>2, <2>3, <2>4, <2>5, <2>6, <2>7, <2>8 DEF Inv
<1>17. CASE Release(s)
  <2>1. /\ run' \in [Slots -> Runs]
        /\ \A t \in Slots : t # s => run'[t] = run[t]
        /\ run'[s].pc = "ended" /\ run'[s].orphans = {} /\ run'[s].claimed = {}
    BY <1>a, <1>17, EndsFrame DEF Runs, Release
  <2>2. /\ alert' \in [Keys -> {"none", "sent"} \cup Slots]
        /\ \A k \in Keys : alert'[k] = IF alert[k] = s THEN "none" ELSE alert[k]
    BY <1>c, <1>17, ResolvedFrame DEF Release
  <2>3. TypeOK'
    BY <1>17, <2>1, <2>2 DEF Inv, TypeOK, Release
  <2>4. Owns'
    BY <1>17, <2>1, <2>2, <1>b DEF Inv, Owns, Release, At
  <2>5. OnlyDeadSettled'
    BY <1>17, <2>1, <2>2, <1>c, <1>d, <1>b DEF Inv, OnlyDeadSettled, Release, At, Owns
  <2>6. RecordedMailed'
    BY <1>17, <2>1, <2>2, <1>c, <1>b DEF Inv, RecordedMailed, Release, At, SentMeansMailed
  <2>7. TraceKept'
    BY <1>17, <2>1, <2>2, <1>c, <1>b, <1>d DEF Inv, TraceKept, Release, At, Owns,
       RecordedMailed
  <2>8. Accounted'
    BY <1>17, <2>1, <2>2, <1>d, <1>b DEF Inv, Accounted, Release, At
  <2>9. Undecided'
    BY <1>17, <2>1, <2>2 DEF Inv, Undecided, Release, At
  <2> QED BY <2>3, <2>4, <2>5, <2>6, <2>7, <2>8, <2>9 DEF Inv
<1>18. CASE Dies(s)
  <2>1. /\ run' \in [Slots -> Runs]
        /\ \A t \in Slots : t # s => run'[t] = run[t]
        /\ run'[s].pc = "ended" /\ run'[s].orphans = {} /\ run'[s].claimed = {}
    BY <1>a, <1>18, EndsFrame DEF Outcomes, Dies
  <2>2. TypeOK'
    BY <1>18, <2>1, <1>c, FailsType DEF Inv, TypeOK, Dies
  <2>3. Owns'
    BY <1>18, <2>1 DEF Inv, Owns, Dies, At
  <2>4. OnlyDeadSettled'
    BY <1>18, <2>1, <1>c, <1>d DEF Inv, OnlyDeadSettled, Dies, At
  <2>5. RecordedMailed'
    BY <1>18, <2>1, <1>c DEF Inv, RecordedMailed, Dies, At, SentMeansMailed
  <2>6. TraceKept'
    BY <1>18, <2>1, <1>c DEF Inv, TraceKept, Dies, At
  <2>7. Accounted'
    BY <1>18, <2>1, <1>d DEF Inv, Accounted, Dies, At
  <2>8. Undecided'
    BY <1>18, <2>1 DEF Inv, Undecided, Dies, At
  <2> QED BY <2>2, <2>3, <2>4, <2>5, <2>6, <2>7, <2>8 DEF Inv
<1>19. CASE Age(s)
  <2>1. TypeOK'
    BY <1>19 DEF Inv, TypeOK, Age
  <2>2. Owns'
    BY <1>19 DEF Inv, Owns, Age, At, ClaimsOf
  <2>3. OnlyDeadSettled'
    BY <1>19, <1>c, <1>d DEF Inv, OnlyDeadSettled, Age, At, ClaimsOf
  <2>4. RecordedMailed'
    BY <1>19, <1>c DEF Inv, RecordedMailed, Age, At, SentMeansMailed, ClaimsOf
  <2>5. TraceKept'
    BY <1>19, <1>c DEF Inv, TraceKept, Age, At, ClaimsOf
  <2>6. Accounted'
    BY <1>19, <1>d DEF Inv, Accounted, Age, At
  <2>7. Undecided'
    BY <1>19 DEF Inv, Undecided, Age, At
  <2> QED BY <2>1, <2>2, <2>3, <2>4, <2>5, <2>6, <2>7 DEF Inv
<1> QED BY <1>1, <1>2, <1>3, <1>4, <1>5, <1>6, <1>7, <1>8, <1>9, <1>10, <1>11, <1>12,
   <1>13, <1>14, <1>15, <1>16, <1>17, <1>18, <1>19 DEF Advance, Failure

\* Documents and recipients are not part of what the runs rely on.
LEMMA OtherSteps ==
    ASSUME Inv, (\E d \in Docs : Change(d)) \/ EditRecipients
    PROVE  Inv'
<1>1. UNCHANGED <<alert, logged, old, run, mails, traced, failures>>
  BY DEF Change, NextMilestone, Renew, Pause, Remove, EditRecipients
<1> DEFINE Rows == [stage: 0..MaxStage, cycle: 0..MaxCycle, state: {"listed", "paused", "gone"}]
<1>2. doc \in [Docs -> Rows] /\ comex \in BOOLEAN
  BY DEF Inv, TypeOK
<1>3. doc' \in [Docs -> Rows]
  <2>1. CASE EditRecipients
    BY <1>2, <2>1 DEF EditRecipients
  <2>2. ASSUME NEW d \in Docs, NEW row \in Rows, doc' = [doc EXCEPT ![d] = row]
        PROVE  doc' \in [Docs -> Rows]
    BY <1>2, <2>2
  <2>3. ASSUME NEW d \in Docs, Change(d)
        PROVE  \E row \in Rows : doc' = [doc EXCEPT ![d] = row]
    <3>1. doc[d] \in Rows
      BY <1>2
    <3>2. CASE NextMilestone(d)
      <4>1. [doc[d] EXCEPT !.stage = @ + 1] \in Rows
        BY <3>1, <3>2, AlertsAssumption DEF NextMilestone
      <4> QED BY <3>2, <4>1 DEF NextMilestone
    <3>3. CASE Renew(d)
      <4>1. PICK stage \in 0..MaxStage :
               doc' = [doc EXCEPT ![d] = [doc[d] EXCEPT !.cycle = @ + 1, !.stage = stage]]
        BY <3>3 DEF Renew
      <4>2. doc[d].cycle + 1 \in 0..MaxCycle
        BY <3>1, <3>3, AlertsAssumption DEF Renew
      <4>3. ASSUME NEW cycle \in 0..MaxCycle
            PROVE  [doc[d] EXCEPT !.cycle = cycle, !.stage = stage] \in Rows
        BY <3>1
      <4> QED BY <4>1, <4>2, <4>3
    <3>4. CASE Pause(d)
      <4>1. \A state \in {"listed", "paused"} : [doc[d] EXCEPT !.state = state] \in Rows
        BY <3>1
      <4> QED BY <3>4, <4>1 DEF Pause
    <3>5. CASE Remove(d)
      <4>1. [doc[d] EXCEPT !.state = "gone"] \in Rows
        BY <3>1
      <4> QED BY <3>5, <4>1 DEF Remove
    <3> QED BY <2>3, <3>2, <3>3, <3>4, <3>5 DEF Change
  <2> QED BY <2>1, <2>2, <2>3
<1>4. comex' \in BOOLEAN
  BY <1>2 DEF Change, NextMilestone, Renew, Pause, Remove, EditRecipients
<1>5. TypeOK'
  BY <1>1, <1>3, <1>4 DEF Inv, TypeOK
<1>6. Owns' /\ OnlyDeadSettled' /\ RecordedMailed'
  BY <1>1 DEF Inv, Owns, OnlyDeadSettled, RecordedMailed, SentMeansMailed, At
<1>7. TraceKept' /\ Accounted' /\ Undecided'
  BY <1>1 DEF Inv, TraceKept, Accounted, Undecided, At
<1> QED BY <1>5, <1>6, <1>7 DEF Inv

LEMMA Initially == Init => Inv
<1> SUFFICES ASSUME Init PROVE Inv
  OBVIOUS
<1>1. Fresh \in Runs /\ Fresh.pc = "ended" /\ Fresh.orphans = {}
  BY DEF Fresh, Runs, Stages, Outcomes
<1>2. \A s \in Slots : run[s] = Fresh
  BY DEF Init
<1>3. TypeOK
  BY <1>1, AlertsAssumption DEF Init, TypeOK
<1>4. SentMeansMailed
  BY DEF Init, SentMeansMailed
<1>5. Owns /\ OnlyDeadSettled /\ Accounted /\ Undecided
  BY <1>1, <1>2 DEF Init, Owns, OnlyDeadSettled, Accounted, Undecided, At
<1>6. RecordedMailed /\ TraceKept
  BY <1>1, <1>2, <1>4 DEF Init, RecordedMailed, TraceKept
<1> QED BY <1>3, <1>5, <1>6 DEF Inv

LEMMA Unchanged == ASSUME Inv, UNCHANGED vars PROVE Inv'
<1>1. TypeOK'
  BY DEF Inv, TypeOK, vars
<1>2. Owns' /\ OnlyDeadSettled' /\ RecordedMailed'
  BY DEF Inv, Owns, OnlyDeadSettled, RecordedMailed, SentMeansMailed, At, vars
<1>3. TraceKept' /\ Accounted' /\ Undecided'
  BY DEF Inv, TraceKept, Accounted, Undecided, At, vars
<1> QED BY <1>1, <1>2, <1>3 DEF Inv

\* The inductive invariant holds in every reachable state.
THEOREM Invariance == Spec => []Inv
<1>1. Inv /\ [Next]_vars => Inv'
  BY RunSteps, OtherSteps, Unchanged DEF Next
<1> QED BY Initially, <1>1, PTL DEF Spec

-----------------------------------------------------------------------------
(* What follows from it.                                                   *)

\* Rows, runs and counts keep their shape, whatever overlaps and fails.
THEOREM TypeCorrect == Spec => []TypeOK
<1>1. Inv => TypeOK
  BY DEF Inv
<1> QED BY Invariance, <1>1, PTL

\* A row that says sent stands for a mail that went out.
THEOREM SentIsMailed == Spec => []SentMeansMailed
<1>1. Inv => SentMeansMailed
  BY DEF Inv, RecordedMailed
<1> QED BY Invariance, <1>1, PTL

\* A live run never loses a claim it mails about.
THEOREM ClaimsAreKept == Spec => []LiveClaimsKept
<1>1. Inv => LiveClaimsKept
  BY DEF Inv, TypeOK, Runs, Owns, LiveClaimsKept, At
<1> QED BY Invariance, <1>1, PTL

\* Only the two steps that hand a mail over change the count of mails, and
\* only for keys the run owns.
LEMMA MailsOfOwnKeys ==
    ASSUME Inv, [Next]_vars, NEW k \in Keys, mails'[k] > mails[k]
    PROVE  \E s \in Slots : run[s].pc = "mail" /\ k \in run[s].claimed
<1>1. mails[k] \in Nat
  BY DEF Inv, TypeOK
<1>2. mails' # mails
  BY <1>1
<1>3. PICK s \in Slots : MailFails(s) \/ MailOut(s)
  <2>1. ~UNCHANGED vars
    BY <1>2 DEF vars
  <2>2. ~EditRecipients /\ \A d \in Docs : ~Change(d)
    BY <1>2 DEF EditRecipients, Change, NextMilestone, Renew, Pause, Remove
  <2>3. \A s \in Slots : ~Start(s) /\ ~Age(s)
    BY <1>2 DEF Start, Age
  <2>4. \A s \in Slots : Advance(s) => MailOut(s)
    BY <1>2 DEF Advance, Settle, EndSettle, ReadCandidates, Prefilter, LoadRecipients, Claim,
       EndClaims, ReadConflicts, LogSent, MarkSent, Release
  <2>5. \A s \in Slots : Failure(s) => MailFails(s)
    BY <1>2 DEF Failure, ClaimingFails, LogFails, MarkFails, Dies
  <2> QED BY <2>1, <2>2, <2>3, <2>4, <2>5 DEF Next
<1>4. mails' \in {mails, Delivered(s)} /\ run[s].pc = "mail"
  BY <1>3 DEF MailFails, MailOut, At
<1> QED BY <1>1, <1>2, <1>4 DEF Delivered

\* A recorded delivery is never repeated.
THEOREM NoRepeatedMail == Spec => NoMailAfterTrace
<1>1. Inv /\ [Next]_vars => \A k \in Keys : mails'[k] > mails[k] => k \notin traced
  <2> SUFFICES ASSUME Inv, [Next]_vars, NEW k \in Keys, mails'[k] > mails[k], k \in traced
               PROVE  FALSE
    OBVIOUS
  <2>1. PICK s \in Slots : run[s].pc = "mail" /\ k \in run[s].claimed
    BY MailsOfOwnKeys
  <2>2. alert[k] = s
    BY <2>1 DEF Inv, Owns, At
  <2>3. s \in logged
    BY <2>2, AlertsAssumption DEF Inv, TraceKept
  <2> QED BY <2>1, <2>3 DEF Inv, RecordedMailed
<1> QED BY Invariance, <1>1, PTL DEF Spec, NoMailAfterTrace


\* A run that ends saying nothing is left has seen all it found due delivered.
LEMMA NothingLeft ==
    ASSUME Inv, [Next]_vars, NEW s \in Slots, run[s].pc # "ended",
           run'[s].outcome \in {"nothing_due", "already_claimed"}, NEW k \in run[s].due
    PROVE  mails[k] > 0
<1>1. run \in [Slots -> Runs] /\ run[s] \in Runs /\ k \in Keys
  BY DEF Inv, TypeOK, Runs
<1>2. run[s].outcome \notin {"nothing_due", "already_claimed"}
  BY DEF Inv, Undecided, At
<1>3. run' # run
  BY <1>2
<1>4. PICK t \in Slots : Start(t) \/ Advance(t) \/ Failure(t)
  <2>1. ~UNCHANGED vars
    BY <1>3 DEF vars
  <2>2. ~EditRecipients /\ \A d \in Docs : ~Change(d)
    BY <1>3 DEF EditRecipients, Change, NextMilestone, Renew, Pause, Remove
  <2>3. \A u \in Slots : ~Age(u)
    BY <1>3 DEF Age
  <2> QED BY <2>1, <2>2, <2>3 DEF Next
<1>5. t = s
  <2>1. \E r : Becomes(t, r)
    BY <1>4 DEF Advance, Failure, Start, Settle, EndSettle, ReadCandidates, Prefilter,
       LoadRecipients, Claim, EndClaims, ReadConflicts, MailOut, LogSent, MarkSent, Release,
       ClaimingFails, MailFails, LogFails, MarkFails, Dies, Goes, Ends
  <2> QED BY <1>1, <1>2, <2>1 DEF Becomes
<1>6. alert[k] = "sent"
  <2>0. \A r : Becomes(s, r) => run'[s] = r
    BY <1>1 DEF Becomes
  <2>a. ASSUME NEW r, r.outcome = run[s].outcome PROVE ~Becomes(s, r)
    <3>1. SUFFICES ASSUME Becomes(s, r) PROVE FALSE
      OBVIOUS
    <3>2. run'[s] = r
      BY <2>0, <3>1
    <3>3. run'[s].outcome = run[s].outcome
      BY <2>a, <3>2
    <3> QED BY <1>2, <3>3
  <2>1. ASSUME NEW o, Ends(s, o) PROVE run'[s].outcome = o
    BY <1>1, <2>1 DEF Ends, Becomes, Fresh
  <2>2. ASSUME NEW pc, Goes(s, pc) PROVE run'[s].outcome = run[s].outcome
    BY <1>1, <2>2 DEF Goes, Becomes, Runs
  <2>3. CASE Prefilter(s)
    <3>1. \A p, w : ~Becomes(s, [run[s] EXCEPT !.pending = p, !.inFlight = w, !.pc = "recipients"])
      <4>1. ASSUME NEW p, NEW w
            PROVE  [run[s] EXCEPT !.pending = p, !.inFlight = w, !.pc = "recipients"].outcome
                   = run[s].outcome
        BY <1>1 DEF Runs
      <4> QED BY <2>a, <4>1
    <3>2. {j \in run[s].due : alert[j] = "none"} = {} /\ ~InFlight(run[s].due)
      BY <2>1, <2>3, <3>1 DEF Prefilter
    <3> QED BY <3>2 DEF InFlight
  <2>4. CASE ReadConflicts(s)
    <3>1. \A w : ~Becomes(s, [run[s] EXCEPT !.inFlight = w, !.pc = "mail"])
      <4>1. ASSUME NEW w
            PROVE  [run[s] EXCEPT !.inFlight = w, !.pc = "mail"].outcome = run[s].outcome
        BY <1>1 DEF Runs
      <4> QED BY <2>a, <4>1
    <3>2. run[s].claimed = {} /\ ~run[s].inFlight /\ ~InFlight(run[s].conflicts)
      BY <1>1, <2>1, <2>4, <3>1 DEF ReadConflicts, Runs
    <3> QED BY <2>4, <3>2 DEF Inv, Accounted, InFlight, ReadConflicts, At
  <2>5. ~Start(s)
    BY DEF Start, At
  <2>6. ~(Settle(s) \/ ReadCandidates(s) \/ Claim(s))
    <3>1. ASSUME NEW x, NEW y
          PROVE  /\ [run[s] EXCEPT !.orphans = x].outcome = run[s].outcome
                 /\ [run[s] EXCEPT !.due = x, !.pc = "prefilter"].outcome = run[s].outcome
                 /\ [run[s] EXCEPT !.pending = x, !.claimed = y].outcome = run[s].outcome
                 /\ [run[s] EXCEPT !.pending = x, !.conflicts = y].outcome = run[s].outcome
      BY <1>1 DEF Runs
    <3>2. ASSUME NEW x, NEW y
          PROVE  /\ ~Becomes(s, [run[s] EXCEPT !.orphans = x])
                 /\ ~Becomes(s, [run[s] EXCEPT !.due = x, !.pc = "prefilter"])
                 /\ ~Becomes(s, [run[s] EXCEPT !.pending = x, !.claimed = y])
                 /\ ~Becomes(s, [run[s] EXCEPT !.pending = x, !.conflicts = y])
      BY <2>a, <3>1
    <3> QED BY <3>2 DEF Settle, ReadCandidates, Claim
  <2>7. ~(EndSettle(s) \/ LoadRecipients(s) \/ EndClaims(s) \/ MailOut(s) \/ LogSent(s))
    BY <1>2, <2>1, <2>2 DEF EndSettle, LoadRecipients, EndClaims, MailOut, LogSent
  <2>8. ~(MarkSent(s) \/ Release(s) \/ LogFails(s) \/ MarkFails(s) \/ Dies(s))
    BY <1>2, <2>1, <2>2 DEF MarkSent, Release, LogFails, MarkFails, Dies
  <2>9. ~(ClaimingFails(s) \/ MailFails(s))
    <3>1. /\ [run[s] EXCEPT !.pc = "release", !.outcome = "error"].outcome = "error"
          /\ [run[s] EXCEPT !.pc = "release", !.outcome = "send_failed"].outcome = "send_failed"
      BY <1>1 DEF Runs
    <3>2. /\ ~Becomes(s, [run[s] EXCEPT !.pc = "release", !.outcome = "error"])
          /\ ~Becomes(s, [run[s] EXCEPT !.pc = "release", !.outcome = "send_failed"])
      BY <2>0, <3>1
    <3> QED BY <3>2 DEF ClaimingFails, MailFails
  <2> QED BY <1>4, <1>5, <2>3, <2>4, <2>5, <2>6, <2>7, <2>8, <2>9 DEF Advance, Failure
<1> QED BY <1>1, <1>6 DEF Inv, RecordedMailed, SentMeansMailed

\* The Scheduler is told that nothing is left only when nothing is left.
THEOREM NothingForgotten == Spec => NothingLeftMeansMailed
<1>1. Inv /\ [Next]_vars =>
        \A s \in Slots :
            run[s].pc # "ended" /\ run'[s].outcome \in {"nothing_due", "already_claimed"}
            => \A k \in run[s].due : mails[k] > 0
  BY NothingLeft
<1> QED BY Invariance, <1>1, PTL DEF Spec, NothingLeftMeansMailed

=============================================================================
