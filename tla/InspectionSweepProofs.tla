----------------------- MODULE InspectionSweepProofs -----------------------
(***************************************************************************)
(* Proofs about InspectionSweep, for any finite set of deals, any number   *)
(* of sweeps with any scopes and any limit.  The candidates of a sweep     *)
(* cover what is due by its date, as long as it was full and nothing       *)
(* failed; no step makes another deal due by a date that has passed.       *)
(***************************************************************************)
EXTENDS InspectionSweep, FiniteSetTheorems, TLAPS

\* Nothing of a sweep's scope is due by its date but its candidates.
Covers(s) == \A d \in Scope[s] : Due(d, sweep[s].date) => d \in sweep[s].candidates

SweepStands(s) ==
  /\ sweep[s].date <= now
  /\ sweep[s].at # "running" => sweep[s].candidates = {}
  /\ sweep[s].at # "idle" /\ ~sweep[s].hasMore /\ ~sweep[s].failed => Covers(s)

IInv ==
  /\ TypeOK
  /\ \A s \in Sweeps : SweepStands(s)
  /\ \A d \in Deals : deal[d].status = "INSPECTION" => expired[d] = 0

-----------------------------------------------------------------------------
LEMMA Tables ==
  ASSUME IInv
  PROVE  /\ now \in Nat
         /\ \A d \in Deals : deal[d] \in Row /\ expired[d] \in Nat
         /\ \A s \in Sweeps : sweep[s] \in Sweep /\ sweep[s].date \in Nat
         /\ \A s \in Sweeps : Scope[s] \subseteq Deals /\ sweep[s].candidates \subseteq Deals
  BY DealsAssumption DEF IInv, TypeOK, Sweep

\* A deal leaves inspection or starts one that is due later than any date.
LEMMA DealChanges ==
  ASSUME IInv, NEW d \in Deals, NEW row \in Row, deal' = [deal EXCEPT ![d] = row],
         row.status # "INSPECTION" \/ row.inspectionEndsAt > now,
         UNCHANGED now, UNCHANGED sweep
  PROVE  /\ deal' \in [Deals -> Row]
         /\ \A s \in Sweeps : SweepStands(s)'
<1>1. /\ deal' \in [Deals -> Row]
      /\ deal'[d] = row
      /\ \A e \in Deals \ {d} : deal'[e] = deal[e]
  BY DEF IInv, TypeOK
<1>2. ASSUME NEW s \in Sweeps PROVE SweepStands(s)'
  <2>1. row.inspectionEndsAt \in Nat
    BY DEF Row
  <2>2. ~Due(d, sweep[s].date)'
    BY <1>1, <2>1, Tables DEF IInv, SweepStands, Due
  <2>3. ASSUME NEW e \in Scope[s], Due(e, sweep[s].date)' PROVE Due(e, sweep[s].date)
    <3>1. e \in Deals
      BY Tables
    <3>2. e # d
      BY <2>2, <2>3
    <3> QED BY <1>1, <2>3, <3>1, <3>2 DEF Due
  <2>4. Covers(s) => Covers(s)'
    BY <2>3 DEF Covers
  <2> QED BY <2>4 DEF IInv, SweepStands
<1> QED BY <1>1, <1>2

LEMMA PartyEnded ==
  ASSUME IInv, NEW d \in Deals, PartyEnds(d)
  PROVE  IInv'
<1>1. PICK status \in {"PROBLEM_REPORTED", "COMPLETED"} :
        deal' = [deal EXCEPT ![d].status = status]
  BY DEF PartyEnds
<1> DEFINE row == [deal[d] EXCEPT !.status = status]
<1>2. row \in Row /\ row.status = status
  BY Tables DEF Row, Status
<1>3. deal' = [deal EXCEPT ![d] = row]
  BY <1>1
<1> HIDE DEF row
<1>4. UNCHANGED <<expired, now, sweep>>
  BY DEF PartyEnds
<1>5. deal' \in [Deals -> Row] /\ \A s \in Sweeps : SweepStands(s)'
  BY <1>2, <1>3, <1>4, DealChanges
<1>6. TypeOK'
  BY <1>4, <1>5 DEF IInv, TypeOK
<1>7. \A e \in Deals : deal'[e].status = "INSPECTION" => expired'[e] = 0
  BY <1>2, <1>3, <1>4 DEF IInv, TypeOK
<1> QED BY <1>5, <1>6, <1>7 DEF IInv

LEMMA InspectedAgain ==
  ASSUME IInv, NEW d \in Deals, InspectAgain(d)
  PROVE  IInv'
<1> DEFINE row == [status |-> "INSPECTION", inspectionEndsAt |-> now + InspectionHours]
<1>1. row \in Row /\ row.inspectionEndsAt > now
  BY Tables, NumbersAssumption DEF Row, Status
<1>2. /\ deal' = [deal EXCEPT ![d] = row]
      /\ expired' = [expired EXCEPT ![d] = 0]
      /\ UNCHANGED <<now, sweep>>
  BY DEF InspectAgain
<1> HIDE DEF row
<1>3. deal' \in [Deals -> Row] /\ \A s \in Sweeps : SweepStands(s)'
  BY <1>1, <1>2, DealChanges
<1>4. TypeOK'
  BY <1>2, <1>3 DEF IInv, TypeOK
<1>5. \A e \in Deals : deal'[e].status = "INSPECTION" => expired'[e] = 0
  BY <1>2 DEF IInv, TypeOK
<1> QED BY <1>3, <1>4, <1>5 DEF IInv

\* A batch that was not full has taken all that is due.
LEMMA NotFullIsAll ==
  ASSUME NEW due \in SUBSET Deals, NEW taken \in Oldest(due), ~(Cardinality(taken) >= Limit)
  PROVE  taken = due
<1>1. IsFiniteSet(due) /\ Cardinality(due) \in Nat
  BY DealsAssumption, FS_Subset, FS_CardinalityType
<1>2. /\ taken \in SUBSET due
      /\ Cardinality(taken) = IF Cardinality(due) < Limit THEN Cardinality(due) ELSE Limit
  BY DEF Oldest
<1>3. Cardinality(due) = Cardinality(taken)
  BY <1>1, <1>2, NumbersAssumption
<1> QED BY <1>1, <1>2, <1>3, FS_Subset

LEMMA Began ==
  ASSUME IInv, NEW s \in Sweeps, Begin(s)
  PROVE  IInv'
<1> DEFINE due == {d \in Scope[s] : Due(d, now)}
<1>1. PICK taken \in Oldest(due) :
        sweep' = [sweep EXCEPT ![s] =
          [at |-> "running", date |-> now, candidates |-> taken,
           failed |-> FALSE, hasMore |-> Cardinality(taken) >= Limit]]
  BY DEF Begin
<1> DEFINE begun == [at |-> "running", date |-> now, candidates |-> taken,
                     failed |-> FALSE, hasMore |-> Cardinality(taken) >= Limit]
<1>2. UNCHANGED <<deal, expired, now>>
  BY DEF Begin
<1>3. due \subseteq Deals /\ taken \subseteq due
  BY Tables DEF Oldest
<1>4. ~begun.hasMore => taken = due
  BY <1>3, NotFullIsAll
<1>5. \A d \in Scope[s] : Due(d, now) => d \in due
  OBVIOUS
<1> HIDE DEF due
<1>6. /\ begun \in Sweep
      /\ begun.at = "running" /\ begun.date = now /\ begun.candidates = taken
  BY <1>3, Tables DEF Sweep
<1>7. sweep' = [sweep EXCEPT ![s] = begun]
  BY <1>1
<1> HIDE DEF begun
<1>8. /\ sweep' \in [Sweeps -> Sweep]
      /\ sweep'[s] = begun
      /\ \A t \in Sweeps \ {s} : sweep'[t] = sweep[t]
  BY <1>6, <1>7 DEF IInv, TypeOK
<1>9. TypeOK'
  BY <1>2, <1>8 DEF IInv, TypeOK
<1>10. ASSUME NEW t \in Sweeps PROVE SweepStands(t)'
  <2>1. CASE t = s
    BY <1>2, <1>4, <1>5, <1>6, <1>8, <2>1, Tables DEF SweepStands, Covers, Due
  <2>2. CASE t # s
    BY <1>2, <1>8, <2>2 DEF IInv, SweepStands, Covers, Due
  <2> QED BY <2>1, <2>2
<1> QED BY <1>2, <1>9, <1>10 DEF IInv

\* Sweep s gives up what it need not look at any more.
LEMMA Given ==
  ASSUME IInv, NEW s \in Sweeps, NEW d \in sweep[s].candidates,
         sweep' = [sweep EXCEPT ![s].candidates = @ \ {d}], UNCHANGED now,
         deal' \in [Deals -> Row],
         \A e \in Deals, n \in Nat : Due(e, n)' => Due(e, n),
         NEW date \in Nat, date = sweep[s].date, ~Due(d, date)'
  PROVE  /\ sweep' \in [Sweeps -> Sweep]
         /\ \A t \in Sweeps : SweepStands(t)'
<1>1. /\ sweep' \in [Sweeps -> Sweep]
      /\ sweep'[s].candidates = sweep[s].candidates \ {d}
      /\ sweep'[s].at = sweep[s].at /\ sweep'[s].date = sweep[s].date
      /\ sweep'[s].failed = sweep[s].failed /\ sweep'[s].hasMore = sweep[s].hasMore
      /\ \A t \in Sweeps \ {s} : sweep'[t] = sweep[t]
  BY DEF IInv, TypeOK, Sweep
<1>2. ASSUME NEW t \in Sweeps, Covers(t) PROVE Covers(t)'
  <2> PICK n \in Nat : n = sweep[t].date
    BY Tables
  <2>1. sweep'[t].date = n
    BY <1>1
  <2>2. ASSUME NEW e \in Scope[t], Due(e, n)' PROVE e \in sweep'[t].candidates
    <3>1. e \in Deals
      BY Tables
    <3>2. e \in sweep[t].candidates
      BY <1>2, <2>2, <3>1 DEF Covers
    <3>3. CASE t = s
      <4>1. e # d
        BY <2>2, <3>3
      <4> QED BY <1>1, <3>2, <3>3, <4>1
    <3>4. CASE t # s
      BY <1>1, <3>2, <3>4
    <3> QED BY <3>3, <3>4
  <2> QED BY <2>1, <2>2 DEF Covers, Due
<1>3. ASSUME NEW t \in Sweeps PROVE SweepStands(t)'
  BY <1>1, <1>2 DEF IInv, SweepStands
<1> QED BY <1>1, <1>3

LEMMA CompletedIfDue ==
  ASSUME IInv, NEW s \in Sweeps, NEW d \in Deals, completeIfDue(s, d)
  PROVE  IInv'
<1>1. /\ d \in sweep[s].candidates
      /\ sweep' = [sweep EXCEPT ![s].candidates = @ \ {d}]
      /\ UNCHANGED now
  BY DEF completeIfDue, DoneWith
<1>2. CASE Due(d, sweep[s].date)
  <2>1. /\ deal' = [deal EXCEPT ![d].status = "COMPLETED"]
        /\ expired' = [expired EXCEPT ![d] = @ + 1]
    BY <1>2 DEF completeIfDue
  <2>2. /\ deal' \in [Deals -> Row]
        /\ deal'[d].status = "COMPLETED"
        /\ \A e \in Deals \ {d} : deal'[e] = deal[e]
    BY <2>1 DEF IInv, TypeOK, Row, Status
  <2>3. /\ expired' \in [Deals -> Nat]
        /\ \A e \in Deals \ {d} : expired'[e] = expired[e]
    BY <2>1 DEF IInv, TypeOK
  <2>4. /\ sweep' \in [Sweeps -> Sweep]
        /\ \A t \in Sweeps : SweepStands(t)'
    <3> PICK date \in Nat : date = sweep[s].date
      BY Tables
    <3>1. \A e \in Deals, n \in Nat : Due(e, n)' => Due(e, n)
      BY <2>2 DEF Due
    <3>2. ~Due(d, date)'
      BY <2>2 DEF Due
    <3> QED BY <1>1, <2>2, <3>1, <3>2, Given
  <2>5. TypeOK'
    BY <1>1, <2>2, <2>3, <2>4 DEF IInv, TypeOK
  <2>6. \A e \in Deals : deal'[e].status = "INSPECTION" => expired'[e] = 0
    BY <2>2, <2>3 DEF IInv
  <2> QED BY <2>4, <2>5, <2>6 DEF IInv
<1>3. CASE ~Due(d, sweep[s].date)
  <2>1. UNCHANGED <<deal, expired>>
    BY <1>3 DEF completeIfDue
  <2>2. /\ sweep' \in [Sweeps -> Sweep]
        /\ \A t \in Sweeps : SweepStands(t)'
    <3> PICK date \in Nat : date = sweep[s].date
      BY Tables
    <3>1. \A e \in Deals, n \in Nat : Due(e, n)' => Due(e, n)
      BY <2>1 DEF Due
    <3>2. ~Due(d, date)'
      BY <1>3, <2>1 DEF Due
    <3>3. deal' \in [Deals -> Row]
      BY <2>1 DEF IInv, TypeOK
    <3> QED BY <1>1, <3>1, <3>2, <3>3, Given
  <2>3. TypeOK'
    BY <1>1, <2>1, <2>2 DEF IInv, TypeOK
  <2> QED BY <2>1, <2>2, <2>3 DEF IInv
<1> QED BY <1>2, <1>3

LEMMA Failed ==
  ASSUME IInv, NEW s \in Sweeps, NEW d \in Deals, Fail(s, d)
  PROVE  IInv'
<1>1. /\ d \in sweep[s].candidates
      /\ sweep' = [sweep EXCEPT ![s].candidates = @ \ {d}, ![s].failed = TRUE]
      /\ UNCHANGED <<deal, expired, now>>
  BY DEF Fail
<1>2. /\ sweep' \in [Sweeps -> Sweep]
      /\ sweep'[s].at = sweep[s].at /\ sweep'[s].date = sweep[s].date
      /\ sweep'[s].failed
      /\ sweep'[s].candidates = sweep[s].candidates \ {d}
      /\ \A t \in Sweeps \ {s} : sweep'[t] = sweep[t]
  BY <1>1 DEF IInv, TypeOK, Sweep
<1>3. TypeOK'
  BY <1>1, <1>2 DEF IInv, TypeOK
<1>4. ASSUME NEW t \in Sweeps PROVE SweepStands(t)'
  BY <1>1, <1>2 DEF IInv, SweepStands, Covers, Due
<1> QED BY <1>1, <1>3, <1>4 DEF IInv

LEMMA Reported ==
  ASSUME IInv, NEW s \in Sweeps, Report(s)
  PROVE  IInv'
<1>1. /\ sweep[s].at = "running" /\ sweep[s].candidates = {}
      /\ sweep' = [sweep EXCEPT ![s].at = "done"]
      /\ UNCHANGED <<deal, expired, now>>
  BY DEF Report
<1>2. /\ sweep' \in [Sweeps -> Sweep]
      /\ sweep'[s].date = sweep[s].date /\ sweep'[s].candidates = sweep[s].candidates
      /\ sweep'[s].failed = sweep[s].failed /\ sweep'[s].hasMore = sweep[s].hasMore
      /\ \A t \in Sweeps \ {s} : sweep'[t] = sweep[t]
  BY <1>1 DEF IInv, TypeOK, Sweep
<1>3. TypeOK'
  BY <1>1, <1>2 DEF IInv, TypeOK
<1>4. ASSUME NEW t \in Sweeps PROVE SweepStands(t)'
  BY <1>1, <1>2 DEF IInv, SweepStands, Covers, Due
<1> QED BY <1>1, <1>3, <1>4 DEF IInv

LEMMA Died ==
  ASSUME IInv, NEW s \in Sweeps, Die(s)
  PROVE  IInv'
<1>1. /\ sweep' = [sweep EXCEPT ![s] = Idle]
      /\ UNCHANGED <<deal, expired, now>>
  BY DEF Die
<1>2. Idle \in Sweep /\ Idle.at = "idle" /\ Idle.candidates = {} /\ Idle.date = 0
  BY DEF Idle, Sweep
<1>3. /\ sweep' \in [Sweeps -> Sweep]
      /\ sweep'[s] = Idle
      /\ \A t \in Sweeps \ {s} : sweep'[t] = sweep[t]
  BY <1>1, <1>2 DEF IInv, TypeOK
<1>4. TypeOK'
  BY <1>1, <1>3 DEF IInv, TypeOK
<1>5. ASSUME NEW t \in Sweeps PROVE SweepStands(t)'
  BY <1>1, <1>2, <1>3, Tables DEF IInv, SweepStands, Covers, Due
<1> QED BY <1>1, <1>4, <1>5 DEF IInv

LEMMA Ticked ==
  ASSUME IInv, Tick
  PROVE  IInv'
<1>1. now' = now + 1 /\ UNCHANGED <<deal, expired, sweep>>
  BY DEF Tick
<1>2. TypeOK'
  BY <1>1 DEF IInv, TypeOK
<1>3. ASSUME NEW t \in Sweeps PROVE SweepStands(t)'
  BY <1>1, Tables DEF IInv, SweepStands, Covers, Due
<1> QED BY <1>1, <1>2, <1>3 DEF IInv

LEMMA IInvInit == Init => IInv
<1> SUFFICES ASSUME Init PROVE IInv
  OBVIOUS
<1>1. Idle \in Sweep /\ Idle.at = "idle" /\ Idle.candidates = {} /\ Idle.date = 0
  BY DEF Idle, Sweep
<1>2. TypeOK
  BY <1>1 DEF Init, TypeOK, Row, Status
<1>3. ASSUME NEW s \in Sweeps PROVE SweepStands(s)
  BY <1>1 DEF Init, SweepStands
<1> QED BY <1>2, <1>3 DEF Init, IInv

LEMMA IInvNext == IInv /\ [Next]_vars => IInv'
<1> SUFFICES ASSUME IInv, [Next]_vars PROVE IInv'
  OBVIOUS
<1>1. CASE \E d \in Deals : PartyEnds(d) \/ InspectAgain(d)
  BY <1>1, PartyEnded, InspectedAgain
<1>2. CASE \E s \in Sweeps : Begin(s) \/ Step(s) \/ Die(s)
  BY <1>2, Began, CompletedIfDue, Failed, Reported, Died DEF Step
<1>3. CASE Tick
  BY <1>3, Ticked
<1>4. CASE UNCHANGED vars
  BY <1>4 DEF vars, IInv, TypeOK, SweepStands, Covers, Due
<1> QED BY <1>1, <1>2, <1>3, <1>4 DEF Next

LEMMA Invariance == Spec => []IInv
  BY IInvInit, IInvNext, PTL DEF Spec

-----------------------------------------------------------------------------
\* Deals and sweeps keep their types.
THEOREM InspectionSweepTypeCorrect == Spec => []TypeOK
<1>1. IInv => TypeOK
  BY DEF IInv
<1> QED BY <1>1, Invariance, PTL

\* The report that there is no more and that nothing failed can be relied on
\* (NoMoreMeansDone).
THEOREM NoMoreMeansDoneAlways == Spec => []NoMoreMeansDone
<1>1. IInv => NoMoreMeansDone
  BY DEF IInv, SweepStands, Covers, NoMoreMeansDone
<1> QED BY <1>1, Invariance, PTL

\* No inspection is expired before its deadline of that moment, and none
\* twice (ExpiresOnceAndNotEarly).
THEOREM ExpiresOnceAndNotEarlyAlways == Spec => ExpiresOnceAndNotEarly
<1> DEFINE Expires(d) == /\ Due(d, now)
                         /\ expired'[d] = 1
                         /\ deal'[d].status = "COMPLETED"
<1>1. ASSUME IInv, [Next]_vars, NEW d \in Deals, expired'[d] > expired[d]
      PROVE  Expires(d)
  <2>1. expired[d] \in Nat /\ expired \in [Deals -> Nat] /\ deal \in [Deals -> Row] /\ now \in Nat
    BY <1>1 DEF IInv, TypeOK
  <2>2. ~(expired' = expired)
    BY <1>1, <2>1
  <2>3. ASSUME NEW e \in Deals, InspectAgain(e) PROVE FALSE
    BY <1>1, <2>1, <2>3 DEF InspectAgain
  <2>4. ASSUME NEW s \in Sweeps, NEW e \in Deals, completeIfDue(s, e) PROVE Expires(d)
    <3>1. /\ Due(e, sweep[s].date)
          /\ deal' = [deal EXCEPT ![e].status = "COMPLETED"]
          /\ expired' = [expired EXCEPT ![e] = @ + 1]
      BY <2>2, <2>4 DEF completeIfDue
    <3>2. e = d
      BY <1>1, <2>1, <3>1
    <3>3. /\ sweep[s].date \in Nat /\ sweep[s].date <= now
          /\ deal[d].inspectionEndsAt \in Nat
      BY <1>1, Tables DEF IInv, SweepStands, Row
    <3>4. expired[d] = 0
      BY <1>1, <3>1, <3>2 DEF Due, IInv
    <3>5. Due(d, now)
      BY <2>1, <3>1, <3>2, <3>3 DEF Due
    <3>6. deal'[d].status = "COMPLETED"
      BY <2>1, <3>1, <3>2 DEF Row
    <3>7. expired'[d] = 1
      BY <2>1, <3>1, <3>2, <3>4
    <3> QED BY <3>5, <3>6, <3>7
  <2> QED BY <1>1, <2>2, <2>3, <2>4
          DEF Next, PartyEnds, Begin, Step, Fail, Report, Die, Tick, vars
<1>2. IInv /\ [Next]_vars => [\A d \in Deals : expired'[d] > expired[d] => Expires(d)]_vars
  BY <1>1
<1> QED BY <1>2, Invariance, PTL DEF Spec, ExpiresOnceAndNotEarly

=============================================================================
