--------------------------- MODULE InspectionSweep ---------------------------
(***************************************************************************)
(* The automatic completion of many deals: inspection-automation.service.  *)
(* DealFlow has what one completion does to one deal; here are the batches *)
(* over deals whose inspections end at different times.                    *)
(*                                                                         *)
(* A sweep reads its candidates once, the due deals of everyone (the cron) *)
(* or of one user (his list of deals), the longest due first and no more   *)
(* than its limit, and completes them one transaction after the other.     *)
(* Meanwhile parties report problems or confirm, the second transaction of *)
(* a slow mark-delivered starts an inspection again with a new deadline    *)
(* (computed in the tick in which it commits), and other sweeps run.  A    *)
(* completion can fail, some always do; a sweep can die.                   *)
(***************************************************************************)
EXTENDS Integers, FiniteSets

CONSTANTS
  Deals,            \* deals that have come to inspection
  Broken,           \* those whose completion always fails
  Sweeps,           \* sweeps that may run at the same time
  Scope,            \* for each, the deals it looks at: all, or those of a user
  Limit,            \* `take': the most candidates of a sweep
  InspectionHours,  \* in ticks of the clock
  Mortal,           \* those that may die
  MaxTime           \* bound: the clock stops here

ASSUME DealsAssumption ==
  /\ IsFiniteSet(Deals)
  /\ Broken \subseteq Deals
  /\ Scope \in [Sweeps -> SUBSET Deals]
  /\ Mortal \subseteq Sweeps
ASSUME NumbersAssumption ==
  /\ Limit \in Nat \ {0}
  /\ InspectionHours \in Nat \ {0}
  /\ MaxTime \in Nat

VARIABLES
  deal,     \* for each deal, its status and inspectionEndsAt
  expired,  \* for each deal, the inspection.expired events of its inspection
  now,      \* the clock
  sweep     \* for each sweep, how far it has come
vars == <<deal, expired, now, sweep>>

Status == {"INSPECTION", "PROBLEM_REPORTED", "COMPLETED"}
Row == [status : Status, inspectionEndsAt : Nat]

(* `date' is the sweep's `now', taken when it began.                       *)
Sweep == [at : {"idle", "running", "done"}, date : Nat, candidates : SUBSET Deals,
          failed : BOOLEAN, hasMore : BOOLEAN]
Idle == [at |-> "idle", date |-> 0, candidates |-> {}, failed |-> FALSE, hasMore |-> FALSE]

Init ==
  /\ deal \in [Deals -> [status : {"INSPECTION"}, inspectionEndsAt : {0}]]
  /\ expired = [d \in Deals |-> 0]
  /\ now = 0
  /\ sweep = [s \in Sweeps |-> Idle]

-----------------------------------------------------------------------------
(* The parties.                                                            *)

\* A problem is reported, or the buyer confirms.
PartyEnds(d) ==
  /\ deal[d].status = "INSPECTION"
  /\ \E status \in {"PROBLEM_REPORTED", "COMPLETED"} :
       deal' = [deal EXCEPT ![d].status = status]
  /\ UNCHANGED <<expired, now, sweep>>

\* The second transaction of a mark-delivered that began earlier: inspection
\* starts again, over whatever has been committed in between.
InspectAgain(d) ==
  /\ deal[d].inspectionEndsAt < now + InspectionHours
  /\ deal' = [deal EXCEPT ![d] = [status |-> "INSPECTION",
                                  inspectionEndsAt |-> now + InspectionHours]]
  /\ expired' = [expired EXCEPT ![d] = 0]
  /\ UNCHANGED <<now, sweep>>

-----------------------------------------------------------------------------
(* The sweep.                                                              *)

Due(d, date) == deal[d].status = "INSPECTION" /\ deal[d].inspectionEndsAt <= date

\* What `orderBy: inspectionEndsAt asc, take' may return of the due deals.
Oldest(due) ==
  { taken \in SUBSET due :
      /\ Cardinality(taken) = IF Cardinality(due) < Limit THEN Cardinality(due) ELSE Limit
      /\ \A d \in taken, e \in due \ taken :
           deal[d].inspectionEndsAt <= deal[e].inspectionEndsAt }

\* Faulty variant: there is more only if the batch was more than full.
BeginOptimistic(s) ==
  /\ sweep[s].at # "running"
  /\ LET due == {d \in Scope[s] : Due(d, now)} IN
     \E taken \in Oldest(due) :
       sweep' = [sweep EXCEPT ![s] =
         [at |-> "running", date |-> now, candidates |-> taken,
          failed |-> FALSE, hasMore |-> Cardinality(taken) > Limit]]
  /\ UNCHANGED <<deal, expired, now>>

\* completeExpiredInspections and reconcileUser.
Begin(s) ==
  /\ sweep[s].at # "running"
  /\ LET due == {d \in Scope[s] : Due(d, now)} IN
     \E taken \in Oldest(due) :
       sweep' = [sweep EXCEPT ![s] =
         [at |-> "running", date |-> now, candidates |-> taken,
          failed |-> FALSE, hasMore |-> Cardinality(taken) >= Limit]]
  /\ UNCHANGED <<deal, expired, now>>

\* The candidate is done with.
DoneWith(s, d) == sweep' = [sweep EXCEPT ![s].candidates = @ \ {d}]

\* Faulty variant: the deadline is the candidate's, read before.
completeIfStillInspected(s, d) ==
  /\ d \in sweep[s].candidates \ Broken
  /\ IF deal[d].status = "INSPECTION"
     THEN /\ deal' = [deal EXCEPT ![d].status = "COMPLETED"]
          /\ expired' = [expired EXCEPT ![d] = @ + 1]
     ELSE UNCHANGED <<deal, expired>>
  /\ DoneWith(s, d)
  /\ UNCHANGED now

\* completeIfDue: the update carries its whole condition; what no longer
\* meets it is skipped.
completeIfDue(s, d) ==
  /\ d \in sweep[s].candidates \ Broken
  /\ IF Due(d, sweep[s].date)
     THEN /\ deal' = [deal EXCEPT ![d].status = "COMPLETED"]
          /\ expired' = [expired EXCEPT ![d] = @ + 1]
     ELSE UNCHANGED <<deal, expired>>
  /\ DoneWith(s, d)
  /\ UNCHANGED now

\* Faulty variant: a failure ends the sweep.
FailAll(s, d) ==
  /\ d \in sweep[s].candidates \cap Broken
  /\ sweep' = [sweep EXCEPT ![s].candidates = {}, ![s].failed = TRUE]
  /\ UNCHANGED <<deal, expired, now>>

\* The completion of a broken deal throws; the loop counts it and goes on.
Fail(s, d) ==
  /\ d \in sweep[s].candidates \cap Broken
  /\ sweep' = [sweep EXCEPT ![s].candidates = @ \ {d}, ![s].failed = TRUE]
  /\ UNCHANGED <<deal, expired, now>>

\* The report: failed and hasMore.
Report(s) ==
  /\ sweep[s].at = "running"
  /\ sweep[s].candidates = {}
  /\ sweep' = [sweep EXCEPT ![s].at = "done"]
  /\ UNCHANGED <<deal, expired, now>>

\* The process dies, or the function's time is up.
Die(s) ==
  /\ s \in Mortal
  /\ sweep[s].at = "running"
  /\ sweep' = [sweep EXCEPT ![s] = Idle]
  /\ UNCHANGED <<deal, expired, now>>

Tick ==
  /\ now < MaxTime
  /\ now' = now + 1
  /\ UNCHANGED <<deal, expired, sweep>>

-----------------------------------------------------------------------------
Step(s) ==
  \/ \E d \in Deals : completeIfDue(s, d) \/ Fail(s, d)
  \/ Report(s)

Next ==
  \/ \E d \in Deals : PartyEnds(d) \/ InspectAgain(d)
  \/ \E s \in Sweeps : Begin(s) \/ Step(s) \/ Die(s)
  \/ Tick

Spec == Init /\ [][Next]_vars

(***************************************************************************)
(* The cron calls the sweep of all deals every day, and a sweep that does  *)
(* not die goes through its candidates.  Users need not call, parties need *)
(* not act, and the other sweeps may die each time.                        *)
(***************************************************************************)
FairSpec ==
  Spec /\ \A s \in {t \in Sweeps \ Mortal : Scope[t] = Deals} : WF_vars(Begin(s)) /\ WF_vars(Step(s))

-----------------------------------------------------------------------------
(* Properties.                                                             *)

TypeOK ==
  /\ deal \in [Deals -> Row]
  /\ expired \in [Deals -> Nat]
  /\ now \in Nat
  /\ sweep \in [Sweeps -> Sweep]

\* docs/api.md: the timeout releases when the inspection has ended.  No
\* inspection is expired before its deadline of that moment, and none twice,
\* although sweeps overlap and work on candidates read long before.
ExpiresOnceAndNotEarly ==
  [][\A d \in Deals :
       expired'[d] > expired[d] =>
         /\ Due(d, now)
         /\ expired'[d] = 1
         /\ deal'[d].status = "COMPLETED"]_vars

\* The report can be relied on: a sweep that says that there is no more and
\* that nothing failed has left no deal of its scope due at the time it had.
NoMoreMeansDone ==
  \A s \in Sweeps :
    sweep[s].at = "done" /\ ~sweep[s].hasMore /\ ~sweep[s].failed =>
      \A d \in Scope[s] : ~Due(d, sweep[s].date)

\* Every due deal is completed or taken out of inspection, however many
\* others fail each time, as long as these do not fill the limit.
DueDealsComplete ==
  \A d \in Deals \ Broken : Due(d, now) ~> ~Due(d, now)

=============================================================================
