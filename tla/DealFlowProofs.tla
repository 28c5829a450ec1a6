--------------------------- MODULE DealFlowProofs ---------------------------
(***************************************************************************)
(* Proofs about DealFlow, its page (DealPage) and the whole system         *)
(* (DealSystem), for any number of requests and claims in flight, any      *)
(* plans, categories, creators and users, any inspection window and any    *)
(* bounds.                                                                 *)
(***************************************************************************)
EXTENDS DealPage, DealSystem, FiniteSetTheorems, TLAPS

-----------------------------------------------------------------------------
(* Type correctness.                                                       *)

\* The operations that read the deal leave a well-typed request.
LEMMA HoldType ==
  ASSUME TypeOK, NEW w \in Workers, NEW op \in Operation, NEW role \in PartyRole,
         NEW to, NEW date \in Time, Hold(w, op, role, to, date)
  PROVE  TypeOK'
  BY DEF TypeOK, Hold, rows, Request, Phase, DealRow

\* An event of legal parts, appended, leaves a well-typed journal.
LEMMA AppendType ==
  ASSUME journal \in Seq(DealEvent), NEW type \in EventType, NEW from \in DealStatus,
         NEW to \in DealStatus, NEW by \in ActorRole
  PROVE  Append(journal, eventData(type, from, to, by)) \in Seq(DealEvent)
  BY DEF eventData, DealEvent

\* What a commit appends to the journal is an event.
LEMMA CommitJournalType ==
  ASSUME TypeOK, NEW w \in Workers, NEW type \in EventType, NEW to \in DealStatus, NEW by,
         by = req[w].role \/ by = "SYSTEM",
         journal' = Append(journal, eventData(type, req[w].from, to, by))
  PROVE  journal' \in Seq(DealEvent)
<1>1. req[w] \in Request /\ journal \in Seq(DealEvent)
  BY DEF TypeOK
<1>2. req[w].from \in DealStatus /\ by \in ActorRole
  BY <1>1 DEF Request, ActorRole
<1> QED
  BY <1>1, <1>2, AppendType

\* A request that ends leaves a well-typed request table.
LEMMA FinishType ==
  ASSUME TypeOK, NEW w \in Workers, Finish(w)
  PROVE  req' \in [Workers -> Request]
  BY DEF TypeOK, Finish, Idle, Request, Operation, PartyRole, Phase, DealStatus, Time

\* A request that goes on leaves a well-typed request table.
LEMMA AdvanceType ==
  ASSUME TypeOK, NEW w \in Workers, NEW at \in Phase, NEW date \in Time, Advance(w, at, date)
  PROVE  req' \in [Workers -> Request]
<1>1. req[w] \in Request
  BY DEF TypeOK
<1> QED
  BY <1>1 DEF TypeOK, Advance, Request

\* Init builds rows of their types.
LEMMA TypeInit == Init => TypeOK
<1> SUFFICES ASSUME Init PROVE TypeOK
  OBVIOUS
<1>1. terms \in DealTerms
  BY PlansAssumption, CategoriesAssumption, CreatorsAssumption DEF Init, DealTerms
<1>2. deal \in DealRow
  BY DEF Init, Joined, Unaccepted, DealRow, DealStatus, Time, PartyRole
<1>3. journal \in Seq(DealEvent)
  <2>1. CASE Joined(terms.creatorRole)
    BY <2>1 DEF Joined, DealEvent, EventType, DealStatus, ActorRole, PartyRole, Other
  <2>2. CASE Unaccepted(terms.creatorRole)
    BY <2>2 DEF Unaccepted, DealEvent, EventType, DealStatus, ActorRole, PartyRole
  <2> QED BY <2>1, <2>2 DEF Init
<1>4. req \in [Workers -> Request]
  BY DEF Init, Idle, Request, Operation, PartyRole, Phase, DealStatus, Time
<1> QED
  BY <1>1, <1>2, <1>3, <1>4 DEF Init, TypeOK, PaymentRows, DeliveryRows

\* Every step keeps the types.
LEMMA TypeStep == TypeOK /\ [Next]_vars => TypeOK'
<1> SUFFICES ASSUME TypeOK, [Next]_vars PROVE TypeOK'
  OBVIOUS
<1> USE DEF Operation, ActorRole, PartyRole, Time
<1>1. ASSUME NEW w \in Workers, Begin(w) PROVE TypeOK'
  <2>1. ASSUME NEW op \in {"confirm", "problem"}, NEW role \in PartyRole, Reconcile(w, op, role)
        PROVE  TypeOK'
    BY <2>1 DEF TypeOK, Reconcile, rows, Idle, Request, Phase, DealStatus
  <2>2. ASSUME NEW role \in PartyRole, BeginAccept(w, role) PROVE TypeOK'
    BY <2>2, HoldType DEF BeginAccept
  <2>3. CASE BeginMockPayment(w)
    BY <2>3, HoldType DEF BeginMockPayment
  <2>4. CASE BeginMarkShipped(w)
    BY <2>4, HoldType DEF BeginMarkShipped
  <2>5. CASE BeginMarkDelivered(w)
    BY <2>5, HoldType DEF BeginMarkDelivered, TypeOK
  <2> QED BY <1>1, <2>1, <2>2, <2>3, <2>4, <2>5 DEF Begin
<1>2. ASSUME NEW w \in Workers, Continue(w) PROVE TypeOK'
  <2>1. CASE DateInspection(w)
    <3>1. req' \in [Workers -> Request]
      BY <2>1, TimeAssumption, AdvanceType DEF DateInspection, Phase, TypeOK
    <3> QED BY <2>1, <3>1 DEF DateInspection, rows, TypeOK
  <2>2. req[w] \in Request
    BY DEF TypeOK
  <2>3. CASE BeginInspection(w)
    BY <2>2, <2>3, HoldType DEF BeginInspection, Request
  <2>4. CASE BeginComplete(w)
    BY <2>2, <2>4, HoldType DEF BeginComplete, Request
  <2>5. CASE BeginReportProblem(w)
    BY <2>2, <2>5, HoldType DEF BeginReportProblem, Request
  <2> QED BY <1>2, <2>1, <2>3, <2>4, <2>5 DEF Continue
<1>3. ASSUME NEW w \in Workers, Commit(w) PROVE TypeOK'
  <2> USE DEF DealStatus, EventType
  <2>1. req[w] \in Request /\ deal \in DealRow /\ payments \in PaymentRows
        /\ deliveries \in DeliveryRows /\ journal \in Seq(DealEvent)
    BY DEF TypeOK
  <2>2. CASE Accept(w)
    <3>1. journal' \in Seq(DealEvent)
      BY <2>2, CommitJournalType DEF Accept
    <3>2. deal' \in DealRow
      BY <2>1, <2>2 DEF Accept, DealRow, Request, Commits
    <3> QED BY <2>2, <3>1, <3>2, FinishType DEF Accept, TypeOK
  <2>3. CASE MockPayment(w)
    <3>1. journal' \in Seq(DealEvent)
      <4> DEFINE secured == eventData("mock_escrow.funds_secured", req[w].from, "FUNDS_SECURED", "SYSTEM")
                 ready == eventData("deal.ready_for_shipment", "FUNDS_SECURED", "WAITING_SHIPMENT", "SYSTEM")
      <4>1. secured \in DealEvent /\ ready \in DealEvent
        BY <2>1 DEF Request, eventData, DealEvent
      <4>2. journal' = Append(Append(journal, secured), ready)
        BY <2>3 DEF MockPayment
      <4> HIDE DEF secured, ready
      <4> QED BY <2>1, <4>1, <4>2
    <3>2. deal' \in DealRow
      BY <2>1, <2>3 DEF MockPayment, DealRow, PaymentRows
    <3>4. payments' \in PaymentRows
      <4>1. payments.FUNDS_SECURED + 1 \in Nat
        BY <2>1 DEF PaymentRows
      <4> QED BY <2>1, <2>3, <4>1 DEF MockPayment, PaymentRows
    <3> QED BY <2>3, <3>1, <3>2, <3>4, FinishType DEF MockPayment, TypeOK
  <2>4. CASE MarkShipped(w)
    <3>1. journal' \in Seq(DealEvent)
      BY <2>4, CommitJournalType DEF MarkShipped, transition
    <3>2. deal' \in DealRow
      BY <2>1, <2>4 DEF MarkShipped, transition, DealRow, DeliveryRows
    <3>4. deliveries' \in DeliveryRows
      <4>1. deliveries.SHIPPED + 1 \in Nat
        BY <2>1 DEF DeliveryRows
      <4> QED BY <2>1, <2>4, <4>1 DEF MarkShipped, DeliveryRows
    <3> QED BY <2>4, <3>1, <3>2, <3>4, FinishType DEF MarkShipped, TypeOK
  <2>5. CASE MarkDelivered(w)
    <3>1. journal' \in Seq(DealEvent)
      BY <2>5, CommitJournalType DEF MarkDelivered
    <3>2. deal' \in DealRow
      BY <2>1, <2>5 DEF MarkDelivered, DealRow, DeliveryRows, Request
    <3>4. deliveries' \in DeliveryRows
      BY <2>1, <2>5 DEF MarkDelivered, DealRow, DeliveryRows, Request
    <3>3. req' \in [Workers -> Request]
      BY <2>5, AdvanceType DEF MarkDelivered, Phase
    <3> QED BY <2>5, <3>1, <3>2, <3>4, <3>3 DEF MarkDelivered, TypeOK
  <2>6. CASE StartInspection(w)
    <3>1. journal' \in Seq(DealEvent)
      BY <2>6, CommitJournalType DEF StartInspection
    <3>2. deal' \in DealRow
      BY <2>1, <2>6 DEF StartInspection, DealRow, Request
    <3> QED BY <2>6, <3>1, <3>2, FinishType DEF StartInspection, TypeOK
  <2>7. CASE Complete(w)
    <3>1. journal' \in Seq(DealEvent)
      BY <2>7, CommitJournalType DEF Complete, transition
    <3>2. deal' \in DealRow
      BY <2>1, <2>7 DEF Complete, transition, ReleaseAll, DealRow, PaymentRows
    <3>4. payments' \in PaymentRows
      BY <2>1, <2>7 DEF Complete, transition, ReleaseAll, DealRow, PaymentRows
    <3> QED BY <2>7, <3>1, <3>2, <3>4, FinishType DEF Complete, TypeOK
  <2>8. CASE ReportProblem(w)
    <3>1. journal' \in Seq(DealEvent)
      BY <2>8, CommitJournalType DEF ReportProblem, transition
    <3>2. deal' \in DealRow
      BY <2>1, <2>8 DEF ReportProblem, transition, DealRow
    <3> QED BY <2>8, <3>1, <3>2, FinishType DEF ReportProblem, TypeOK
  <2> QED BY <1>3, <2>2, <2>3, <2>4, <2>5, <2>6, <2>7, <2>8 DEF Commit
<1>4. ASSUME NEW w \in Workers, Crash(w) PROVE TypeOK'
  BY <1>4, FinishType DEF Crash, TypeOK, rows
<1>5. ASSUME completeIfDue, UNCHANGED <<now, req>> PROVE TypeOK'
  <2>1. journal' \in Seq(DealEvent)
    BY <1>5, AppendType DEF completeIfDue, TypeOK, EventType, DealStatus
  <2>2. deal' \in DealRow
    BY <1>5 DEF completeIfDue, TypeOK, DealRow, DealStatus
  <2>3. payments' \in PaymentRows
    BY <1>5 DEF completeIfDue, ReleaseAll, TypeOK, PaymentRows
  <2> QED BY <1>5, <2>1, <2>2, <2>3 DEF completeIfDue, TypeOK
<1>6. ASSUME NEW item \in ChecklistItems(terms.category, terms.plan), UploadEvidence(item)
      PROVE  TypeOK'
  <2>1. item.role \in PartyRole /\ item.kind \in RequiredKind
    BY DEF ChecklistItems, rules, Item, TypeOK, DealTerms, DealCategory, RequiredKind
  <2> QED BY <1>6, <2>1 DEF UploadEvidence, File, TypeOK
<1>7. CASE Tick
  BY <1>7 DEF Tick, rows, TypeOK
<1>8. CASE UNCHANGED vars
  BY <1>8 DEF vars, TypeOK
<1> QED
  BY <1>1, <1>2, <1>3, <1>4, <1>5, <1>6, <1>7, <1>8 DEF Next, ReadDeal, CronSweep

\* The rows keep their types whatever requests race, for any constants.
THEOREM TypeCorrect == Spec => []TypeOK
  BY TypeInit, TypeStep, PTL DEF Spec

-----------------------------------------------------------------------------
(* The money.                                                              *)

\* The deal has a payment, held or released.
Paid == payments.FUNDS_SECURED + payments.RELEASED > 0

(***************************************************************************)
(* CompletedPaysOut and FundsBackTheDeal are not inductive: a request may  *)
(* write the status long after the deal has left the one it read.  What is *)
(* left of its check is that the payment of the deal it read still exists, *)
(* because payments are never deleted.                                     *)
(***************************************************************************)
FundedOp == {"ship", "deliver", "inspect", "confirm", "problem"}
HoldsFunded == \A w \in Workers : req[w].at = "holds" /\ req[w].op \in FundedOp => Paid
MoneyInv == CompletedPaysOut /\ FundsBackTheDeal /\ HoldsFunded

\* Only from a status behind the payment does the table lead to these.
LEMMA FundedSource ==
  ASSUME NEW s \in DealStatus, CanTransition(s, "SHIPPED") \/ CanTransition(s, "DELIVERED")
           \/ CanTransition(s, "INSPECTION") \/ CanTransition(s, "COMPLETED")
           \/ CanTransition(s, "PROBLEM_REPORTED")
  PROVE  s \in FundedStatus
  BY DEF DealStatus, CanTransition, allowedTransitions, FundedStatus

\* A read that leaves the rows alone keeps MoneyInv if what it holds is funded.
LEMMA HoldMoney ==
  ASSUME TypeOK, MoneyInv, NEW w \in Workers, NEW op, NEW role, NEW to, NEW date,
         Hold(w, op, role, to, date), op \in FundedOp => deal.status \in FundedStatus
  PROVE  MoneyInv'
<1>1. UNCHANGED <<deal, payments>>
  BY DEF Hold, rows
<1>2. HoldsFunded'
  BY <1>1 DEF Hold, HoldsFunded, MoneyInv, TypeOK, FundsBackTheDeal, Paid
<1> QED
  BY <1>1, <1>2 DEF MoneyInv, CompletedPaysOut, FundsBackTheDeal

\* Only the request w has moved, and it is not between a read and a commit.
LetsGo(w) ==
  /\ \A v \in Workers : v # w => req'[v] = req[v]
  /\ req'[w].at # "holds"

\* Going on past a commit, or ending, is such a move.
LEMMA MovesOn ==
  ASSUME TypeOK, NEW w \in Workers
  PROVE  /\ Finish(w) => LetsGo(w)
         /\ \A date : Advance(w, "delivered", date) \/ Advance(w, "dated", date) => LetsGo(w)
         /\ \A op, role : Reconcile(w, op, role) => LetsGo(w)
<1>1. Finish(w) => LetsGo(w)
  BY DEF TypeOK, Finish, Idle, LetsGo
<1>2. \A date : Advance(w, "delivered", date) \/ Advance(w, "dated", date) => LetsGo(w)
  BY DEF TypeOK, Advance, LetsGo
<1>3. \A op, role : Reconcile(w, op, role) => LetsGo(w)
  BY DEF TypeOK, Reconcile, LetsGo
<1> QED
  BY <1>1, <1>2, <1>3

\* A request that does not come to hold anything keeps HoldsFunded.
LEMMA ReqMoney ==
  ASSUME HoldsFunded, Paid => Paid', NEW w \in Workers, LetsGo(w)
  PROVE  HoldsFunded'
  BY DEF LetsGo, HoldsFunded

\* The deals that Init admits have asked for no money.
LEMMA MoneyInit == Init => MoneyInv
  BY DEF Init, Joined, Unaccepted, Idle, MoneyInv, CompletedPaysOut, FundsBackTheDeal,
         HoldsFunded, FundedStatus

\* Every step keeps the money behind the deal.
LEMMA MoneyStep == TypeOK /\ MoneyInv /\ [Next]_vars => MoneyInv'
<1> SUFFICES ASSUME TypeOK, MoneyInv, [Next]_vars PROVE MoneyInv'
  OBVIOUS
<1> USE DEF FundedOp
<1>t. deal \in DealRow /\ payments \in PaymentRows /\ deal.status \in DealStatus
  BY DEF TypeOK, DealRow
<1>p. payments' \in PaymentRows
  BY TypeStep DEF TypeOK
<1>1. ASSUME NEW w \in Workers, Begin(w) PROVE MoneyInv'
  <2>1. ASSUME NEW op, NEW role, Reconcile(w, op, role) PROVE MoneyInv'
    <3>1. UNCHANGED <<deal, payments>>
      BY <2>1 DEF Reconcile, rows
    <3>2. HoldsFunded'
      BY <2>1, <3>1, MovesOn, ReqMoney DEF MoneyInv, Paid
    <3> QED BY <3>1, <3>2 DEF MoneyInv, CompletedPaysOut, FundsBackTheDeal
  <2>2. ASSUME NEW role \in PartyRole, BeginAccept(w, role) PROVE MoneyInv'
    BY <2>2, HoldMoney DEF BeginAccept
  <2>3. CASE BeginMockPayment(w)
    BY <2>3, HoldMoney DEF BeginMockPayment
  <2>4. CASE BeginMarkShipped(w)
    BY <2>4, <1>t, HoldMoney, FundedSource DEF BeginMarkShipped, Hold
  <2>5. CASE BeginMarkDelivered(w)
    BY <2>5, <1>t, HoldMoney, FundedSource DEF BeginMarkDelivered, Hold
  <2> QED BY <1>1, <2>1, <2>2, <2>3, <2>4, <2>5 DEF Begin
<1>2. ASSUME NEW w \in Workers, Continue(w) PROVE MoneyInv'
  <2>1. CASE DateInspection(w)
    <3>1. UNCHANGED <<deal, payments>>
      BY <2>1 DEF DateInspection, rows
    <3>2. HoldsFunded'
      BY <2>1, <3>1, MovesOn, ReqMoney DEF DateInspection, MoneyInv, Paid
    <3> QED BY <3>1, <3>2 DEF MoneyInv, CompletedPaysOut, FundsBackTheDeal
  <2>2. CASE BeginInspection(w)
    BY <2>2, <1>t, HoldMoney, FundedSource DEF BeginInspection, Hold
  <2>3. CASE BeginComplete(w)
    BY <2>3, <1>t, HoldMoney, FundedSource DEF BeginComplete, Hold
  <2>4. CASE BeginReportProblem(w)
    BY <2>4, <1>t, HoldMoney, FundedSource DEF BeginReportProblem, Hold
  <2> QED BY <1>2, <2>1, <2>2, <2>3, <2>4 DEF Continue
<1>3. ASSUME NEW w \in Workers, Commit(w) PROVE MoneyInv'
  <2>1. CASE Accept(w)
    <3>1. deal'.status = "WAITING_PAYMENT" /\ payments' = payments
      BY <2>1, <1>t DEF Accept, DealRow
    <3>2. HoldsFunded'
      BY <2>1, <3>1, MovesOn, ReqMoney DEF Accept, MoneyInv, Paid
    <3> QED BY <3>1, <3>2 DEF MoneyInv, CompletedPaysOut, FundsBackTheDeal, FundedStatus
  <2>2. CASE MockPayment(w)
    <3>1. deal'.status = "WAITING_SHIPMENT"
      BY <2>2, <1>t DEF MockPayment, DealRow
    <3>2. Paid'
      BY <2>2, <1>t DEF MockPayment, PaymentRows, Paid
    <3>3. HoldsFunded'
      BY <3>2 DEF HoldsFunded
    <3> QED BY <3>1, <3>2, <3>3 DEF MoneyInv, CompletedPaysOut, FundsBackTheDeal, Paid
  <2>3. ASSUME req[w].at = "holds", req[w].op \in FundedOp, payments' = payments,
               deal'.status # "COMPLETED"
        PROVE  MoneyInv'
    <3>1. Paid /\ Paid'
      BY <2>3 DEF MoneyInv, HoldsFunded, Paid
    <3>2. HoldsFunded'
      BY <3>1 DEF HoldsFunded
    <3> QED BY <2>3, <3>1, <3>2 DEF MoneyInv, CompletedPaysOut, FundsBackTheDeal, Paid
  <2>4. CASE MarkShipped(w)
    <3>1. deal'.status = "SHIPPED"
      BY <2>4, <1>t DEF MarkShipped, transition, DealRow
    <3> QED BY <2>4, <2>3, <3>1 DEF MarkShipped, Commits
  <2>5. CASE MarkDelivered(w)
    <3>1. deal'.status = "DELIVERED"
      BY <2>5, <1>t DEF MarkDelivered, DealRow
    <3> QED BY <2>5, <2>3, <3>1 DEF MarkDelivered, Commits
  <2>6. CASE StartInspection(w)
    <3>1. deal'.status = "INSPECTION"
      BY <2>6, <1>t DEF StartInspection, DealRow
    <3> QED BY <2>6, <2>3, <3>1 DEF StartInspection, Commits
  <2>7. CASE Complete(w)
    <3>1. Paid
      BY <2>7 DEF Complete, Commits, MoneyInv, HoldsFunded
    <3>2. payments'.FUNDS_SECURED = 0 /\ payments'.RELEASED > 0
      BY <2>7, <3>1, <1>t DEF Complete, ReleaseAll, PaymentRows, Paid
    <3>3. Paid'
      BY <1>p, <3>2 DEF Paid, PaymentRows
    <3> QED BY <3>2, <3>3 DEF MoneyInv, CompletedPaysOut, FundsBackTheDeal, HoldsFunded, Paid
  <2>8. CASE ReportProblem(w)
    <3>1. deal'.status = "PROBLEM_REPORTED"
      BY <2>8, <1>t DEF ReportProblem, transition, DealRow
    <3> QED BY <2>8, <2>3, <3>1 DEF ReportProblem, Commits
  <2> QED BY <1>3, <2>1, <2>2, <2>4, <2>5, <2>6, <2>7, <2>8 DEF Commit
<1>4. ASSUME NEW w \in Workers, Crash(w) PROVE MoneyInv'
  <2>1. UNCHANGED <<deal, payments>>
    BY <1>4 DEF Crash, rows
  <2>2. HoldsFunded'
    BY <1>4, <2>1, MovesOn, ReqMoney DEF Crash, MoneyInv, Paid
  <2> QED BY <2>1, <2>2 DEF MoneyInv, CompletedPaysOut, FundsBackTheDeal
<1>5. ASSUME completeIfDue, UNCHANGED <<now, req>> PROVE MoneyInv'
  <2>1. Paid
    BY <1>5 DEF completeIfDue, Due, MoneyInv, FundsBackTheDeal, FundedStatus, Paid
  <2>2. payments'.FUNDS_SECURED = 0 /\ payments'.RELEASED > 0
    BY <1>5, <2>1, <1>t DEF completeIfDue, ReleaseAll, PaymentRows, Paid
  <2>3. Paid'
    BY <1>p, <2>2 DEF Paid, PaymentRows
  <2> QED BY <2>2, <2>3 DEF MoneyInv, CompletedPaysOut, FundsBackTheDeal, HoldsFunded, Paid
<1>6. CASE UNCHANGED <<deal, payments, req>>
  BY <1>6 DEF MoneyInv, CompletedPaysOut, FundsBackTheDeal, HoldsFunded, Paid
<1> QED
  BY <1>1, <1>2, <1>3, <1>4, <1>5, <1>6
  DEF Next, ReadDeal, CronSweep, UploadEvidence, Tick, rows, vars

\* The conjunction is an invariant.
LEMMA MoneyInvariant == Spec => []MoneyInv
  BY TypeCorrect, MoneyInit, MoneyStep, PTL DEF Spec

\* A completed deal has paid out, however the requests interleave.
THEOREM CompletedPaysOutAlways == Spec => []CompletedPaysOut
<1>1. MoneyInv => CompletedPaysOut
  BY DEF MoneyInv
<1> QED
  BY <1>1, MoneyInvariant, PTL

\* No deal is past payment without a payment row.
THEOREM FundsBackTheDealAlways == Spec => []FundsBackTheDeal
<1>1. MoneyInv => FundsBackTheDeal
  BY DEF MoneyInv
<1> QED
  BY <1>1, MoneyInvariant, PTL

-----------------------------------------------------------------------------
(* The audit trail.                                                        *)

Reaches ==
  [ accept  |-> "WAITING_PAYMENT", pay     |-> "FUNDS_SECURED", ship    |-> "SHIPPED",
    deliver |-> "DELIVERED",       inspect |-> "INSPECTION",    confirm |-> "COMPLETED",
    problem |-> "PROBLEM_REPORTED" ]

(***************************************************************************)
(* What remains true of the status a request has read, however long ago:   *)
(* the deal had it, and the table leads from it to the operation's target. *)
(***************************************************************************)
HoldsGrounded ==
  \A w \in Workers : req[w].at = "holds" =>
    /\ req[w].from \in Held
    /\ req[w].op \in DOMAIN Reaches
    /\ CanTransition(req[w].from, Reaches[req[w].op])

TrailInv ==
  /\ journal # << >>
  /\ AuditTrailEndsAtStatus
  /\ EveryEventIsGrounded
  /\ HoldsGrounded

\* A legal event from a status of the trail keeps the trail grounded.
LEMMA AppendTrail ==
  ASSUME NEW j \in Seq(DealEvent), j # << >>, Grounded(j), NEW e \in DealEvent,
         CanTransition(e.from, e.to), e.from \in HeldIn(j)
  PROVE  /\ Append(j, e) \in Seq(DealEvent)
         /\ Append(j, e) # << >>
         /\ Append(j, e)[Len(Append(j, e))] = e
         /\ Grounded(Append(j, e))
         /\ HeldIn(Append(j, e)) = HeldIn(j) \cup {e.to}
<1> DEFINE k == Append(j, e)
           n == Len(j)
<1>1. k \in Seq(DealEvent) /\ Len(k) = n + 1 /\ n \in Nat /\ n > 0
  OBVIOUS
<1>2. k[n + 1] = e /\ \A i \in 1 .. n : k[i] = j[i]
  OBVIOUS
<1>3. DOMAIN j = 1 .. n /\ DOMAIN k = 1 .. n + 1
  OBVIOUS
<1>4. HeldIn(k) = HeldIn(j) \cup {e.to}
  <2>1. ASSUME NEW s \in HeldIn(k) PROVE s \in HeldIn(j) \cup {e.to}
    <3>1. PICK i \in 1 .. n + 1 : k[i].to = s
      BY <1>3 DEF HeldIn
    <3>2. CASE i = n + 1
      BY <1>2, <3>1, <3>2
    <3>3. CASE i \in 1 .. n
      BY <1>2, <1>3, <3>1, <3>3 DEF HeldIn
    <3> QED BY <1>1, <3>1, <3>2, <3>3
  <2>2. ASSUME NEW s \in HeldIn(j) PROVE s \in HeldIn(k)
    <3>1. PICK i \in 1 .. n : j[i].to = s
      BY <1>3 DEF HeldIn
    <3>2. i \in 1 .. n + 1 /\ k[i].to = s
      BY <1>1, <1>2, <3>1
    <3> QED BY <1>3, <3>2 DEF HeldIn
  <2>3. e.to \in HeldIn(k)
    <3>1. n + 1 \in 1 .. n + 1 /\ k[n + 1].to = e.to
      BY <1>1, <1>2
    <3> QED BY <1>3, <3>1 DEF HeldIn
  <2> QED BY <2>1, <2>2, <2>3
<1>5. Grounded(k)
  <2> SUFFICES ASSUME NEW i \in (1 .. n + 1) \ {1}
               PROVE  /\ CanTransition(k[i].from, k[i].to)
                      /\ \E m \in 1 .. i-1 : k[m].to = k[i].from
    BY <1>3 DEF Grounded
  <2>1. CASE i = n + 1
    <3>1. PICK m \in 1 .. n : j[m].to = e.from
      BY <1>3 DEF HeldIn
    <3>2. m \in 1 .. i-1 /\ k[m].to = k[i].from
      BY <1>1, <1>2, <2>1, <3>1
    <3> QED BY <1>2, <2>1, <3>2
  <2>2. CASE i \in 1 .. n
    <3>1. /\ CanTransition(j[i].from, j[i].to)
          /\ \E m \in 1 .. i-1 : j[m].to = j[i].from
      BY <1>3, <2>2 DEF Grounded
    <3>2. k[i] = j[i] /\ \A m \in 1 .. i-1 : k[m] = j[m]
      BY <1>1, <1>2, <2>2
    <3> QED BY <3>1, <3>2
  <2> QED BY <1>1, <2>1, <2>2
<1> HIDE DEF k, n
<1>6. k[Len(k)] = e /\ k # << >>
  BY <1>1, <1>2
<1> QED
  BY <1>1, <1>4, <1>5, <1>6 DEF k

\* The trails that Init admits.
LEMMA TrailInit == Init => TrailInv
<1> SUFFICES ASSUME Init PROVE TrailInv
  OBVIOUS
<1>1. PICK e : journal = << e >> /\ e.to = deal.status
  BY DEF Init, Joined, Unaccepted
<1>2. Len(journal) = 1 /\ journal # << >> /\ DOMAIN journal = {1} /\ journal[1] = e
  BY <1>1
<1>3. HoldsGrounded
  BY DEF Init, HoldsGrounded, Idle
<1> QED
  BY <1>1, <1>2, <1>3 DEF TrailInv, AuditTrailEndsAtStatus, EveryEventIsGrounded, Grounded

\* What every step does to the trail, for the invariant and the refinement.
Extends(type, from, to, by) ==
  /\ journal' = Append(journal, eventData(type, from, to, by))
  /\ deal'.status = to

\* The status of the row is one that the trail has.
LEMMA StatusHeld == ASSUME TypeOK, TrailInv PROVE deal.status \in Held
<1>1. Len(journal) \in DOMAIN journal
  BY DEF TypeOK, TrailInv
<1> QED
  BY <1>1 DEF TrailInv, AuditTrailEndsAtStatus, Held, HeldIn

\* What the trail has are statuses.
LEMMA HeldType == ASSUME TypeOK PROVE Held \subseteq DealStatus
<1> SUFFICES ASSUME NEW s \in Held PROVE s \in DealStatus
  OBVIOUS
<1>1. PICK i \in DOMAIN journal : journal[i].to = s
  BY DEF Held, HeldIn
<1>2. journal[i] \in DealEvent
  BY <1>1 DEF TypeOK
<1> QED
  BY <1>1, <1>2 DEF DealEvent

\* One grounded event more, and requests that hold what they held or nothing.
LEMMA ExtendTrail ==
  ASSUME TypeOK, TrailInv, NEW type \in EventType, NEW from \in Held, NEW to \in DealStatus,
         NEW by \in ActorRole, CanTransition(from, to), Extends(type, from, to, by),
         \A w \in Workers : req'[w] = req[w] \/ req'[w].at # "holds"
  PROVE  TrailInv' /\ Held' = Held \cup {to}
<1> DEFINE e == eventData(type, from, to, by)
<1>1. from \in DealStatus
  BY HeldType
<1>2. e \in DealEvent /\ e.from = from /\ e.to = to
  BY <1>1 DEF eventData, DealEvent
<1>3. journal \in Seq(DealEvent) /\ journal # << >> /\ Grounded(journal) /\ journal' = Append(journal, e)
  BY DEF TypeOK, TrailInv, EveryEventIsGrounded, Extends
<1> HIDE DEF e
<1>4. /\ journal' # << >> /\ journal'[Len(journal')] = e
      /\ Grounded(journal') /\ HeldIn(journal') = HeldIn(journal) \cup {e.to}
  BY <1>2, <1>3, AppendTrail DEF Held
<1>5. HoldsGrounded'
  BY <1>4 DEF HoldsGrounded, TrailInv, Held
<1> QED
  BY <1>2, <1>4, <1>5 DEF TrailInv, AuditTrailEndsAtStatus, EveryEventIsGrounded, Held, Extends

\* The reads leave the trail as it is and hold what it ends with.
LEMMA HoldTrail ==
  ASSUME TypeOK, TrailInv, NEW w \in Workers, NEW op \in DOMAIN Reaches, NEW role, NEW date,
         Hold(w, op, role, Reaches[op], date)
  PROVE  TrailInv'
<1>1. UNCHANGED <<deal, journal>>
  BY DEF Hold, rows
<1>2. HoldsGrounded'
  BY <1>1, StatusHeld DEF Hold, HoldsGrounded, TrailInv, TypeOK, Held
<1> QED
  BY <1>1, <1>2 DEF TrailInv, AuditTrailEndsAtStatus, EveryEventIsGrounded

\* So does a step that moves no row, and lets no request hold anything.
LEMMA QuietTrail ==
  ASSUME TrailInv, UNCHANGED <<deal, journal>>,
         \A w \in Workers : req'[w] = req[w] \/ req'[w].at # "holds"
  PROVE  TrailInv'
  BY DEF TrailInv, AuditTrailEndsAtStatus, EveryEventIsGrounded, HoldsGrounded, Held

\* A move the lifecycle allows, when the money stays as it is.
LEMMA LifecycleMove ==
  ASSUME NEW from \in Held, NEW to \in DealStatus \ {"FUNDS_SECURED", "COMPLETED"},
         CanTransition(from, to), deal'.status = to, Held' = Held \cup {to},
         payments' = payments
  PROVE  Lifecycle!Next
  BY DEF Lifecycle!Next, Lifecycle!Move, Lifecycle!Reachable, Lifecycle!CanTransition,
         Lifecycle!allowedTransitions, Lifecycle!DealStatus,
         CanTransition, allowedTransitions, DealStatus

\* The lifecycle's completion, when all the money is released.
LEMMA LifecycleComplete ==
  ASSUME payments \in PaymentRows, NEW from \in Held, CanTransition(from, "COMPLETED"), Paid, ReleaseAll,
         deal'.status = "COMPLETED", Held' = Held \cup {"COMPLETED"}
  PROVE  Lifecycle!Next
<1>1. /\ payments'.FUNDS_SECURED = 0
      /\ payments'.RELEASED = payments.RELEASED + payments.FUNDS_SECURED
  BY DEF ReleaseAll, PaymentRows
<1>2. Lifecycle!Reachable("COMPLETED")
  BY DEF Lifecycle!Reachable, Lifecycle!CanTransition, Lifecycle!allowedTransitions,
         CanTransition, allowedTransitions
<1> QED
  BY <1>1, <1>2 DEF Lifecycle!Next, Lifecycle!Complete, Paid, PaymentRows

\* Every step keeps the trail and is a step of the lifecycle, or no step.
LEMMA TrailStep ==
  TypeOK /\ MoneyInv /\ TrailInv /\ [Next]_vars
    => TrailInv' /\ [Lifecycle!Next]_(Lifecycle!vars)
<1> SUFFICES ASSUME TypeOK, MoneyInv, TrailInv, [Next]_vars
             PROVE  TrailInv' /\ [Lifecycle!Next]_(Lifecycle!vars)
  OBVIOUS
<1>t. deal \in DealRow /\ payments \in PaymentRows /\ req \in [Workers -> Request]
  BY DEF TypeOK
<1>q. ASSUME UNCHANGED <<deal, payments, journal>>
      PROVE  UNCHANGED Lifecycle!vars
  BY <1>q DEF Lifecycle!vars, Held
<1>1. ASSUME NEW w \in Workers, NEW op \in DOMAIN Reaches, NEW role, NEW date,
             Hold(w, op, role, Reaches[op], date)
      PROVE  TrailInv' /\ [Lifecycle!Next]_(Lifecycle!vars)
  BY <1>1, <1>q, HoldTrail DEF Hold, rows
<1>2. ASSUME NEW w \in Workers, LetsGo(w), UNCHANGED <<deal, payments, journal>>
      PROVE  TrailInv' /\ [Lifecycle!Next]_(Lifecycle!vars)
  BY <1>2, <1>q, QuietTrail DEF LetsGo
<1>3. ASSUME NEW w \in Workers, Begin(w)
      PROVE  TrailInv' /\ [Lifecycle!Next]_(Lifecycle!vars)
  <2>1. ASSUME NEW op, NEW role, Reconcile(w, op, role)
        PROVE  TrailInv' /\ [Lifecycle!Next]_(Lifecycle!vars)
    BY <2>1, <1>2, MovesOn DEF Reconcile, rows
  <2>2. ASSUME NEW role \in PartyRole, BeginAccept(w, role)
        PROVE  TrailInv' /\ [Lifecycle!Next]_(Lifecycle!vars)
    BY <2>2, <1>1 DEF BeginAccept, Reaches
  <2>3. CASE BeginMockPayment(w)
    BY <2>3, <1>1 DEF BeginMockPayment, Reaches
  <2>4. CASE BeginMarkShipped(w)
    BY <2>4, <1>1 DEF BeginMarkShipped, Reaches
  <2>5. CASE BeginMarkDelivered(w)
    BY <2>5, <1>1 DEF BeginMarkDelivered, Reaches
  <2> QED BY <1>3, <2>1, <2>2, <2>3, <2>4, <2>5 DEF Begin
<1>4. ASSUME NEW w \in Workers, Continue(w)
      PROVE  TrailInv' /\ [Lifecycle!Next]_(Lifecycle!vars)
  <2>1. CASE DateInspection(w)
    BY <2>1, <1>2, MovesOn DEF DateInspection, rows
  <2>2. CASE BeginInspection(w)
    BY <2>2, <1>1 DEF BeginInspection, Reaches
  <2>3. CASE BeginComplete(w)
    BY <2>3, <1>1 DEF BeginComplete, Reaches
  <2>4. CASE BeginReportProblem(w)
    BY <2>4, <1>1 DEF BeginReportProblem, Reaches
  <2> QED BY <1>4, <2>1, <2>2, <2>3, <2>4 DEF Continue
<1>5. ASSUME NEW w \in Workers, Commit(w)
      PROVE  TrailInv' /\ [Lifecycle!Next]_(Lifecycle!vars)
  <2> DEFINE from == req[w].from
  <2>h. ASSUME NEW op, Commits(w, op), op \in DOMAIN Reaches
        PROVE  /\ from \in Held
               /\ CanTransition(from, Reaches[op])
               /\ req[w].role \in ActorRole
    BY <2>h, <1>t DEF Commits, TrailInv, HoldsGrounded, Request, ActorRole
  <2>g. ASSUME LetsGo(w)
        PROVE  \A v \in Workers : req'[v] = req[v] \/ req'[v].at # "holds"
    BY <2>g DEF LetsGo
  <2> HIDE DEF from
  <2>1. ASSUME NEW op \in DOMAIN Reaches, Commits(w, op), Reaches[op] \notin {"FUNDS_SECURED", "COMPLETED"},
               NEW type \in EventType, NEW by \in ActorRole,
               Extends(type, from, Reaches[op], by), payments' = payments, LetsGo(w)
        PROVE  TrailInv' /\ [Lifecycle!Next]_(Lifecycle!vars)
    <3>1. Reaches[op] \in DealStatus
      BY DEF Reaches, DealStatus
    <3>2. TrailInv' /\ Held' = Held \cup {Reaches[op]}
      BY <2>1, <2>h, <2>g, <3>1, ExtendTrail
    <3>3. Lifecycle!Next
      BY <2>1, <2>h, <3>1, <3>2, LifecycleMove DEF Extends
    <3> QED BY <3>2, <3>3
  <2>2. CASE Accept(w)
    <3>1. Extends("deal.accepted", from, Reaches["accept"], req[w].role)
      BY <2>2, <1>t DEF Accept, Extends, Reaches, DealRow, from
    <3> QED BY <2>2, <2>1, <2>h, <3>1, MovesOn DEF Accept, Reaches, EventType
  <2>3. CASE MockPayment(w)
    <3> DEFINE e == eventData("mock_escrow.funds_secured", from, "FUNDS_SECURED", "SYSTEM")
               f == eventData("deal.ready_for_shipment", "FUNDS_SECURED", "WAITING_SHIPMENT", "SYSTEM")
    <3>1. from \in Held /\ CanTransition(from, "FUNDS_SECURED")
      BY <2>3, <2>h DEF MockPayment, Reaches
    <3>2. from \in DealStatus
      BY <3>1, HeldType
    <3>3. e \in DealEvent /\ e.from = from /\ e.to = "FUNDS_SECURED"
      BY <3>2 DEF eventData, DealEvent, EventType, DealStatus, ActorRole
    <3>4. f \in DealEvent /\ f.from = "FUNDS_SECURED" /\ f.to = "WAITING_SHIPMENT"
      BY DEF eventData, DealEvent, EventType, DealStatus, ActorRole
    <3>5. CanTransition("FUNDS_SECURED", "WAITING_SHIPMENT")
      BY DEF CanTransition, allowedTransitions
    <3>6. journal' = Append(Append(journal, e), f)
      BY <2>3 DEF MockPayment, from
    <3>7. deal'.status = "WAITING_SHIPMENT"
      BY <2>3, <1>t DEF MockPayment, DealRow
    <3> HIDE DEF e, f
    <3>8. /\ Append(journal, e) \in Seq(DealEvent) /\ Append(journal, e) # << >>
          /\ Grounded(Append(journal, e))
          /\ HeldIn(Append(journal, e)) = Held \cup {"FUNDS_SECURED"}
      BY <3>1, <3>3, AppendTrail DEF TypeOK, TrailInv, EveryEventIsGrounded, Held
    <3>9. /\ journal' # << >> /\ journal'[Len(journal')] = f
          /\ Grounded(journal')
          /\ Held' = Held \cup {"FUNDS_SECURED", "WAITING_SHIPMENT"}
      <4> DEFINE j == Append(journal, e)
      <4>1. /\ j \in Seq(DealEvent) /\ j # << >> /\ Grounded(j)
            /\ f.from \in HeldIn(j) /\ CanTransition(f.from, f.to)
        BY <3>4, <3>5, <3>8
      <4>j. journal' = Append(j, f)
        BY <3>6
      <4> HIDE DEF j
      <4>2. /\ journal' # << >> /\ journal'[Len(journal')] = f
            /\ Grounded(journal')
            /\ HeldIn(journal') = HeldIn(j) \cup {"WAITING_SHIPMENT"}
        BY <3>4, <4>1, <4>j, AppendTrail
      <4> USE DEF j
      <4> QED BY <3>8, <4>2 DEF Held
    <3>10. HoldsGrounded'
      BY <2>3, <2>g, <3>9, MovesOn DEF MockPayment, HoldsGrounded, TrailInv
    <3>11. TrailInv'
      BY <3>4, <3>7, <3>9, <3>10 DEF TrailInv, AuditTrailEndsAtStatus, EveryEventIsGrounded
    <3>12. /\ payments'.FUNDS_SECURED = payments.FUNDS_SECURED + 1
           /\ payments'.RELEASED = payments.RELEASED
      BY <2>3, <1>t DEF MockPayment, PaymentRows
    <3>13. Lifecycle!Reachable("FUNDS_SECURED")
      BY <3>1 DEF Lifecycle!Reachable, Lifecycle!CanTransition, Lifecycle!allowedTransitions,
                  CanTransition, allowedTransitions
    <3>14. Lifecycle!Next
      BY <3>7, <3>9, <3>12, <3>13 DEF Lifecycle!Next, Lifecycle!Fund
    <3> QED BY <3>11, <3>14
  <2>4. CASE MarkShipped(w)
    <3>1. Extends("shipment.added", from, Reaches["ship"], req[w].role)
      BY <2>4, <1>t DEF MarkShipped, transition, Extends, Reaches, DealRow, from
    <3> QED BY <2>4, <2>1, <2>h, <3>1, MovesOn DEF MarkShipped, Reaches, EventType
  <2>5. CASE MarkDelivered(w)
    <3>1. Extends("delivery.delivered", from, Reaches["deliver"], req[w].role)
      BY <2>5, <1>t DEF MarkDelivered, Extends, Reaches, DealRow, from
    <3> QED BY <2>5, <2>1, <2>h, <3>1, MovesOn DEF MarkDelivered, Reaches, EventType
  <2>6. CASE StartInspection(w)
    <3>1. Extends("inspection.started", from, Reaches["inspect"], "SYSTEM")
      BY <2>6, <1>t DEF StartInspection, Extends, Reaches, DealRow, from
    <3> QED BY <2>6, <2>1, <3>1, MovesOn DEF StartInspection, Reaches, EventType, ActorRole
  <2>7. CASE Complete(w)
    <3>1. Extends("mock_escrow.release_to_seller", from, "COMPLETED", req[w].role)
      BY <2>7, <1>t DEF Complete, transition, Extends, DealRow, from
    <3>2. from \in Held /\ CanTransition(from, "COMPLETED") /\ req[w].role \in ActorRole
      BY <2>7, <2>h DEF Complete, Reaches
    <3>3. TrailInv' /\ Held' = Held \cup {"COMPLETED"}
      BY <2>7, <2>g, <3>1, <3>2, ExtendTrail, MovesOn DEF Complete, EventType, DealStatus
    <3>4. Paid
      BY <2>7 DEF Complete, Commits, MoneyInv, HoldsFunded, FundedOp
    <3>5. Lifecycle!Next
      BY <2>7, <1>t, <3>1, <3>2, <3>3, <3>4, LifecycleComplete DEF Complete, Extends
    <3> QED BY <3>3, <3>5
  <2>8. CASE ReportProblem(w)
    <3>1. Extends("problem.reported", from, Reaches["problem"], req[w].role)
      BY <2>8, <1>t DEF ReportProblem, transition, Extends, Reaches, DealRow, from
    <3> QED BY <2>8, <2>1, <2>h, <3>1, MovesOn DEF ReportProblem, Reaches, EventType
  <2> QED BY <1>5, <2>2, <2>3, <2>4, <2>5, <2>6, <2>7, <2>8 DEF Commit
<1>6. ASSUME NEW w \in Workers, Crash(w)
      PROVE  TrailInv' /\ [Lifecycle!Next]_(Lifecycle!vars)
  BY <1>6, <1>2, MovesOn DEF Crash, rows
<1>7. ASSUME completeIfDue, UNCHANGED <<now, req>>
      PROVE  TrailInv' /\ [Lifecycle!Next]_(Lifecycle!vars)
  <2>1. Extends("inspection.expired", "INSPECTION", "COMPLETED", "SYSTEM") /\ ReleaseAll
    BY <1>7, <1>t DEF completeIfDue, Extends, DealRow
  <2>2. "INSPECTION" \in Held /\ CanTransition("INSPECTION", "COMPLETED")
    BY <1>7, StatusHeld DEF completeIfDue, Due, CanTransition, allowedTransitions
  <2>3. TrailInv' /\ Held' = Held \cup {"COMPLETED"}
    BY <1>7, <2>1, <2>2, ExtendTrail DEF EventType, DealStatus, ActorRole
  <2>4. Paid
    BY <1>7 DEF completeIfDue, Due, MoneyInv, FundsBackTheDeal, FundedStatus, Paid
  <2>5. Lifecycle!Next
    BY <1>t, <2>1, <2>2, <2>3, <2>4, LifecycleComplete DEF Extends
  <2> QED BY <2>3, <2>5
<1>8. CASE UNCHANGED <<deal, payments, journal, req>>
  BY <1>8, <1>q, QuietTrail
<1> QED
  BY <1>3, <1>4, <1>5, <1>6, <1>7, <1>8
  DEF Next, ReadDeal, CronSweep, UploadEvidence, Tick, rows, vars

\* The initial states are those of the lifecycle.
LEMMA LifecycleInit == Init => Lifecycle!Init
<1> SUFFICES ASSUME Init PROVE Lifecycle!Init
  OBVIOUS
<1>1. PICK e : journal = << e >> /\ e.to = deal.status
  BY DEF Init, Joined, Unaccepted
<1>2. DOMAIN journal = {1} /\ journal[1] = e
  BY <1>1
<1>3. Held = {deal.status}
  BY <1>1, <1>2 DEF Held, HeldIn
<1>4. deal.status \in {"WAITING_COUNTERPARTY", "WAITING_PAYMENT"}
  BY DEF Init, Joined, Unaccepted
<1> QED
  BY <1>3, <1>4 DEF Init, Lifecycle!Init

\* The invariant of the trail.
LEMMA TrailInvariant == Spec => []TrailInv
  BY TypeCorrect, MoneyInvariant, TrailInit, TrailStep, PTL DEF Spec

\* The trail ends with the status of the row, whoever wrote last.
THEOREM AuditTrailEndsAtStatusAlways == Spec => []AuditTrailEndsAtStatus
<1>1. TrailInv => AuditTrailEndsAtStatus
  BY DEF TrailInv
<1> QED
  BY <1>1, TrailInvariant, PTL

\* Every event is a legal transition from a status the deal had had.
THEOREM EveryEventIsGroundedAlways == Spec => []EveryEventIsGrounded
<1>1. TrailInv => EveryEventIsGrounded
  BY DEF TrailInv
<1> QED
  BY <1>1, TrailInvariant, PTL

\* The code's transactions, races and crashes included, implement the
\* lifecycle.
THEOREM FlowImplementsLifecycle == Spec => ImplementsLifecycle
  BY TypeCorrect, MoneyInvariant, TrailInvariant, LifecycleInit, TrailStep, PTL
  DEF Spec, ImplementsLifecycle, Lifecycle!Spec

-----------------------------------------------------------------------------
(* The acceptance of both parties.                                         *)

Accepted == terms.creatorRole # NoRole => deal.acceptedBy = PartyRole

(***************************************************************************)
(* Whatever a request is about to write, other than an acceptance, both    *)
(* parties have accepted: it read a status past WAITING_COUNTERPARTY, and  *)
(* no acceptance is ever taken back.                                       *)
(***************************************************************************)
HoldsAccepted ==
  \A w \in Workers : req[w].at = "holds" =>
    IF req[w].op = "accept" THEN req[w].role # terms.creatorRole ELSE Accepted
AcceptInv ==
  /\ BothAcceptBeforeMoney
  /\ terms.creatorRole # NoRole => terms.creatorRole \in deal.acceptedBy
  /\ HoldsAccepted

\* Past WAITING_COUNTERPARTY both have accepted, and of the requests' targets
\* the table leads from there to WAITING_PAYMENT only.
LEMMA AcceptedSource ==
  ASSUME TypeOK, AcceptInv, NEW to \in DealStatus \ {"WAITING_PAYMENT", "CANCELLED", "EXPIRED"},
         CanTransition(deal.status, to)
  PROVE  Accepted
<1>1. deal.status \in DealStatus
  BY DEF TypeOK, DealRow
<1>2. deal.status # "WAITING_COUNTERPARTY"
  BY <1>1 DEF DealStatus, CanTransition, allowedTransitions
<1> QED BY <1>2 DEF AcceptInv, BothAcceptBeforeMoney, Accepted

\* The reads leave the acceptances as they are.
LEMMA HoldAccept ==
  ASSUME TypeOK, AcceptInv, NEW w \in Workers, NEW op \in DOMAIN Reaches, NEW role, NEW date,
         Hold(w, op, role, Reaches[op], date), op = "accept" => role # terms.creatorRole
  PROVE  AcceptInv'
<1>1. UNCHANGED <<terms, deal>>
  BY DEF Hold, rows
<1>2. op # "accept" => Accepted
  BY AcceptedSource DEF Hold, Reaches, DealStatus
<1>3. HoldsAccepted'
  BY <1>1, <1>2 DEF Hold, HoldsAccepted, AcceptInv, TypeOK, Accepted
<1> QED BY <1>1, <1>3 DEF AcceptInv, BothAcceptBeforeMoney

\* Steps that take no acceptance back and let no request hold anything.
LEMMA AcceptKept ==
  ASSUME AcceptInv, terms' = terms, deal'.acceptedBy = deal.acceptedBy,
         deal'.status = deal.status \/ Accepted,
         \A w \in Workers : req'[w] = req[w] \/ req'[w].at # "holds"
  PROVE  AcceptInv'
<1>1. HoldsAccepted'
  BY DEF AcceptInv, HoldsAccepted, Accepted
<1> QED BY <1>1 DEF AcceptInv, BothAcceptBeforeMoney, Accepted

LEMMA AcceptInit == Init => AcceptInv
  BY NoRoleAssumption, CreatorsAssumption
  DEF Init, Joined, Unaccepted, AcceptInv, BothAcceptBeforeMoney, HoldsAccepted, Idle

LEMMA AcceptStep == TypeOK /\ AcceptInv /\ [Next]_vars => AcceptInv'
<1> SUFFICES ASSUME TypeOK, AcceptInv, [Next]_vars PROVE AcceptInv'
  OBVIOUS
<1>t. deal \in DealRow /\ terms \in DealTerms /\ \A w \in Workers : req[w] \in Request
  BY DEF TypeOK
<1>1. ASSUME NEW w \in Workers, Begin(w) PROVE AcceptInv'
  <2>1. ASSUME NEW op, NEW role, Reconcile(w, op, role) PROVE AcceptInv'
    BY <2>1, AcceptKept, MovesOn DEF Reconcile, rows, LetsGo
  <2>2. ASSUME NEW role \in PartyRole, BeginAccept(w, role) PROVE AcceptInv'
    BY <2>2, HoldAccept DEF BeginAccept, Reaches
  <2>3. CASE BeginMockPayment(w) \/ BeginMarkShipped(w) \/ BeginMarkDelivered(w)
    BY <2>3, HoldAccept DEF BeginMockPayment, BeginMarkShipped, BeginMarkDelivered, Reaches
  <2> QED BY <1>1, <2>1, <2>2, <2>3 DEF Begin
<1>2. ASSUME NEW w \in Workers, Continue(w) PROVE AcceptInv'
  <2>1. CASE DateInspection(w)
    BY <2>1, AcceptKept, MovesOn DEF DateInspection, rows, LetsGo
  <2>2. CASE BeginInspection(w) \/ BeginComplete(w) \/ BeginReportProblem(w)
    BY <2>2, HoldAccept DEF BeginInspection, BeginComplete, BeginReportProblem, Reaches
  <2> QED BY <1>2, <2>1, <2>2 DEF Continue
<1>3. ASSUME NEW w \in Workers, Commit(w) PROVE AcceptInv'
  <2>1. ASSUME req[w].at = "holds", req[w].op # "accept" PROVE Accepted
    BY <2>1 DEF AcceptInv, HoldsAccepted
  <2>2. ASSUME LetsGo(w) PROVE \A v \in Workers : req'[v] = req[v] \/ req'[v].at # "holds"
    BY <2>2 DEF LetsGo
  <2>3. CASE Accept(w)
    <3>1. /\ deal'.acceptedBy = deal.acceptedBy \cup
               {IF terms.creatorRole \in PartyRole THEN req[w].role ELSE "BUYER"}
          /\ terms' = terms
      BY <2>3, <1>t DEF Accept, DealRow
    <3>2. req[w].role \in PartyRole /\ req[w].role # terms.creatorRole
      BY <2>3, <1>t DEF Accept, Commits, AcceptInv, HoldsAccepted, Request
    <3>3. deal.acceptedBy \subseteq PartyRole
      BY <1>t DEF DealRow
    <3>4. /\ terms.creatorRole # NoRole => terms.creatorRole \in PartyRole
          /\ terms.creatorRole # NoRole => terms.creatorRole \in deal.acceptedBy
      BY <1>t DEF AcceptInv, DealTerms
    <3>5. Accepted'
      BY <3>1, <3>2, <3>3, <3>4 DEF Accepted, PartyRole
    <3>6. HoldsAccepted'
      BY <2>2, <2>3, <3>1, <3>5, MovesOn DEF Accept, AcceptInv, HoldsAccepted
    <3> QED BY <3>1, <3>4, <3>5, <3>6 DEF AcceptInv, BothAcceptBeforeMoney, Accepted
  <2>4. CASE MockPayment(w)
    BY <2>1, <2>2, <2>4, <1>t, AcceptKept, MovesOn DEF MockPayment, Commits, DealRow
  <2>5. CASE MarkShipped(w)
    BY <2>1, <2>2, <2>5, <1>t, AcceptKept, MovesOn DEF MarkShipped, transition, Commits, DealRow
  <2>6. CASE MarkDelivered(w)
    BY <2>1, <2>2, <2>6, <1>t, AcceptKept, MovesOn DEF MarkDelivered, Commits, DealRow
  <2>7. CASE StartInspection(w)
    BY <2>1, <2>2, <2>7, <1>t, AcceptKept, MovesOn DEF StartInspection, Commits, DealRow
  <2>8. CASE Complete(w)
    BY <2>1, <2>2, <2>8, <1>t, AcceptKept, MovesOn DEF Complete, transition, Commits, DealRow
  <2>9. CASE ReportProblem(w)
    BY <2>1, <2>2, <2>9, <1>t, AcceptKept, MovesOn DEF ReportProblem, transition, Commits, DealRow
  <2> QED BY <1>3, <2>3, <2>4, <2>5, <2>6, <2>7, <2>8, <2>9 DEF Commit
<1>4. ASSUME NEW w \in Workers, Crash(w) PROVE AcceptInv'
  BY <1>4, AcceptKept, MovesOn DEF Crash, rows, LetsGo
<1>5. ASSUME completeIfDue, UNCHANGED <<now, req>> PROVE AcceptInv'
  <2>1. Accepted
    BY <1>5 DEF completeIfDue, Due, AcceptInv, BothAcceptBeforeMoney, Accepted
  <2> QED BY <1>5, <1>t, <2>1, AcceptKept DEF completeIfDue, DealRow
<1>6. CASE UNCHANGED <<terms, deal, req>>
  BY <1>6, AcceptKept
<1> QED
  BY <1>1, <1>2, <1>3, <1>4, <1>5, <1>6
  DEF Next, ReadDeal, CronSweep, UploadEvidence, Tick, rows, vars

\* Both parties have accepted before the money is asked for, whatever
\* requests race (BothAcceptBeforeMoney).
THEOREM BothAcceptBeforeMoneyAlways == Spec => []BothAcceptBeforeMoney
<1>1. AcceptInv => BothAcceptBeforeMoney
  BY DEF AcceptInv
<1> QED
  BY <1>1, AcceptInit, AcceptStep, TypeCorrect, PTL DEF Spec

-----------------------------------------------------------------------------
(* The cause of a release.                                                 *)

\* ReleaseHasCause of any trail, and of one event after a trail.
HasCause(j, i) ==
  j[i].to = "COMPLETED" =>
    \/ j[i].type = "mock_escrow.release_to_seller" /\ j[i].by = "BUYER"
    \/ j[i].type = "inspection.expired" /\ i > 1 /\ j[i-1].type = "inspection.started"
Caused(j) == \A i \in DOMAIN j : HasCause(j, i)

\* A request to confirm is the buyer's; while the deal is in inspection, the
\* last event is the one that opened the window.
ConfirmsAsBuyer == \A w \in Workers : req[w].op = "confirm" => req[w].role = "BUYER"
WindowIsLast == deal.status = "INSPECTION" => journal[Len(journal)].type = "inspection.started"
CauseInv == Caused(journal) /\ ConfirmsAsBuyer /\ WindowIsLast

\* An event that releases nothing, or has its cause, is appended.
LEMMA AppendCaused ==
  ASSUME NEW j \in Seq(DealEvent), Caused(j), j # << >>, NEW e \in DealEvent,
         \/ e.to # "COMPLETED"
         \/ e.type = "mock_escrow.release_to_seller" /\ e.by = "BUYER"
         \/ e.type = "inspection.expired" /\ j[Len(j)].type = "inspection.started"
  PROVE  Caused(Append(j, e))
<1> DEFINE k == Append(j, e)
<1> PICK n \in Nat : n = Len(j) /\ n > 0
  OBVIOUS
<1>1. /\ DOMAIN k = 1..(n + 1) /\ k[n + 1] = e
      /\ \A i \in 1..n : k[i] = j[i]
      /\ DOMAIN j = 1..n
  OBVIOUS
<1> HIDE DEF k
<1>2. ASSUME NEW i \in 1..(n + 1) PROVE HasCause(k, i)
  <2>1. CASE i = n + 1
    <3>1. k[i] = e /\ i > 1 /\ i - 1 = n /\ k[n] = j[n]
      BY <1>1, <2>1
    <3> QED BY <3>1 DEF HasCause
  <2>2. CASE i # n + 1
    <3>1. i \in 1..n /\ k[i] = j[i] /\ (i > 1 => k[i - 1] = j[i - 1])
      BY <1>1, <2>2
    <3> QED BY <1>1, <3>1 DEF Caused, HasCause
  <2> QED BY <2>1, <2>2
<1> QED BY <1>1, <1>2 DEF Caused, k

\* A commit of one event that releases nothing.
LEMMA ExtendCaused ==
  ASSUME TypeOK, TrailInv, CauseInv, ConfirmsAsBuyer',
         NEW type \in EventType, NEW from \in DealStatus, NEW to \in DealStatus, NEW by \in ActorRole,
         Extends(type, from, to, by),
         \/ to # "COMPLETED"
         \/ type = "mock_escrow.release_to_seller" /\ by = "BUYER"
         \/ type = "inspection.expired" /\ deal.status = "INSPECTION",
         to = "INSPECTION" => type = "inspection.started"
  PROVE  CauseInv'
<1> DEFINE e == eventData(type, from, to, by)
<1>1. e \in DealEvent /\ e.type = type /\ e.to = to /\ e.by = by
  BY DEF eventData, DealEvent
<1>2. /\ journal \in Seq(DealEvent) /\ journal # << >> /\ journal' = Append(journal, e)
      /\ deal'.status = to
  BY DEF TypeOK, TrailInv, Extends
<1> HIDE DEF e
<1>3. Caused(journal')
  BY <1>1, <1>2, AppendCaused DEF CauseInv, WindowIsLast
<1>4. journal'[Len(journal')] = e
  BY <1>1, <1>2
<1> QED BY <1>1, <1>2, <1>3, <1>4 DEF CauseInv, Caused, WindowIsLast

\* Steps that write no event.
LEMMA QuietCaused ==
  ASSUME CauseInv, UNCHANGED <<deal, journal>>, ConfirmsAsBuyer'
  PROVE  CauseInv'
  BY DEF CauseInv, Caused, HasCause, WindowIsLast

\* Who confirms does not change while a request goes on.
LEMMA ConfirmsKept ==
  ASSUME TypeOK, CauseInv, NEW w \in Workers
  PROVE  /\ Finish(w) => ConfirmsAsBuyer'
         /\ \A at, date : Advance(w, at, date) => ConfirmsAsBuyer'
         /\ \A op, role, to, date :
              Hold(w, op, role, to, date) /\ (op = "confirm" => role = "BUYER") => ConfirmsAsBuyer'
<1> req \in [Workers -> Request] /\ ConfirmsAsBuyer
  BY DEF TypeOK, CauseInv
<1>1. Finish(w) => ConfirmsAsBuyer'
  BY DEF Finish, Idle, ConfirmsAsBuyer
<1>2. ASSUME NEW at, NEW date, Advance(w, at, date) PROVE ConfirmsAsBuyer'
  BY <1>2 DEF Advance, ConfirmsAsBuyer
<1>3. ASSUME NEW op, NEW role, NEW to, NEW date, Hold(w, op, role, to, date),
             op = "confirm" => role = "BUYER"
      PROVE  ConfirmsAsBuyer'
  BY <1>3 DEF Hold, ConfirmsAsBuyer
<1> QED BY <1>1, <1>2, <1>3

LEMMA CauseInit == Init => CauseInv
<1> SUFFICES ASSUME Init PROVE CauseInv
  OBVIOUS
<1>1. PICK e : journal = << e >> /\ e.to \in {"WAITING_COUNTERPARTY", "WAITING_PAYMENT"}
  BY DEF Init, Joined, Unaccepted
<1>2. DOMAIN journal = {1} /\ journal[1] = e
  BY <1>1
<1>3. deal.status # "INSPECTION" /\ ConfirmsAsBuyer
  BY DEF Init, Joined, Unaccepted, Idle, ConfirmsAsBuyer
<1> QED BY <1>1, <1>2, <1>3 DEF CauseInv, Caused, HasCause, WindowIsLast

LEMMA CauseStep == TypeOK /\ TrailInv /\ CauseInv /\ [Next]_vars => CauseInv'
<1> SUFFICES ASSUME TypeOK, TrailInv, CauseInv, [Next]_vars PROVE CauseInv'
  OBVIOUS
<1>t. deal \in DealRow /\ req \in [Workers -> Request] /\ ConfirmsAsBuyer
  BY DEF TypeOK, CauseInv
<1>1. ASSUME NEW w \in Workers, NEW op, NEW role, NEW to, NEW date,
             Hold(w, op, role, to, date), op = "confirm" => role = "BUYER"
      PROVE  CauseInv'
  BY <1>1, ConfirmsKept, QuietCaused DEF Hold, rows
<1>2. ASSUME NEW w \in Workers, Begin(w) PROVE CauseInv'
  <2>1. ASSUME NEW op \in {"confirm", "problem"}, NEW role \in PartyRole, Reconcile(w, op, role)
        PROVE  CauseInv'
    <3>1. ConfirmsAsBuyer'
      BY <2>1, <1>t DEF Reconcile, ConfirmsAsBuyer
    <3> QED BY <2>1, <3>1, QuietCaused DEF Reconcile, rows
  <2> QED BY <1>1, <1>2, <2>1
          DEF Begin, BeginAccept, BeginMockPayment, BeginMarkShipped, BeginMarkDelivered
<1>3. ASSUME NEW w \in Workers, Continue(w) PROVE CauseInv'
  <2>1. CASE DateInspection(w)
    BY <2>1, ConfirmsKept, QuietCaused DEF DateInspection, rows
  <2>2. CASE BeginComplete(w)
    BY <1>1, <1>t, <2>2 DEF BeginComplete, ConfirmsAsBuyer
  <2>3. CASE BeginInspection(w) \/ BeginReportProblem(w)
    BY <1>1, <2>3 DEF BeginInspection, BeginReportProblem
  <2> QED BY <1>3, <2>1, <2>2, <2>3 DEF Continue
<1>4. ASSUME NEW w \in Workers, Commit(w) PROVE CauseInv'
  <2> DEFINE from == req[w].from
  <2>1. from \in DealStatus /\ req[w].role \in ActorRole
    BY <1>t DEF Request, ActorRole
  <2> HIDE DEF from
  <2>2. ASSUME NEW type \in EventType, NEW to \in DealStatus \ {"COMPLETED"}, NEW by \in ActorRole,
               Extends(type, from, to, by), to = "INSPECTION" => type = "inspection.started",
               ConfirmsAsBuyer'
        PROVE  CauseInv'
    BY <2>1, <2>2, ExtendCaused
  <2>3. CASE Accept(w)
    <3>1. Extends("deal.accepted", from, "WAITING_PAYMENT", req[w].role)
      BY <2>3, <1>t DEF Accept, Extends, DealRow, from
    <3> QED BY <2>1, <2>2, <2>3, <3>1, ConfirmsKept DEF Accept, EventType, DealStatus
  <2>4. CASE MockPayment(w)
    <3> DEFINE e == eventData("mock_escrow.funds_secured", from, "FUNDS_SECURED", "SYSTEM")
               f == eventData("deal.ready_for_shipment", "FUNDS_SECURED", "WAITING_SHIPMENT", "SYSTEM")
               j == Append(journal, e)
    <3>1. /\ e \in DealEvent /\ e.to = "FUNDS_SECURED"
          /\ f \in DealEvent /\ f.to = "WAITING_SHIPMENT"
      BY <2>1 DEF eventData, DealEvent, EventType, DealStatus, ActorRole
    <3>2. journal' = Append(j, f) /\ deal'.status = "WAITING_SHIPMENT"
      BY <2>4, <1>t DEF MockPayment, DealRow, from
    <3>3. journal \in Seq(DealEvent) /\ journal # << >> /\ Caused(journal)
      BY DEF TypeOK, TrailInv, CauseInv
    <3> HIDE DEF e, f
    <3>4. j \in Seq(DealEvent) /\ j # << >>
      BY <3>1, <3>3
    <3>5. Caused(j)
      BY <3>1, <3>3, AppendCaused
    <3> HIDE DEF j
    <3>6. Caused(journal')
      BY <3>1, <3>2, <3>4, <3>5, AppendCaused
    <3> QED BY <2>4, <3>2, <3>6, ConfirmsKept DEF MockPayment, CauseInv, Caused, WindowIsLast
  <2>5. CASE MarkShipped(w)
    <3>1. Extends("shipment.added", from, "SHIPPED", req[w].role)
      BY <2>5, <1>t DEF MarkShipped, transition, Extends, DealRow, from
    <3> QED BY <2>1, <2>2, <2>5, <3>1, ConfirmsKept DEF MarkShipped, EventType, DealStatus
  <2>6. CASE MarkDelivered(w)
    <3>1. Extends("delivery.delivered", from, "DELIVERED", req[w].role)
      BY <2>6, <1>t DEF MarkDelivered, Extends, DealRow, from
    <3> QED BY <2>1, <2>2, <2>6, <3>1, ConfirmsKept DEF MarkDelivered, EventType, DealStatus
  <2>7. CASE StartInspection(w)
    <3>1. Extends("inspection.started", from, "INSPECTION", "SYSTEM")
      BY <2>7, <1>t DEF StartInspection, Extends, DealRow, from
    <3> QED BY <2>2, <2>7, <3>1, ConfirmsKept DEF StartInspection, EventType, DealStatus, ActorRole
  <2>8. CASE Complete(w)
    <3>1. Extends("mock_escrow.release_to_seller", from, "COMPLETED", "BUYER")
      BY <2>8, <1>t DEF Complete, Commits, ConfirmsAsBuyer, transition, Extends, DealRow, from
    <3>2. ConfirmsAsBuyer'
      BY <2>8, ConfirmsKept DEF Complete
    <3> QED BY <2>1, <3>1, <3>2, ExtendCaused DEF EventType, DealStatus, ActorRole, PartyRole
  <2>9. CASE ReportProblem(w)
    <3>1. Extends("problem.reported", from, "PROBLEM_REPORTED", req[w].role)
      BY <2>9, <1>t DEF ReportProblem, transition, Extends, DealRow, from
    <3> QED BY <2>1, <2>2, <2>9, <3>1, ConfirmsKept DEF ReportProblem, EventType, DealStatus
  <2> QED BY <1>4, <2>3, <2>4, <2>5, <2>6, <2>7, <2>8, <2>9 DEF Commit
<1>5. ASSUME NEW w \in Workers, Crash(w) PROVE CauseInv'
  BY <1>5, ConfirmsKept, QuietCaused DEF Crash, rows
<1>6. ASSUME completeIfDue, UNCHANGED <<now, req>> PROVE CauseInv'
  <2>1. Extends("inspection.expired", "INSPECTION", "COMPLETED", "SYSTEM")
    BY <1>6, <1>t DEF completeIfDue, Extends, DealRow
  <2>2. deal.status = "INSPECTION" /\ ConfirmsAsBuyer'
    BY <1>6, <1>t DEF completeIfDue, Due, ConfirmsAsBuyer
  <2> QED BY <2>1, <2>2, ExtendCaused DEF EventType, DealStatus, ActorRole
<1>7. CASE UNCHANGED <<deal, journal, req>>
  BY <1>7, QuietCaused DEF CauseInv, ConfirmsAsBuyer
<1> QED
  BY <1>2, <1>3, <1>4, <1>5, <1>6, <1>7
  DEF Next, ReadDeal, CronSweep, UploadEvidence, Tick, rows, vars

\* Money is released by the buyer or by a window that was opened and not
\* interrupted, whatever requests race (ReleaseHasCause).
THEOREM ReleaseHasCauseAlways == Spec => []ReleaseHasCause
<1>1. CauseInv => ReleaseHasCause
  BY DEF CauseInv, Caused, HasCause, ReleaseHasCause
<1> QED
  BY <1>1, TypeCorrect, TrailInvariant, CauseInit, CauseStep, PTL DEF Spec

-----------------------------------------------------------------------------
(* The rows and the events that were committed with them.                  *)

CountIn(j, type) == Cardinality({i \in DOMAIN j : j[i].type = type})

\* An appended event counts once, under its type.
LEMMA CountAppend ==
  ASSUME NEW j \in Seq(DealEvent), NEW e \in DealEvent, NEW type
  PROVE  /\ CountIn(j, type) \in Nat
         /\ CountIn(Append(j, e), type) = CountIn(j, type) + (IF e.type = type THEN 1 ELSE 0)
<1> DEFINE k == Append(j, e)
           at == {i \in DOMAIN j : j[i].type = type}
           at2 == {i \in DOMAIN k : k[i].type = type}
<1> PICK n \in Nat : n = Len(j)
  OBVIOUS
<1>1. DOMAIN j = 1..n /\ DOMAIN k = 1..(n + 1) /\ k[n + 1] = e /\ \A i \in 1..n : k[i] = j[i]
  OBVIOUS
<1> HIDE DEF k
<1>2. at \subseteq 1..n /\ n + 1 \notin at
  BY <1>1
<1>3. IsFiniteSet(at)
  <2>1. IsFiniteSet(1..n) /\ at \in SUBSET (1..n)
    BY <1>2, FS_Interval
  <2> HIDE DEF at
  <2> QED BY <2>1, FS_Subset
<1>4. at2 = IF e.type = type THEN at \cup {n + 1} ELSE at
  BY <1>1
<1> HIDE DEF at, at2
<1>5. Cardinality(at2) = Cardinality(at) + (IF e.type = type THEN 1 ELSE 0) /\ Cardinality(at) \in Nat
  BY <1>2, <1>3, <1>4, FS_AddElement, FS_CardinalityType
<1> QED BY <1>5 DEF CountIn, at, at2, k

\* The types of the events that each operation commits.
Recorded ==
  [ accept |-> {"deal.accepted"},
    pay |-> {"mock_escrow.funds_secured", "deal.ready_for_shipment"},
    ship |-> {"shipment.added"}, deliver |-> {"delivery.delivered"},
    inspect |-> {"inspection.started"}, confirm |-> {"mock_escrow.release_to_seller"},
    problem |-> {"problem.reported"} ]

\* A commit of one event.
LEMMA OneEventCounts ==
  ASSUME TypeOK, NEW type \in EventType, NEW from \in DealStatus, NEW to \in DealStatus,
         NEW by \in ActorRole, journal' = Append(journal, eventData(type, from, to, by))
  PROVE  \A t : /\ CountIn(journal, t) \in Nat
                /\ CountIn(journal', t) = CountIn(journal, t) + (IF t = type THEN 1 ELSE 0)
<1> DEFINE e == eventData(type, from, to, by)
<1>1. e \in DealEvent /\ e.type = type /\ journal \in Seq(DealEvent) /\ journal' = Append(journal, e)
  BY DEF eventData, DealEvent, TypeOK
<1> HIDE DEF e
<1> QED BY <1>1, CountAppend

\* A commit counts its operation's events once each and no other.
LEMMA CommitCounts ==
  ASSUME TypeOK, NEW w \in Workers, Commit(w)
  PROVE  /\ req[w].op \in DOMAIN Recorded
         /\ \A t : /\ CountIn(journal, t) \in Nat
                   /\ CountIn(journal', t)
                        = CountIn(journal, t) + (IF t \in Recorded[req[w].op] THEN 1 ELSE 0)
<1> DEFINE from == req[w].from
           role == req[w].role
<1>1. from \in DealStatus /\ role \in ActorRole /\ "SYSTEM" \in ActorRole /\ journal \in Seq(DealEvent)
  BY DEF TypeOK, Request, ActorRole
<1>2. CASE MockPayment(w)
  <2> DEFINE e == eventData("mock_escrow.funds_secured", from, "FUNDS_SECURED", "SYSTEM")
             f == eventData("deal.ready_for_shipment", "FUNDS_SECURED", "WAITING_SHIPMENT", "SYSTEM")
             j == Append(journal, e)
  <2>1. /\ e \in DealEvent /\ e.type = "mock_escrow.funds_secured"
        /\ f \in DealEvent /\ f.type = "deal.ready_for_shipment"
    BY <1>1 DEF eventData, DealEvent, EventType, DealStatus
  <2>2. journal' = Append(j, f) /\ req[w].op = "pay"
    BY <1>2 DEF MockPayment, Commits
  <2> HIDE DEF e, f
  <2>3. j \in Seq(DealEvent)
    BY <1>1, <2>1
  <2>4. \A t : /\ CountIn(journal, t) \in Nat
               /\ CountIn(j, t) = CountIn(journal, t) + (IF e.type = t THEN 1 ELSE 0)
    BY <1>1, <2>1, CountAppend
  <2> HIDE DEF j
  <2>5. \A t : CountIn(journal', t) = CountIn(j, t) + (IF f.type = t THEN 1 ELSE 0)
    BY <2>1, <2>2, <2>3, CountAppend
  <2> QED BY <2>1, <2>2, <2>4, <2>5 DEF Recorded
<1> HIDE DEF from, role
<1>3. ASSUME NEW type \in EventType, NEW to \in DealStatus, NEW by \in ActorRole,
             journal' = Append(journal, eventData(type, from, to, by)),
             req[w].op \in DOMAIN Recorded, Recorded[req[w].op] = {type}
      PROVE  /\ req[w].op \in DOMAIN Recorded
             /\ \A t : /\ CountIn(journal, t) \in Nat
                       /\ CountIn(journal', t)
                            = CountIn(journal, t) + (IF t \in Recorded[req[w].op] THEN 1 ELSE 0)
  BY <1>1, <1>3, OneEventCounts
<1> USE DEF EventType, DealStatus
<1>4. CASE Accept(w)
  <2>1. /\ journal' = Append(journal, eventData("deal.accepted", from, "WAITING_PAYMENT", role))
        /\ req[w].op \in DOMAIN Recorded /\ Recorded[req[w].op] = {"deal.accepted"}
    BY <1>4 DEF Accept, Commits, Recorded, from, role
  <2> QED BY <1>1, <1>3, <2>1
<1>5. CASE MarkShipped(w)
  <2>1. /\ journal' = Append(journal, eventData("shipment.added", from, "SHIPPED", role))
        /\ req[w].op \in DOMAIN Recorded /\ Recorded[req[w].op] = {"shipment.added"}
    BY <1>5 DEF MarkShipped, transition, Commits, Recorded, from, role
  <2> QED BY <1>1, <1>3, <2>1
<1>6. CASE MarkDelivered(w)
  <2>1. /\ journal' = Append(journal, eventData("delivery.delivered", from, "DELIVERED", role))
        /\ req[w].op \in DOMAIN Recorded /\ Recorded[req[w].op] = {"delivery.delivered"}
    BY <1>6 DEF MarkDelivered, Commits, Recorded, from, role
  <2> QED BY <1>1, <1>3, <2>1
<1>7. CASE StartInspection(w)
  <2>1. /\ journal' = Append(journal, eventData("inspection.started", from, "INSPECTION", "SYSTEM"))
        /\ req[w].op \in DOMAIN Recorded /\ Recorded[req[w].op] = {"inspection.started"}
    BY <1>7 DEF StartInspection, Commits, Recorded, from
  <2> QED BY <1>1, <1>3, <2>1
<1>8. CASE Complete(w)
  <2>1. /\ journal' = Append(journal, eventData("mock_escrow.release_to_seller", from, "COMPLETED", role))
        /\ req[w].op \in DOMAIN Recorded /\ Recorded[req[w].op] = {"mock_escrow.release_to_seller"}
    BY <1>8 DEF Complete, transition, Commits, Recorded, from, role
  <2> QED BY <1>1, <1>3, <2>1
<1>9. CASE ReportProblem(w)
  <2>1. /\ journal' = Append(journal, eventData("problem.reported", from, "PROBLEM_REPORTED", role))
        /\ req[w].op \in DOMAIN Recorded /\ Recorded[req[w].op] = {"problem.reported"}
    BY <1>9 DEF ReportProblem, transition, Commits, Recorded, from, role
  <2> QED BY <1>1, <1>3, <2>1
<1> QED BY <1>2, <1>4, <1>5, <1>6, <1>7, <1>8, <1>9 DEF Commit

\* The timeout counts its own event and no other.
LEMMA TimeoutCounts ==
  ASSUME TypeOK, completeIfDue
  PROVE  \A t : t # "inspection.expired" => CountIn(journal', t) = CountIn(journal, t)
<1>1. \A t : /\ CountIn(journal, t) \in Nat
             /\ CountIn(journal', t) = CountIn(journal, t) + (IF t = "inspection.expired" THEN 1 ELSE 0)
  BY OneEventCounts DEF completeIfDue, EventType, DealStatus, ActorRole
<1> QED BY <1>1

RowsOf(j, pay, del, n) ==
  /\ pay.FUNDS_SECURED + pay.RELEASED = CountIn(j, "mock_escrow.funds_secured")
  /\ del.SHIPPED + del.DELIVERED = CountIn(j, "shipment.added")
  /\ n = CountIn(j, "problem.reported")

LEMMA RowsInit == Init => RowsOf(journal, payments, deliveries, notices)
<1> SUFFICES ASSUME Init PROVE RowsOf(journal, payments, deliveries, notices)
  OBVIOUS
<1>1. PICK e : journal = << e >> /\ e.type \in {"deal.created", "deal.counterparty_joined"}
  BY DEF Init, Joined, Unaccepted
<1>2. DOMAIN journal = {1} /\ journal[1] = e
  BY <1>1
<1>3. \A t \in {"mock_escrow.funds_secured", "shipment.added", "problem.reported"} :
        {i \in DOMAIN journal : journal[i].type = t} = {}
  BY <1>1, <1>2
<1>4. /\ CountIn(journal, "mock_escrow.funds_secured") = 0
      /\ CountIn(journal, "shipment.added") = 0
      /\ CountIn(journal, "problem.reported") = 0
  BY <1>3, FS_EmptySet DEF CountIn
<1>5. /\ payments.FUNDS_SECURED = 0 /\ payments.RELEASED = 0
      /\ deliveries.SHIPPED = 0 /\ deliveries.DELIVERED = 0 /\ notices = 0
  BY DEF Init
<1> QED BY <1>4, <1>5 DEF RowsOf

LEMMA RowsStep ==
  TypeOK /\ RowsOf(journal, payments, deliveries, notices) /\ [Next]_vars
    => RowsOf(journal, payments, deliveries, notices)'
<1> SUFFICES ASSUME TypeOK, RowsOf(journal, payments, deliveries, notices), [Next]_vars
             PROVE  RowsOf(journal', payments', deliveries', notices')
  OBVIOUS
<1>t. /\ payments.FUNDS_SECURED \in Nat /\ payments.RELEASED \in Nat
      /\ deliveries.SHIPPED \in Nat /\ deliveries.DELIVERED \in Nat /\ notices \in Nat
      /\ payments \in PaymentRows /\ deliveries \in DeliveryRows
  BY DEF TypeOK, PaymentRows, DeliveryRows
<1>1. CASE UNCHANGED <<journal, payments, deliveries, notices>>
  BY <1>1
<1>2. ASSUME completeIfDue PROVE RowsOf(journal', payments', deliveries', notices')
  BY <1>2, <1>t, TimeoutCounts DEF completeIfDue, ReleaseAll, RowsOf
<1>3. ASSUME NEW w \in Workers, Commit(w) PROVE RowsOf(journal', payments', deliveries', notices')
  <2>1. /\ CountIn(journal', "mock_escrow.funds_secured") = CountIn(journal, "mock_escrow.funds_secured")
             + (IF req[w].op = "pay" THEN 1 ELSE 0)
        /\ CountIn(journal', "shipment.added") = CountIn(journal, "shipment.added")
             + (IF req[w].op = "ship" THEN 1 ELSE 0)
        /\ CountIn(journal', "problem.reported") = CountIn(journal, "problem.reported")
             + (IF req[w].op = "problem" THEN 1 ELSE 0)
    BY <1>3, CommitCounts DEF Recorded
  <2>2. /\ CountIn(journal, "mock_escrow.funds_secured") \in Nat
        /\ CountIn(journal, "shipment.added") \in Nat
        /\ CountIn(journal, "problem.reported") \in Nat
    BY <1>3, CommitCounts
  <2>3. CASE Accept(w) \/ StartInspection(w)
    BY <2>1, <2>2, <2>3 DEF Accept, StartInspection, Commits, RowsOf
  <2>4. CASE MockPayment(w)
    BY <1>t, <2>1, <2>2, <2>4 DEF MockPayment, Commits, RowsOf, PaymentRows
  <2>5. CASE MarkShipped(w)
    BY <1>t, <2>1, <2>2, <2>5 DEF MarkShipped, Commits, RowsOf, DeliveryRows
  <2>6. CASE MarkDelivered(w)
    BY <1>t, <2>1, <2>2, <2>6 DEF MarkDelivered, Commits, RowsOf, DeliveryRows
  <2>7. CASE Complete(w)
    BY <1>t, <2>1, <2>2, <2>7 DEF Complete, ReleaseAll, Commits, RowsOf
  <2>8. CASE ReportProblem(w)
    BY <1>t, <2>1, <2>2, <2>8 DEF ReportProblem, Commits, RowsOf
  <2> QED BY <1>3, <2>3, <2>4, <2>5, <2>6, <2>7, <2>8 DEF Commit
<1>4. ASSUME NEW w \in Workers, Begin(w) \/ Continue(w) \/ Crash(w)
      PROVE  RowsOf(journal', payments', deliveries', notices')
  BY <1>1, <1>4 DEF Begin, Continue, Crash, BeginAccept, BeginMockPayment, BeginMarkShipped,
                    BeginMarkDelivered, Reconcile, DateInspection, BeginInspection, BeginComplete,
                    BeginReportProblem, Hold, rows
<1> QED
  BY <1>1, <1>2, <1>3, <1>4 DEF Next, ReadDeal, CronSweep, UploadEvidence, Tick, rows, vars

\* Every payment, delivery and notice has its event and every such event its
\* row, whatever requests race or die (RowsMatchAuditTrail).
THEOREM RowsMatchAuditTrailAlways == Spec => []RowsMatchAuditTrail
<1>1. RowsOf(journal, payments, deliveries, notices) => RowsMatchAuditTrail
  BY DEF RowsOf, CountIn, RowsMatchAuditTrail, Count
<1> QED
  BY <1>1, RowsInit, RowsStep, TypeCorrect, PTL DEF Spec

-----------------------------------------------------------------------------
(* The evidence gates.                                                     *)

(***************************************************************************)
(* A request that passed its gate finds it open at its commit, however     *)
(* much later that is: evidence is never deleted.                          *)
(***************************************************************************)
HoldsOpen ==
  \A w \in Workers : req[w].at = "holds" =>
    /\ req[w].op = "ship" => EvidenceComplete("PRE_SHIPMENT")
    /\ req[w].op = "confirm" => EvidenceComplete("RECEIPT")
GatesOpen ==
  /\ CountIn(journal, "shipment.added") = 0 \/ EvidenceComplete("PRE_SHIPMENT")
  /\ CountIn(journal, "mock_escrow.release_to_seller") = 0 \/ EvidenceComplete("RECEIPT")
GateInv == HoldsOpen /\ GatesOpen

\* More files leave an open gate open.
LEMMA GateStaysOpen ==
  ASSUME NEW stage, terms' = terms, evidence \subseteq evidence', EvidenceComplete(stage)
  PROVE  EvidenceComplete(stage)'
<1>1. \A item : Satisfied(item, evidence) => Satisfied(item, evidence')
  BY DEF Satisfied
<1> QED BY <1>1 DEF EvidenceComplete, missingRequiredEvidence

\* A step that counts no gated event and lets only a gated request hold.
LEMMA GateKept ==
  ASSUME GateInv, terms' = terms, evidence \subseteq evidence',
         \A t \in {"shipment.added", "mock_escrow.release_to_seller"} :
            CountIn(journal', t) = CountIn(journal, t),
         \A w \in Workers : \/ req'[w] = req[w]
                            \/ req'[w].at # "holds"
                            \/ /\ req'[w].op = "ship" => EvidenceComplete("PRE_SHIPMENT")
                               /\ req'[w].op = "confirm" => EvidenceComplete("RECEIPT")
  PROVE  GateInv'
<1>1. /\ EvidenceComplete("PRE_SHIPMENT") => EvidenceComplete("PRE_SHIPMENT")'
      /\ EvidenceComplete("RECEIPT") => EvidenceComplete("RECEIPT")'
  BY GateStaysOpen
<1>2. HoldsOpen'
  BY <1>1 DEF GateInv, HoldsOpen
<1>3. GatesOpen'
  BY <1>1 DEF GateInv, GatesOpen
<1> QED BY <1>2, <1>3 DEF GateInv

LEMMA GateInit == Init => GateInv
<1> SUFFICES ASSUME Init PROVE GateInv
  OBVIOUS
<1>1. PICK e : journal = << e >> /\ e.type \in {"deal.created", "deal.counterparty_joined"}
  BY DEF Init, Joined, Unaccepted
<1>2. DOMAIN journal = {1} /\ journal[1] = e
  BY <1>1
<1>3. \A t \in {"shipment.added", "mock_escrow.release_to_seller"} :
        {i \in DOMAIN journal : journal[i].type = t} = {}
  BY <1>1, <1>2
<1>4. GatesOpen
  BY <1>3, FS_EmptySet DEF GatesOpen, CountIn
<1> QED BY <1>4 DEF Init, Idle, GateInv, HoldsOpen

LEMMA GateStep == TypeOK /\ GateInv /\ [Next]_vars => GateInv'
<1> SUFFICES ASSUME TypeOK, GateInv, [Next]_vars PROVE GateInv'
  OBVIOUS
<1>t. req \in [Workers -> Request]
  BY DEF TypeOK
<1>1. ASSUME NEW w \in Workers, NEW op, NEW role, NEW to, NEW date, Hold(w, op, role, to, date),
             op = "ship" => EvidenceComplete("PRE_SHIPMENT"),
             op = "confirm" => EvidenceComplete("RECEIPT")
      PROVE  GateInv'
  <2>1. UNCHANGED <<terms, evidence, journal>>
    BY <1>1 DEF Hold, rows
  <2>2. \A v \in Workers : \/ req'[v] = req[v]
                           \/ req'[v].op = op
    BY <1>1, <1>t DEF Hold
  <2> QED BY <1>1, <2>1, <2>2, GateKept
<1>2. ASSUME NEW w \in Workers, Begin(w) PROVE GateInv'
  <2>1. ASSUME NEW op, NEW role, Reconcile(w, op, role) PROVE GateInv'
    <3>1. \A v \in Workers : req'[v] = req[v] \/ req'[v].at # "holds"
      BY <2>1, <1>t DEF Reconcile
    <3> QED BY <2>1, <3>1, GateKept DEF Reconcile, rows
  <2> QED BY <1>1, <1>2, <2>1
          DEF Begin, BeginAccept, BeginMockPayment, BeginMarkShipped, BeginMarkDelivered
<1>3. ASSUME NEW w \in Workers, Continue(w) PROVE GateInv'
  <2>1. CASE DateInspection(w)
    <3>1. \A v \in Workers : req'[v] = req[v] \/ req'[v].at # "holds"
      BY <2>1, <1>t DEF DateInspection, Advance
    <3> QED BY <2>1, <3>1, GateKept DEF DateInspection, rows
  <2> QED BY <1>1, <1>3, <2>1 DEF Continue, BeginInspection, BeginComplete, BeginReportProblem
<1>4. ASSUME NEW w \in Workers, Commit(w) PROVE GateInv'
  <2>1. UNCHANGED <<terms, evidence>>
    BY <1>4 DEF Commit, Accept, MockPayment, MarkShipped, MarkDelivered, StartInspection, Complete,
                ReportProblem
  <2>2. \A v \in Workers : req'[v] = req[v] \/ req'[v].at # "holds"
    BY <1>4, <1>t DEF Commit, Accept, MockPayment, MarkShipped, MarkDelivered, StartInspection,
                      Complete, ReportProblem, Finish, Advance, Idle
  <2>3. req[w].at = "holds"
    BY <1>4 DEF Commit, Accept, MockPayment, MarkShipped, MarkDelivered, StartInspection, Complete,
                ReportProblem, Commits
  <2>4. /\ req[w].op # "ship" => CountIn(journal', "shipment.added") = CountIn(journal, "shipment.added")
        /\ req[w].op # "confirm" => CountIn(journal', "mock_escrow.release_to_seller")
                                      = CountIn(journal, "mock_escrow.release_to_seller")
    BY <1>4, CommitCounts DEF Recorded
  <2>5. /\ EvidenceComplete("PRE_SHIPMENT") => EvidenceComplete("PRE_SHIPMENT")'
        /\ EvidenceComplete("RECEIPT") => EvidenceComplete("RECEIPT")'
    BY <2>1, GateStaysOpen
  <2>6. HoldsOpen'
    BY <2>2, <2>5 DEF GateInv, HoldsOpen
  <2>7. GatesOpen'
    BY <2>3, <2>4, <2>5 DEF GateInv, GatesOpen, HoldsOpen
  <2> QED BY <2>6, <2>7 DEF GateInv
<1>5. ASSUME NEW w \in Workers, Crash(w) PROVE GateInv'
  <2>1. \A v \in Workers : req'[v] = req[v] \/ req'[v].at # "holds"
    BY <1>5, <1>t DEF Crash, Finish, Idle
  <2> QED BY <1>5, <2>1, GateKept DEF Crash, rows
<1>6. ASSUME completeIfDue, UNCHANGED req PROVE GateInv'
  BY <1>6, TimeoutCounts, GateKept DEF completeIfDue
<1>7. ASSUME UNCHANGED <<terms, journal, req>>, evidence \subseteq evidence' PROVE GateInv'
  BY <1>7, GateKept
<1> QED
  BY <1>2, <1>3, <1>4, <1>5, <1>6, <1>7
  DEF Next, ReadDeal, CronSweep, UploadEvidence, Tick, rows, vars

\* On the EXTENDED plan nothing was shipped or released without the evidence
\* of the party whose gate that is (EvidenceGates).
THEOREM EvidenceGatesAlways == Spec => []EvidenceGates
<1>1. GateInv => EvidenceGates
  BY DEF GateInv, GatesOpen, CountIn, EvidenceGates, Count
<1> QED
  BY <1>1, GateInit, GateStep, TypeCorrect, PTL DEF Spec

-----------------------------------------------------------------------------
(* The window of the buyer.                                                *)

Delivered == \E i \in DOMAIN journal : journal[i].type = "delivery.delivered"

\* In the first transaction of mark-delivered; with the deadline computed.
Delivering(u) == req[u].at = "holds" /\ req[u].op = "deliver"
Dated(u) == req[u].at = "dated" \/ (req[u].at = "holds" /\ req[u].op = "inspect")

\* Only the commit of a shipment leaves a deal SHIPPED.
ShippedIsRecorded == deal.status = "SHIPPED" => journal[Len(journal)].type = "shipment.added"

\* A request carries a delivery no later than now, and a deadline only of a
\* delivery that is recorded.
CarriesDates(u) ==
  /\ Delivering(u) => req[u].date \in 0..now
  /\ req[u].at = "delivered" \/ Dated(u) => deal.deliveredAt # NoTime
  /\ Dated(u) => req[u].date \in Nat
RowIsDated ==
  /\ deal.deliveredAt # NoTime => Delivered /\ deal.deliveredAt \in 0..now
  /\ deal.inspectionEndsAt # NoTime => deal.deliveredAt # NoTime
  /\ deal.status = "INSPECTION" => deal.inspectionEndsAt # NoTime

(***************************************************************************)
(* A deadline leaves the window when it leaves it after the delivery on    *)
(* the row and after each one that a request is about to write over it.    *)
(* The deadlines keep this as long as no request can come to deliver the   *)
(* deal again: that takes a deal that is SHIPPED after its delivery.       *)
(***************************************************************************)
Leaves(d) ==
  /\ d >= deal.deliveredAt + InspectionHours
  /\ \A u \in Workers : Delivering(u) => d >= req[u].date + InspectionHours
DeadlinesLeave ==
  /\ deal.inspectionEndsAt # NoTime => Leaves(deal.inspectionEndsAt)
  /\ \A u \in Workers : Dated(u) => Leaves(req[u].date)

WindowInv ==
  /\ ShippedIsRecorded
  /\ RowIsDated
  /\ \A u \in Workers : CarriesDates(u)
  /\ ~Reshipped => DeadlinesLeave

\* An event is appended: it is the last, and the others stay.
LEMMA Appended ==
  ASSUME NEW j \in Seq(DealEvent), NEW e \in DealEvent, NEW k, k = Append(j, e)
  PROVE  /\ Len(k) \in DOMAIN k /\ k[Len(k)] = e
         /\ \A i \in DOMAIN j : i \in DOMAIN k /\ k[i] = j[i]
  OBVIOUS

\* The trail keeps what it has.
TrailStays == \A i \in DOMAIN journal : i \in DOMAIN journal' /\ journal'[i] = journal[i]

LEMMA TrailRemembers ==
  ASSUME TrailStays
  PROVE  (Delivered => Delivered') /\ (Reshipped => Reshipped')
  BY DEF TrailStays, Delivered, Reshipped

\* One event and the status it leads to.
LEMMA ExtendShipped ==
  ASSUME TypeOK, NEW type \in EventType, NEW from \in DealStatus, NEW to \in DealStatus,
         NEW by \in ActorRole, Extends(type, from, to, by)
  PROVE  /\ TrailStays
         /\ (to = "SHIPPED" => type = "shipment.added") => ShippedIsRecorded'
         /\ type = "delivery.delivered" => Delivered'
<1> DEFINE e == eventData(type, from, to, by)
<1>1. e \in DealEvent /\ e.type = type
  BY DEF eventData, DealEvent
<1>2. journal \in Seq(DealEvent) /\ journal' = Append(journal, e) /\ deal'.status = to
  BY DEF TypeOK, Extends
<1> HIDE DEF e
<1>3. /\ Len(journal') \in DOMAIN journal' /\ journal'[Len(journal')] = e
      /\ TrailStays
  BY <1>1, <1>2, Appended DEF TrailStays
<1> QED BY <1>1, <1>2, <1>3 DEF ShippedIsRecorded, Delivered

\* What a commit does to the trail and to the dates of the row.
LEMMA CommitDates ==
  ASSUME TypeOK, NEW w \in Workers, Commit(w)
  PROVE  /\ TrailStays /\ ShippedIsRecorded' /\ now' = now
         /\ MarkDelivered(w) => Delivered'
         /\ ~MarkDelivered(w) /\ ~StartInspection(w) =>
              /\ deal'.deliveredAt = deal.deliveredAt
              /\ deal'.inspectionEndsAt = deal.inspectionEndsAt
              /\ deal'.status # "INSPECTION"
              /\ Finish(w)
<1> DEFINE from == req[w].from
<1>t. deal \in DealRow /\ from \in DealStatus /\ req[w].role \in ActorRole /\ "SYSTEM" \in ActorRole
  BY DEF TypeOK, Request, ActorRole
<1> HIDE DEF from
<1>1. CASE MockPayment(w)
  <2> DEFINE e == eventData("mock_escrow.funds_secured", from, "FUNDS_SECURED", "SYSTEM")
             f == eventData("deal.ready_for_shipment", "FUNDS_SECURED", "WAITING_SHIPMENT", "SYSTEM")
             j == Append(journal, e)
  <2>1. e \in DealEvent /\ f \in DealEvent
    BY <1>t DEF eventData, DealEvent, EventType, DealStatus
  <2>2. journal' = Append(j, f) /\ deal'.status = "WAITING_SHIPMENT"
    BY <1>1, <1>t DEF MockPayment, DealRow, from
  <2>3. journal \in Seq(DealEvent)
    BY DEF TypeOK
  <2> HIDE DEF e, f
  <2>4. j \in Seq(DealEvent) /\ \A i \in DOMAIN journal : i \in DOMAIN j /\ j[i] = journal[i]
    BY <2>1, <2>3, Appended
  <2> HIDE DEF j
  <2>5. \A i \in DOMAIN j : i \in DOMAIN journal' /\ journal'[i] = j[i]
    BY <2>1, <2>2, <2>4, Appended
  <2>6. TrailStays /\ ShippedIsRecorded'
    BY <2>2, <2>4, <2>5 DEF TrailStays, ShippedIsRecorded
  <2> QED BY <1>1, <1>t, <2>2, <2>6 DEF MockPayment, DealRow, MarkDelivered, StartInspection, Commits
<1>2. CASE Accept(w)
  <2>1. Extends("deal.accepted", from, "WAITING_PAYMENT", req[w].role)
    BY <1>2, <1>t DEF Accept, Extends, DealRow, from
  <2> QED BY <1>2, <1>t, <2>1, ExtendShipped
          DEF Accept, DealRow, EventType, DealStatus, MarkDelivered, StartInspection, Commits
<1>3. CASE MarkShipped(w)
  <2>1. Extends("shipment.added", from, "SHIPPED", req[w].role)
    BY <1>3, <1>t DEF MarkShipped, transition, Extends, DealRow, from
  <2> QED BY <1>3, <1>t, <2>1, ExtendShipped
          DEF MarkShipped, transition, DealRow, EventType, DealStatus, MarkDelivered, StartInspection, Commits
<1>4. CASE MarkDelivered(w)
  <2>1. Extends("delivery.delivered", from, "DELIVERED", req[w].role)
    BY <1>4, <1>t DEF MarkDelivered, Extends, DealRow, from
  <2> QED BY <1>4, <1>t, <2>1, ExtendShipped DEF MarkDelivered, EventType, DealStatus
<1>5. CASE StartInspection(w)
  <2>1. Extends("inspection.started", from, "INSPECTION", "SYSTEM")
    BY <1>5, <1>t DEF StartInspection, Extends, DealRow, from
  <2> QED BY <1>5, <1>t, <2>1, ExtendShipped
          DEF StartInspection, EventType, DealStatus, MarkDelivered, Commits
<1>6. CASE Complete(w)
  <2>1. Extends("mock_escrow.release_to_seller", from, "COMPLETED", req[w].role)
    BY <1>6, <1>t DEF Complete, transition, Extends, DealRow, from
  <2> QED BY <1>6, <1>t, <2>1, ExtendShipped
          DEF Complete, transition, DealRow, EventType, DealStatus, MarkDelivered, StartInspection, Commits
<1>7. CASE ReportProblem(w)
  <2>1. Extends("problem.reported", from, "PROBLEM_REPORTED", req[w].role)
    BY <1>7, <1>t DEF ReportProblem, transition, Extends, DealRow, from
  <2> QED BY <1>7, <1>t, <2>1, ExtendShipped
          DEF ReportProblem, transition, DealRow, EventType, DealStatus, MarkDelivered, StartInspection, Commits
<1> QED BY <1>1, <1>2, <1>3, <1>4, <1>5, <1>6, <1>7 DEF Commit

\* A request carries on what it carried, or nothing.
CarriesOn(u) ==
  \/ req'[u] = req[u]
  \/ Dated(u) /\ Dated(u)' /\ req'[u].date = req[u].date /\ ~Delivering(u)'
       /\ req'[u].at # "delivered"
  \/ req'[u].at \notin {"delivered", "dated"} /\ ~Delivering(u)' /\ ~Dated(u)'

\* A request that carries on adds nothing to what the deadlines have to leave.
LEMMA OnlyCarriesOn ==
  ASSUME NEW u \in Workers, CarriesOn(u)
  PROVE  /\ Delivering(u)' => Delivering(u) /\ req'[u].date = req[u].date
         /\ Dated(u)' => Dated(u) /\ req'[u].date = req[u].date
         /\ req'[u].at = "delivered" => req[u].at = "delivered"
  BY DEF CarriesOn, Delivering, Dated

\* A step that dates nothing.
LEMMA WindowStays ==
  ASSUME TypeOK, TypeOK', WindowInv, ShippedIsRecorded', TrailStays, now' = now \/ now' = now + 1,
         deal'.deliveredAt = deal.deliveredAt, deal'.inspectionEndsAt = deal.inspectionEndsAt,
         deal'.status = "INSPECTION" => deal.status = "INSPECTION",
         \A u \in Workers : CarriesOn(u)
  PROVE  WindowInv'
<1>t. now \in Nat /\ now' \in Nat /\ 0..now \subseteq 0..now'
  BY DEF TypeOK
<1>1. RowIsDated'
  BY <1>t, TrailRemembers DEF WindowInv, RowIsDated
<1>2. ASSUME NEW u \in Workers PROVE CarriesDates(u)'
  BY <1>t, <1>2, OnlyCarriesOn DEF WindowInv, CarriesDates
<1>3. ASSUME NEW d, Leaves(d) PROVE Leaves(d)'
  BY <1>3, OnlyCarriesOn DEF Leaves
<1>4. ASSUME ~Reshipped' PROVE DeadlinesLeave'
  <2>1. DeadlinesLeave
    BY <1>4, TrailRemembers DEF WindowInv
  <2>2. deal'.inspectionEndsAt # NoTime => Leaves(deal.inspectionEndsAt)'
    BY <1>3, <2>1 DEF DeadlinesLeave, Leaves
  <2>3. ASSUME NEW u \in Workers, Dated(u)' PROVE Leaves(req[u].date)'
    BY <1>3, <2>1, <2>3, OnlyCarriesOn DEF DeadlinesLeave, Leaves
  <2> QED BY <2>2, <2>3 DEF DeadlinesLeave, Leaves
<1> QED BY <1>1, <1>2, <1>4 DEF WindowInv

\* A deal SHIPPED after its delivery was shipped again; a deal that no
\* mark-delivered has gone through has no deadline.
LEMMA FirstDelivery ==
  ASSUME TypeOK, TrailInv, WindowInv, deal.status = "SHIPPED", ~Reshipped
  PROVE  deal.inspectionEndsAt = NoTime /\ \A u \in Workers : ~Dated(u)
<1>1. journal \in Seq(DealEvent) /\ journal # << >>
  BY DEF TypeOK, TrailInv
<1>2. PICK n \in Nat : n = Len(journal) /\ n > 0 /\ DOMAIN journal = 1..n
  BY <1>1
<1>3. journal[n].type = "shipment.added"
  BY <1>2 DEF WindowInv, ShippedIsRecorded
<1>4. ~Delivered
  <2> SUFFICES ASSUME NEW i \in DOMAIN journal, journal[i].type = "delivery.delivered" PROVE FALSE
    BY DEF Delivered
  <2>1. i # n
    BY <1>3
  <2>2. i \in 1..n /\ i < n
    BY <1>2, <2>1
  <2> QED BY <1>2, <1>3, <2>2 DEF Reshipped
<1>5. deal.deliveredAt = NoTime
  BY <1>4 DEF WindowInv, RowIsDated
<1> QED BY <1>5 DEF WindowInv, RowIsDated, CarriesDates

\* Only the request w has moved.
Moves(w) == \A u \in Workers : u # w => req'[u] = req[u]

LEMMA WindowInit == Init => WindowInv
  BY DEF Init, Joined, Unaccepted, Idle, WindowInv, ShippedIsRecorded, RowIsDated, CarriesDates,
         DeadlinesLeave, Delivering, Dated

\* mark-delivered reads the deal.
LEMMA WindowDelivering ==
  ASSUME TypeOK, TypeOK', TrailInv, WindowInv, NEW w \in Workers, BeginMarkDelivered(w)
  PROVE  WindowInv'
<1>1. PICK deliveredAt \in 0..now : Hold(w, "deliver", "BUYER", "DELIVERED", deliveredAt)
  BY DEF BeginMarkDelivered
<1>2. /\ deal' = deal /\ journal' = journal /\ now' = now /\ Moves(w)
      /\ req'[w].at = "holds" /\ req'[w].op = "deliver" /\ req'[w].date = deliveredAt
  BY <1>1 DEF Hold, rows, Moves, TypeOK
<1>3. deal.status = "SHIPPED"
  BY <1>1 DEF Hold, CanTransition, allowedTransitions, TypeOK, DealRow, DealStatus
<1>4. ShippedIsRecorded' /\ RowIsDated'
  BY <1>2 DEF WindowInv, ShippedIsRecorded, RowIsDated, Delivered
<1>5. ASSUME NEW u \in Workers PROVE CarriesDates(u)'
  BY <1>2 DEF WindowInv, CarriesDates, Delivering, Dated, Moves
<1>6. ASSUME ~Reshipped' PROVE DeadlinesLeave'
  <2>1. deal.inspectionEndsAt = NoTime /\ \A u \in Workers : ~Dated(u)
    BY <1>2, <1>3, <1>6, FirstDelivery DEF Reshipped
  <2>2. \A u \in Workers : ~Dated(u)'
    BY <1>2, <2>1 DEF Dated, Moves
  <2> QED BY <1>2, <2>1, <2>2 DEF DeadlinesLeave
<1> QED BY <1>4, <1>5, <1>6 DEF WindowInv

\* mark-delivered computes the deadline: now is no earlier than a delivery.
LEMMA WindowDating ==
  ASSUME TypeOK, TypeOK', WindowInv, NEW w \in Workers, DateInspection(w)
  PROVE  WindowInv'
<1>1. /\ deal' = deal /\ journal' = journal /\ now' = now /\ Moves(w) /\ req[w].at = "delivered"
      /\ req'[w].at = "dated" /\ req'[w].date = now + InspectionHours
  BY DEF DateInspection, Advance, rows, Moves, TypeOK
<1>2. now \in Nat /\ InspectionHours \in Nat /\ now + InspectionHours \in Nat
  BY TimeAssumption DEF TypeOK
<1>3. deal.deliveredAt # NoTime /\ deal.deliveredAt \in 0..now
  BY <1>1 DEF WindowInv, RowIsDated, CarriesDates
<1>4. ShippedIsRecorded' /\ RowIsDated'
  BY <1>1 DEF WindowInv, ShippedIsRecorded, RowIsDated, Delivered
<1>5. ASSUME NEW u \in Workers PROVE CarriesDates(u)'
  BY <1>1, <1>2, <1>3 DEF WindowInv, CarriesDates, Delivering, Dated, Moves
<1>6. \A u \in Workers : Delivering(u)' => Delivering(u) /\ req'[u].date = req[u].date
  BY <1>1 DEF Delivering, Moves
<1>7. \A d : Leaves(d) => Leaves(d)'
  BY <1>1, <1>6 DEF Leaves
<1>8. Leaves(now + InspectionHours)
  <2>1. now + InspectionHours >= deal.deliveredAt + InspectionHours
    BY <1>2, <1>3
  <2>2. ASSUME NEW u \in Workers, Delivering(u)
        PROVE  now + InspectionHours >= req[u].date + InspectionHours
    <3>1. req[u].date \in 0..now
      BY <2>2 DEF WindowInv, CarriesDates
    <3> QED BY <1>2, <3>1
  <2> QED BY <2>1, <2>2 DEF Leaves
<1>9. ASSUME ~Reshipped' PROVE DeadlinesLeave'
  <2>1. DeadlinesLeave
    BY <1>1, <1>9 DEF Reshipped, WindowInv
  <2>2. ASSUME NEW u \in Workers, Dated(u)' PROVE Leaves(req[u].date)'
    <3>1. CASE u = w
      BY <1>1, <1>7, <1>8, <3>1 DEF Leaves
    <3>2. CASE u # w
      BY <1>1, <1>7, <2>1, <2>2, <3>2 DEF DeadlinesLeave, Dated, Moves, Leaves
    <3> QED BY <3>1, <3>2
  <2>3. deal'.inspectionEndsAt # NoTime => Leaves(deal.inspectionEndsAt)'
    BY <1>1, <1>7, <2>1 DEF DeadlinesLeave, Leaves
  <2> QED BY <2>2, <2>3 DEF DeadlinesLeave, Leaves
<1> QED BY <1>4, <1>5, <1>9 DEF WindowInv

\* The delivery is recorded, over an earlier one perhaps.
LEMMA WindowDelivered ==
  ASSUME TypeOK, TypeOK', WindowInv, NEW w \in Workers, MarkDelivered(w)
  PROVE  WindowInv'
<1>1. /\ deal'.deliveredAt = req[w].date /\ deal'.inspectionEndsAt = deal.inspectionEndsAt
      /\ deal'.status = "DELIVERED" /\ now' = now /\ Moves(w) /\ req'[w].at = "delivered"
      /\ Delivering(w)
  BY DEF MarkDelivered, Commits, Delivering, Advance, Moves, TypeOK, DealRow
<1>2. TrailStays /\ ShippedIsRecorded' /\ Delivered'
  BY CommitDates DEF Commit
<1>3. req[w].date \in 0..now /\ req[w].date # NoTime /\ now \in Nat
  BY <1>1, TimeAssumption DEF WindowInv, CarriesDates, TypeOK
<1>4. RowIsDated'
  BY <1>1, <1>2, <1>3 DEF RowIsDated
<1>5. ASSUME NEW u \in Workers PROVE CarriesDates(u)'
  BY <1>1, <1>3 DEF WindowInv, CarriesDates, Delivering, Dated, Moves
<1>6. \A u \in Workers : Delivering(u)' => Delivering(u) /\ req'[u].date = req[u].date
  BY <1>1 DEF Delivering, Moves
<1>7. \A d : Leaves(d) => Leaves(d)'
  BY <1>1, <1>6 DEF Leaves
<1>8. ASSUME ~Reshipped' PROVE DeadlinesLeave'
  <2>1. DeadlinesLeave
    BY <1>2, <1>8, TrailRemembers DEF WindowInv
  <2>2. ASSUME NEW u \in Workers, Dated(u)' PROVE Leaves(req[u].date)'
    BY <1>1, <1>7, <2>1, <2>2 DEF DeadlinesLeave, Dated, Moves, Leaves
  <2>3. deal'.inspectionEndsAt # NoTime => Leaves(deal.inspectionEndsAt)'
    BY <1>1, <1>7, <2>1 DEF DeadlinesLeave, Leaves
  <2> QED BY <2>2, <2>3 DEF DeadlinesLeave, Leaves
<1> QED BY <1>2, <1>4, <1>5, <1>8 DEF WindowInv

\* The inspection starts, with the deadline the request carried.
LEMMA WindowOpens ==
  ASSUME TypeOK, TypeOK', WindowInv, NEW w \in Workers, StartInspection(w)
  PROVE  WindowInv'
<1>1. /\ deal'.deliveredAt = deal.deliveredAt /\ deal'.inspectionEndsAt = req[w].date
      /\ now' = now /\ Moves(w) /\ req'[w].at = "idle" /\ Dated(w)
  BY DEF StartInspection, Commits, Dated, Finish, Idle, Moves, TypeOK, DealRow
<1>2. TrailStays /\ ShippedIsRecorded'
  BY CommitDates DEF Commit
<1>3. deal.deliveredAt # NoTime /\ req[w].date # NoTime
  BY <1>1, TimeAssumption DEF WindowInv, CarriesDates
<1>4. RowIsDated'
  BY <1>1, <1>2, <1>3, TrailRemembers DEF WindowInv, RowIsDated
<1>5. ASSUME NEW u \in Workers PROVE CarriesDates(u)'
  BY <1>1 DEF WindowInv, CarriesDates, Delivering, Dated, Moves
<1>6. \A u \in Workers : Delivering(u)' => Delivering(u) /\ req'[u].date = req[u].date
  BY <1>1 DEF Delivering, Moves
<1>7. \A d : Leaves(d) => Leaves(d)'
  BY <1>1, <1>6 DEF Leaves
<1>8. ASSUME ~Reshipped' PROVE DeadlinesLeave'
  <2>1. DeadlinesLeave
    BY <1>2, <1>8, TrailRemembers DEF WindowInv
  <2>2. ASSUME NEW u \in Workers, Dated(u)' PROVE Leaves(req[u].date)'
    BY <1>1, <1>7, <2>1, <2>2 DEF DeadlinesLeave, Dated, Moves, Leaves
  <2>3. Leaves(deal.inspectionEndsAt)'
    BY <1>1, <1>7, <2>1 DEF DeadlinesLeave, Leaves
  <2> QED BY <2>2, <2>3 DEF DeadlinesLeave, Leaves
<1> QED BY <1>2, <1>4, <1>5, <1>8 DEF WindowInv

LEMMA WindowStep == TypeOK /\ TypeOK' /\ TrailInv /\ WindowInv /\ [Next]_vars => WindowInv'
<1> SUFFICES ASSUME TypeOK, TypeOK', TrailInv, WindowInv, [Next]_vars PROVE WindowInv'
  OBVIOUS
<1>t. deal \in DealRow /\ req \in [Workers -> Request] /\ ShippedIsRecorded
  BY DEF TypeOK, WindowInv
<1>s. ASSUME UNCHANGED <<deal, journal>>, now' = now \/ now' = now + 1,
             \A u \in Workers : CarriesOn(u)
      PROVE  WindowInv'
  <2>1. ShippedIsRecorded' /\ TrailStays
    BY <1>t, <1>s DEF ShippedIsRecorded, TrailStays
  <2> QED BY <1>s, <2>1, WindowStays
<1>h. ASSUME NEW w \in Workers, NEW op, op # "deliver", NEW role, NEW to, NEW date,
             Hold(w, op, role, to, date), op = "inspect" => req[w].at = "dated" /\ req[w].date = date
      PROVE  WindowInv'
  <2>1. \A u \in Workers : CarriesOn(u)
    BY <1>h, <1>t DEF Hold, CarriesOn, Delivering, Dated
  <2> QED BY <1>h, <1>s, <2>1 DEF Hold, rows
<1>f. ASSUME NEW w \in Workers, Finish(w) PROVE \A u \in Workers : CarriesOn(u)
  BY <1>f, <1>t DEF Finish, Idle, CarriesOn, Delivering, Dated
<1>1. ASSUME NEW w \in Workers, Begin(w) PROVE WindowInv'
  <2>1. ASSUME NEW op, NEW role, Reconcile(w, op, role) PROVE WindowInv'
    <3>1. \A u \in Workers : CarriesOn(u)
      BY <1>t, <2>1 DEF Reconcile, CarriesOn, Delivering, Dated
    <3> QED BY <1>s, <2>1, <3>1 DEF Reconcile, rows
  <2>2. CASE BeginMarkDelivered(w)
    BY <2>2, WindowDelivering
  <2> QED BY <1>1, <1>h, <2>1, <2>2 DEF Begin, BeginAccept, BeginMockPayment, BeginMarkShipped
<1>2. ASSUME NEW w \in Workers, Continue(w) PROVE WindowInv'
  <2>1. CASE DateInspection(w)
    BY <2>1, WindowDating
  <2>2. CASE BeginInspection(w) \/ BeginComplete(w) \/ BeginReportProblem(w)
    BY <1>h, <2>2 DEF BeginInspection, BeginComplete, BeginReportProblem
  <2> QED BY <1>2, <2>1, <2>2 DEF Continue
<1>3. ASSUME NEW w \in Workers, Commit(w) PROVE WindowInv'
  <2>1. CASE MarkDelivered(w)
    BY <2>1, WindowDelivered
  <2>2. CASE StartInspection(w)
    BY <2>2, WindowOpens
  <2>3. CASE ~MarkDelivered(w) /\ ~StartInspection(w)
    BY <1>3, <1>f, <2>3, CommitDates, WindowStays
  <2> QED BY <2>1, <2>2, <2>3
<1>4. ASSUME NEW w \in Workers, Crash(w) PROVE WindowInv'
  BY <1>4, <1>f, <1>s DEF Crash, rows
<1>5. ASSUME completeIfDue, UNCHANGED <<now, req>> PROVE WindowInv'
  <2>1. Extends("inspection.expired", "INSPECTION", "COMPLETED", "SYSTEM")
    BY <1>5, <1>t DEF completeIfDue, Extends, DealRow
  <2>2. TrailStays /\ ShippedIsRecorded'
    BY <2>1, ExtendShipped DEF EventType, DealStatus, ActorRole
  <2>3. /\ deal'.deliveredAt = deal.deliveredAt /\ deal'.inspectionEndsAt = deal.inspectionEndsAt
        /\ deal'.status = "COMPLETED"
    BY <1>5, <1>t DEF completeIfDue, DealRow
  <2> QED BY <1>5, <2>2, <2>3, WindowStays DEF CarriesOn
<1>6. CASE UNCHANGED <<deal, journal, req>> /\ (now' = now \/ now' = now + 1)
  BY <1>6, <1>s DEF CarriesOn
<1> QED
  BY <1>1, <1>2, <1>3, <1>4, <1>5, <1>6
  DEF Next, ReadDeal, CronSweep, UploadEvidence, Tick, rows, vars

\* The buyer has the whole window agreed on, for any length of it, however
\* many mark-delivered calls and other requests overlap or die: unless a late
\* shipment set the delivered deal back (InspectionWindowIsWhole).
THEOREM InspectionWindowIsWholeAlways == Spec => []InspectionWindowIsWhole
<1>1. WindowInv => InspectionWindowIsWhole
  BY DEF WindowInv, RowIsDated, DeadlinesLeave, Leaves, InspectionWindowIsWhole
<1> QED
  BY <1>1, WindowInit, WindowStep, TrailInvariant, TypeCorrect, PTL DEF Spec

-----------------------------------------------------------------------------
(* The page.                                                               *)

\* The statuses that the flow gives a deal.
FlowStatus ==
  { "WAITING_COUNTERPARTY", "WAITING_PAYMENT", "WAITING_SHIPMENT", "SHIPPED", "DELIVERED",
    "INSPECTION", "COMPLETED", "PROBLEM_REPORTED" }
StatusInFlow == deal.status \in FlowStatus

LEMMA StatusStep == TypeOK /\ StatusInFlow /\ [Next]_vars => StatusInFlow'
<1> SUFFICES ASSUME TypeOK, StatusInFlow, [Next]_vars PROVE StatusInFlow'
  OBVIOUS
<1>t. deal \in DealRow
  BY DEF TypeOK
<1>1. ASSUME NEW w \in Workers, Commit(w) PROVE StatusInFlow'
  BY <1>1, <1>t DEF Commit, Accept, MockPayment, MarkShipped, MarkDelivered, StartInspection,
     Complete, ReportProblem, transition, DealRow, StatusInFlow, FlowStatus
<1>2. CASE completeIfDue
  BY <1>2, <1>t DEF completeIfDue, DealRow, StatusInFlow, FlowStatus
<1>3. CASE deal' = deal
  BY <1>3 DEF StatusInFlow
<1>4. ASSUME NEW w \in Workers, Begin(w) \/ Continue(w) \/ Crash(w) PROVE deal' = deal
  BY <1>4 DEF Begin, BeginAccept, BeginMockPayment, BeginMarkShipped, BeginMarkDelivered, Reconcile,
     Continue, DateInspection, BeginInspection, BeginComplete, BeginReportProblem, Hold, Crash, rows
<1> QED
  BY <1>1, <1>2, <1>3, <1>4 DEF Next, ReadDeal, CronSweep, UploadEvidence, Tick, rows, vars

\* On each status the table, the controllers' guards and the page agree.
LEMMA PageAgrees == TypeOK /\ StatusInFlow => PageAgreesWithServer
<1> SUFFICES ASSUME TypeOK, StatusInFlow, MockEscrowEnabled PROVE PageAgreesWithServer
  BY DEF PageAgreesWithServer
<1>t. terms.creatorRole \in PartyRole \cup {NoRole}
  BY DEF TypeOK, DealTerms
<1>s. PartyRole = {"BUYER", "SELLER"}
  BY DEF PartyRole
<1> USE DEF CanTransition, allowedTransitions, taken, Button, Target, requireRole, offered,
            roleAction, canReportProblem, Other
<1>1. ASSUME NEW role \in PartyRole PROVE offered(role) \subseteq taken(role)
  <2> SUFFICES ASSUME NEW b \in offered(role) PROVE b \in taken(role)
    OBVIOUS
  <2> QED BY <1>t, <1>s, NoRoleAssumption DEF StatusInFlow, FlowStatus
<1>2. ASSUME NEW role \in PartyRole
      PROVE  taken(role) \ offered(role) \subseteq
               (CASE deal.status = "WAITING_COUNTERPARTY" /\ terms.creatorRole = NoRole -> {"accept"}
                  [] deal.status = "PROBLEM_REPORTED" -> {"confirm-receipt"}
                  [] OTHER -> {})
  BY <1>t, <1>s, NoRoleAssumption DEF StatusInFlow, FlowStatus
<1>3. ASSUME deal.status \notin {"COMPLETED", "PROBLEM_REPORTED"}
      PROVE  \E role \in PartyRole : offered(role) # {}
  BY <1>3, <1>t, <1>s, NoRoleAssumption DEF StatusInFlow, FlowStatus
<1> QED BY <1>1, <1>2, <1>3 DEF PageAgreesWithServer

\* In every status that racing or dying requests and the sweep leave behind,
\* the page offers a party what the API would take, for any number of
\* requests (PageAgreesWithServer).
THEOREM PageAgreesWithServerAlways == Spec => []PageAgreesWithServer
<1>1. Init => StatusInFlow
  BY DEF Init, Joined, Unaccepted, StatusInFlow, FlowStatus
<1> QED
  BY <1>1, StatusStep, PageAgrees, TypeCorrect, PTL DEF Spec

-----------------------------------------------------------------------------
(***************************************************************************)
(* The whole system: DealSystem, where the flow runs over a deal that      *)
(* claims are still joining.  A step of the flow is a step of DealFlow, so *)
(* what the lemmas above say of it holds here too; what is left of a step  *)
(* of the invitations is the commit of a claim.                            *)
(***************************************************************************)
FlowInv ==
  /\ TypeOK /\ MoneyInv /\ TrailInv /\ AcceptInv /\ CauseInv
  /\ RowsOf(journal, payments, deliveries, notices)
  /\ GateInv
  /\ terms.creatorRole \in PartyRole
  /\ "WAITING_COUNTERPARTY" \in Held

\* What the commit of a claim does to the tables of the flow.
Joins ==
  /\ deal' = [deal EXCEPT !.status = "WAITING_PAYMENT", !.acceptedBy = @ \cup {Other(terms.creatorRole)}]
  /\ journal' = Append(journal, eventData("deal.counterparty_joined", "WAITING_COUNTERPARTY",
                                          "WAITING_PAYMENT", Other(terms.creatorRole)))

\* Nothing else of the invitations touches those tables.
LEMMA JoiningRows == JoiningNext => UNCHANGED flow /\ (UNCHANGED <<deal, journal>> \/ Joins)
<1> SUFFICES ASSUME JoiningNext PROVE UNCHANGED flow /\ (UNCHANGED <<deal, journal>> \/ Joins)
  OBVIOUS
<1>1. ASSUME NEW c \in Callers, Joining!Claim(c) PROVE Joins
  BY <1>1 DEF Joining!Claim, Joins, Joining!invitedRole, Joining!oppositeRole, Other, eventData
<1>2. ASSUME NEW c \in Callers, Joining!CallStep(c) PROVE UNCHANGED <<deal, journal>> \/ Joins
  BY <1>1, <1>2 DEF Joining!CallStep, Joining!BeginClaim, Joining!BeginReissue, Joining!BeginRevoke,
     Joining!ScanLive, Joining!Reissue, Joining!Revoke, Joining!RecordRevoke, Joining!Crash, Joining!Step
<1> QED
  BY <1>2 DEF JoiningNext, Joining!Next, Joining!bindCreatorAndIssue, Joining!Expire

LEMMA FlowInvInit == SystemInit => FlowInv
<1> SUFFICES ASSUME SystemInit PROVE FlowInv
  OBVIOUS
<1>1. Init /\ terms.creatorRole \in PartyRole /\ Unaccepted(terms.creatorRole)
  BY DEF SystemInit
<1>2. "WAITING_COUNTERPARTY" \in Held
  <2>1. TypeOK /\ TrailInv /\ deal.status = "WAITING_COUNTERPARTY"
    BY <1>1, TypeInit, TrailInit DEF Unaccepted
  <2> QED BY <2>1, StatusHeld
<1> QED
  BY <1>1, <1>2, TypeInit, MoneyInit, TrailInit, AcceptInit, CauseInit, RowsInit, GateInit DEF FlowInv

\* The trail forgets nothing.
LEMMA LifecycleHolds == [Lifecycle!Next]_(Lifecycle!vars) => Held \subseteq Held'
  BY DEF Lifecycle!Next, Lifecycle!Fund, Lifecycle!Complete, Lifecycle!Move, Lifecycle!vars

\* The steps of the flow, and those that are none of its.
LEMMA FlowInvStep ==
  ASSUME FlowInv, [Next]_vars
  PROVE  FlowInv' /\ [Lifecycle!Next]_(Lifecycle!vars)
<1>1. /\ TypeOK /\ MoneyInv /\ TrailInv /\ AcceptInv /\ CauseInv /\ GateInv
      /\ RowsOf(journal, payments, deliveries, notices)
  BY DEF FlowInv
<1>2. TrailInv' /\ [Lifecycle!Next]_(Lifecycle!vars)
  BY <1>1, TrailStep
<1>3. "WAITING_COUNTERPARTY" \in Held'
  BY <1>2, LifecycleHolds DEF FlowInv
<1>4. terms' = terms
  BY DEF Next, Begin, Continue, Commit, Crash, UploadEvidence, ReadDeal, CronSweep, Tick, vars,
     BeginAccept, BeginMockPayment, BeginMarkShipped, BeginMarkDelivered, Reconcile, DateInspection,
     BeginInspection, BeginComplete, BeginReportProblem, Hold, rows, Accept, MockPayment,
     MarkShipped, MarkDelivered, StartInspection, Complete, ReportProblem, completeIfDue
<1>5. TypeOK' /\ MoneyInv' /\ AcceptInv' /\ CauseInv' /\ GateInv'
      /\ RowsOf(journal, payments, deliveries, notices)'
  BY <1>1, TypeStep, MoneyStep, AcceptStep, CauseStep, GateStep, RowsStep
<1> QED
  BY <1>2, <1>3, <1>4, <1>5 DEF FlowInv

(***************************************************************************)
(* A claim may commit long after the deal has gone on with another user.   *)
(* To the flow its commit is one legal event from WAITING_COUNTERPARTY,    *)
(* which the deal has had.                                                 *)
(***************************************************************************)
LEMMA JoinsKeepsFlowInv ==
  ASSUME FlowInv, Joins, UNCHANGED flow
  PROVE  FlowInv' /\ Lifecycle!Next
<1> DEFINE by == Other(terms.creatorRole)
<1>1. /\ TypeOK /\ MoneyInv /\ TrailInv /\ AcceptInv /\ CauseInv /\ GateInv
      /\ RowsOf(journal, payments, deliveries, notices)
      /\ "WAITING_COUNTERPARTY" \in Held
  BY DEF FlowInv
<1>2. /\ terms' = terms /\ payments' = payments /\ deliveries' = deliveries /\ evidence' = evidence
      /\ notices' = notices /\ now' = now /\ req' = req
  BY DEF flow
<1>3. /\ by \in PartyRole /\ by \in ActorRole
      /\ PartyRole = {terms.creatorRole, by} /\ terms.creatorRole \in PartyRole
  BY DEF FlowInv, Other, PartyRole, ActorRole
<1>4. /\ deal \in DealRow
      /\ deal'.status = "WAITING_PAYMENT"
      /\ deal'.acceptedBy = deal.acceptedBy \cup {by}
  BY <1>1 DEF Joins, TypeOK, DealRow
<1>5. /\ "deal.counterparty_joined" \in EventType
      /\ "WAITING_COUNTERPARTY" \in DealStatus /\ "WAITING_PAYMENT" \in DealStatus
      /\ CanTransition("WAITING_COUNTERPARTY", "WAITING_PAYMENT")
  BY DEF EventType, DealStatus, CanTransition, allowedTransitions
<1>6. Extends("deal.counterparty_joined", "WAITING_COUNTERPARTY", "WAITING_PAYMENT", by)
  BY <1>4 DEF Joins, Extends
<1>7. TypeOK'
  <2>1. journal' \in Seq(DealEvent)
    BY <1>1, <1>3, <1>5, AppendType DEF Joins, TypeOK
  <2>2. deal' \in DealRow
    BY <1>3, <1>4, <1>5 DEF Joins, DealRow
  <2> QED BY <1>1, <1>2, <2>1, <2>2 DEF TypeOK
<1>8. TrailInv' /\ Held' = Held \cup {"WAITING_PAYMENT"}
  BY <1>1, <1>2, <1>3, <1>5, <1>6, ExtendTrail
<1>9. Lifecycle!Next
  <2>1. "WAITING_PAYMENT" \in DealStatus \ {"FUNDS_SECURED", "COMPLETED"}
    BY <1>5
  <2> QED BY <1>1, <1>2, <1>4, <1>5, <1>8, <2>1, LifecycleMove
<1>10. MoneyInv'
  BY <1>1, <1>2, <1>4 DEF MoneyInv, CompletedPaysOut, FundsBackTheDeal, FundedStatus, HoldsFunded, Paid
<1>11. AcceptInv'
  <2>1. deal.acceptedBy \subseteq PartyRole /\ (terms.creatorRole # NoRole => terms.creatorRole \in deal.acceptedBy)
    BY <1>1, <1>4 DEF AcceptInv, DealRow
  <2>2. Accepted'
    BY <1>2, <1>3, <1>4, <2>1 DEF Accepted
  <2> QED BY <1>1, <1>2, <1>4, <2>1, <2>2 DEF AcceptInv, BothAcceptBeforeMoney, Accepted, HoldsAccepted
<1>12. CauseInv'
  <2>1. ConfirmsAsBuyer'
    BY <1>1, <1>2 DEF CauseInv, ConfirmsAsBuyer
  <2> QED BY <1>1, <1>3, <1>5, <1>6, <2>1, ExtendCaused
<1>13. \A t : /\ CountIn(journal, t) \in Nat
              /\ CountIn(journal', t) = CountIn(journal, t) + (IF t = "deal.counterparty_joined" THEN 1 ELSE 0)
  BY <1>1, <1>3, <1>5, OneEventCounts DEF Joins
<1>14. RowsOf(journal, payments, deliveries, notices)'
  BY <1>1, <1>2, <1>13 DEF RowsOf
<1>15. GateInv'
  <2>1. \A t \in {"shipment.added", "mock_escrow.release_to_seller"} : CountIn(journal', t) = CountIn(journal, t)
    BY <1>13
  <2> QED BY <1>1, <1>2, <2>1, GateKept
<1> QED
  BY <1>1, <1>2, <1>3, <1>7, <1>8, <1>9, <1>10, <1>11, <1>12, <1>14, <1>15 DEF FlowInv

\* A step of the flow is a step of DealFlow.
LEMMA FlowIsDealFlow == FlowNext => Next /\ UNCHANGED joining
  BY DEF FlowNext, Next

\* Every step of the system keeps what the flow relies on and is a step of
\* the lifecycle, or none.
LEMMA SystemFlowStep ==
  ASSUME FlowInv, [SystemNext]_systemVars
  PROVE  FlowInv' /\ [Lifecycle!Next]_(Lifecycle!vars)
<1>1. CASE FlowNext
  BY <1>1, FlowIsDealFlow, FlowInvStep
<1>2. CASE UNCHANGED vars
  BY <1>2, FlowInvStep
<1>3. CASE JoiningNext
  <2>1. UNCHANGED flow
    BY <1>3, JoiningRows
  <2>2. CASE UNCHANGED <<deal, journal>>
    BY <1>2, <2>1, <2>2 DEF flow, vars
  <2>3. CASE Joins
    BY <2>1, <2>3, JoinsKeepsFlowInv
  <2> QED BY <1>3, <2>2, <2>3, JoiningRows
<1> QED
  BY <1>1, <1>2, <1>3 DEF SystemNext, systemVars

LEMMA SystemFlow == SystemSpec => []FlowInv
<1>1. FlowInv /\ [SystemNext]_systemVars => FlowInv'
  BY SystemFlowStep
<1> QED BY <1>1, FlowInvInit, PTL DEF SystemSpec


-----------------------------------------------------------------------------
(* Who is on the deal.                                                     *)

\* The creator and another user are on the deal and both have accepted it.
BothJoined ==
  /\ party[terms.creatorRole] = Creator
  /\ party[Other(terms.creatorRole)] \in Users
  /\ deal.acceptedBy = PartyRole

(***************************************************************************)
(* MoneyHasBothParties is not inductive: the payment is committed by a     *)
(* request that read the deal earlier.  It read a status that the deal has *)
(* only once both are on it; nobody leaves a deal, and a claim committed   *)
(* late puts one user in the place of another.  For the same reason no     *)
(* request of a separate acceptance ever holds the deal: while it waits    *)
(* for its counterparty there is nobody to make that request.              *)
(***************************************************************************)
CallCarries(c) ==
  /\ call[c].op # "none" => party[terms.creatorRole] = Creator
  /\ call[c].op = "claim" => call[c].user \in Users
HoldsJoined ==
  \A w \in Workers : req[w].at = "holds" => req[w].op # "accept" /\ BothJoined
PartiesInv ==
  /\ party \in [PartyRole -> Users \cup {NoUser}]
  /\ call = [c \in Callers |-> call[c]]
  /\ \A c \in Callers : CallCarries(c)
  /\ DOMAIN invitations # {} => party[terms.creatorRole] = Creator
  /\ IF deal.status = "WAITING_COUNTERPARTY" THEN party[Other(terms.creatorRole)] = NoUser
                                             ELSE BothJoined
  /\ HoldsJoined
  /\ Paid => BothJoined

LEMMA PartiesInit == SystemInit => PartiesInv
<1> SUFFICES ASSUME SystemInit PROVE PartiesInv
  OBVIOUS
<1>1. /\ party = [role \in PartyRole |-> NoUser] /\ invitations = <<>>
      /\ call = [c \in Callers |-> Joining!Idle]
      /\ terms.creatorRole \in PartyRole
  BY DEF SystemInit, Joining!InitTables, Joining!Side, PartyRole
<1>2. /\ deal.status = "WAITING_COUNTERPARTY" /\ ~Paid
      /\ \A w \in Workers : req[w].at # "holds"
  BY DEF SystemInit, Unaccepted, Init, Paid, Idle
<1>3. \A c \in Callers : CallCarries(c)
  BY <1>1 DEF CallCarries, Joining!Idle
<1>4. Other(terms.creatorRole) \in PartyRole
  BY DEF Other, PartyRole
<1> QED BY <1>1, <1>2, <1>3, <1>4 DEF PartiesInv, HoldsJoined

\* The two roles.
LEMMA Roles ==
  ASSUME FlowInv
  PROVE  /\ terms.creatorRole \in PartyRole /\ Other(terms.creatorRole) \in PartyRole
         /\ Other(terms.creatorRole) # terms.creatorRole
         /\ PartyRole = {terms.creatorRole, Other(terms.creatorRole)}
         /\ Joining!invitedRole = Other(terms.creatorRole)
         /\ Joining!Side = PartyRole
  BY DEF FlowInv, Other, PartyRole, Joining!invitedRole, Joining!oppositeRole, Joining!Side

\* A read of a status other than WAITING_COUNTERPARTY finds both on the deal.
LEMMA HoldParties ==
  ASSUME FlowInv, PartiesInv, UNCHANGED joining, NEW w \in Workers, NEW op, NEW role, NEW to, NEW date,
         Hold(w, op, role, to, date), op # "accept", deal.status # "WAITING_COUNTERPARTY"
  PROVE  PartiesInv'
<1>1. UNCHANGED <<terms, deal, payments, joining>>
  BY DEF Hold, rows
<1>2. req \in [Workers -> Request]
  BY DEF FlowInv, TypeOK
<1>3. HoldsJoined'
  BY <1>1, <1>2 DEF Hold, HoldsJoined, PartiesInv, BothJoined, joining
<1> QED
  BY <1>1, <1>3 DEF PartiesInv, joining, CallCarries, BothJoined, Paid

\* Of the statuses only WAITING_PAYMENT follows WAITING_COUNTERPARTY here.
LEMMA PastJoining ==
  ASSUME NEW to \in DealStatus \ {"WAITING_PAYMENT", "CANCELLED", "EXPIRED"},
         CanTransition(deal.status, to)
  PROVE  deal.status # "WAITING_COUNTERPARTY"
  BY DEF CanTransition, allowedTransitions, DealStatus

\* A step of the flow that lets no request hold anything, and either leaves
\* the status, or is taken with both on the deal.
LEMMA QuietParties ==
  ASSUME FlowInv, PartiesInv, UNCHANGED joining, terms' = terms,
         deal'.acceptedBy = deal.acceptedBy, Paid' => Paid \/ BothJoined,
         \/ deal'.status = deal.status
         \/ BothJoined /\ deal'.status # "WAITING_COUNTERPARTY",
         \A w \in Workers : req'[w] = req[w] \/ req'[w].at # "holds"
  PROVE  PartiesInv'
<1>1. BothJoined' <=> BothJoined
  BY DEF BothJoined, joining
<1>2. HoldsJoined'
  BY <1>1 DEF PartiesInv, HoldsJoined
<1> QED
  BY <1>1, <1>2 DEF PartiesInv, joining, CallCarries

\* The steps of the participants, the scheduler and the clock.
LEMMA FlowKeepsParties ==
  ASSUME FlowInv, PartiesInv, FlowNext
  PROVE  PartiesInv'
<1>t. /\ req \in [Workers -> Request] /\ deal \in DealRow /\ payments \in PaymentRows
      /\ UNCHANGED joining /\ TypeOK
  BY DEF FlowInv, TypeOK, FlowNext
<1>r. /\ terms.creatorRole \in PartyRole /\ PartyRole = {terms.creatorRole, Other(terms.creatorRole)}
  BY Roles
<1>1. ASSUME NEW w \in Workers, LetsGo(w)
      PROVE  \A v \in Workers : req'[v] = req[v] \/ req'[v].at # "holds"
  BY <1>1 DEF LetsGo
<1>2. ASSUME NEW w \in Workers, NEW op \in DOMAIN Reaches \ {"accept"}, NEW role, NEW date,
             Hold(w, op, role, Reaches[op], date)
      PROVE  PartiesInv'
  <2>1. Reaches[op] \in DealStatus \ {"WAITING_PAYMENT", "CANCELLED", "EXPIRED"}
    BY <1>2 DEF Reaches, DealStatus
  <2>2. deal.status # "WAITING_COUNTERPARTY"
    BY <1>2, <2>1, PastJoining DEF Hold
  <2> QED BY <1>t, <1>2, <2>2, HoldParties
<1>3. ASSUME NEW w \in Workers, LetsGo(w), UNCHANGED rows
      PROVE  PartiesInv'
  BY <1>t, <1>1, <1>3, QuietParties DEF rows, Paid
<1>4. ASSUME NEW w \in Workers, Begin(w), roleForUser(req'[w].role) PROVE PartiesInv'
  <2>1. ASSUME NEW op, NEW role, Reconcile(w, op, role) PROVE PartiesInv'
    BY <1>t, <1>3, <2>1, MovesOn DEF Reconcile
  <2>2. ASSUME NEW role \in PartyRole, BeginAccept(w, role) PROVE FALSE
    <3>1. deal.status = "WAITING_COUNTERPARTY"
      <4>1. deal.status \in DealStatus /\ CanTransition(deal.status, "WAITING_PAYMENT")
        BY <1>t, <2>2 DEF BeginAccept, Hold, DealRow
      <4> QED BY <4>1 DEF DealStatus, CanTransition, allowedTransitions
    <3>2. req'[w].role = role /\ role = Other(terms.creatorRole)
      BY <1>t, <1>r, <2>2 DEF BeginAccept, Hold
    <3> QED BY <1>4, <3>1, <3>2 DEF PartiesInv, roleForUser
  <2>3. CASE BeginMockPayment(w) \/ BeginMarkShipped(w) \/ BeginMarkDelivered(w)
    BY <1>2, <2>3 DEF BeginMockPayment, BeginMarkShipped, BeginMarkDelivered, Reaches
  <2> QED BY <1>4, <2>1, <2>2, <2>3 DEF Begin
<1>5. ASSUME NEW w \in Workers, Continue(w) PROVE PartiesInv'
  <2>1. CASE DateInspection(w)
    BY <1>t, <1>3, <2>1, MovesOn DEF DateInspection
  <2>2. CASE BeginInspection(w) \/ BeginComplete(w) \/ BeginReportProblem(w)
    BY <1>2, <2>2 DEF BeginInspection, BeginComplete, BeginReportProblem, Reaches
  <2> QED BY <1>5, <2>1, <2>2 DEF Continue
<1>6. ASSUME NEW w \in Workers, Commit(w) PROVE PartiesInv'
  <2>1. /\ ~Accept(w) /\ BothJoined
    BY <1>6 DEF Commit, Accept, MockPayment, MarkShipped, MarkDelivered, StartInspection, Complete,
                ReportProblem, Commits, PartiesInv, HoldsJoined
  <2>2. terms' = terms
    BY <1>6 DEF Commit, Accept, MockPayment, MarkShipped, MarkDelivered, StartInspection, Complete,
                ReportProblem
  <2>3. deal'.acceptedBy = deal.acceptedBy /\ deal'.status # "WAITING_COUNTERPARTY"
    BY <1>t, <1>6, <2>1 DEF Commit, MockPayment, MarkShipped, MarkDelivered, StartInspection, Complete,
                ReportProblem, transition, DealRow
  <2>4. LetsGo(w)
    BY <1>t, <1>6, MovesOn DEF Commit, Accept, MockPayment, MarkShipped, MarkDelivered, StartInspection,
                Complete, ReportProblem
  <2> QED BY <1>t, <1>1, <2>1, <2>2, <2>3, <2>4, QuietParties
<1>7. ASSUME NEW w \in Workers, Crash(w) PROVE PartiesInv'
  BY <1>t, <1>3, <1>7, MovesOn DEF Crash
<1>8. ASSUME completeIfDue, UNCHANGED <<now, req>> PROVE PartiesInv'
  <2>1. BothJoined
    BY <1>8 DEF completeIfDue, Due, PartiesInv
  <2>2. deal'.acceptedBy = deal.acceptedBy /\ deal'.status = "COMPLETED" /\ terms' = terms
    BY <1>t, <1>8 DEF completeIfDue, DealRow
  <2> QED BY <1>t, <1>8, <2>1, <2>2, QuietParties
<1>9. CASE UNCHANGED <<terms, deal, payments, req>>
  BY <1>t, <1>9, QuietParties DEF Paid
<1> QED
  BY <1>4, <1>5, <1>6, <1>7, <1>8, <1>9
  DEF FlowNext, ReadDeal, CronSweep, UploadEvidence, Tick, rows

\* A step of the invitations that is not the commit of a claim, and leaves
\* on the deal whoever is on it.
LEMMA QuietJoining ==
  ASSUME FlowInv, PartiesInv, UNCHANGED <<flow, deal, journal>>, party' = party,
         DOMAIN invitations' # {} => party[terms.creatorRole] = Creator,
         call' = [c \in Callers |-> call'[c]], \A c \in Callers : CallCarries(c)'
  PROVE  PartiesInv'
<1>1. UNCHANGED <<terms, deal, payments, req, party>>
  BY DEF flow
<1> QED
  BY <1>1 DEF PartiesInv, HoldsJoined, BothJoined, Paid

\* The steps of the callers.
LEMMA JoiningKeepsParties ==
  ASSUME FlowInv, PartiesInv, JoiningNext
  PROVE  PartiesInv'
<1>r. /\ terms.creatorRole \in PartyRole /\ Other(terms.creatorRole) \in PartyRole
      /\ Other(terms.creatorRole) # terms.creatorRole
      /\ PartyRole = {terms.creatorRole, Other(terms.creatorRole)}
      /\ Joining!invitedRole = Other(terms.creatorRole) /\ Joining!Side = PartyRole
  BY Roles
<1>t. /\ call = [c \in Callers |-> call[c]] /\ \A c \in Callers : CallCarries(c)
      /\ party \in [PartyRole -> Users \cup {NoUser}]
      /\ UNCHANGED flow /\ terms' = terms
  BY DEF PartiesInv, JoiningNext, flow
<1>1. ASSUME NEW recipient \in Users, Joining!bindCreatorAndIssue(recipient) PROVE PartiesInv'
  <2>1. /\ deal.status = "WAITING_COUNTERPARTY" /\ UNCHANGED <<deal, call, terms, payments, req>>
        /\ \A role \in PartyRole : party[role] = NoUser
        /\ party' = [party EXCEPT ![terms.creatorRole] = Creator]
    BY <1>1, <1>r, <1>t DEF Joining!bindCreatorAndIssue, flow
  <2>2. /\ party' \in [PartyRole -> Users \cup {NoUser}]
        /\ party'[terms.creatorRole] = Creator
        /\ party'[Other(terms.creatorRole)] = NoUser
    BY <1>r, <1>t, <2>1, SystemUsersAssumption
  <2>3. ~BothJoined
    BY <1>r, <2>1, SystemUsersAssumption DEF BothJoined
  <2>4. HoldsJoined' /\ (Paid' => BothJoined')
    BY <2>1, <2>3 DEF PartiesInv, HoldsJoined, Paid
  <2>5. \A c \in Callers : CallCarries(c)'
    BY <1>t, <2>1, <2>2 DEF CallCarries
  <2> QED BY <1>t, <2>1, <2>2, <2>4, <2>5 DEF PartiesInv
<1>2. ASSUME NEW c \in Callers, Joining!CallStep(c) PROVE PartiesInv'
  <2>1. ASSUME NEW op, NEW user, NEW at, NEW seen, Joining!Step(c, op, user, at, seen),
               party[terms.creatorRole] = Creator, op = "claim" => user \in Users
        PROVE  PartiesInv'
    <3>1. /\ call' = [call EXCEPT ![c] = [op |-> op, user |-> user, at |-> at, seen |-> seen]]
          /\ UNCHANGED <<deal, journal, party, invitations>>
      BY <2>1 DEF Joining!Step
    <3>2. /\ call' = [d \in Callers |-> call'[d]]
          /\ call'[c].op = op /\ call'[c].user = user
          /\ \A d \in Callers \ {c} : call'[d] = call[d]
      BY <1>t, <3>1
    <3>3. \A d \in Callers : CallCarries(d)'
      BY <1>t, <2>1, <3>1, <3>2 DEF CallCarries
    <3> QED BY <1>t, <2>1, <3>1, <3>2, <3>3, QuietJoining
  <2>2. ASSUME Joining!Return(c)
        PROVE  /\ call' = [d \in Callers |-> call'[d]]
               /\ call'[c].op = "none"
               /\ \A d \in Callers \ {c} : call'[d] = call[d]
    BY <1>t, <2>2 DEF Joining!Return, Joining!Idle
  <2>3. ASSUME NEW user \in Users, NEW i \in DOMAIN invitations, Joining!BeginClaim(c, user, i)
        PROVE  PartiesInv'
    <3>1. party[terms.creatorRole] = Creator
      BY <2>3 DEF PartiesInv
    <3> QED BY <2>1, <2>3, <3>1 DEF Joining!BeginClaim
  <2>4. CASE (\E recipient \in Users : Joining!BeginReissue(c, recipient)) \/ Joining!BeginRevoke(c)
    BY <2>1, <2>4 DEF Joining!BeginReissue, Joining!BeginRevoke, Joining!assertCreatorWaiting
  <2>5. CASE Joining!ScanLive(c)
    <3>1. party[terms.creatorRole] = Creator
      BY <1>t, <2>5 DEF Joining!ScanLive, CallCarries
    <3> QED BY <2>1, <2>5, <3>1 DEF Joining!ScanLive
  <2>6. CASE Joining!Claim(c)
    <3>1. /\ call[c].user \in Users /\ party[terms.creatorRole] = Creator
          /\ Joining!Return(c) /\ UNCHANGED <<terms, payments, req>>
          /\ party' = [party EXCEPT ![Other(terms.creatorRole)] = call[c].user]
      BY <1>r, <1>t, <2>6 DEF Joining!Claim, CallCarries, flow
    <3>2. /\ party' \in [PartyRole -> Users \cup {NoUser}]
          /\ party'[terms.creatorRole] = Creator
          /\ party'[Other(terms.creatorRole)] \in Users
      BY <1>r, <1>t, <3>1
    <3>3. deal'.status = "WAITING_PAYMENT" /\ deal'.acceptedBy = PartyRole
      <4>1. /\ deal \in DealRow /\ terms.creatorRole \in deal.acceptedBy
        BY <1>r, NoRoleAssumption DEF FlowInv, TypeOK, AcceptInv
      <4> QED BY <1>r, <2>6, <4>1 DEF Joining!Claim, DealRow
    <3>4. BothJoined'
      BY <3>1, <3>2, <3>3 DEF BothJoined
    <3>5. HoldsJoined'
      BY <3>1, <3>4 DEF PartiesInv, HoldsJoined
    <3>6. \A d \in Callers : CallCarries(d)'
      BY <1>t, <2>2, <3>1, <3>2 DEF CallCarries
    <3> QED BY <1>t, <2>2, <3>1, <3>2, <3>3, <3>4, <3>5, <3>6 DEF PartiesInv
  <2>7. CASE Joining!Reissue(c) \/ Joining!RecordRevoke(c) \/ Joining!Crash(c)
    <3>1. Joining!Return(c) /\ UNCHANGED <<deal, journal, party>>
      BY <2>7 DEF Joining!Reissue, Joining!RecordRevoke, Joining!Crash
    <3>2. \A d \in Callers : CallCarries(d)'
      BY <1>t, <2>2, <3>1 DEF CallCarries
    <3>3. DOMAIN invitations' # {} => party[terms.creatorRole] = Creator
      <4>1. CASE Joining!Reissue(c)
        BY <1>t, <4>1 DEF Joining!Reissue, CallCarries
      <4>2. CASE Joining!RecordRevoke(c) \/ Joining!Crash(c)
        BY <4>2 DEF Joining!RecordRevoke, Joining!Crash, PartiesInv
      <4> QED BY <2>7, <4>1, <4>2
    <3> QED BY <1>t, <2>2, <3>1, <3>2, <3>3, QuietJoining
  <2>8. CASE Joining!Revoke(c)
    <3>1. /\ call' = [call EXCEPT ![c].at = "revoked"] /\ UNCHANGED <<deal, journal, party>>
          /\ call[c].op = "revoke"
      BY <2>8 DEF Joining!Revoke
    <3>2. /\ call' = [d \in Callers |-> call'[d]]
          /\ \A d \in Callers \ {c} : call'[d] = call[d]
          /\ call'[c] = [call[c] EXCEPT !.at = "revoked"]
      BY <1>t, <3>1
    <3>3. party[terms.creatorRole] = Creator
      BY <1>t, <3>1 DEF CallCarries
    <3>4. \A d \in Callers : CallCarries(d)'
      BY <1>t, <3>1, <3>2, <3>3 DEF CallCarries
    <3> QED BY <1>t, <3>1, <3>2, <3>3, <3>4, QuietJoining
  <2> QED BY <1>2, <2>3, <2>4, <2>5, <2>6, <2>7, <2>8 DEF Joining!CallStep
<1>3. ASSUME NEW i \in DOMAIN invitations, Joining!Expire(i) PROVE PartiesInv'
  <2>1. party[terms.creatorRole] = Creator /\ UNCHANGED <<deal, journal, party, call>>
    BY <1>3 DEF PartiesInv, Joining!Expire
  <2>2. call' = [c \in Callers |-> call'[c]] /\ \A c \in Callers : CallCarries(c)'
    BY <1>t, <2>1 DEF CallCarries
  <2> QED BY <1>t, <2>1, <2>2, QuietJoining
<1> QED
  BY <1>1, <1>2, <1>3 DEF JoiningNext, Joining!Next

LEMMA PartiesStep == FlowInv /\ PartiesInv /\ [SystemNext]_systemVars => PartiesInv'
<1>1. FlowInv /\ PartiesInv /\ UNCHANGED systemVars => PartiesInv'
  BY DEF systemVars, vars, joining, PartiesInv, CallCarries, HoldsJoined, BothJoined, Paid
<1> QED
  BY <1>1, FlowKeepsParties, JoiningKeepsParties DEF SystemNext

LEMMA SystemParties == SystemSpec => []PartiesInv
  BY SystemFlow, PartiesInit, PartiesStep, PTL DEF SystemSpec

-----------------------------------------------------------------------------
(* What the whole system keeps.                                            *)

\* The rows keep their types while claims and requests race.
THEOREM SystemTypeCorrect == SystemSpec => []TypeOK
<1>1. FlowInv => TypeOK
  BY DEF FlowInv
<1> QED BY <1>1, SystemFlow, PTL

\* Money is on a deal only with its two parties on it and agreed, whichever
\* claims and payments race (MoneyHasBothParties).
THEOREM MoneyHasBothPartiesAlways == SystemSpec => []MoneyHasBothParties
<1>1. ASSUME FlowInv, PartiesInv PROVE MoneyHasBothParties
  <2>1. ASSUME Paid PROVE \A role \in PartyRole : party[role] # NoUser
    BY <1>1, <2>1, Roles, SystemUsersAssumption DEF PartiesInv, BothJoined
  <2> QED BY <1>1, <2>1 DEF PartiesInv, BothJoined, MoneyHasBothParties, Paid
<1> QED BY <1>1, SystemFlow, SystemParties, PTL

\* A deal that a late claim has sent back to payment releases all that was
\* paid on it (PaidTwiceIsReleasedTwice).
THEOREM PaidTwiceIsReleasedTwiceAlways == SystemSpec => []PaidTwiceIsReleasedTwice
<1>1. ASSUME FlowInv PROVE PaidTwiceIsReleasedTwice
  <2>1. TypeOK /\ CompletedPaysOut /\ RowsOf(journal, payments, deliveries, notices)
    BY <1>1 DEF FlowInv, MoneyInv
  <2>2. payments.RELEASED \in Nat
    BY <2>1 DEF TypeOK, PaymentRows
  <2> QED BY <2>1, <2>2 DEF CompletedPaysOut, RowsOf, CountIn, Count, PaidTwiceIsReleasedTwice
<1> QED BY <1>1, SystemFlow, PTL

\* What DealFlow promises of a deal it finds with both parties on it, it
\* keeps on a deal that they are joining: the money, the trail, the causes
\* of a release, the acceptances, the rows and the gates.
THEOREM FlowKeptWhileJoining ==
  SystemSpec => [](/\ CompletedPaysOut /\ FundsBackTheDeal
                   /\ AuditTrailEndsAtStatus /\ EveryEventIsGrounded
                   /\ RowsMatchAuditTrail /\ ReleaseHasCause
                   /\ EvidenceGates /\ BothAcceptBeforeMoney)
<1>1. ASSUME FlowInv
      PROVE  /\ CompletedPaysOut /\ FundsBackTheDeal
             /\ AuditTrailEndsAtStatus /\ EveryEventIsGrounded
             /\ RowsMatchAuditTrail /\ ReleaseHasCause
             /\ EvidenceGates /\ BothAcceptBeforeMoney
  <2>1. CompletedPaysOut /\ FundsBackTheDeal /\ AuditTrailEndsAtStatus /\ EveryEventIsGrounded
        /\ BothAcceptBeforeMoney
    BY <1>1 DEF FlowInv, MoneyInv, TrailInv, AcceptInv
  <2>2. RowsMatchAuditTrail
    BY <1>1 DEF FlowInv, RowsOf, CountIn, RowsMatchAuditTrail, Count
  <2>3. ReleaseHasCause
    BY <1>1 DEF FlowInv, CauseInv, Caused, HasCause, ReleaseHasCause
  <2>4. EvidenceGates
    BY <1>1 DEF FlowInv, GateInv, GatesOpen, CountIn, EvidenceGates, Count
  <2> QED BY <2>1, <2>2, <2>3, <2>4
<1> QED BY <1>1, SystemFlow, PTL

\* The deal leaves WAITING_COUNTERPARTY exactly when its second user is on
\* it and has accepted, also when the flow moves it between the two steps of
\* a claim (JoinedAltogether, of Invitations).
THEOREM JoinedAltogetherInSystem == SystemSpec => []Joining!JoinedAltogether
<1>1. ASSUME FlowInv, PartiesInv PROVE Joining!JoinedAltogether
  BY <1>1, Roles, SystemUsersAssumption DEF PartiesInv, BothJoined, Joining!JoinedAltogether
<1> QED BY <1>1, SystemFlow, SystemParties, PTL

\* The whole system implements the lifecycle: what a late claim does is one
\* of its moves.
THEOREM SystemImplementsLifecycle == SystemSpec => ImplementsLifecycle
<1>1. SystemInit => Lifecycle!Init
  BY LifecycleInit DEF SystemInit
<1>2. FlowInv /\ [SystemNext]_systemVars => [Lifecycle!Next]_(Lifecycle!vars)
  BY SystemFlowStep
<1> QED BY <1>1, <1>2, SystemFlow, PTL DEF SystemSpec, ImplementsLifecycle, Lifecycle!Spec

-----------------------------------------------------------------------------
(***************************************************************************)
(* The system implements Invitations: its deal is what the invitations see *)
(* of the row (seenDeal), its journal the events of joining (seenJournal). *)
(***************************************************************************)
joined(creator) ==
  eventData("deal.counterparty_joined", "WAITING_COUNTERPARTY", "WAITING_PAYMENT", Other(creator))

\* One event more.
LEMMA SameEvents ==
  ASSUME NEW n \in Nat, NEW e
  PROVE  Append([i \in 1 .. n |-> e], e) = [i \in 1 .. n + 1 |-> e]
<1> DEFINE s == [i \in 1 .. n |-> e]
           t == Append(s, e)
<1>1. s \in Seq({e}) /\ Len(s) = n
  OBVIOUS
<1>2. Len(t) = n + 1 /\ t \in Seq({e}) /\ DOMAIN t = 1 .. n + 1
  BY <1>1
<1>3. \A i \in 1 .. n + 1 : t[i] = e
  BY <1>2
<1>4. t = [i \in 1 .. n + 1 |-> t[i]]
  BY <1>2
<1> HIDE DEF t
<1>5. [i \in 1 .. n + 1 |-> t[i]] = [i \in 1 .. n + 1 |-> e]
  BY <1>3
<1> QED BY <1>4, <1>5 DEF t

\* The flow moves no deal from, or to, WAITING_COUNTERPARTY and takes and
\* gives no acceptance.
LEMMA FlowIsUnseen ==
  ASSUME FlowInv, PartiesInv, FlowNext
  PROVE  UNCHANGED <<terms, seenDeal, seenJournal, joining>>
<1>t. /\ deal \in DealRow /\ TypeOK /\ UNCHANGED joining
  BY DEF FlowInv, TypeOK, FlowNext
<1>r. BothJoined => deal.status # "WAITING_COUNTERPARTY"
  BY Roles, SystemUsersAssumption DEF PartiesInv, BothJoined
<1>1. CASE UNCHANGED <<terms, deal, journal>>
  BY <1>t, <1>1 DEF seenDeal, seenJournal, Count
<1>2. ASSUME terms' = terms, deal'.acceptedBy = deal.acceptedBy,
             deal.status # "WAITING_COUNTERPARTY", deal'.status # "WAITING_COUNTERPARTY",
             CountIn(journal', "deal.counterparty_joined") = CountIn(journal, "deal.counterparty_joined")
      PROVE  UNCHANGED <<terms, seenDeal, seenJournal, joining>>
  BY <1>t, <1>2 DEF seenDeal, seenJournal, Count, CountIn
<1>3. ASSUME NEW w \in Workers, Begin(w) \/ Continue(w) \/ Crash(w) PROVE UNCHANGED <<terms, deal, journal>>
  BY <1>3 DEF Begin, Continue, Crash, BeginAccept, BeginMockPayment, BeginMarkShipped,
              BeginMarkDelivered, Reconcile, DateInspection, BeginInspection, BeginComplete,
              BeginReportProblem, Hold, rows
<1>4. ASSUME NEW w \in Workers, Commit(w) PROVE UNCHANGED <<terms, seenDeal, seenJournal, joining>>
  <2>1. ~Accept(w) /\ BothJoined
    BY <1>4 DEF Commit, Accept, MockPayment, MarkShipped, MarkDelivered, StartInspection, Complete,
                ReportProblem, Commits, PartiesInv, HoldsJoined
  <2>2. terms' = terms /\ deal'.acceptedBy = deal.acceptedBy /\ deal'.status # "WAITING_COUNTERPARTY"
    BY <1>t, <1>4, <2>1 DEF Commit, MockPayment, MarkShipped, MarkDelivered, StartInspection, Complete,
                ReportProblem, transition, DealRow
  <2>3. CountIn(journal', "deal.counterparty_joined") = CountIn(journal, "deal.counterparty_joined")
    BY <1>t, <1>4, CommitCounts DEF Recorded
  <2> QED BY <1>2, <1>r, <2>1, <2>2, <2>3
<1>5. ASSUME completeIfDue PROVE UNCHANGED <<terms, seenDeal, seenJournal, joining>>
  <2>1. /\ terms' = terms /\ deal.status # "WAITING_COUNTERPARTY"
        /\ deal'.acceptedBy = deal.acceptedBy /\ deal'.status = "COMPLETED"
    BY <1>t, <1>5 DEF completeIfDue, Due, DealRow
  <2>2. CountIn(journal', "deal.counterparty_joined") = CountIn(journal, "deal.counterparty_joined")
    BY <1>t, <1>5, TimeoutCounts
  <2> QED BY <1>2, <2>1, <2>2
<1> QED
  BY <1>1, <1>3, <1>4, <1>5 DEF FlowNext, ReadDeal, CronSweep, UploadEvidence, Tick, rows

\* What a step of the invitations does, they see it do.
LEMMA JoiningIsSeen ==
  ASSUME FlowInv, PartiesInv, JoiningNext
  PROVE  SeenJoining!Next
<1>t. /\ deal \in DealRow /\ TypeOK /\ terms' = terms
  BY DEF FlowInv, TypeOK, JoiningNext, flow
<1>r. /\ SeenJoining!invitedRole = Other(terms.creatorRole)
      /\ Joining!invitedRole = Other(terms.creatorRole)
      /\ Other(terms.creatorRole) \in PartyRole
  BY Roles DEF SeenJoining!invitedRole, SeenJoining!oppositeRole, Other
<1>s. deal.status = "WAITING_COUNTERPARTY" <=> seenDeal.status = "WAITING_COUNTERPARTY"
  BY DEF seenDeal
<1>u. UNCHANGED <<deal, journal>> => UNCHANGED <<seenDeal, seenJournal>>
  BY <1>t DEF seenDeal, seenJournal, Count
<1>1. ASSUME NEW recipient \in Users, Joining!bindCreatorAndIssue(recipient)
      PROVE  SeenJoining!bindCreatorAndIssue(recipient)
  BY <1>1, <1>t, <1>s, <1>u
  DEF Joining!bindCreatorAndIssue, SeenJoining!bindCreatorAndIssue, Joining!Side, SeenJoining!Side,
      Joining!Revoked, SeenJoining!Revoked, Joining!LiveInvitations, SeenJoining!LiveInvitations,
      Joining!Live, SeenJoining!Live, Joining!personal, SeenJoining!personal
<1>2. ASSUME NEW c \in Callers, Joining!Claim(c) PROVE SeenJoining!Claim(c)
  <2>1. Joins
    BY <1>2, <1>r DEF Joining!Claim, Joins, eventData
  <2>2. seenDeal' = [seenDeal EXCEPT !.status = "WAITING_PAYMENT", !.acceptedBy = @ \cup {Other(terms.creatorRole)}]
    <3>1. /\ deal'.status = "WAITING_PAYMENT"
          /\ deal'.acceptedBy = deal.acceptedBy \cup {Other(terms.creatorRole)}
      BY <1>t, <2>1 DEF Joins, DealRow
    <3> DEFINE Row == [status : DealStatus, acceptedBy : SUBSET PartyRole]
    <3>2. /\ seenDeal \in Row /\ seenDeal.acceptedBy = deal.acceptedBy
          /\ seenDeal' \in Row /\ seenDeal'.status = "WAITING_PAYMENT"
          /\ seenDeal'.acceptedBy = deal.acceptedBy \cup {Other(terms.creatorRole)}
      BY <1>t, <1>r, <3>1 DEF seenDeal, DealRow, DealStatus
    <3> HIDE DEF Row
    <3> DEFINE next == [seenDeal EXCEPT !.status = "WAITING_PAYMENT",
                                        !.acceptedBy = @ \cup {Other(terms.creatorRole)}]
    <3>3. /\ next \in Row /\ next.status = "WAITING_PAYMENT"
          /\ next.acceptedBy = deal.acceptedBy \cup {Other(terms.creatorRole)}
      BY <1>r, <3>2 DEF DealStatus, Row
    <3>4. \A q, r \in Row : q.status = r.status /\ q.acceptedBy = r.acceptedBy => q = r
      BY DEF Row
    <3> HIDE DEF next
    <3>5. seenDeal' = next
      BY <3>2, <3>3, <3>4
    <3> QED BY <3>5 DEF next
  <2>3. seenJournal' = Append(seenJournal, joined(terms.creatorRole))
    <3>1. /\ CountIn(journal, "deal.counterparty_joined") \in Nat
          /\ CountIn(journal', "deal.counterparty_joined") = CountIn(journal, "deal.counterparty_joined") + 1
      <4>1. /\ "deal.counterparty_joined" \in EventType /\ Other(terms.creatorRole) \in ActorRole
            /\ "WAITING_COUNTERPARTY" \in DealStatus /\ "WAITING_PAYMENT" \in DealStatus
        BY <1>r DEF EventType, DealStatus, ActorRole
      <4> QED BY <1>t, <2>1, <4>1, OneEventCounts DEF Joins
    <3> DEFINE n == CountIn(journal, "deal.counterparty_joined")
               e == joined(terms.creatorRole)
    <3>2. seenJournal = [i \in 1 .. n |-> e] /\ seenJournal' = [i \in 1 .. n + 1 |-> e]
      BY <1>t, <3>1 DEF seenJournal, joined, Count, CountIn
    <3> HIDE DEF n, e
    <3>3. n \in Nat
      BY <3>1 DEF n
    <3>4. seenJournal' = Append(seenJournal, e)
      BY <3>2, <3>3, SameEvents
    <3> QED BY <3>4 DEF e
  <2> QED
    BY <1>2, <1>t, <1>r, <2>2, <2>3
    DEF Joining!Claim, SeenJoining!Claim, joined, eventData, Joining!Return, SeenJoining!Return,
        Joining!Idle, SeenJoining!Idle, Joining!Revoked, SeenJoining!Revoked,
        Joining!LiveInvitations, SeenJoining!LiveInvitations, Joining!Live, SeenJoining!Live
<1>3. ASSUME NEW c \in Callers, Joining!CallStep(c) PROVE SeenJoining!CallStep(c)
  <2>1. ASSUME NEW user \in Users, NEW i \in DOMAIN invitations, Joining!BeginClaim(c, user, i)
        PROVE  SeenJoining!BeginClaim(c, user, i)
    BY <1>t, <1>r, <1>s, <1>u, <2>1
    DEF Joining!BeginClaim, SeenJoining!BeginClaim, Joining!assertUsable, SeenJoining!assertUsable,
        Joining!assertRecipient, SeenJoining!assertRecipient, Joining!Step, SeenJoining!Step,
        Joining!Idle, SeenJoining!Idle, Joining!Live, SeenJoining!Live
  <2>2. ASSUME NEW recipient \in Users, Joining!BeginReissue(c, recipient)
        PROVE  SeenJoining!BeginReissue(c, recipient)
    BY <1>t, <1>s, <1>u, <2>2
    DEF Joining!BeginReissue, SeenJoining!BeginReissue, Joining!assertCreatorWaiting,
        SeenJoining!assertCreatorWaiting, Joining!Step, SeenJoining!Step, Joining!Idle, SeenJoining!Idle
  <2>3. Joining!BeginRevoke(c) => SeenJoining!BeginRevoke(c)
    BY <1>t, <1>s, <1>u
    DEF Joining!BeginRevoke, SeenJoining!BeginRevoke, Joining!assertCreatorWaiting,
        SeenJoining!assertCreatorWaiting, Joining!Step, SeenJoining!Step, Joining!Idle, SeenJoining!Idle
  <2>4. Joining!ScanLive(c) => SeenJoining!ScanLive(c)
    BY <1>t, <1>u
    DEF Joining!ScanLive, SeenJoining!ScanLive, Joining!Step, SeenJoining!Step,
        Joining!LiveInvitations, SeenJoining!LiveInvitations, Joining!Live, SeenJoining!Live
  <2>5. Joining!Reissue(c) => SeenJoining!Reissue(c)
    BY <1>t, <1>u
    DEF Joining!Reissue, SeenJoining!Reissue, Joining!Return, SeenJoining!Return, Joining!Idle,
        SeenJoining!Idle, Joining!Revoked, SeenJoining!Revoked, Joining!Live, SeenJoining!Live,
        Joining!personal, SeenJoining!personal
  <2>6. Joining!Revoke(c) => SeenJoining!Revoke(c)
    BY <1>t, <1>u
    DEF Joining!Revoke, SeenJoining!Revoke, Joining!Revoked, SeenJoining!Revoked,
        Joining!LiveInvitations, SeenJoining!LiveInvitations, Joining!Live, SeenJoining!Live
  <2>7. Joining!RecordRevoke(c) => SeenJoining!RecordRevoke(c)
    BY <1>t, <1>u
    DEF Joining!RecordRevoke, SeenJoining!RecordRevoke, Joining!Return, SeenJoining!Return,
        Joining!Idle, SeenJoining!Idle
  <2>8. Joining!Crash(c) => SeenJoining!Crash(c)
    BY <1>t, <1>u
    DEF Joining!Crash, SeenJoining!Crash, Joining!Return, SeenJoining!Return, Joining!Idle, SeenJoining!Idle
  <2> QED
    BY <1>2, <1>3, <2>1, <2>2, <2>3, <2>4, <2>5, <2>6, <2>7, <2>8 DEF Joining!CallStep, SeenJoining!CallStep
<1>4. ASSUME NEW i \in DOMAIN invitations, Joining!Expire(i) PROVE SeenJoining!Expire(i)
  BY <1>4, <1>t, <1>u DEF Joining!Expire, SeenJoining!Expire
<1> QED
  BY <1>1, <1>3, <1>4 DEF JoiningNext, Joining!Next, SeenJoining!Next

\* The flow is invisible to the invitations, whichever claims and requests
\* race (ImplementsInvitations).
THEOREM SystemImplementsInvitations == SystemSpec => ImplementsInvitations
<1>1. SystemInit => SeenJoining!Init
  <2> SUFFICES ASSUME SystemInit PROVE SeenJoining!Init
    OBVIOUS
  <2>1. /\ terms.creatorRole \in PartyRole /\ Unaccepted(terms.creatorRole) /\ Joining!InitTables
    BY DEF SystemInit
  <2>2. seenDeal = [status |-> "WAITING_COUNTERPARTY", acceptedBy |-> {terms.creatorRole}]
    BY <2>1 DEF Unaccepted, seenDeal
  <2>3. seenJournal = << >>
    <3>1. PICK e : journal = << e >> /\ e.type = "deal.created"
      BY <2>1 DEF Unaccepted
    <3>2. DOMAIN journal = {1} /\ journal[1] = e
      BY <3>1
    <3>3. {i \in DOMAIN journal : journal[i].type = "deal.counterparty_joined"} = {}
      BY <3>1, <3>2
    <3>4. Count("deal.counterparty_joined") = 0
      BY <3>3, FS_EmptySet DEF Count
    <3> QED BY <3>4 DEF seenJournal
  <2> QED
    BY <2>1, <2>2, <2>3
    DEF SeenJoining!Init, SeenJoining!Side, PartyRole, Joining!InitTables, SeenJoining!InitTables,
        Joining!Side, Joining!Idle, SeenJoining!Idle
<1>2. FlowInv /\ PartiesInv /\ [SystemNext]_systemVars => [SeenJoining!Next]_(SeenJoining!vars)
  <2> SUFFICES ASSUME FlowInv, PartiesInv, [SystemNext]_systemVars
               PROVE  SeenJoining!Next \/ UNCHANGED SeenJoining!vars
    OBVIOUS
  <2>1. CASE FlowNext
    BY <2>1, FlowIsUnseen DEF SeenJoining!vars, joining
  <2>2. CASE JoiningNext
    BY <2>2, JoiningIsSeen
  <2>3. CASE UNCHANGED systemVars
    BY <2>3 DEF systemVars, vars, joining, SeenJoining!vars, seenDeal, seenJournal, Count
  <2> QED BY <2>1, <2>2, <2>3 DEF SystemNext
<1> QED
  BY <1>1, <1>2, SystemFlow, SystemParties, PTL DEF SystemSpec, ImplementsInvitations, SeenJoining!Spec

-----------------------------------------------------------------------------
(* What is proved of the invitations by themselves holds in the system.    *)

Seen == INSTANCE InvitationsProofs WITH
  creatorRole <- terms.creatorRole, deal <- seenDeal, journal <- seenJournal, serial <- FALSE

\* The invitations as the system sees them are those the proofs are about.
LEMMA SameInvitations == SeenJoining!Spec => Seen!Spec
<1>1. SeenJoining!Init => Seen!Init
  BY DEF SeenJoining!Init, SeenJoining!InitTables, SeenJoining!Side, SeenJoining!Idle,
         Seen!Init, Seen!InitTables, Seen!Side, Seen!Idle
<1>2. ASSUME NEW recipient \in Users, SeenJoining!bindCreatorAndIssue(recipient)
      PROVE  Seen!bindCreatorAndIssue(recipient)
  BY <1>2 DEF SeenJoining!bindCreatorAndIssue, SeenJoining!Side, SeenJoining!personal,
              SeenJoining!Revoked, SeenJoining!LiveInvitations, SeenJoining!Live,
              Seen!bindCreatorAndIssue, Seen!Side, Seen!personal, Seen!Revoked,
              Seen!LiveInvitations, Seen!Live
<1>3. ASSUME NEW c \in Callers, SeenJoining!CallStep(c) PROVE Seen!CallStep(c)
  BY <1>3
  DEF SeenJoining!CallStep, SeenJoining!BeginClaim, SeenJoining!assertUsable, SeenJoining!assertRecipient,
      SeenJoining!Claim, SeenJoining!BeginReissue, SeenJoining!assertCreatorWaiting, SeenJoining!ScanLive,
      SeenJoining!Reissue, SeenJoining!BeginRevoke, SeenJoining!Revoke, SeenJoining!RecordRevoke,
      SeenJoining!Crash, SeenJoining!Step, SeenJoining!Return, SeenJoining!Idle, SeenJoining!Revoked,
      SeenJoining!LiveInvitations, SeenJoining!Live, SeenJoining!personal, SeenJoining!invitedRole,
      SeenJoining!oppositeRole,
      Seen!CallStep, Seen!BeginClaim, Seen!assertUsable, Seen!assertRecipient,
      Seen!Claim, Seen!BeginReissue, Seen!assertCreatorWaiting, Seen!ScanLive,
      Seen!Reissue, Seen!BeginRevoke, Seen!Revoke, Seen!RecordRevoke,
      Seen!Crash, Seen!Step, Seen!Return, Seen!Idle, Seen!Revoked,
      Seen!LiveInvitations, Seen!Live, Seen!personal, Seen!invitedRole, Seen!oppositeRole
<1>4. [SeenJoining!Next]_(SeenJoining!vars) => [Seen!Next]_(Seen!vars)
  BY <1>2, <1>3
  DEF SeenJoining!Next, SeenJoining!vars, SeenJoining!Expire, Seen!Next, Seen!vars, Seen!Expire
<1> QED
  BY <1>1, <1>4, PTL DEF SeenJoining!Spec, Seen!Spec

\* Whoever has the second seat of a deal, at whatever point of its flow, has
\* claimed an invitation that named him, and is not the creator
\* (CounterpartyWasInvited, of Invitations).
THEOREM CounterpartyWasInvitedInSystem == SystemSpec => []SeenJoining!CounterpartyWasInvited
<1>1. Seen!UsersAssumption /\ Seen!BoundsAssumption
  BY SystemUsersAssumption, SystemBoundsAssumption DEF Seen!UsersAssumption, Seen!BoundsAssumption
<1>2. Seen!Spec => []Seen!CounterpartyWasInvited
  BY <1>1, Seen!CounterpartyWasInvitedAlways
<1>3. Seen!CounterpartyWasInvited => SeenJoining!CounterpartyWasInvited
  BY DEF Seen!CounterpartyWasInvited, Seen!invitedRole, Seen!oppositeRole,
         SeenJoining!CounterpartyWasInvited, SeenJoining!invitedRole, SeenJoining!oppositeRole
<1> QED
  BY <1>2, <1>3, SystemImplementsInvitations, SameInvitations, PTL DEF ImplementsInvitations

=============================================================================
