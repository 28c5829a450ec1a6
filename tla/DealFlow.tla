------------------------------ MODULE DealFlow ------------------------------
(***************************************************************************)
(* One deal from the moment both parties are on it, under concurrent API   *)
(* requests: deals.service.ts, the guards of deals.controller.ts and the   *)
(* conditional completion of inspection-automation.service.ts.             *)
(*                                                                         *)
(* A worker is one HTTP request in flight.  PostgreSQL runs the handlers'  *)
(* transactions at READ COMMITTED: a transaction is two steps, the read of *)
(* the deal with assertCanTransition, and the commit of everything it      *)
(* writes; the UPDATE is `where id', so it overwrites whatever another     *)
(* request has committed in between.  completeIfDue is different, its      *)
(* UPDATE carries its condition, so it is one step.  A request may vanish  *)
(* between any two steps (Crash); what it had not committed is lost.       *)
(*                                                                         *)
(* The tables are the variables: `deal' is the row, `payments' and         *)
(* `deliveries' count rows by status (rows of a status are interchangeable *)
(* here), `journal' is its changes of status, as DealEvents, `evidence' the  *)
(* EvidenceFiles and `notices' the SYSTEM DisputeMessages.                 *)
(***************************************************************************)
EXTENDS DealStateMachine, ProtectionChecklist, Integers, Sequences, FiniteSets

CONSTANTS
  Workers,            \* requests that may be in flight at the same time
  Plans, Categories,  \* the plans and categories the deals of a run have
  Creators, Origins,  \* who created them (NoRole: unknown), and how they began
  MockEscrowEnabled,  \* process.env.MOCK_ESCROW_ENABLED # 'false'
  InspectionHours,    \* deal.inspectionHours, in ticks of the clock
  MaxEvents,          \* bound: no transaction begins on a longer journal
  MaxTime,            \* bound: the clock stops here, or at a later deadline
  NoTime,             \* a timestamp column that is NULL
  NoRole              \* deal.creatorRole of a row older than invitations

ASSUME PlansAssumption == Plans \subseteq ProtectionPlan
ASSUME CreatorsAssumption == Creators \subseteq PartyRole \cup {NoRole}
ASSUME OriginsAssumption == Origins \subseteq {"joined", "unaccepted"}
ASSUME CategoriesAssumption == Categories \subseteq DealCategory
ASSUME TimeAssumption ==
  /\ InspectionHours \in Nat \ {0}
  /\ MaxTime \in Nat
  /\ MaxEvents \in Nat
  /\ NoTime \notin Nat
ASSUME NoRoleAssumption == NoRole \notin PartyRole
ASSUME EscrowAssumption == MockEscrowEnabled \in BOOLEAN

VARIABLES
  terms,       \* what the deal's creation fixed: category, plan, creatorRole
  deal,        \* status, dates, and who has an acceptedBy...At
  payments,    \* how many FUNDS_SECURED and RELEASED payments
  deliveries,  \* how many SHIPPED and DELIVERED deliveries
  evidence,    \* the evidence files
  journal,     \* the events that change the status, oldest first
  notices,     \* how many SYSTEM dispute messages
  now,         \* the clock
  req          \* for each worker, how far its request has come
vars == <<terms, deal, payments, deliveries, evidence, journal, notices, now, req>>

rows == <<terms, deal, payments, deliveries, evidence, journal, notices>>

\* fromStatus of the event of a deal's creation, a NULL column.
NoStatus == "NULL"

ActorRole == PartyRole \cup {"SYSTEM"}
Operation == {"none", "accept", "pay", "ship", "deliver", "inspect", "confirm", "problem"}
Phase == {"idle", "reconciled", "holds", "delivered", "dated"}
EventType ==
  { "deal.created", "deal.counterparty_joined", "deal.accepted",
    "mock_escrow.funds_secured", "deal.ready_for_shipment", "shipment.added",
    "delivery.delivered", "inspection.started", "inspection.expired",
    "mock_escrow.release_to_seller", "problem.reported" }
Time == Nat \cup {NoTime}

DealTerms == [category : DealCategory, plan : ProtectionPlan, creatorRole : PartyRole \cup {NoRole}]
DealRow == [status : DealStatus, deliveredAt : Time, inspectionEndsAt : Time,
            acceptedBy : SUBSET PartyRole]
PaymentRows == [FUNDS_SECURED : Nat, RELEASED : Nat]
DeliveryRows == [SHIPPED : Nat, DELIVERED : Nat]
DealEvent == [type : EventType, from : DealStatus \cup {NoStatus}, to : DealStatus, by : ActorRole]
Request == [op : Operation, role : PartyRole, at : Phase, from : DealStatus, date : Time]

\* No request in flight; the other fields mean nothing then.
Idle == [op |-> "none", role |-> "BUYER", at |-> "idle", from |-> "DRAFT", date |-> NoTime]

eventData(type, from, to, by) ==
  [type |-> type, from |-> from, to |-> to, by |-> by]

-----------------------------------------------------------------------------
(***************************************************************************)
(* The deals the requests work on.  A deal created today is accepted by    *)
(* its creator and, when the counterparty claims the invitation, by the    *)
(* counterparty too, which moves it to WAITING_PAYMENT.  Older rows wait   *)
(* in WAITING_COUNTERPARTY with both parties on them: those whose claim    *)
(* left the acceptance to a separate call, and the pilot rows that have    *)
(* no creatorRole at all.                                                  *)
(***************************************************************************)
Other(role) == IF role = "SELLER" THEN "BUYER" ELSE "SELLER"

Joined(creator) ==
  /\ deal = [status |-> "WAITING_PAYMENT", deliveredAt |-> NoTime,
             inspectionEndsAt |-> NoTime, acceptedBy |-> PartyRole]
  /\ journal = << [type |-> "deal.counterparty_joined", from |-> "WAITING_COUNTERPARTY",
                   to |-> "WAITING_PAYMENT", by |-> Other(creator)] >>

Unaccepted(creator) ==
  /\ deal = [status |-> "WAITING_COUNTERPARTY", deliveredAt |-> NoTime,
             inspectionEndsAt |-> NoTime, acceptedBy |-> PartyRole \cap {creator}]
  /\ journal = << [type |-> "deal.created", from |-> NoStatus, to |-> "WAITING_COUNTERPARTY",
                   by |-> IF creator \in PartyRole THEN creator ELSE "SYSTEM"] >>

Init ==
  /\ terms \in [category : Categories, plan : Plans, creatorRole : Creators]
  /\ \/ "joined" \in Origins /\ terms.creatorRole # NoRole /\ Joined(terms.creatorRole)
     \/ "unaccepted" \in Origins /\ Unaccepted(terms.creatorRole)
  /\ payments = [FUNDS_SECURED |-> 0, RELEASED |-> 0]
  /\ deliveries = [SHIPPED |-> 0, DELIVERED |-> 0]
  /\ evidence = {}
  /\ notices = 0
  /\ now = 0
  /\ req = [w \in Workers |-> Idle]

-----------------------------------------------------------------------------
\* The request goes on to its next step; it ends.
Advance(w, at, date) ==
  req' = [req EXCEPT ![w] = [op |-> req[w].op, role |-> req[w].role, at |-> at,
                             from |-> req[w].from, date |-> date]]
Finish(w) == req' = [req EXCEPT ![w] = Idle]

\* Faulty variant: the transition is not asserted.
HoldUnchecked(w, op, role, to, date) ==
  /\ Len(journal) < MaxEvents
  /\ req' = [req EXCEPT ![w] = [op |-> op, role |-> role, at |-> "holds",
                                from |-> deal.status, date |-> date]]
  /\ UNCHANGED <<rows, now>>

(***************************************************************************)
(* The first half of a transaction: findDealOrThrow and assertCanTransition*)
(* to the operation's target.  The request now holds the status it read.   *)
(* A request that the assertion refuses ends and leaves no trace, so a     *)
(* refused first step is not a step.                                       *)
(***************************************************************************)
Hold(w, op, role, to, date) ==
  /\ Len(journal) < MaxEvents
  /\ CanTransition(deal.status, to)
  /\ req' = [req EXCEPT ![w] = [op |-> op, role |-> role, at |-> "holds",
                                from |-> deal.status, date |-> date]]
  /\ UNCHANGED <<rows, now>>

\* Faulty variant: the creator may accept again.
BeginAcceptAnyRole(w, role) ==
  /\ req[w] = Idle
  /\ Hold(w, "accept", role, "WAITING_PAYMENT", NoTime)

\* POST accept.  With a creatorRole only the other party may accept; a pilot
\* row lets either party through.  The status check made before the
\* transaction is implied by the one made in it.
BeginAccept(w, role) ==
  /\ req[w] = Idle
  /\ role # terms.creatorRole
  /\ Hold(w, "accept", role, "WAITING_PAYMENT", NoTime)

\* POST mock-payment.
BeginMockPayment(w) ==
  /\ req[w] = Idle
  /\ MockEscrowEnabled
  /\ Hold(w, "pay", "BUYER", "FUNDS_SECURED", NoTime)

EvidenceComplete(stage) ==
  missingRequiredEvidence(terms.category, terms.plan, evidence, stage) = {}

\* Faulty variant: the gate of the other stage.
BeginMarkShippedWrongStage(w) ==
  /\ req[w] = Idle
  /\ EvidenceComplete("RECEIPT")
  /\ Hold(w, "ship", "SELLER", "SHIPPED", NoTime)

\* POST shipment.  The evidence gate reads before the transaction; evidence
\* is never deleted, so passing it then is passing it at the later read.
BeginMarkShipped(w) ==
  /\ req[w] = Idle
  /\ EvidenceComplete("PRE_SHIPMENT")
  /\ Hold(w, "ship", "SELLER", "SHIPPED", NoTime)

\* POST mark-delivered, first transaction.  deliveredAt was taken before it,
\* when the request came in.
BeginMarkDelivered(w) ==
  /\ req[w] = Idle
  /\ \E deliveredAt \in 0..now : Hold(w, "deliver", "BUYER", "DELIVERED", deliveredAt)

\* Faulty variant: the inspection hours are forgotten.
DateInspectionNow(w) ==
  /\ req[w].at = "delivered"
  /\ Advance(w, "dated", now)
  /\ UNCHANGED <<rows, now>>

\* Between the transactions of mark-delivered: the deadline is computed.
DateInspection(w) ==
  /\ req[w].at = "delivered"
  /\ Advance(w, "dated", now + InspectionHours)
  /\ UNCHANGED <<rows, now>>

\* mark-delivered, second transaction.
BeginInspection(w) ==
  /\ req[w].at = "dated"
  /\ Hold(w, "inspect", req[w].role, "INSPECTION", req[w].date)

BeginComplete(w) ==
  /\ req[w].at = "reconciled"
  /\ req[w].op = "confirm"
  /\ EvidenceComplete("RECEIPT")
  /\ Hold(w, "confirm", req[w].role, "COMPLETED", NoTime)

BeginReportProblem(w) ==
  /\ req[w].at = "reconciled"
  /\ req[w].op = "problem"
  /\ Hold(w, "problem", req[w].role, "PROBLEM_REPORTED", NoTime)

-----------------------------------------------------------------------------
(* The second half: the commit of all the transaction's writes.            *)

Commits(w, op) ==
  /\ req[w].at = "holds"
  /\ req[w].op = op

\* The UPDATE of the row's status and the event that records it.
transition(w, type, to, by) ==
  /\ deal' = [deal EXCEPT !.status = to]
  /\ journal' = Append(journal, eventData(type, req[w].from, to, by))

Accept(w) ==
  /\ Commits(w, "accept")
  /\ deal' = [deal EXCEPT !.status = "WAITING_PAYMENT",
                !.acceptedBy = @ \cup
                  {IF terms.creatorRole \in PartyRole THEN req[w].role ELSE "BUYER"}]
  /\ journal' = Append(journal,
                  eventData("deal.accepted", req[w].from, "WAITING_PAYMENT", req[w].role))
  /\ Finish(w)
  /\ UNCHANGED <<terms, payments, deliveries, evidence, notices, now>>

\* Two status changes and the payment in one commit; mockPayment is called
\* without the actor, so its events are the SYSTEM's.
MockPayment(w) ==
  /\ Commits(w, "pay")
  /\ deal' = [deal EXCEPT !.status = "WAITING_SHIPMENT"]
  /\ journal' = Append(
       Append(journal,
         eventData("mock_escrow.funds_secured", req[w].from, "FUNDS_SECURED", "SYSTEM")),
         eventData("deal.ready_for_shipment", "FUNDS_SECURED", "WAITING_SHIPMENT", "SYSTEM"))
  /\ payments' = [payments EXCEPT !.FUNDS_SECURED = @ + 1]
  /\ Finish(w)
  /\ UNCHANGED <<terms, deliveries, evidence, notices, now>>

\* Faulty variant: the deal's one delivery row is replaced.
MarkShippedOnce(w) ==
  /\ Commits(w, "ship")
  /\ transition(w, "shipment.added", "SHIPPED", req[w].role)
  /\ deliveries' = [deliveries EXCEPT !.SHIPPED = 1]
  /\ Finish(w)
  /\ UNCHANGED <<terms, payments, evidence, notices, now>>

MarkShipped(w) ==
  /\ Commits(w, "ship")
  /\ transition(w, "shipment.added", "SHIPPED", req[w].role)
  /\ deliveries' = [deliveries EXCEPT !.SHIPPED = @ + 1]
  /\ Finish(w)
  /\ UNCHANGED <<terms, payments, evidence, notices, now>>

\* Faulty variant: moves one delivery row, taken to be there.
MarkDeliveredOne(w) ==
  /\ Commits(w, "deliver")
  /\ deal' = [deal EXCEPT !.status = "DELIVERED", !.deliveredAt = req[w].date]
  /\ journal' = Append(journal,
                  eventData("delivery.delivered", req[w].from, "DELIVERED", req[w].role))
  /\ deliveries' = [SHIPPED |-> deliveries.SHIPPED - 1, DELIVERED |-> deliveries.DELIVERED + 1]
  /\ Advance(w, "delivered", NoTime)
  /\ UNCHANGED <<terms, payments, evidence, notices, now>>

\* Marks every delivery row; the handler goes on to its second transaction.
MarkDelivered(w) ==
  /\ Commits(w, "deliver")
  /\ deal' = [deal EXCEPT !.status = "DELIVERED", !.deliveredAt = req[w].date]
  /\ journal' = Append(journal,
                  eventData("delivery.delivered", req[w].from, "DELIVERED", req[w].role))
  /\ deliveries' = [SHIPPED |-> 0, DELIVERED |-> deliveries.SHIPPED + deliveries.DELIVERED]
  /\ Advance(w, "delivered", NoTime)
  /\ UNCHANGED <<terms, payments, evidence, notices, now>>

\* Faulty variant: the deadline is not persisted.
StartInspectionUndated(w) ==
  /\ Commits(w, "inspect")
  /\ transition(w, "inspection.started", "INSPECTION", "SYSTEM")
  /\ Finish(w)
  /\ UNCHANGED <<terms, payments, deliveries, evidence, notices, now>>

StartInspection(w) ==
  /\ Commits(w, "inspect")
  /\ deal' = [deal EXCEPT !.status = "INSPECTION", !.inspectionEndsAt = req[w].date]
  /\ journal' = Append(journal,
                  eventData("inspection.started", req[w].from, "INSPECTION", "SYSTEM"))
  /\ Finish(w)
  /\ UNCHANGED <<terms, payments, deliveries, evidence, notices, now>>

\* Faulty variant: the payments released earlier are overwritten.
ReleaseOverwriting ==
  payments' = [FUNDS_SECURED |-> 0, RELEASED |-> payments.FUNDS_SECURED]

\* Faulty variant: one payment is released, a second stays.
ReleaseOne ==
  payments' = [FUNDS_SECURED |-> payments.FUNDS_SECURED - 1, RELEASED |-> payments.RELEASED + 1]

\* Every secured payment of the deal is released.
ReleaseAll ==
  payments' = [FUNDS_SECURED |-> 0, RELEASED |-> payments.FUNDS_SECURED + payments.RELEASED]

Complete(w) ==
  /\ Commits(w, "confirm")
  /\ transition(w, "mock_escrow.release_to_seller", "COMPLETED", req[w].role)
  /\ ReleaseAll
  /\ Finish(w)
  /\ UNCHANGED <<terms, deliveries, evidence, notices, now>>

ReportProblem(w) ==
  /\ Commits(w, "problem")
  /\ transition(w, "problem.reported", "PROBLEM_REPORTED", req[w].role)
  /\ notices' = notices + 1
  /\ Finish(w)
  /\ UNCHANGED <<terms, payments, deliveries, evidence, now>>

-----------------------------------------------------------------------------
(* Automatic completion.                                                   *)

\* Faulty variant: the date alone decides.
DueByDate ==
  /\ deal.inspectionEndsAt # NoTime
  /\ deal.inspectionEndsAt <= now

Due ==
  /\ deal.status = "INSPECTION"
  /\ deal.inspectionEndsAt # NoTime
  /\ deal.inspectionEndsAt <= now

\* Faulty variant: the release is left to a later step.
completeIfDueUnreleased ==
  /\ Due
  /\ deal' = [deal EXCEPT !.status = "COMPLETED"]
  /\ journal' = Append(journal,
                  eventData("inspection.expired", "INSPECTION", "COMPLETED", "SYSTEM"))
  /\ UNCHANGED <<terms, payments, deliveries, evidence, notices>>

\* Faulty variant: completion is not recorded.
completeIfDueUnlogged ==
  /\ Due
  /\ deal' = [deal EXCEPT !.status = "COMPLETED"]
  /\ ReleaseAll
  /\ UNCHANGED <<terms, deliveries, evidence, journal, notices>>

\* The conditional UPDATE, the release and the event, one transaction.
completeIfDue ==
  /\ Due
  /\ deal' = [deal EXCEPT !.status = "COMPLETED"]
  /\ ReleaseAll
  /\ journal' = Append(journal,
                  eventData("inspection.expired", "INSPECTION", "COMPLETED", "SYSTEM"))
  /\ UNCHANGED <<terms, deliveries, evidence, notices>>

\* GET deals, GET deals/:id and GET deals/:id/events reconcile; so do
\* confirm-receipt and report-problem, and on a due deal that is all they do.
ReadDeal == completeIfDue /\ UNCHANGED <<now, req>>

\* The scheduled sweep, as it meets this deal.
CronSweep == completeIfDue /\ UNCHANGED <<now, req>>

\* confirm-receipt and report-problem on a deal that is not due go on.
Reconcile(w, op, role) ==
  /\ req[w] = Idle
  /\ op = "confirm" => role = "BUYER"
  /\ ~Due
  /\ req' = [req EXCEPT ![w] = [op |-> op, role |-> role, at |-> "reconciled",
                                from |-> "DRAFT", date |-> NoTime]]
  /\ UNCHANGED <<rows, now>>

-----------------------------------------------------------------------------
(***************************************************************************)
(* Evidence as the gates read it: a file that satisfies a required item of *)
(* the deal's checklist.  No gate reads any other file.                    *)
(***************************************************************************)
UploadEvidence(item) ==
  /\ terms.plan = "EXTENDED"
  /\ File(item.role, item.kind) \notin evidence
  /\ evidence' = evidence \cup {File(item.role, item.kind)}
  /\ UNCHANGED <<terms, deal, payments, deliveries, journal, notices, now, req>>

\* The request ends early: refused by a check past its first step, or the
\* process dies.  An uncommitted transaction is rolled back.
Crash(w) ==
  /\ req[w] # Idle
  /\ Finish(w)
  /\ UNCHANGED <<rows, now>>

Tick ==
  /\ \/ now < MaxTime
     \/ deal.inspectionEndsAt # NoTime /\ now < deal.inspectionEndsAt
  /\ now' = now + 1
  /\ UNCHANGED <<rows, req>>

-----------------------------------------------------------------------------
Commit(w) ==
  \/ Accept(w)
  \/ MockPayment(w)
  \/ MarkShipped(w)
  \/ MarkDelivered(w)
  \/ StartInspection(w)
  \/ Complete(w)
  \/ ReportProblem(w)

Begin(w) ==
  \/ \E role \in PartyRole : BeginAccept(w, role)
  \/ BeginMockPayment(w)
  \/ BeginMarkShipped(w)
  \/ BeginMarkDelivered(w)
  \/ \E op \in {"confirm", "problem"}, role \in PartyRole : Reconcile(w, op, role)

Continue(w) ==
  \/ DateInspection(w)
  \/ BeginInspection(w)
  \/ BeginComplete(w)
  \/ BeginReportProblem(w)

Next ==
  \/ \E w \in Workers : Begin(w) \/ Continue(w) \/ Commit(w) \/ Crash(w)
  \/ \E item \in ChecklistItems(terms.category, terms.plan) : UploadEvidence(item)
  \/ ReadDeal
  \/ CronSweep
  \/ Tick

Spec == Init /\ [][Next]_vars

(***************************************************************************)
(* The scheduler keeps calling the sweep and time passes; the server       *)
(* finishes the requests it does not drop.  Nothing makes a user call.     *)
(***************************************************************************)
FairSpec ==
  /\ Spec
  /\ WF_vars(CronSweep)
  /\ WF_vars(Tick)
  /\ \A w \in Workers : WF_vars(Continue(w) \/ Commit(w))

-----------------------------------------------------------------------------
(* Properties.                                                             *)

\* Every table holds rows of its type.
TypeOK ==
  /\ terms \in DealTerms
  /\ deal \in DealRow
  /\ payments \in PaymentRows
  /\ deliveries \in DeliveryRows
  /\ evidence \subseteq [uploaderRole : PartyRole, kind : RequiredKind]
  /\ journal \in Seq(DealEvent)
  /\ notices \in Nat
  /\ now \in Nat
  /\ req \in [Workers -> Request]

Count(type) == Cardinality({i \in DOMAIN journal : journal[i].type = type})

\* The statuses the deal has had.
HeldIn(j) == {j[i].to : i \in DOMAIN j}
Held == HeldIn(journal)

\* The statuses a deal reaches only behind a payment.
FundedStatus ==
  { "FUNDS_SECURED", "WAITING_SHIPMENT", "SHIPPED", "DELIVERED", "INSPECTION",
    "PROBLEM_REPORTED", "WAITING_LEGAL_RESOLUTION", "COMPLETED" }

\* A completed deal has paid the seller and holds nothing back, even when
\* the completion, the payment and the timeout were raced by other requests.
CompletedPaysOut ==
  deal.status = "COMPLETED" => payments.FUNDS_SECURED = 0 /\ payments.RELEASED > 0

\* No overwritten status gets a deal past payment without a payment row.
FundsBackTheDeal ==
  deal.status \in FundedStatus => payments.FUNDS_SECURED + payments.RELEASED > 0

\* The audit trail's last event leads to the status the deal row shows,
\* whichever of two racing writers was the last.
AuditTrailEndsAtStatus == journal[Len(journal)].to = deal.status

\* Every event of the trail is a legal transition, from a status that the
\* deal had had before it.
Grounded(j) ==
  \A i \in DOMAIN j \ {1} :
    /\ CanTransition(j[i].from, j[i].to)
    /\ \E k \in 1 .. i-1 : j[k].to = j[i].from
EveryEventIsGrounded == Grounded(journal)

\* The rows agree with the events committed with them: one payment for each
\* funding, one delivery for each shipment, one notice for each problem.
RowsMatchAuditTrail ==
  /\ payments.FUNDS_SECURED + payments.RELEASED = Count("mock_escrow.funds_secured")
  /\ deliveries.SHIPPED + deliveries.DELIVERED = Count("shipment.added")
  /\ notices = Count("problem.reported")

\* Money is released by the buyer's confirmation, or by a window that had
\* been opened and not interrupted by anything before it expired.
ReleaseHasCause ==
  \A i \in DOMAIN journal :
    journal[i].to = "COMPLETED" =>
      \/ journal[i].type = "mock_escrow.release_to_seller" /\ journal[i].by = "BUYER"
      \/ journal[i].type = "inspection.expired" /\ i > 1 /\ journal[i-1].type = "inspection.started"

\* On the EXTENDED plan nothing ships without the seller's evidence and the
\* buyer releases nothing without the buyer's.
EvidenceGates ==
  /\ Count("shipment.added") > 0 => EvidenceComplete("PRE_SHIPMENT")
  /\ Count("mock_escrow.release_to_seller") > 0 => EvidenceComplete("RECEIPT")

\* Both parties have accepted before a deal with a known creator asks for
\* the money, whoever of them created it.
BothAcceptBeforeMoney ==
  terms.creatorRole # NoRole /\ deal.status # "WAITING_COUNTERPARTY" => deal.acceptedBy = PartyRole

\* A shipment was recorded past a delivery, by a request that had read the
\* deal before.
Reshipped ==
  \E i, j \in DOMAIN journal :
    /\ i < j
    /\ journal[i].type = "delivery.delivered" /\ journal[j].type = "shipment.added"

\* The buyer has the whole window agreed on, counted from the delivery, also
\* when mark-delivered calls overlap each other and anything else: whichever
\* of them dates the delivery last and whichever the deadline.  Only when a
\* late shipment sets a delivered deal back, and it is delivered again, may
\* the deadline be that of the first delivery.
InspectionWindowIsWhole ==
  deal.status = "INSPECTION" /\ ~Reshipped =>
    deal.inspectionEndsAt >= deal.deliveredAt + InspectionHours

\* The detailed flow does what the lifecycle promises.
Lifecycle == INSTANCE DealLifecycle WITH
  status <- deal.status, held <- Held,
  secured <- payments.FUNDS_SECURED, released <- payments.RELEASED
ImplementsLifecycle == Lifecycle!Spec

\* A silent buyer cannot hold the deal in inspection forever.
InspectionEnds == deal.status = "INSPECTION" ~> deal.status # "INSPECTION"

-----------------------------------------------------------------------------
(* A statement of the repository that the code does not keep.              *)

\* docs/deal-state-machine.md: automatic completion only after DELIVERED or
\* INSPECTION and in the absence of a problem, so none after a problem was
\* recorded on a delivered deal.  The second transaction of mark-delivered,
\* which had read the deal before the report was committed, overwrites the
\* report's status, and the timeout then completes the deal.
NoAutoCompletionAfterProblem ==
  \A i, j \in DOMAIN journal :
    /\ i < j
    /\ journal[i].type = "problem.reported" /\ journal[i].from \in {"DELIVERED", "INSPECTION"}
    => journal[j].type # "inspection.expired"

=============================================================================
