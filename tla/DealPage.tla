------------------------------ MODULE DealPage ------------------------------
(***************************************************************************)
(* The deal's page in the web application, app/deal/[id]/page.tsx: which   *)
(* buttons it shows a party, beside what the API takes from him.           *)
(*                                                                         *)
(* The page loads the deal and shows the buttons of its status; a button   *)
(* posts and then loads again.  The API answers by the status it reads,    *)
(* whatever the page had shown, so the page adds no step to the flow; what *)
(* matters is that the two agree on a status that both see.  Both GETs     *)
(* reconcile first, so a page never shows a deal that is due.              *)
(***************************************************************************)
EXTENDS DealFlow

Button == {"accept", "mock-payment", "shipment", "mark-delivered", "confirm-receipt", "report-problem"}

\* Faulty variant: the buyer is offered to confirm as soon as the deal is
\* delivered.
roleActionEarly(role) ==
  CASE deal.status = "WAITING_COUNTERPARTY" /\ role # terms.creatorRole -> {"accept"}
    [] deal.status = "WAITING_PAYMENT"  /\ role = "BUYER"  -> {"mock-payment"}
    [] deal.status = "WAITING_SHIPMENT" /\ role = "SELLER" -> {"shipment"}
    [] deal.status = "SHIPPED"          /\ role = "BUYER"  -> {"mark-delivered"}
    [] deal.status \in {"DELIVERED", "INSPECTION"} /\ role = "BUYER" -> {"confirm-receipt"}
    [] OTHER -> {}

\* The one button of a role and a status; a pilot row offers `accept' to the
\* buyer only.
roleAction(role) ==
  CASE deal.status = "WAITING_COUNTERPARTY"
         /\ role = (IF terms.creatorRole = NoRole THEN "BUYER" ELSE Other(terms.creatorRole))
                                                         -> {"accept"}
    [] deal.status = "WAITING_PAYMENT"  /\ role = "BUYER"  -> {"mock-payment"}
    [] deal.status = "WAITING_SHIPMENT" /\ role = "SELLER" -> {"shipment"}
    [] deal.status = "SHIPPED"          /\ role = "BUYER"  -> {"mark-delivered"}
    [] deal.status = "INSPECTION"       /\ role = "BUYER"  -> {"confirm-receipt"}
    [] OTHER -> {}

canReportProblem == deal.status \in {"WAITING_SHIPMENT", "SHIPPED", "DELIVERED", "INSPECTION"}

offered(role) == roleAction(role) \cup (IF canReportProblem THEN {"report-problem"} ELSE {})

(***************************************************************************)
(* What the API takes: the role its controller requires and the transition *)
(* its service asserts.  The evidence gates are left out: their files can  *)
(* be uploaded on the same page.                                           *)
(***************************************************************************)
requireRole(button, role) ==
  CASE button = "accept" -> role # terms.creatorRole
    [] button = "shipment" -> role = "SELLER"
    [] button = "report-problem" -> TRUE
    [] OTHER -> role = "BUYER"

Target ==
  [b \in Button |->
     CASE b = "accept"          -> "WAITING_PAYMENT"
       [] b = "mock-payment"    -> "FUNDS_SECURED"
       [] b = "shipment"        -> "SHIPPED"
       [] b = "mark-delivered"  -> "DELIVERED"
       [] b = "confirm-receipt" -> "COMPLETED"
       [] b = "report-problem"  -> "PROBLEM_REPORTED"]

taken(role) ==
  {b \in Button :
     /\ requireRole(b, role)
     /\ CanTransition(deal.status, Target[b])
     /\ b = "mock-payment" => MockEscrowEnabled}

-----------------------------------------------------------------------------
(* Property.                                                               *)

\* In every status that requests, dying ones and the sweep leave behind, a page
\* just loaded shows a party exactly what the API would take from him, and
\* somebody can do something until the deal is over or in dispute.  The two
\* exceptions: a seller may accept a pilot row, and the buyer may confirm a
\* reported deal, with no button for either.  Without the mock escrow the
\* payment button is shown and always refused.
PageAgreesWithServer ==
  ~Due /\ MockEscrowEnabled =>
    /\ \A role \in PartyRole :
         /\ offered(role) \subseteq taken(role)
         /\ taken(role) \ offered(role) \subseteq
              (CASE deal.status = "WAITING_COUNTERPARTY" /\ terms.creatorRole = NoRole -> {"accept"}
                 [] deal.status = "PROBLEM_REPORTED" -> {"confirm-receipt"}
                 [] OTHER -> {})
    /\ deal.status \notin {"COMPLETED", "PROBLEM_REPORTED"} =>
         \E role \in PartyRole : offered(role) # {}

=============================================================================
