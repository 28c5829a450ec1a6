-------------------------- MODULE DealStateMachine --------------------------
(***************************************************************************)
(* The status table of a deal, from deal-status.enum.ts and                *)
(* deal-state-machine.ts.  Pure definitions: the modules that move a deal  *)
(* ask CanTransition where the code calls assertCanTransition, which       *)
(* throws when the answer is no.                                           *)
(***************************************************************************)

DealStatus ==
  { "DRAFT", "WAITING_COUNTERPARTY", "WAITING_PAYMENT", "FUNDS_SECURED",
    "WAITING_SHIPMENT", "SHIPPED", "DELIVERED", "INSPECTION", "COMPLETED",
    "PROBLEM_REPORTED", "CANCELLED", "EXPIRED", "WAITING_LEGAL_RESOLUTION" }

allowedTransitions ==
  [ DRAFT                    |-> {"WAITING_COUNTERPARTY", "CANCELLED"},
    WAITING_COUNTERPARTY     |-> {"WAITING_PAYMENT", "CANCELLED", "EXPIRED"},
    WAITING_PAYMENT          |-> {"FUNDS_SECURED", "CANCELLED", "EXPIRED"},
    FUNDS_SECURED            |-> {"WAITING_SHIPMENT", "PROBLEM_REPORTED"},
    WAITING_SHIPMENT         |-> {"SHIPPED", "PROBLEM_REPORTED", "EXPIRED"},
    SHIPPED                  |-> {"DELIVERED", "PROBLEM_REPORTED"},
    DELIVERED                |-> {"INSPECTION", "PROBLEM_REPORTED"},
    PROBLEM_REPORTED         |-> {"WAITING_LEGAL_RESOLUTION", "COMPLETED", "CANCELLED"},
    WAITING_LEGAL_RESOLUTION |-> {"COMPLETED", "CANCELLED"},
    INSPECTION               |-> {"COMPLETED", "PROBLEM_REPORTED"},
    COMPLETED                |-> {},
    CANCELLED                |-> {},
    EXPIRED                  |-> {} ]

\* assertCanTransition does not throw.
CanTransition(from, to) == to \in allowedTransitions[from]

\* Statuses no transition leaves.
FinalStatus == { s \in DealStatus : allowedTransitions[s] = {} }

=============================================================================
