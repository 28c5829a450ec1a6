----------------------------- MODULE DealSystem -----------------------------
(***************************************************************************)
(* A deal from its creation: the invitations that bring its second party,  *)
(* and the flow that follows, over the same rows of Deal and DealEvent.    *)
(* A claim that has read its invitation commits whenever it likes, also    *)
(* when the deal has gone on.                                              *)
(***************************************************************************)
EXTENDS DealFlow

CONSTANTS Users, Creator, NoUser, Callers, MaxInvitations, MaxRevocations

ASSUME SystemUsersAssumption == Creator \in Users /\ NoUser \notin Users
ASSUME SystemBoundsAssumption == MaxInvitations \in Nat /\ MaxRevocations \in Nat

VARIABLES party, invitations, log, call

Joining == INSTANCE Invitations WITH creatorRole <- terms.creatorRole

flow == <<terms, payments, deliveries, evidence, notices, now, req>>
joining == <<party, invitations, log, call>>
systemVars == <<vars, joining>>

\* A deal that `create' has just committed: it knows its creator's role.
SystemInit ==
  /\ Init
  /\ terms.creatorRole \in PartyRole
  /\ Unaccepted(terms.creatorRole)
  /\ Joining!InitTables

\* Faulty variant: a request needs no user of its role.
roleForAnyone(role) == role \in PartyRole

\* deal-access.service.ts: a request of a role is a request of its user.
roleForUser(role) == party[role] # NoUser

\* What the participants, the scheduler and the clock do.
FlowNext ==
  /\ \/ \E w \in Workers : Begin(w) /\ roleForUser(req'[w].role)
     \/ \E w \in Workers : Continue(w) \/ Commit(w) \/ Crash(w)
     \/ \E item \in ChecklistItems(terms.category, terms.plan) :
          roleForUser(item.role) /\ UploadEvidence(item)
     \/ ReadDeal
     \/ CronSweep
     \/ Tick
  /\ UNCHANGED joining

\* A claim begins on a journal within the bound, as every transaction does.
JoiningNext ==
  /\ UNCHANGED flow
  /\ Len(journal) < MaxEvents
  /\ Joining!Next

SystemNext == FlowNext \/ JoiningNext

SystemSpec == SystemInit /\ [][SystemNext]_systemVars

-----------------------------------------------------------------------------
(* Properties of the whole.                                                *)

\* Money enters only with a payer and a payee on the deal who have both
\* accepted it, and stays so whichever claims and payments race.
MoneyHasBothParties ==
  payments.FUNDS_SECURED + payments.RELEASED > 0 =>
    /\ \A role \in PartyRole : party[role] # NoUser
    /\ deal.acceptedBy = PartyRole

\* A claim committed late can send a paid deal back to WAITING_PAYMENT, but
\* what was paid is still all released at the completion.
PaidTwiceIsReleasedTwice ==
  deal.status = "COMPLETED" =>
    /\ payments.FUNDS_SECURED = 0
    /\ payments.RELEASED = Count("mock_escrow.funds_secured")

(***************************************************************************)
(* What the invitations see of a deal: whether it waits for its            *)
(* counterparty, who has accepted it, and the events of joining.           *)
(***************************************************************************)
seenDeal ==
  [status |-> IF deal.status = "WAITING_COUNTERPARTY" THEN deal.status ELSE "WAITING_PAYMENT",
   acceptedBy |-> deal.acceptedBy]
seenJournal ==
  [i \in 1 .. Count("deal.counterparty_joined") |->
     eventData("deal.counterparty_joined", "WAITING_COUNTERPARTY", "WAITING_PAYMENT",
               Other(terms.creatorRole))]

SeenJoining == INSTANCE Invitations WITH
  creatorRole <- terms.creatorRole, deal <- seenDeal, journal <- seenJournal

\* However far the flow has gone between the two steps of a claim, it does
\* nothing that the invitations would notice: a deal is joined by claims
\* alone, and what holds of Invitations by itself holds in the system.
ImplementsInvitations == SeenJoining!Spec

=============================================================================
