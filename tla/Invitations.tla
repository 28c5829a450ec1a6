---------------------------- MODULE Invitations ----------------------------
(***************************************************************************)
(* How the second party gets on a deal: secure-invitations.service.ts.     *)
(*                                                                         *)
(* The deal is there, created by `create' but with no user on it; the same *)
(* request then binds its creator and issues the first invitation.  From   *)
(* there callers may claim, reissue and revoke concurrently.  What a       *)
(* caller reads and checks is one step, what it commits another; the       *)
(* updateMany of reissue takes its snapshot in a step of its own, since    *)
(* rows inserted after it are not among those it revokes.  Updates by id   *)
(* are unconditional.  A call may vanish between any two steps.            *)
(*                                                                         *)
(* An invitation's token and its short code lead to the same row and the   *)
(* same claim; the invited role is always the one the creator left.  A     *)
(* user stands for his verified phone number, which is unique.             *)
(***************************************************************************)
EXTENDS DealStateMachine, Integers, Sequences, FiniteSets

CONSTANTS
  Users, Creator,     \* accounts, and the one that created the deal
  NoUser,             \* a user column that is NULL
  Callers,            \* calls that may be in flight at the same time
  MaxInvitations,     \* bound: no reissue begins on that many invitations
  MaxRevocations      \* bound: no revoke begins on that many events of one

ASSUME UsersAssumption == Creator \in Users /\ NoUser \notin Users
ASSUME BoundsAssumption == MaxInvitations \in Nat /\ MaxRevocations \in Nat

VARIABLES
  creatorRole,  \* the creator's side
  deal,         \* the deal's row: status, acceptedBy
  journal,      \* the events since creation that change the status
  party,        \* sellerId and buyerId
  invitations,  \* the deal's invitations, oldest first
  log,          \* how many events of each kind that changes no status
  call          \* for each caller, how far its call has come
vars == <<creatorRole, deal, journal, party, invitations, log, call>>

Side == {"SELLER", "BUYER"}
oppositeRole(role) == IF role = "SELLER" THEN "BUYER" ELSE "SELLER"
invitedRole == oppositeRole(creatorRole)

UserOrNone == Users \cup {NoUser}
Invitation == [recipient : Users, claimedBy : UserOrNone, revoked : BOOLEAN, expired : BOOLEAN]
InvitationEvents == [issued : Nat, reissued : Nat, revoked : Nat]
Call == [op : {"none", "claim", "reissue", "revoke"}, user : UserOrNone,
         at : {"idle", "read", "scanned", "revoked"}, seen : SUBSET Nat]

JoinEvent == [type : {"deal.counterparty_joined"}, from : {"WAITING_COUNTERPARTY"},
              to : {"WAITING_PAYMENT"}, by : Side]

Idle == [op |-> "none", user |-> NoUser, at |-> "idle", seen |-> {}]

personal(recipient) ==
  [recipient |-> recipient, claimedBy |-> NoUser, revoked |-> FALSE, expired |-> FALSE]

\* claimedAt: null, revokedAt: null.  Expiry is not asked.
Live(i) == invitations[i].claimedBy = NoUser /\ ~invitations[i].revoked
LiveInvitations == {i \in DOMAIN invitations : Live(i)}

\* updateMany over the rows `seen', its condition evaluated again on each.
Revoked(seen) ==
  [i \in DOMAIN invitations |->
     IF i \in seen /\ Live(i) THEN [invitations[i] EXCEPT !.revoked = TRUE] ELSE invitations[i]]

-----------------------------------------------------------------------------
\* The tables that only this module writes, before the first invitation.
InitTables ==
  /\ party = [role \in Side |-> NoUser]
  /\ invitations = <<>>
  /\ log = [issued |-> 0, reissued |-> 0, revoked |-> 0]
  /\ call = [c \in Callers |-> Idle]

Init ==
  /\ creatorRole \in Side
  /\ deal = [status |-> "WAITING_COUNTERPARTY", acceptedBy |-> {creatorRole}]
  /\ journal = <<>>
  /\ InitTables

\* The request that created the deal goes on; if it dies, nothing does.
bindCreatorAndIssue(recipient) ==
  /\ recipient # Creator
  /\ deal.status = "WAITING_COUNTERPARTY"
  /\ \A role \in Side : party[role] = NoUser
  /\ party' = [party EXCEPT ![creatorRole] = Creator]
  /\ invitations' = Append(Revoked(LiveInvitations), personal(recipient))
  /\ log' = [log EXCEPT !.issued = @ + 1]
  /\ UNCHANGED <<creatorRole, deal, journal, call>>

-----------------------------------------------------------------------------
\* The call goes on to its next step.
Step(c, op, user, at, seen) ==
  /\ call' = [call EXCEPT ![c] = [op |-> op, user |-> user, at |-> at, seen |-> seen]]
  /\ UNCHANGED <<creatorRole, deal, journal, party, invitations, log>>

Return(c) == call' = [call EXCEPT ![c] = Idle]

\* Faulty variant: revocation is not asked.
assertUsableUnlessClaimed(i) ==
  /\ invitations[i].claimedBy = NoUser
  /\ ~invitations[i].expired
  /\ deal.status = "WAITING_COUNTERPARTY"

assertUsable(i) ==
  /\ Live(i)
  /\ ~invitations[i].expired
  /\ deal.status = "WAITING_COUNTERPARTY"

\* Faulty variant: any account may use the link.
assertRecipientLoggedIn(i, user) == user \in Users

assertRecipient(i, user) == invitations[i].recipient = user

\* claim: the invitation and the deal are read in the transaction.
BeginClaim(c, user, i) ==
  /\ call[c] = Idle
  /\ assertUsable(i)
  /\ assertRecipient(i, user)
  /\ party[creatorRole] # user
  /\ party[invitedRole] = NoUser
  /\ Step(c, "claim", user, "read", {i})

\* Faulty variant: the acceptance is left to a call of its own.
ClaimWithoutAcceptance(c) ==
  /\ call[c].op = "claim"
  /\ invitations' =
       [i \in DOMAIN invitations |->
          IF i \in call[c].seen THEN [invitations[i] EXCEPT !.claimedBy = call[c].user]
                                ELSE Revoked(LiveInvitations)[i]]
  /\ deal' = [deal EXCEPT !.status = "WAITING_PAYMENT"]
  /\ party' = [party EXCEPT ![invitedRole] = call[c].user]
  /\ journal' = Append(journal,
       [type |-> "deal.counterparty_joined", from |-> "WAITING_COUNTERPARTY",
        to |-> "WAITING_PAYMENT", by |-> invitedRole])
  /\ Return(c)
  /\ UNCHANGED <<creatorRole, log>>

\* claim: its writes.  Its own invitation it updates by id, the others where
\* they are live; the slot, the acceptance and the status by the deal's id.
Claim(c) ==
  /\ call[c].op = "claim"
  /\ invitations' =
       [i \in DOMAIN invitations |->
          IF i \in call[c].seen THEN [invitations[i] EXCEPT !.claimedBy = call[c].user]
                                ELSE Revoked(LiveInvitations)[i]]
  /\ deal' = [deal EXCEPT !.status = "WAITING_PAYMENT", !.acceptedBy = @ \cup {invitedRole}]
  /\ party' = [party EXCEPT ![invitedRole] = call[c].user]
  /\ journal' = Append(journal,
       [type |-> "deal.counterparty_joined", from |-> "WAITING_COUNTERPARTY",
        to |-> "WAITING_PAYMENT", by |-> invitedRole])
  /\ Return(c)
  /\ UNCHANGED <<creatorRole, log>>

\* assertCreator, and the deal must not have its second party yet.
assertCreatorWaiting ==
  /\ party[creatorRole] = Creator
  /\ deal.status = "WAITING_COUNTERPARTY"

\* reissue reads the deal before its transaction.
BeginReissue(c, recipient) ==
  /\ call[c] = Idle
  /\ Len(invitations) < MaxInvitations
  /\ recipient # Creator
  /\ assertCreatorWaiting
  /\ Step(c, "reissue", recipient, "read", {})

\* The snapshot of its updateMany.
ScanLive(c) ==
  /\ call[c].op = "reissue"
  /\ call[c].at = "read"
  /\ Step(c, "reissue", call[c].user, "scanned", LiveInvitations)

\* Faulty variant: the earlier invitations stay.
ReissueBeside(c) ==
  /\ call[c].op = "reissue"
  /\ call[c].at = "scanned"
  /\ invitations' = Append(invitations, personal(call[c].user))
  /\ log' = [log EXCEPT !.reissued = @ + 1]
  /\ Return(c)
  /\ UNCHANGED <<creatorRole, deal, journal, party>>

\* The rows revoked, the new one and the event, in one commit.
Reissue(c) ==
  /\ call[c].op = "reissue"
  /\ call[c].at = "scanned"
  /\ invitations' = Append(Revoked(call[c].seen), personal(call[c].user))
  /\ log' = [log EXCEPT !.reissued = @ + 1]
  /\ Return(c)
  /\ UNCHANGED <<creatorRole, deal, journal, party>>

BeginRevoke(c) ==
  /\ call[c] = Idle
  /\ log.revoked < MaxRevocations
  /\ assertCreatorWaiting
  /\ Step(c, "revoke", NoUser, "read", {})

\* revoke has no transaction: the update commits by itself,
Revoke(c) ==
  /\ call[c].op = "revoke"
  /\ call[c].at = "read"
  /\ invitations' = Revoked(LiveInvitations)
  /\ call' = [call EXCEPT ![c].at = "revoked"]
  /\ UNCHANGED <<creatorRole, deal, journal, party, log>>

\* and then the event does.
RecordRevoke(c) ==
  /\ call[c].at = "revoked"
  /\ log' = [log EXCEPT !.revoked = @ + 1]
  /\ Return(c)
  /\ UNCHANGED <<creatorRole, deal, journal, party, invitations>>

\* expiresAt is reached.
Expire(i) ==
  /\ ~invitations[i].expired
  /\ invitations' = [invitations EXCEPT ![i].expired = TRUE]
  /\ UNCHANGED <<creatorRole, deal, journal, party, log, call>>

\* The call dies; what it had not committed is lost.
Crash(c) ==
  /\ call[c] # Idle
  /\ Return(c)
  /\ UNCHANGED <<creatorRole, deal, journal, party, invitations, log>>

-----------------------------------------------------------------------------
CallStep(c) ==
  \/ \E user \in Users, i \in DOMAIN invitations : BeginClaim(c, user, i)
  \/ \E recipient \in Users : BeginReissue(c, recipient)
  \/ BeginRevoke(c)
  \/ Claim(c)
  \/ ScanLive(c)
  \/ Reissue(c)
  \/ Revoke(c)
  \/ RecordRevoke(c)
  \/ Crash(c)

Next ==
  \/ \E recipient \in Users : bindCreatorAndIssue(recipient)
  \/ \E c \in Callers : CallStep(c)
  \/ \E i \in DOMAIN invitations : Expire(i)

Spec == Init /\ [][Next]_vars

-----------------------------------------------------------------------------
(* Properties.                                                             *)

\* Every table holds rows of its type.
TypeOK ==
  /\ creatorRole \in Side
  /\ deal \in [status : DealStatus, acceptedBy : SUBSET Side]
  /\ journal \in Seq(JoinEvent)
  /\ party \in [Side -> UserOrNone]
  /\ invitations \in Seq(Invitation)
  /\ log \in InvitationEvents
  /\ call \in [Callers -> Call]

\* A deal leaves WAITING_COUNTERPARTY exactly when the second user is bound
\* and has accepted, whatever claims race: no deal asks for money from, or
\* for, a side that is empty.
JoinedAltogether ==
  /\ deal.status # "WAITING_COUNTERPARTY" <=> party[invitedRole] # NoUser
  /\ party[invitedRole] # NoUser => deal.acceptedBy = Side /\ party[creatorRole] = Creator

\* Who is the counterparty was invited by the creator under his own number
\* and has claimed that invitation; he is never the creator.
CounterpartyWasInvited ==
  party[invitedRole] # NoUser =>
    \E i \in DOMAIN invitations :
      /\ invitations[i].recipient = party[invitedRole]
      /\ invitations[i].claimedBy = party[invitedRole]
      /\ invitations[i].recipient # Creator

\* A link that works is the last one sent, and none does once the deal has
\* its second party (of calls that do not overlap).
OneLinkWorks ==
  LiveInvitations \subseteq (IF party[invitedRole] = NoUser THEN {Len(invitations)} ELSE {})

=============================================================================
