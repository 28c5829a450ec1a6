------------------------- MODULE InvitationsProofs -------------------------
(***************************************************************************)
(* Proofs about Invitations, for any users, any number of calls in flight  *)
(* and any bounds, and about the behaviours of MCInvitations in which one  *)
(* call is made at a time.                                                 *)
(***************************************************************************)
EXTENDS MCInvitations, SequenceTheorems, FiniteSetTheorems, TLAPS

-----------------------------------------------------------------------------
(* The invitation table under its updates.                                 *)

\* A table of invitations with the length of the old one is one.
LEMMA TableType ==
  ASSUME invitations \in Seq(Invitation), NEW f, DOMAIN f = DOMAIN invitations,
         f = [i \in DOMAIN invitations |-> f[i]],
         \A i \in DOMAIN invitations : f[i] \in Invitation
  PROVE  f \in Seq(Invitation) /\ Len(f) = Len(invitations)
<1>1. DOMAIN invitations = 1 .. Len(invitations) /\ Len(invitations) \in Nat
  OBVIOUS
<1>2. f \in [1 .. Len(invitations) -> Invitation]
  BY <1>1
<1>3. f \in Seq(Invitation)
  BY <1>1, <1>2, SeqDef
<1> QED
  BY <1>1, <1>3

\* The updateMany that revokes changes no recipient and no claimant.
LEMMA RevokedTable ==
  ASSUME invitations \in Seq(Invitation), NEW seen
  PROVE  /\ Revoked(seen) \in Seq(Invitation)
         /\ Len(Revoked(seen)) = Len(invitations)
         /\ DOMAIN Revoked(seen) = DOMAIN invitations
         /\ \A i \in DOMAIN invitations :
              /\ Revoked(seen)[i] \in Invitation
              /\ Revoked(seen)[i].recipient = invitations[i].recipient
              /\ Revoked(seen)[i].claimedBy = invitations[i].claimedBy
<1> DEFINE f == Revoked(seen)
<1>1. f = [i \in DOMAIN invitations |-> f[i]] /\ DOMAIN f = DOMAIN invitations
  BY DEF Revoked
<1>2. ASSUME NEW i \in DOMAIN invitations
      PROVE  /\ f[i] \in Invitation
             /\ f[i].recipient = invitations[i].recipient
             /\ f[i].claimedBy = invitations[i].claimedBy
  <2>1. invitations[i] \in Invitation
    OBVIOUS
  <2>2. f[i] = IF i \in seen /\ Live(i) THEN [invitations[i] EXCEPT !.revoked = TRUE] ELSE invitations[i]
    BY DEF Revoked
  <2> QED BY <2>1, <2>2 DEF Invitation
<1> HIDE DEF f
<1>3. f \in Seq(Invitation) /\ Len(f) = Len(invitations)
  BY <1>1, <1>2, TableType
<1> QED
  BY <1>1, <1>2, <1>3 DEF f

\* What a claim writes to the table: its invitation gets the claimant.
LEMMA ClaimedTable ==
  ASSUME TypeOK, NEW c \in Callers, Claim(c), call[c].user \in Users
  PROVE  /\ invitations' \in Seq(Invitation)
         /\ Len(invitations') = Len(invitations)
         /\ DOMAIN invitations' = DOMAIN invitations
         /\ \A i \in DOMAIN invitations :
              /\ invitations'[i].recipient = invitations[i].recipient
              /\ invitations'[i].claimedBy =
                   IF i \in call[c].seen THEN call[c].user ELSE invitations[i].claimedBy
<1>1. invitations \in Seq(Invitation)
  BY DEF TypeOK
<1> DEFINE r == Revoked(LiveInvitations)
<1>2. \A i \in DOMAIN invitations :
        /\ r[i] \in Invitation
        /\ r[i].recipient = invitations[i].recipient
        /\ r[i].claimedBy = invitations[i].claimedBy
  BY <1>1, RevokedTable
<1>3. invitations' =
        [i \in DOMAIN invitations |->
          IF i \in call[c].seen THEN [invitations[i] EXCEPT !.claimedBy = call[c].user] ELSE r[i]]
  BY DEF Claim
<1> HIDE DEF r
<1>4. ASSUME NEW i \in DOMAIN invitations
      PROVE  /\ invitations'[i] \in Invitation
             /\ invitations'[i].recipient = invitations[i].recipient
             /\ invitations'[i].claimedBy =
                  IF i \in call[c].seen THEN call[c].user ELSE invitations[i].claimedBy
  <2>1. invitations[i] \in Invitation
    BY <1>1
  <2>2. invitations'[i] =
          IF i \in call[c].seen THEN [invitations[i] EXCEPT !.claimedBy = call[c].user] ELSE r[i]
    BY <1>3
  <2>3. CASE i \in call[c].seen
    BY <2>1, <2>2, <2>3 DEF Invitation, UserOrNone
  <2>4. CASE i \notin call[c].seen
    BY <1>2, <2>2, <2>4
  <2> QED BY <2>3, <2>4
<1>5. DOMAIN invitations' = DOMAIN invitations
      /\ invitations' = [i \in DOMAIN invitations |-> invitations'[i]]
  BY <1>3
<1>6. invitations' \in Seq(Invitation) /\ Len(invitations') = Len(invitations)
  BY <1>1, <1>4, <1>5, TableType
<1> QED
  BY <1>4, <1>5, <1>6

\* A new invitation is appended to a revoked table.
LEMMA IssuedTable ==
  ASSUME invitations \in Seq(Invitation), NEW seen, NEW recipient \in Users,
         invitations' = Append(Revoked(seen), personal(recipient))
  PROVE  /\ invitations' \in Seq(Invitation)
         /\ Len(invitations') = Len(invitations) + 1
         /\ DOMAIN invitations' = DOMAIN invitations \cup {Len(invitations) + 1}
         /\ \A i \in DOMAIN invitations :
              /\ invitations'[i].recipient = invitations[i].recipient
              /\ invitations'[i].claimedBy = invitations[i].claimedBy
         /\ invitations'[Len(invitations) + 1] = personal(recipient)
<1> DEFINE f == Revoked(seen)
<1>1. /\ f \in Seq(Invitation)
      /\ Len(f) = Len(invitations)
      /\ DOMAIN f = DOMAIN invitations
      /\ \A i \in DOMAIN invitations :
           /\ f[i].recipient = invitations[i].recipient
           /\ f[i].claimedBy = invitations[i].claimedBy
  BY RevokedTable
<1>2. personal(recipient) \in Invitation
  BY DEF personal, Invitation, UserOrNone
<1>3. invitations' = Append(f, personal(recipient))
  OBVIOUS
<1> HIDE DEF f
<1>4. /\ Len(invitations) \in Nat
      /\ DOMAIN invitations = 1 .. Len(invitations)
  OBVIOUS
<1>5. /\ invitations' \in Seq(Invitation)
      /\ Len(invitations') = Len(f) + 1
      /\ invitations'[Len(f) + 1] = personal(recipient)
      /\ \A i \in 1 .. Len(f) : invitations'[i] = f[i]
  BY <1>1, <1>2, <1>3
<1>6. DOMAIN invitations' = 1 .. Len(f) + 1
  BY <1>5
<1> QED
  BY <1>1, <1>4, <1>5, <1>6

\* Expiry touches nothing else.
LEMMA ExpiredTable ==
  ASSUME invitations \in Seq(Invitation), NEW i \in DOMAIN invitations, Expire(i)
  PROVE  /\ invitations' \in Seq(Invitation)
         /\ Len(invitations') = Len(invitations)
         /\ DOMAIN invitations' = DOMAIN invitations
         /\ \A k \in DOMAIN invitations :
              /\ invitations'[k].recipient = invitations[k].recipient
              /\ invitations'[k].claimedBy = invitations[k].claimedBy
<1>1. DOMAIN invitations' = DOMAIN invitations
      /\ invitations' = [k \in DOMAIN invitations |-> invitations'[k]]
  BY DEF Expire
<1>2. ASSUME NEW k \in DOMAIN invitations
      PROVE  /\ invitations'[k] \in Invitation
             /\ invitations'[k].recipient = invitations[k].recipient
             /\ invitations'[k].claimedBy = invitations[k].claimedBy
  <2>1. invitations[k] \in Invitation
    OBVIOUS
  <2>2. invitations'[k] = IF k = i THEN [invitations[k] EXCEPT !.expired = TRUE] ELSE invitations[k]
    BY DEF Expire
  <2>3. CASE k = i
    BY <2>1, <2>2, <2>3 DEF Invitation
  <2>4. CASE k # i
    BY <2>1, <2>2, <2>4
  <2> QED BY <2>3, <2>4
<1> QED
  BY <1>1, <1>2, TableType

-----------------------------------------------------------------------------
(* Type correctness.                                                       *)

\* A call that returns leaves calls of their type.
LEMMA ReturnType ==
  ASSUME TypeOK, NEW c \in Callers, Return(c)
  PROVE  call' \in [Callers -> Call]
<1>1. Idle \in Call
  BY DEF Idle, Call, UserOrNone
<1> QED
  BY <1>1 DEF TypeOK, Return

\* What the calls in flight carry: a claim its user and the invitation that
\* is addressed to him, a reissue its recipient, who is not the creator that
\* was found on the deal.
CarriesItsUser(c) ==
  /\ call[c].op \in {"claim", "reissue"} => call[c].user \in Users
  /\ call[c].op = "reissue" => call[c].user # Creator /\ party[creatorRole] = Creator
  /\ call[c].op = "claim" =>
       \E i \in DOMAIN invitations :
         call[c].seen = {i} /\ invitations[i].recipient = call[c].user

\* The inductive invariant: an invitation was sent by the bound creator, to
\* another user, and was claimed by no one but him.
JoinInv ==
  /\ TypeOK
  /\ JoinedAltogether
  /\ creatorRole \in deal.acceptedBy
  /\ party[creatorRole] \in {NoUser, Creator}
  /\ Len(invitations) > 0 => party[creatorRole] = Creator
  /\ \A i \in DOMAIN invitations :
       /\ invitations[i].recipient # Creator
       /\ invitations[i].claimedBy \in {NoUser, invitations[i].recipient}
  /\ \A c \in Callers : CarriesItsUser(c)
  /\ CounterpartyWasInvited

LEMMA JoinInit == Init => JoinInv
<1> SUFFICES ASSUME Init PROVE JoinInv
  OBVIOUS
<1> USE DEF Init, InitTables
<1>1. creatorRole \in Side /\ invitedRole \in Side /\ invitedRole # creatorRole
  BY DEF Side, invitedRole, oppositeRole
<1>2. TypeOK
  <2>1. Idle \in Call
    BY DEF Idle, Call, UserOrNone
  <2>2. deal \in [status : DealStatus, acceptedBy : SUBSET Side]
    BY <1>1 DEF DealStatus
  <2>3. log \in InvitationEvents
    BY DEF InvitationEvents
  <2> QED BY <1>1, <2>1, <2>2, <2>3 DEF TypeOK, UserOrNone
<1>3. party[invitedRole] = NoUser /\ party[creatorRole] = NoUser
  BY <1>1
<1>4. \A c \in Callers : CarriesItsUser(c)
  BY DEF CarriesItsUser, Idle
<1> QED
  BY <1>1, <1>2, <1>3, <1>4 DEF JoinInv, JoinedAltogether, CounterpartyWasInvited

\* The two sides of a deal, as facts the steps share.
LEMMA Sides ==
  ASSUME TypeOK
  PROVE  /\ creatorRole \in Side
         /\ invitedRole \in Side
         /\ invitedRole # creatorRole
         /\ Side = {creatorRole, invitedRole}
  BY DEF TypeOK, Side, invitedRole, oppositeRole

\* A table that keeps its invitations' recipients and claimants keeps what
\* is said about them and about the calls that carry them.
LEMMA TableKeepsJoinInv ==
  ASSUME JoinInv, TypeOK', UNCHANGED <<creatorRole, deal, party>>,
         DOMAIN invitations \subseteq DOMAIN invitations',
         \A i \in DOMAIN invitations :
           /\ invitations'[i].recipient = invitations[i].recipient
           /\ invitations'[i].claimedBy = invitations[i].claimedBy,
         \A i \in DOMAIN invitations' \ DOMAIN invitations :
           /\ invitations'[i].recipient # Creator
           /\ invitations'[i].claimedBy = NoUser,
         Len(invitations') > 0 => party[creatorRole] = Creator,
         \A c \in Callers : call'[c] = call[c] \/ call'[c].op \in {"none", "revoke"}
  PROVE  JoinInv'
<1>1. invitedRole' = invitedRole
  BY DEF invitedRole
<1>2. JoinedAltogether'
  BY <1>1 DEF JoinInv, JoinedAltogether
<1>3. CounterpartyWasInvited'
  <2> SUFFICES ASSUME party[invitedRole] # NoUser
               PROVE  \E i \in DOMAIN invitations' :
                        /\ invitations'[i].recipient = party[invitedRole]
                        /\ invitations'[i].claimedBy = party[invitedRole]
                        /\ invitations'[i].recipient # Creator
    BY <1>1 DEF CounterpartyWasInvited
  <2>1. PICK i \in DOMAIN invitations :
          /\ invitations[i].recipient = party[invitedRole]
          /\ invitations[i].claimedBy = party[invitedRole]
          /\ invitations[i].recipient # Creator
    BY DEF JoinInv, CounterpartyWasInvited
  <2> QED BY <2>1
<1>4. ASSUME NEW i \in DOMAIN invitations'
      PROVE  /\ invitations'[i].recipient # Creator
             /\ invitations'[i].claimedBy \in {NoUser, invitations'[i].recipient}
  <2>1. CASE i \in DOMAIN invitations
    BY <2>1 DEF JoinInv
  <2>2. CASE i \notin DOMAIN invitations
    BY <2>2
  <2> QED BY <2>1, <2>2
<1>5. ASSUME NEW c \in Callers PROVE CarriesItsUser(c)'
  <2>1. CASE call'[c].op \in {"none", "revoke"}
    BY <2>1 DEF CarriesItsUser
  <2>2. CASE call'[c] = call[c]
    <3>1. CarriesItsUser(c)
      BY DEF JoinInv
    <3> QED BY <2>2, <3>1 DEF CarriesItsUser
  <2> QED BY <2>1, <2>2
<1> QED
  BY <1>2, <1>3, <1>4, <1>5 DEF JoinInv

\* A call that takes a step without a commit keeps the invariant, if it
\* carries what a call of its operation must.
LEMMA StepKeepsJoinInv ==
  ASSUME JoinInv, NEW c \in Callers,
         NEW op \in {"none", "claim", "reissue", "revoke"}, NEW user \in UserOrNone,
         NEW at \in {"idle", "read", "scanned", "revoked"}, NEW seen \in SUBSET Nat,
         Step(c, op, user, at, seen),
         op \in {"claim", "reissue"} => user \in Users,
         op = "reissue" => user # Creator /\ party[creatorRole] = Creator,
         op = "claim" => \E i \in DOMAIN invitations : seen = {i} /\ invitations[i].recipient = user
  PROVE  JoinInv'
<1>1. TypeOK'
  <2>1. TypeOK
    BY DEF JoinInv
  <2>2. [op |-> op, user |-> user, at |-> at, seen |-> seen] \in Call
    BY DEF Call
  <2>3. call' \in [Callers -> Call]
    BY <2>1, <2>2 DEF TypeOK, Step
  <2> QED BY <2>1, <2>3 DEF TypeOK, Step
<1>2. UNCHANGED <<creatorRole, deal, journal, party, invitations, log>> /\ invitedRole' = invitedRole
  BY DEF Step, invitedRole
<1>3. ASSUME NEW d \in Callers PROVE CarriesItsUser(d)'
  <2>1. CarriesItsUser(d)
    BY DEF JoinInv
  <2>2. CASE d = c
    <3>1. call'[d] = [op |-> op, user |-> user, at |-> at, seen |-> seen]
      BY <2>2 DEF Step, JoinInv, TypeOK
    <3> QED BY <1>2, <3>1 DEF CarriesItsUser
  <2>3. CASE d # c
    <3>1. call'[d] = call[d]
      BY <2>3 DEF Step, JoinInv, TypeOK
    <3> QED BY <1>2, <2>1, <3>1 DEF CarriesItsUser
  <2> QED BY <2>2, <2>3
<1> QED
  BY <1>1, <1>2, <1>3 DEF JoinInv, JoinedAltogether, CounterpartyWasInvited

\* A claim's commit binds its user to the side that was invited.
LEMMA ClaimKeepsJoinInv ==
  ASSUME JoinInv, NEW c \in Callers, Claim(c)
  PROVE  JoinInv'
<1>1. /\ TypeOK /\ call[c].op = "claim" /\ call[c].user \in Users
      /\ UNCHANGED <<creatorRole, log>> /\ invitedRole' = invitedRole
  BY DEF JoinInv, Claim, CarriesItsUser, invitedRole
<1>2. PICK i \in DOMAIN invitations :
        call[c].seen = {i} /\ invitations[i].recipient = call[c].user
  BY <1>1 DEF JoinInv, CarriesItsUser
<1>3. /\ invitations' \in Seq(Invitation)
      /\ Len(invitations') = Len(invitations)
      /\ DOMAIN invitations' = DOMAIN invitations
      /\ \A k \in DOMAIN invitations :
           /\ invitations'[k].recipient = invitations[k].recipient
           /\ invitations'[k].claimedBy =
                IF k \in call[c].seen THEN call[c].user ELSE invitations[k].claimedBy
  BY <1>1, ClaimedTable
<1>4. /\ creatorRole \in Side /\ invitedRole \in Side /\ invitedRole # creatorRole
      /\ Side = {creatorRole, invitedRole}
  BY <1>1, Sides
<1>5. /\ party' \in [Side -> UserOrNone]
      /\ party'[invitedRole] = call[c].user
      /\ party'[creatorRole] = party[creatorRole]
  BY <1>1, <1>4 DEF Claim, TypeOK, UserOrNone
<1>6. /\ deal' \in [status : DealStatus, acceptedBy : SUBSET Side]
      /\ deal'.status = "WAITING_PAYMENT"
      /\ deal'.acceptedBy = deal.acceptedBy \cup {invitedRole}
  BY <1>1, <1>4 DEF Claim, TypeOK, DealStatus
<1>7. journal' \in Seq(JoinEvent)
  BY <1>1, <1>4 DEF Claim, TypeOK, JoinEvent
<1>8. call' \in [Callers -> Call]
  BY <1>1, ReturnType DEF Claim
<1>9. TypeOK'
  BY <1>1, <1>3, <1>5, <1>6, <1>7, <1>8 DEF TypeOK, UserOrNone
<1>10. party[creatorRole] = Creator /\ creatorRole \in deal.acceptedBy
  <2>1. invitations \in Seq(Invitation)
    BY <1>1 DEF TypeOK
  <2>2. Len(invitations) > 0
    BY <1>2, <2>1
  <2> QED BY <2>2 DEF JoinInv
<1>11. JoinedAltogether'
  <2>1. call[c].user # NoUser
    BY <1>1, UsersAssumption
  <2>2. deal'.acceptedBy = Side
    BY <1>1, <1>4, <1>6, <1>10 DEF TypeOK
  <2>3. party'[invitedRole] # NoUser /\ party'[creatorRole] = Creator
        /\ deal'.status # "WAITING_COUNTERPARTY"
    BY <1>5, <1>6, <1>10, <2>1
  <2> QED BY <1>1, <2>2, <2>3 DEF JoinedAltogether
<1>12. invitations[i].recipient # Creator
  BY DEF JoinInv
<1>13. CounterpartyWasInvited'
  <2>1. /\ invitations'[i].recipient = party'[invitedRole]
        /\ invitations'[i].claimedBy = party'[invitedRole]
        /\ invitations'[i].recipient # Creator
        /\ i \in DOMAIN invitations'
    BY <1>2, <1>3, <1>5, <1>12
  <2> QED BY <1>1, <2>1 DEF CounterpartyWasInvited
<1>14. ASSUME NEW k \in DOMAIN invitations'
       PROVE  /\ invitations'[k].recipient # Creator
              /\ invitations'[k].claimedBy \in {NoUser, invitations'[k].recipient}
  BY <1>2, <1>3 DEF JoinInv
<1>15. ASSUME NEW d \in Callers PROVE CarriesItsUser(d)'
  <2>1. CASE d = c
    BY <1>1, <2>1 DEF Claim, Return, Idle, TypeOK, CarriesItsUser
  <2>2. CASE d # c
    <3>1. call'[d] = call[d] /\ CarriesItsUser(d)
      BY <1>1, <2>2 DEF Claim, Return, TypeOK, JoinInv
    <3> QED BY <1>1, <1>3, <1>5, <3>1 DEF CarriesItsUser
  <2> QED BY <2>1, <2>2
<1> QED
  BY <1>1, <1>3, <1>5, <1>6, <1>9, <1>10, <1>11, <1>13, <1>14, <1>15 DEF JoinInv

LEMMA JoinStep == JoinInv /\ [Next]_vars => JoinInv'
<1> SUFFICES ASSUME JoinInv, [Next]_vars PROVE JoinInv'
  OBVIOUS
<1>1. TypeOK /\ invitations \in Seq(Invitation) /\ log \in InvitationEvents
  BY DEF JoinInv, TypeOK
<1>2. CASE UNCHANGED vars
  BY <1>2 DEF vars, JoinInv, TypeOK, JoinedAltogether, CarriesItsUser, CounterpartyWasInvited,
     invitedRole
<1>3. ASSUME NEW recipient \in Users, bindCreatorAndIssue(recipient) PROVE JoinInv'
  <2>1. /\ invitations' \in Seq(Invitation)
        /\ Len(invitations') = Len(invitations) + 1
        /\ DOMAIN invitations' = DOMAIN invitations \cup {Len(invitations) + 1}
        /\ \A i \in DOMAIN invitations :
             /\ invitations'[i].recipient = invitations[i].recipient
             /\ invitations'[i].claimedBy = invitations[i].claimedBy
        /\ invitations'[Len(invitations) + 1] = personal(recipient)
    BY <1>1, <1>3, IssuedTable DEF bindCreatorAndIssue
  <2>2. /\ creatorRole \in Side /\ invitedRole \in Side /\ invitedRole # creatorRole
        /\ invitedRole' = invitedRole
    BY <1>1, <1>3, Sides DEF bindCreatorAndIssue, invitedRole
  <2>3. /\ party' \in [Side -> UserOrNone]
        /\ party'[creatorRole] = Creator
        /\ party'[invitedRole] = NoUser
    BY <1>1, <1>3, <2>2, UsersAssumption DEF bindCreatorAndIssue, TypeOK, UserOrNone
  <2>4. log' \in InvitationEvents
    BY <1>1, <1>3 DEF bindCreatorAndIssue, InvitationEvents
  <2>5. TypeOK'
    BY <1>1, <1>3, <2>1, <2>3, <2>4 DEF bindCreatorAndIssue, TypeOK
  <2>6. JoinedAltogether' /\ CounterpartyWasInvited'
    BY <1>3, <2>2, <2>3 DEF bindCreatorAndIssue, JoinedAltogether, CounterpartyWasInvited
  <2>7. ASSUME NEW i \in DOMAIN invitations'
        PROVE  /\ invitations'[i].recipient # Creator
               /\ invitations'[i].claimedBy \in {NoUser, invitations'[i].recipient}
    <3>1. CASE i \in DOMAIN invitations
      BY <2>1, <3>1 DEF JoinInv
    <3>2. CASE i = Len(invitations) + 1
      BY <1>3, <2>1, <3>2 DEF bindCreatorAndIssue, personal
    <3> QED BY <2>1, <3>1, <3>2
  <2>8. ASSUME NEW c \in Callers PROVE CarriesItsUser(c)'
    <3>1. CarriesItsUser(c) /\ call' = call
      BY <1>3 DEF JoinInv, bindCreatorAndIssue
    <3> QED BY <1>3, <2>1, <2>3, <3>1 DEF bindCreatorAndIssue, CarriesItsUser
  <2> QED
    BY <1>3, <2>3, <2>5, <2>6, <2>7, <2>8 DEF JoinInv, bindCreatorAndIssue
<1>4. ASSUME NEW c \in Callers, CallStep(c) PROVE JoinInv'
  <2> DEFINE returns ==
        /\ call'[c].op \in {"none", "revoke"}
        /\ \A d \in Callers : call'[d] = call[d] \/ call'[d].op \in {"none", "revoke"}
  <2>1. Return(c) => call' \in [Callers -> Call] /\ returns
    <3>1. Return(c) => call' \in [Callers -> Call]
      BY <1>1, ReturnType
    <3>2. ASSUME Return(c) PROVE returns
      <4>1. call'[c] = Idle /\ \A d \in Callers \ {c} : call'[d] = call[d]
        BY <1>1, <3>2 DEF Return, TypeOK
      <4> QED BY <4>1 DEF Idle
    <3> QED BY <3>1, <3>2
  <2>2. ASSUME NEW user \in Users, NEW i \in DOMAIN invitations, BeginClaim(c, user, i)
        PROVE  JoinInv'
    <3>1. {i} \in SUBSET Nat
      BY <1>1
    <3>2. user \in UserOrNone /\ invitations[i].recipient = user
      BY <2>2 DEF BeginClaim, assertRecipient, UserOrNone
    <3> QED
      BY <2>2, <3>1, <3>2, StepKeepsJoinInv DEF BeginClaim
  <2>3. ASSUME NEW recipient \in Users, BeginReissue(c, recipient) PROVE JoinInv'
    BY <2>3, StepKeepsJoinInv DEF BeginReissue, assertCreatorWaiting, UserOrNone
  <2>4. CASE BeginRevoke(c)
    BY <2>4, StepKeepsJoinInv DEF BeginRevoke, UserOrNone
  <2>5. CASE Claim(c)
    BY <2>5, ClaimKeepsJoinInv
  <2>6. CASE ScanLive(c)
    <3>1. LiveInvitations \in SUBSET Nat
      BY <1>1 DEF LiveInvitations
    <3>2. call[c].user \in Users /\ call[c].user # Creator /\ party[creatorRole] = Creator
      BY <2>6 DEF ScanLive, JoinInv, CarriesItsUser
    <3> QED
      BY <2>6, <3>1, <3>2, StepKeepsJoinInv DEF ScanLive, UserOrNone
  <2>7. CASE Reissue(c)
    <3>1. call[c].user \in Users /\ call[c].user # Creator
      BY <2>7 DEF Reissue, JoinInv, CarriesItsUser
    <3>2. /\ invitations' \in Seq(Invitation)
          /\ DOMAIN invitations' = DOMAIN invitations \cup {Len(invitations) + 1}
          /\ \A i \in DOMAIN invitations :
               /\ invitations'[i].recipient = invitations[i].recipient
               /\ invitations'[i].claimedBy = invitations[i].claimedBy
          /\ invitations'[Len(invitations) + 1] = personal(call[c].user)
      BY <1>1, <2>7, <3>1, IssuedTable DEF Reissue
    <3>3. log' \in InvitationEvents
      BY <1>1, <2>7 DEF Reissue, InvitationEvents
    <3>4. TypeOK'
      BY <1>1, <2>1, <2>7, <3>2, <3>3 DEF Reissue, TypeOK
    <3>5. party[creatorRole] = Creator
      BY <2>7 DEF Reissue, JoinInv, CarriesItsUser
    <3> QED
      BY <2>1, <2>7, <3>1, <3>2, <3>4, <3>5, TableKeepsJoinInv DEF Reissue, personal
  <2>8. CASE Revoke(c)
    <3>1. /\ invitations' \in Seq(Invitation)
          /\ Len(invitations') = Len(invitations)
          /\ DOMAIN invitations' = DOMAIN invitations
          /\ \A i \in DOMAIN invitations :
               /\ invitations'[i].recipient = invitations[i].recipient
               /\ invitations'[i].claimedBy = invitations[i].claimedBy
      BY <1>1, <2>8, RevokedTable DEF Revoke
    <3>2. call' \in [Callers -> Call] /\ returns
      BY <1>1, <2>8 DEF Revoke, TypeOK, Call
    <3>3. TypeOK'
      BY <1>1, <2>8, <3>1, <3>2 DEF Revoke, TypeOK
    <3> QED
      BY <2>8, <3>1, <3>2, <3>3, TableKeepsJoinInv DEF Revoke, JoinInv
  <2>9. CASE RecordRevoke(c)
    <3>1. log' \in InvitationEvents
      BY <1>1, <2>9 DEF RecordRevoke, InvitationEvents
    <3>2. TypeOK'
      BY <1>1, <2>1, <2>9, <3>1 DEF RecordRevoke, TypeOK
    <3> QED
      BY <2>1, <2>9, <3>2, TableKeepsJoinInv DEF RecordRevoke, JoinInv
  <2>10. CASE Crash(c)
    <3>1. TypeOK'
      BY <1>1, <2>1, <2>10 DEF Crash, TypeOK
    <3> QED
      BY <2>1, <2>10, <3>1, TableKeepsJoinInv DEF Crash, JoinInv
  <2> QED
    BY <1>4, <2>2, <2>3, <2>4, <2>5, <2>6, <2>7, <2>8, <2>9, <2>10 DEF CallStep
<1>5. ASSUME NEW i \in DOMAIN invitations, Expire(i) PROVE JoinInv'
  <2>1. /\ invitations' \in Seq(Invitation)
        /\ Len(invitations') = Len(invitations)
        /\ DOMAIN invitations' = DOMAIN invitations
        /\ \A k \in DOMAIN invitations :
             /\ invitations'[k].recipient = invitations[k].recipient
             /\ invitations'[k].claimedBy = invitations[k].claimedBy
    BY <1>1, <1>5, ExpiredTable
  <2>2. TypeOK'
    BY <1>1, <1>5, <2>1 DEF Expire, TypeOK
  <2> QED
    BY <1>5, <2>1, <2>2, TableKeepsJoinInv DEF Expire, JoinInv
<1> QED
  BY <1>2, <1>3, <1>4, <1>5 DEF Next

LEMMA Joining == Spec => []JoinInv
<1>1. JoinInv /\ [Next]_vars => JoinInv'
  BY JoinStep
<1> QED
  BY <1>1, JoinInit, PTL DEF Spec

-----------------------------------------------------------------------------
(* The theorems.                                                           *)

\* Every table keeps its type, whatever calls race and die.
THEOREM InvitationsTypeCorrect == Spec => []TypeOK
<1>1. JoinInv => TypeOK
  BY DEF JoinInv
<1> QED BY <1>1, Joining, PTL

\* No deal of claim's leaves WAITING_COUNTERPARTY with a side that is empty
\* or has not accepted.
THEOREM JoinedAltogetherAlways == Spec => []JoinedAltogether
<1>1. JoinInv => JoinedAltogether
  BY DEF JoinInv
<1> QED BY <1>1, Joining, PTL

\* The counterparty whom claim binds is someone the creator invited, and not
\* the creator, however many invitations are claimed at once.
THEOREM CounterpartyWasInvitedAlways == Spec => []CounterpartyWasInvited
<1>1. JoinInv => CounterpartyWasInvited
  BY DEF JoinInv
<1> QED BY <1>1, Joining, PTL

-----------------------------------------------------------------------------
(***************************************************************************)
(* One call at a time (MCInvitations with serial).  What a call has read   *)
(* is then still so when it commits: the invitation of a claim is live and *)
(* the deal has no second party yet, and a reissue has seen every live     *)
(* invitation.                                                             *)
(***************************************************************************)
OneCall == \A c, d \in Callers : call[c] # Idle /\ call[d] # Idle => c = d

ReadsHold(c) ==
  /\ call[c].op \in {"claim", "reissue"} => party[invitedRole] = NoUser
  /\ call[c].op = "claim" => call[c].seen \subseteq LiveInvitations
  /\ call[c].op = "reissue" /\ call[c].at = "scanned" => LiveInvitations \subseteq call[c].seen

SerialInv == OneCall /\ OneLinkWorks /\ \A c \in Callers : ReadsHold(c)

\* What is live after an update that revokes was live, and not revoked by it.
LEMMA RevokedLive ==
  ASSUME invitations \in Seq(Invitation), NEW seen, NEW i \in DOMAIN invitations,
         Revoked(seen)[i].claimedBy = NoUser, ~Revoked(seen)[i].revoked
  PROVE  Live(i) /\ i \notin seen
<1>1. Revoked(seen)[i] = IF i \in seen /\ Live(i) THEN [invitations[i] EXCEPT !.revoked = TRUE]
                                                   ELSE invitations[i]
  BY DEF Revoked
<1>2. invitations[i] \in Invitation
  OBVIOUS
<1>3. ~(i \in seen /\ Live(i))
  <2> SUFFICES ASSUME i \in seen, Live(i) PROVE FALSE
    OBVIOUS
  <2>1. Revoked(seen)[i] = [invitations[i] EXCEPT !.revoked = TRUE]
    BY <1>1
  <2>2. Revoked(seen)[i].revoked = TRUE
    BY <1>2, <2>1 DEF Invitation
  <2> QED BY <2>2
<1>4. Revoked(seen)[i] = invitations[i]
  BY <1>1, <1>3
<1>5. Live(i)
  BY <1>4 DEF Live
<1> QED BY <1>3, <1>5

\* An invitation issued over a table in which every live one was seen is the
\* only one that is live.
LEMMA IssuedIsLast ==
  ASSUME invitations \in Seq(Invitation), NEW seen, NEW recipient \in Users,
         invitations' = Append(Revoked(seen), personal(recipient)), LiveInvitations \subseteq seen
  PROVE  LiveInvitations' \subseteq {Len(invitations')}
<1> SUFFICES ASSUME NEW i \in LiveInvitations' PROVE i = Len(invitations')
  OBVIOUS
<1>1. /\ Len(invitations') = Len(invitations) + 1
      /\ DOMAIN invitations' = DOMAIN invitations \cup {Len(invitations) + 1}
  BY IssuedTable
<1>2. i \in DOMAIN invitations' /\ invitations'[i].claimedBy = NoUser /\ ~invitations'[i].revoked
  BY DEF LiveInvitations, Live
<1>3. ASSUME i \in DOMAIN invitations PROVE FALSE
  <2>1. Revoked(seen) \in Seq(Invitation) /\ Len(Revoked(seen)) = Len(invitations)
    BY RevokedTable
  <2>2. personal(recipient) \in Invitation
    BY DEF personal, Invitation, UserOrNone
  <2>3. invitations'[i] = Revoked(seen)[i]
    BY <1>3, <2>1, <2>2
  <2>4. Live(i) /\ i \notin seen
    BY <1>2, <1>3, <2>3, RevokedLive
  <2> QED BY <1>3, <2>4 DEF LiveInvitations
<1> QED BY <1>1, <1>2, <1>3

\* A claim and a revocation leave no live invitation.
LEMMA NoneLive ==
  ASSUME JoinInv, NEW c \in Callers, Claim(c) \/ Revoke(c)
  PROVE  LiveInvitations' = {}
<1> SUFFICES ASSUME NEW i \in LiveInvitations' PROVE FALSE
  OBVIOUS
<1>1. invitations \in Seq(Invitation)
  BY DEF JoinInv, TypeOK
<1>2. i \in DOMAIN invitations' /\ invitations'[i].claimedBy = NoUser /\ ~invitations'[i].revoked
  BY DEF LiveInvitations, Live
<1>3. i \in DOMAIN invitations
  BY <1>2 DEF Claim, Revoke, Revoked
<1>4. ASSUME invitations'[i] = Revoked(LiveInvitations)[i] PROVE FALSE
  <2>1. Live(i) /\ i \notin LiveInvitations
    BY <1>1, <1>2, <1>3, <1>4, RevokedLive
  <2> QED BY <1>3, <2>1 DEF LiveInvitations
<1>5. CASE Claim(c)
  <2>1. TypeOK /\ call[c].user \in Users
    BY <1>5 DEF JoinInv, Claim, CarriesItsUser
  <2>2. i \notin call[c].seen
    BY <1>2, <1>3, <1>5, <2>1, ClaimedTable, UsersAssumption
  <2>3. invitations'[i] = Revoked(LiveInvitations)[i]
    BY <1>3, <1>5, <2>2 DEF Claim
  <2> QED BY <1>4, <2>3
<1>6. CASE Revoke(c)
  BY <1>4, <1>6 DEF Revoke
<1> QED BY <1>5, <1>6

\* Expiry changes nothing about what is live.
LEMMA ExpiredLive ==
  ASSUME invitations \in Seq(Invitation), NEW i \in DOMAIN invitations, Expire(i)
  PROVE  LiveInvitations' = LiveInvitations /\ Len(invitations') = Len(invitations)
<1>1. DOMAIN invitations' = DOMAIN invitations /\ Len(invitations') = Len(invitations)
  BY ExpiredTable
<1>2. ASSUME NEW k \in DOMAIN invitations PROVE Live(k)' = Live(k)
  <2>1. invitations[k] \in Invitation
    OBVIOUS
  <2>2. invitations'[k] = IF k = i THEN [invitations[k] EXCEPT !.expired = TRUE] ELSE invitations[k]
    BY DEF Expire
  <2>3. invitations'[k].claimedBy = invitations[k].claimedBy /\ invitations'[k].revoked = invitations[k].revoked
    BY <2>1, <2>2 DEF Invitation
  <2> QED BY <2>3 DEF Live
<1> QED BY <1>1, <1>2 DEF LiveInvitations

\* Two calls that are under way would be counted.
LEMMA CountedOnce ==
  ASSUME NEW S, IsFiniteSet(S), Cardinality(S) <= 1, NEW a \in S, NEW b \in S
  PROVE  a = b
<1> SUFFICES ASSUME a # b PROVE FALSE
  OBVIOUS
<1>1. Cardinality({a, b}) = 2 /\ IsFiniteSet({a, b})
  <2>1. Cardinality({a}) = 1 /\ IsFiniteSet({a})
    BY FS_Singleton
  <2>2. {a, b} = {a} \cup {b} /\ b \notin {a}
    OBVIOUS
  <2> QED BY <2>1, <2>2, FS_AddElement
<1>2. {a, b} \in SUBSET S
  OBVIOUS
<1>3. Cardinality({a, b}) <= Cardinality(S) /\ Cardinality(S) \in Nat
  BY <1>2, FS_Subset, FS_CardinalityType
<1> QED BY <1>1, <1>3

\* While one call is made at a time, a call that steps is the only one.
LEMMA OthersIdle ==
  ASSUME JoinInv, OneCall, NEW c \in Callers, CallStep(c),
         Cardinality({d \in Callers : call'[d] # Idle}) <= 1
  PROVE  \A d \in Callers \ {c} : call'[d] = Idle
<1>t. call \in [Callers -> Call]
  BY DEF JoinInv, TypeOK
<1>1. \A d \in Callers \ {c} : call'[d] = call[d]
  BY <1>t DEF CallStep, BeginClaim, BeginReissue, BeginRevoke, Claim, ScanLive, Reissue, Revoke,
              RecordRevoke, Crash, Step, Return
<1>2. CASE call[c] # Idle
  BY <1>1, <1>2 DEF OneCall
<1>3. CASE call[c] = Idle
  <2> DEFINE busy == {d \in Callers : call'[d] # Idle}
  <2>1. call'[c] # Idle
    BY <1>t, <1>3 DEF CallStep, BeginClaim, BeginReissue, BeginRevoke, Claim, ScanLive, Reissue, Revoke,
       RecordRevoke, Crash, Step, Idle
  <2>2. IsFiniteSet(busy)
    <3>1. CASE \E b \in Callers : call[b] # Idle
      <4>1. PICK b \in Callers : call[b] # Idle
        BY <3>1
      <4>2. busy \in SUBSET {b, c}
        BY <1>1, <4>1 DEF OneCall
      <4>3. IsFiniteSet({b, c})
        <5>1. IsFiniteSet({b})
          BY FS_Singleton
        <5>2. {b, c} = {b} \cup {c}
          OBVIOUS
        <5> QED BY <5>1, <5>2, FS_AddElement
      <4> QED BY <4>2, <4>3, FS_Subset
    <3>2. CASE ~ \E b \in Callers : call[b] # Idle
      <4>1. busy \in SUBSET {c}
        BY <1>1, <3>2
      <4> QED BY <4>1, FS_Singleton, FS_Subset
    <3> QED BY <3>1, <3>2
  <2>3. c \in busy
    BY <2>1
  <2>4. \A d \in busy : d = c
    <3> HIDE DEF busy
    <3> QED BY <2>2, <2>3, CountedOnce DEF busy
  <2> QED BY <2>4
<1> QED BY <1>2, <1>3


\* A step of a call keeps what the calls have read, if what that call goes on
\* with is so and if the links are as they should be.
LEMMA CallKeepsSerial ==
  ASSUME JoinInv, OneCall, NEW c \in Callers, CallStep(c),
         Cardinality({d \in Callers : call'[d] # Idle}) <= 1, OneLinkWorks', ReadsHold(c)'
  PROVE  SerialInv'
<1>1. \A d \in Callers \ {c} : call'[d] = Idle
  BY OthersIdle
<1>2. OneCall'
  BY <1>1 DEF OneCall
<1>3. \A d \in Callers : ReadsHold(d)'
  BY <1>1 DEF ReadsHold, Idle
<1> QED BY <1>2, <1>3 DEF SerialInv

\* Every step does, as long as it leaves one call under way at most.
LEMMA SerialStep ==
  ASSUME JoinInv, SerialInv, Next, Cardinality({d \in Callers : call'[d] # Idle}) <= 1
  PROVE  SerialInv'
<1>t. /\ TypeOK /\ invitations \in Seq(Invitation) /\ call \in [Callers -> Call]
      /\ OneCall /\ OneLinkWorks /\ \A c \in Callers : ReadsHold(c)
  BY DEF JoinInv, TypeOK, SerialInv
<1>1. ASSUME NEW recipient \in Users, bindCreatorAndIssue(recipient) PROVE SerialInv'
  <2>1. /\ creatorRole \in Side /\ invitedRole \in Side /\ invitedRole # creatorRole
        /\ invitedRole' = invitedRole
    BY <1>1, <1>t, Sides DEF bindCreatorAndIssue, invitedRole
  <2>2. party[creatorRole] = NoUser /\ party'[invitedRole] = NoUser /\ call' = call
    BY <1>1, <1>t, <2>1 DEF bindCreatorAndIssue, TypeOK
  <2>3. LiveInvitations' \subseteq {Len(invitations')}
    BY <1>1, <1>t, IssuedIsLast DEF bindCreatorAndIssue
  <2>4. ASSUME NEW c \in Callers PROVE call[c].op \notin {"claim", "reissue"}
    <3>1. CarriesItsUser(c)
      BY DEF JoinInv
    <3>2. call[c].op # "reissue"
      BY <2>2, <3>1, UsersAssumption DEF CarriesItsUser
    <3>3. ASSUME call[c].op = "claim" PROVE FALSE
      <4>1. PICK i \in DOMAIN invitations : TRUE
        BY <3>1, <3>3 DEF CarriesItsUser
      <4>2. Len(invitations) > 0
        BY <1>t, <4>1
      <4> QED BY <2>2, <4>2, UsersAssumption DEF JoinInv
    <3> QED BY <3>2, <3>3
  <2>5. \A c \in Callers : ReadsHold(c)'
    BY <2>2, <2>4 DEF ReadsHold
  <2>6. OneCall' /\ OneLinkWorks'
    BY <1>t, <2>1, <2>2, <2>3 DEF OneCall, OneLinkWorks
  <2> QED BY <2>5, <2>6 DEF SerialInv
<1>2. ASSUME NEW c \in Callers, CallStep(c) PROVE SerialInv'
  <2> SUFFICES OneLinkWorks' /\ ReadsHold(c)'
    BY <1>2, <1>t, CallKeepsSerial
  <2>1. ASSUME NEW op, NEW user, NEW at, NEW seen, Step(c, op, user, at, seen),
               op \in {"claim", "reissue"} => party[invitedRole] = NoUser,
               op = "claim" => seen \subseteq LiveInvitations,
               op = "reissue" /\ at = "scanned" => LiveInvitations \subseteq seen
        PROVE  OneLinkWorks' /\ ReadsHold(c)'
    <3>1. /\ UNCHANGED <<invitations, party>> /\ invitedRole' = invitedRole
          /\ LiveInvitations' = LiveInvitations
          /\ call'[c] = [op |-> op, user |-> user, at |-> at, seen |-> seen]
      BY <1>t, <2>1 DEF Step, invitedRole, LiveInvitations, Live
    <3> QED BY <1>t, <2>1, <3>1 DEF OneLinkWorks, ReadsHold
  <2>2. ASSUME Return(c), LiveInvitations' \subseteq
                 (IF party'[invitedRole'] = NoUser THEN {Len(invitations')} ELSE {})
        PROVE  OneLinkWorks' /\ ReadsHold(c)'
    <3>1. call'[c] = Idle
      BY <1>t, <2>2 DEF Return
    <3> QED BY <2>2, <3>1 DEF OneLinkWorks, ReadsHold, Idle
  <2>3. ASSUME NEW user \in Users, NEW i \in DOMAIN invitations, BeginClaim(c, user, i)
        PROVE  OneLinkWorks' /\ ReadsHold(c)'
    <3>1. i \in LiveInvitations /\ party[invitedRole] = NoUser
      BY <2>3 DEF BeginClaim, assertUsable, LiveInvitations
    <3> QED BY <2>1, <2>3, <3>1 DEF BeginClaim
  <2>4. ASSUME NEW recipient \in Users, BeginReissue(c, recipient) PROVE OneLinkWorks' /\ ReadsHold(c)'
    <3>1. party[invitedRole] = NoUser
      BY <2>4 DEF BeginReissue, assertCreatorWaiting, JoinInv, JoinedAltogether
    <3> QED BY <2>1, <2>4, <3>1 DEF BeginReissue
  <2>5. CASE BeginRevoke(c)
    BY <2>1, <2>5 DEF BeginRevoke
  <2>6. CASE ScanLive(c)
    <3>1. party[invitedRole] = NoUser
      BY <1>t, <2>6 DEF ScanLive, ReadsHold
    <3> QED BY <2>1, <2>6, <3>1 DEF ScanLive
  <2>7. CASE Claim(c)
    BY <2>2, <2>7, NoneLive DEF Claim
  <2>8. CASE Reissue(c)
    <3>1. /\ call[c].user \in Users /\ party[invitedRole] = NoUser /\ LiveInvitations \subseteq call[c].seen
          /\ UNCHANGED party /\ invitedRole' = invitedRole
      BY <1>t, <2>8 DEF Reissue, ReadsHold, JoinInv, CarriesItsUser, invitedRole
    <3>2. LiveInvitations' \subseteq {Len(invitations')}
      BY <1>t, <2>8, <3>1, IssuedIsLast DEF Reissue
    <3> QED BY <2>2, <2>8, <3>1, <3>2 DEF Reissue
  <2>9. CASE Revoke(c)
    <3>1. LiveInvitations' = {}
      BY <2>9, NoneLive
    <3>2. call'[c].op = "revoke"
      BY <1>t, <2>9 DEF Revoke, Call
    <3> QED BY <3>1, <3>2 DEF OneLinkWorks, ReadsHold
  <2>10. CASE RecordRevoke(c) \/ Crash(c)
    <3>1. /\ UNCHANGED <<invitations, party>> /\ invitedRole' = invitedRole /\ Return(c)
          /\ LiveInvitations' = LiveInvitations
      BY <2>10 DEF RecordRevoke, Crash, invitedRole, LiveInvitations, Live
    <3> QED BY <1>t, <2>2, <3>1 DEF OneLinkWorks
  <2> QED
    BY <1>2, <2>3, <2>4, <2>5, <2>6, <2>7, <2>8, <2>9, <2>10 DEF CallStep
<1>3. ASSUME NEW i \in DOMAIN invitations, Expire(i) PROVE SerialInv'
  <2>1. LiveInvitations' = LiveInvitations /\ Len(invitations') = Len(invitations)
    BY <1>3, <1>t, ExpiredLive
  <2>2. UNCHANGED <<party, call>> /\ invitedRole' = invitedRole
    BY <1>3 DEF Expire, invitedRole
  <2> QED BY <1>t, <2>1, <2>2 DEF SerialInv, OneCall, OneLinkWorks, ReadsHold
<1> QED BY <1>1, <1>2, <1>3 DEF Next

\* The behaviours of MCInvitations are behaviours of Invitations.
LEMMA SerialJoining == MCSpec => []JoinInv
<1>1. MCInit => JoinInv
  BY JoinInit DEF MCInit
<1>2. JoinInv /\ [MCNext]_<<vars, serial>> => JoinInv'
  BY JoinStep DEF MCNext, vars
<1> QED BY <1>1, <1>2, PTL DEF MCSpec

LEMMA SerialInvariant == MCSpec => [](serial => SerialInv)
<1>1. MCInit => SerialInv
  <2> SUFFICES ASSUME MCInit PROVE SerialInv
    OBVIOUS
  <2>1. invitations = << >> /\ \A c \in Callers : call[c] = Idle
    BY DEF MCInit, Init, InitTables
  <2>2. LiveInvitations = {}
    BY <2>1 DEF LiveInvitations
  <2>3. \A c \in Callers : ReadsHold(c)
    BY <2>1 DEF ReadsHold, Idle
  <2> QED BY <2>1, <2>2, <2>3 DEF SerialInv, OneCall, OneLinkWorks
<1>2. JoinInv /\ (serial => SerialInv) /\ [MCNext]_<<vars, serial>> => (serial => SerialInv)'
  <2> SUFFICES ASSUME JoinInv, serial => SerialInv, [MCNext]_<<vars, serial>>, serial'
               PROVE  SerialInv'
    OBVIOUS
  <2>1. serial /\ SerialInv
    BY DEF MCNext
  <2>2. CASE MCNext
    BY <2>1, <2>2, SerialStep DEF MCNext
  <2>3. CASE UNCHANGED vars
    BY <2>1, <2>3 DEF vars, SerialInv, OneCall, OneLinkWorks, ReadsHold, LiveInvitations, Live, invitedRole
  <2> QED BY <2>2, <2>3
<1> QED BY <1>1, <1>2, SerialJoining, PTL DEF MCSpec

\* Where calls do not overlap, only the last link sent works, and none does
\* on a deal that has its second party (SerialLinks).
THEOREM SerialLinksAlways == MCSpec => []SerialLinks
<1>1. (serial => SerialInv) => SerialLinks
  BY DEF SerialInv, SerialLinks
<1> QED BY <1>1, SerialInvariant, PTL

\* Where calls do not overlap, a link that was revoked unclaimed is never
\* claimed (RevokedIsNeverClaimed).
THEOREM RevokedStaysDead == MCSpec => RevokedIsNeverClaimed
<1> DEFINE dead(i) == invitations[i].revoked /\ invitations[i].claimedBy = NoUser
<1>1. ASSUME JoinInv, SerialInv, Next, NEW i \in DOMAIN invitations, dead(i)
      PROVE  invitations'[i].claimedBy = NoUser
  <2>t. /\ TypeOK /\ invitations \in Seq(Invitation)
    BY <1>1 DEF JoinInv, TypeOK
  <2>1. ASSUME NEW c \in Callers, Claim(c) PROVE invitations'[i].claimedBy = NoUser
    <3>1. call[c].user \in Users /\ call[c].seen \subseteq LiveInvitations
      BY <1>1, <2>1 DEF Claim, JoinInv, CarriesItsUser, SerialInv, ReadsHold
    <3>2. i \notin call[c].seen
      BY <1>1, <3>1 DEF LiveInvitations, Live
    <3> QED BY <1>1, <2>t, <2>1, <3>1, <3>2, ClaimedTable
  <2>2. ASSUME NEW seen, NEW recipient \in Users, invitations' = Append(Revoked(seen), personal(recipient))
        PROVE  invitations'[i].claimedBy = NoUser
    BY <1>1, <2>t, <2>2, IssuedTable
  <2>3. ASSUME NEW c \in Callers, Reissue(c) PROVE invitations'[i].claimedBy = NoUser
    <3>1. call[c].user \in Users
      BY <1>1, <2>3 DEF Reissue, JoinInv, CarriesItsUser
    <3> QED BY <2>2, <2>3, <3>1 DEF Reissue
  <2>4. ASSUME NEW c \in Callers, Revoke(c) PROVE invitations'[i].claimedBy = NoUser
    BY <1>1, <2>t, <2>4, RevokedTable DEF Revoke
  <2>5. ASSUME NEW k \in DOMAIN invitations, Expire(k) PROVE invitations'[i].claimedBy = NoUser
    BY <1>1, <2>t, <2>5, ExpiredTable
  <2>6. CASE UNCHANGED invitations
    BY <1>1, <2>6
  <2> QED
    BY <1>1, <2>1, <2>2, <2>3, <2>4, <2>5, <2>6
    DEF Next, CallStep, bindCreatorAndIssue, BeginClaim, BeginReissue, BeginRevoke, ScanLive, Step,
        RecordRevoke, Crash
<1>2. JoinInv /\ (serial => SerialInv) /\ [MCNext]_<<vars, serial>> =>
        [serial => \A i \in DOMAIN invitations : dead(i) => invitations'[i].claimedBy = NoUser]_vars
  BY <1>1 DEF MCNext, vars
<1> QED BY <1>2, SerialJoining, SerialInvariant, PTL DEF MCSpec, RevokedIsNeverClaimed

=============================================================================
