------------------------------ MODULE Disputes ------------------------------
(***************************************************************************)
(* The dispute channel of one deal: disputes.service.ts, and what the      *)
(* panel of the web application (DisputePanel.tsx) offers on it.           *)
(*                                                                         *)
(* Every operation first reads, with no transaction, and then commits one  *)
(* transaction of inserts; nothing it checked is checked again.  The room  *)
(* is append-only and an assistance row is never deleted, so each thing    *)
(* the reads look for, once found, is found ever after: a request passes   *)
(* all its reads exactly if it passes them at the moment of the first one  *)
(* that matters, and one step stands for them.  The commit is another; in  *)
(* between other requests commit, and the request may die.  An acceptance  *)
(* has a step more, inside its transaction: it closes the assistance that  *)
(* it then finds committed.                                                *)
(*                                                                         *)
(* Bodies and attached files say nothing here; a SYSTEM message of         *)
(* reportProblem stands outside the room, since no operation looks at it.  *)
(* The deal's status is moved by the deal flow and abstracted to the moves *)
(* into and out of a dispute, those of its lost updates included.          *)
(***************************************************************************)
EXTENDS DealStateMachine, Integers, Sequences, FiniteSets

CONSTANTS
  Callers,      \* requests that may be in flight at the same time
  Settlements,  \* the settlement types of a run
  DealAmount,   \* deal.amountKzt
  Inputs,       \* the amounts a form may send, NoAmount among them
  NoAmount,     \* an amount that is undefined
  MaxMessages   \* bound: no request to write begins on a longer room

SettlementType == {"FULL_REFUND", "PARTIAL_REFUND", "RELEASE_TO_SELLER", "CUSTOM"}

ASSUME SettlementsAssumption == Settlements \subseteq SettlementType
ASSUME AmountAssumption == DealAmount \in Nat \ {0} /\ NoAmount \notin Int
ASSUME InputsAssumption == Inputs \subseteq Int \cup {NoAmount}
ASSUME MaxMessagesAssumption == MaxMessages \in Nat

VARIABLES
  status,      \* the deal's
  room,        \* the dispute messages, oldest first
  assistance,  \* the deal's assistance row
  log,         \* how many dispute events of each kind
  call         \* for each caller, the request that has passed its reads
vars == <<status, room, assistance, log, call>>

Party == {"BUYER", "SELLER"}
disputeStatuses == {"PROBLEM_REPORTED", "WAITING_LEGAL_RESOLUTION"}
Answer == {"PROPOSAL_ACCEPTED", "PROPOSAL_REJECTED"}
MessageType == {"MESSAGE", "PROPOSAL"} \cup Answer
Amount == 1..DealAmount \cup {NoAmount}
Event == {"message_added", "proposal_created", "settlement_agreed", "proposal_rejected",
          "assistance_requested"}

(* `to' is the number of the proposal answered, 0 if none.  `seen', `swept'*)
(* and `at' are no columns: how long the room was when the request read   *)
(* it, when an acceptance looked for an assistance to close, and when the  *)
(* assistance row was inserted.                                            *)
Message == [type : MessageType, by : Party, settlement : SettlementType \cup {"NULL"},
            amount : Amount, to : Nat, seen : Nat, swept : Nat]
Assistance == [status : {"NONE", "REQUESTED", "SETTLEMENT_REACHED"}, seen : Nat, at : Nat]
Request == [op : {"none", "write", "settle", "close", "assistance"}, message : Message]

Silence == [type |-> "MESSAGE", by |-> "BUYER", settlement |-> "NULL", amount |-> NoAmount,
            to |-> 0, seen |-> 0, swept |-> 0]
Idle == [op |-> "none", message |-> Silence]

Init ==
  /\ status = "PROBLEM_REPORTED"
  /\ room = <<>>
  /\ assistance = [status |-> "NONE", seen |-> 0, at |-> 0]
  /\ log = [e \in Event |-> 0]
  /\ call = [c \in Callers |-> Idle]

-----------------------------------------------------------------------------
\* The deal flow, whose transactions write over one another: it brings the
\* deal into a dispute and out of it at any moment, back into the inspection
\* as well as to the end.
DealMoves ==
  /\ status' \in {"INSPECTION", "PROBLEM_REPORTED", "COMPLETED"} \ {status}
  /\ UNCHANGED <<room, assistance, log, call>>

-----------------------------------------------------------------------------
(* The reads.                                                              *)

ensureDisputeDeal == status \in disputeStatuses

ensureNoAcceptedSettlement == \A i \in DOMAIN room : room[i].type # "PROPOSAL_ACCEPTED"

Unanswered(i) == \A j \in DOMAIN room : ~(room[j].type \in Answer /\ room[j].to = i)

\* resolveProposalAmount; a refused amount resolves to none.
resolveProposalAmount(type, amount) ==
  IF type \in {"FULL_REFUND", "RELEASE_TO_SELLER"} THEN {DealAmount}
  ELSE IF type = "CUSTOM" /\ amount = NoAmount THEN {NoAmount}
  ELSE {amount} \cap 1..DealAmount

MayMessage == ensureDisputeDeal

\* Faulty variant: an agreement does not end the proposals.
MayProposeAnyTime == ensureDisputeDeal

MayPropose == ensureDisputeDeal /\ ensureNoAcceptedSettlement

\* Faulty variant: the author may answer his own proposal.
MayRespondAnyone(role, i, answer) ==
  /\ ensureDisputeDeal
  /\ room[i].type = "PROPOSAL"
  /\ Unanswered(i)
  /\ answer = "PROPOSAL_ACCEPTED" => ensureNoAcceptedSettlement

\* Faulty variant: an earlier answer is not looked for.
MayRespondAgain(role, i, answer) ==
  /\ ensureDisputeDeal
  /\ room[i].type = "PROPOSAL"
  /\ room[i].by # role
  /\ answer = "PROPOSAL_ACCEPTED" => ensureNoAcceptedSettlement

MayRespond(role, i, answer) ==
  /\ ensureDisputeDeal
  /\ room[i].type = "PROPOSAL"
  /\ room[i].by # role
  /\ Unanswered(i)
  /\ answer = "PROPOSAL_ACCEPTED" => ensureNoAcceptedSettlement

\* With an assistance row there the request returns it and changes nothing.
MayRequestAssistance ==
  /\ ensureDisputeDeal
  /\ ensureNoAcceptedSettlement
  /\ assistance.status = "NONE"

\* A message of a request that reads the room now.
Says(role, type, settlement, amount, to) ==
  [type |-> type, by |-> role, settlement |-> settlement, amount |-> amount, to |-> to,
   seen |-> Len(room), swept |-> 0]

\* The request goes on to its transaction.
Pass(c, op, message) ==
  /\ call[c] = Idle
  /\ Len(room) < MaxMessages
  /\ call' = [call EXCEPT ![c] = [op |-> op, message |-> message]]
  /\ UNCHANGED <<status, room, assistance, log>>

BeginMessage(c, role) ==
  /\ MayMessage
  /\ Pass(c, "write", Says(role, "MESSAGE", "NULL", NoAmount, 0))

BeginProposal(c, role, type, input) ==
  /\ MayPropose
  /\ \E amount \in resolveProposalAmount(type, input) :
       Pass(c, "write", Says(role, "PROPOSAL", type, amount, 0))

\* The terms are copied from the proposal as it was read.
BeginRespond(c, role, i, answer) ==
  /\ MayRespond(role, i, answer)
  /\ Pass(c, IF answer = "PROPOSAL_ACCEPTED" THEN "settle" ELSE "write",
          Says(role, answer, room[i].settlement, room[i].amount, i))

BeginRequestAssistance(c, role) ==
  /\ MayRequestAssistance
  /\ Pass(c, "assistance", Says(role, "MESSAGE", "NULL", NoAmount, 0))

-----------------------------------------------------------------------------
(* The transactions.                                                       *)

Return(c) == call' = [call EXCEPT ![c] = Idle]

\* The event that goes with a message.
EventOf(type) ==
  CASE type = "MESSAGE"           -> "message_added"
    [] type = "PROPOSAL"          -> "proposal_created"
    [] type = "PROPOSAL_ACCEPTED" -> "settlement_agreed"
    [] type = "PROPOSAL_REJECTED" -> "proposal_rejected"

\* The updateMany of an acceptance, before its commit: it closes an assistance
\* that is committed and open, and waits for who is closing it already.
SettleAssistance(c) ==
  /\ call[c].op = "settle"
  /\ \/ /\ assistance.status = "REQUESTED"
        /\ \A d \in Callers : call[d].op # "close"
        /\ call' = [call EXCEPT ![c].op = "close", ![c].message.swept = Len(room)]
     \/ /\ assistance.status # "REQUESTED"
        /\ call' = [call EXCEPT ![c].op = "write", ![c].message.swept = Len(room)]
  /\ UNCHANGED <<status, room, assistance, log>>

\* What the commit shows of it.
Settle(op) ==
  assistance' = IF op = "close" THEN [assistance EXCEPT !.status = "SETTLEMENT_REACHED"]
                ELSE assistance

\* Faulty variant: the message commits by itself and its event is lost.
WriteUnlogged(c) ==
  /\ call[c].op \in {"write", "close"}
  /\ room' = Append(room, call[c].message)
  /\ Settle(call[c].op)
  /\ Return(c)
  /\ UNCHANGED <<status, log>>

\* message, proposal and respond commit: the row, its event, and what an
\* acceptance did to the assistance.
Write(c) ==
  /\ call[c].op \in {"write", "close"}
  /\ room' = Append(room, call[c].message)
  /\ log' = [log EXCEPT ![EventOf(call[c].message.type)] = @ + 1]
  /\ Settle(call[c].op)
  /\ Return(c)
  /\ UNCHANGED status

\* requestAssistance: dealId is unique, so a second insert fails (Fail).
RequestAssistance(c) ==
  /\ call[c].op = "assistance"
  /\ assistance.status = "NONE"
  /\ assistance' = [status |-> "REQUESTED", seen |-> call[c].message.seen, at |-> Len(room)]
  /\ log' = [log EXCEPT !["assistance_requested"] = @ + 1]
  /\ Return(c)
  /\ UNCHANGED <<status, room>>

\* The transaction is refused, or the request dies before it.
Fail(c) ==
  /\ call[c] # Idle
  /\ Return(c)
  /\ UNCHANGED <<status, room, assistance, log>>

-----------------------------------------------------------------------------
CallStep(c) ==
  \/ \E role \in Party :
       \/ BeginMessage(c, role)
       \/ \E type \in Settlements, input \in Inputs : BeginProposal(c, role, type, input)
       \/ \E i \in DOMAIN room, answer \in Answer : BeginRespond(c, role, i, answer)
       \/ BeginRequestAssistance(c, role)
  \/ SettleAssistance(c)
  \/ Write(c)
  \/ RequestAssistance(c)
  \/ Fail(c)

Next == DealMoves \/ \E c \in Callers : CallStep(c)

Spec == Init /\ [][Next]_vars

-----------------------------------------------------------------------------
(***************************************************************************)
(* What the panel lets a party do, computed from what it has loaded, the   *)
(* room and the assistance.  It loads both again after every action.       *)
(***************************************************************************)
enabled == status \in {"PROBLEM_REPORTED", "WAITING_LEGAL_RESOLUTION"}

hasAcceptedAgreement(messages) ==
  \E i \in DOMAIN messages : messages[i].type = "PROPOSAL_ACCEPTED"

\* The messages that carry a proposalId name those already answered.
respondedProposalIds(messages) ==
  {messages[i].to : i \in DOMAIN messages} \ {0}

canRespond(messages, role, i) ==
  /\ enabled
  /\ messages[i].type = "PROPOSAL"
  /\ ~hasAcceptedAgreement(messages)
  /\ messages[i].by # role
  /\ i \notin respondedProposalIds(messages)

proposalForm(messages) == enabled /\ ~hasAcceptedAgreement(messages)

assistanceButton(messages, row) ==
  /\ enabled
  /\ row.status = "NONE"
  /\ ~hasAcceptedAgreement(messages)

-----------------------------------------------------------------------------
(* Properties.                                                             *)

TypeOK ==
  /\ status \in DealStatus
  /\ room \in Seq(Message)
  /\ assistance \in Assistance
  /\ log \in [Event -> Nat]
  /\ call \in [Callers -> Request]

\* An answer is the other party's, to a proposal made before it, on the very
\* terms proposed: no agreement of one party with himself and none on terms
\* that nobody offered or that exceed the deal, whatever overlaps.
AgreementIsMutual ==
  \A j \in DOMAIN room : room[j].type \in Answer =>
    LET i == room[j].to IN
      /\ i \in 1..(j - 1)
      /\ room[i].type = "PROPOSAL"
      /\ room[i].by # room[j].by
      /\ <<room[i].settlement, room[i].amount>> = <<room[j].settlement, room[j].amount>>
      /\ room[j].settlement \in {"FULL_REFUND", "RELEASE_TO_SELLER"} => room[j].amount = DealAmount
      /\ room[j].settlement = "PARTIAL_REFUND" => room[j].amount \in 1..DealAmount

\* Once a settlement is accepted only a request that had read the room before
\* can still propose, accept or open an assistance, and once a proposal is
\* answered only such a request can answer it again.  An assistance stays open
\* beside an agreement only if it was also inserted after the acceptance had
\* looked for one.  So with no overlap there is one agreement, one answer to a
\* proposal, and no assistance left open beside the agreement.
SettlementClosesTheRoom ==
  \A i \in DOMAIN room :
    /\ room[i].type = "PROPOSAL_ACCEPTED" =>
         /\ \A j \in (i + 1)..Len(room) :
              room[j].type \in {"PROPOSAL", "PROPOSAL_ACCEPTED"} => room[j].seen < i
         /\ assistance.status = "REQUESTED" => assistance.seen < i /\ room[i].swept <= assistance.at
    /\ room[i].type \in Answer =>
         \A j \in (i + 1)..Len(room) :
           room[j].type \in Answer /\ room[j].to = room[i].to => room[j].seen < i

\* The audit trail has an event for each row of the channel, of its kind, and
\* one request of assistance for the one row there can be.
ChannelIsAudited ==
  /\ \A type \in MessageType :
       log[EventOf(type)] = Cardinality({i \in DOMAIN room : room[i].type = type})
  /\ log["assistance_requested"] = IF assistance.status = "NONE" THEN 0 ELSE 1

\* A panel that has just loaded offers an action exactly when the server
\* would take it: no button that is refused, no permitted answer without its
\* button.  The panel shows no reject button after an agreement, where the
\* server still takes a rejection.
PanelAgreesWithServer ==
  /\ proposalForm(room) <=> MayPropose
  /\ assistanceButton(room, assistance) <=> MayRequestAssistance
  /\ \A role \in Party, i \in DOMAIN room :
       /\ canRespond(room, role, i) <=> MayRespond(role, i, "PROPOSAL_ACCEPTED")
       /\ canRespond(room, role, i) => MayRespond(role, i, "PROPOSAL_REJECTED")

=============================================================================
