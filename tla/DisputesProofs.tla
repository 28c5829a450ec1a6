--------------------------- MODULE DisputesProofs ---------------------------
(***************************************************************************)
(* Proofs about Disputes, for any number of requests in flight, any length *)
(* of the room and any amounts.  The inductive invariant adds to the       *)
(* properties what a request in flight carries: what it found when it read *)
(* the room still stands when it commits, since the room only grows.       *)
(***************************************************************************)
EXTENDS Disputes, FiniteSetTheorems, TLAPS

\* An amount that resolveProposalAmount gives its settlement.
TermsStand(m) ==
  /\ m.settlement \in {"FULL_REFUND", "RELEASE_TO_SELLER"} => m.amount = DealAmount
  /\ m.settlement = "PARTIAL_REFUND" => m.amount \in 1..DealAmount

\* A message that answers, on its terms, the other party's proposal before j.
Answers(m, j) ==
  /\ m.to \in 1..(j - 1)
  /\ room[m.to].type = "PROPOSAL"
  /\ room[m.to].by # m.by
  /\ room[m.to].settlement = m.settlement
  /\ room[m.to].amount = m.amount

RowStands(j) ==
  /\ room[j].type = "PROPOSAL" => TermsStand(room[j])
  /\ room[j].type \in Answer => Answers(room[j], j)
  /\ room[j].swept <= Len(room)

\* What a request knows of the room it has read.
NoAgreementIn(n) == \A i \in 1..n : room[i].type # "PROPOSAL_ACCEPTED"
NoAnswerIn(n, k) == \A i \in 1..n : ~(room[i].type \in Answer /\ room[i].to = k)

MessageStands(m) ==
  /\ m.type = "PROPOSAL" => TermsStand(m)
  /\ m.type \in Answer => Answers(m, Len(room) + 1) /\ NoAnswerIn(m.seen, m.to)
  /\ m.type \in {"PROPOSAL", "PROPOSAL_ACCEPTED"} => NoAgreementIn(m.seen)

Carries(c) ==
  /\ call[c].message.seen \in 0..Len(room)
  /\ call[c].message.swept <= Len(room)
  /\ call[c].op \in {"write", "settle", "close"} => MessageStands(call[c].message)
  /\ call[c].op = "assistance" => NoAgreementIn(call[c].message.seen)

\* An acceptance that is about to commit either closes the assistance or has
\* found none open: one that is, is younger.
Sweeps(c) ==
  /\ call[c].op = "close" => assistance.status # "NONE"
  /\ call[c].op = "write" /\ call[c].message.type = "PROPOSAL_ACCEPTED"
       /\ assistance.status = "REQUESTED" => call[c].message.swept <= assistance.at

AssistanceStands ==
  /\ assistance.seen <= Len(room)
  /\ \A c \in Callers : Sweeps(c)

IInv ==
  /\ TypeOK
  /\ \A j \in DOMAIN room : RowStands(j)
  /\ \A c \in Callers : Carries(c)
  /\ AssistanceStands
  /\ SettlementClosesTheRoom

-----------------------------------------------------------------------------
(* The room grows.                                                         *)

LEMMA RoomGrows ==
  ASSUME room \in Seq(Message), NEW m \in Message, room' = Append(room, m)
  PROVE  /\ Len(room) \in Nat
         /\ DOMAIN room = 1..Len(room)
         /\ room' \in Seq(Message)
         /\ Len(room') = Len(room) + 1
         /\ DOMAIN room' = 1..(Len(room) + 1)
         /\ \A i \in 1..Len(room) : room'[i] = room[i]
         /\ room'[Len(room) + 1] = m
  OBVIOUS

\* What a request carries is as good on the longer room.
LEMMA CarriesOn ==
  ASSUME TypeOK, room \in Seq(Message), NEW m \in Message, room' = Append(room, m),
         NEW c \in Callers, call'[c] = call[c], Carries(c)
  PROVE  Carries(c)'
<1> DEFINE n == call[c].message
<1>1. /\ Len(room) \in Nat
      /\ Len(room') = Len(room) + 1
      /\ \A i \in 1..Len(room) : room'[i] = room[i]
  BY RoomGrows
<1>n. n.swept \in Nat
  BY DEF TypeOK, Request, Message
<1>2. n.seen \in 0..Len(room) /\ n.seen \in 0..Len(room') /\ n.swept <= Len(room')
  BY <1>1, <1>n DEF Carries
<1>3. \A i \in 1..n.seen : room'[i] = room[i]
  BY <1>1, <1>2
<1>4. ASSUME n.type \in Answer, Answers(n, Len(room) + 1)
      PROVE  Answers(n, Len(room) + 1)'
  <2>1. n.to \in 1..Len(room)
    BY <1>1, <1>4 DEF Answers
  <2>2. n.to \in 1..(Len(room') + 1 - 1) /\ room'[n.to] = room[n.to]
    BY <1>1, <2>1
  <2> QED BY <1>4, <2>2 DEF Answers
<1>5. /\ NoAgreementIn(n.seen) => NoAgreementIn(n.seen)'
      /\ NoAnswerIn(n.seen, n.to) => NoAnswerIn(n.seen, n.to)'
  BY <1>3 DEF NoAgreementIn, NoAnswerIn
<1>6. MessageStands(n) => MessageStands(n)'
  BY <1>4, <1>5 DEF MessageStands, TermsStand
<1> QED
  BY <1>2, <1>5, <1>6 DEF Carries

\* A row of the room stands on the longer room.
LEMMA RowStandsOn ==
  ASSUME room \in Seq(Message), NEW m \in Message, room' = Append(room, m),
         NEW j \in 1..Len(room), RowStands(j)
  PROVE  RowStands(j)'
<1>1. /\ Len(room) \in Nat
      /\ \A i \in 1..Len(room) : room'[i] = room[i]
  BY RoomGrows
<1>2. room'[j] = room[j]
  BY <1>1
<1>3. ASSUME Answers(room[j], j) PROVE Answers(room[j], j)'
  <2>1. room[j].to \in 1..(j - 1) /\ room[j].to \in 1..Len(room)
    BY <1>1, <1>3 DEF Answers
  <2>2. room'[room[j].to] = room[room[j].to]
    BY <1>1, <2>1
  <2> QED BY <1>2, <1>3, <2>1, <2>2 DEF Answers
<1>4. room[j].swept <= Len(room')
  <2>1. room[j] \in Message
    BY <1>1
  <2>2. room[j].swept \in Nat /\ Len(room') = Len(room) + 1
    BY <2>1, RoomGrows DEF Message
  <2> QED BY <1>1, <2>2 DEF RowStands
<1> QED
  BY <1>2, <1>3, <1>4 DEF RowStands, TermsStand

-----------------------------------------------------------------------------
(* Requests that begin or end without a write.                             *)

LEMMA SilenceType == Silence \in Message /\ Idle \in Request
  BY DEF Silence, Idle, Message, Request, MessageType, Amount, Answer, Party

\* A request that returns carries nothing.
LEMMA Returned ==
  ASSUME TypeOK, NEW c \in Callers, Return(c)
  PROVE  /\ call' \in [Callers -> Request]
         /\ call'[c] = Idle
         /\ \A d \in Callers \ {c} : call'[d] = call[d]
  BY SilenceType DEF TypeOK, Return

\* Nothing is asked of an idle request.
LEMMA IdleCarries ==
  ASSUME room' \in Seq(Message), NEW c \in Callers, call'[c] = Idle
  PROVE  Carries(c)'
<1>1. Len(room') \in Nat
  OBVIOUS
<1>2. Idle.op = "none" /\ Idle.message.seen = 0 /\ Idle.message.swept = 0
  BY DEF Idle, Silence
<1> QED
  BY <1>1, <1>2 DEF Carries

\* A request that has read the room carries what it found there.
LEMMA Passed ==
  ASSUME IInv, NEW c \in Callers, NEW op \in {"write", "settle", "assistance"}, NEW m \in Message,
         Pass(c, op, m), m.seen = Len(room), m.swept = 0,
         op \in {"write", "settle"} => MessageStands(m),
         op = "write" => m.type # "PROPOSAL_ACCEPTED",
         op = "assistance" => NoAgreementIn(m.seen)
  PROVE  IInv'
<1>1. /\ room' = room /\ UNCHANGED <<status, assistance, log>>
      /\ call' = [call EXCEPT ![c] = [op |-> op, message |-> m]]
  BY DEF Pass
<1>2. [op |-> op, message |-> m] \in Request
  BY DEF Request
<1>3. TypeOK'
  BY <1>1, <1>2 DEF IInv, TypeOK
<1>4. /\ call'[c] = [op |-> op, message |-> m]
      /\ \A d \in Callers \ {c} : call'[d] = call[d]
  BY <1>1 DEF IInv, TypeOK
<1>5. Carries(c)'
  <2>1. Len(room) \in Nat /\ m.seen \in 0..Len(room) /\ m.swept <= Len(room)
    BY DEF IInv, TypeOK
  <2>2. /\ MessageStands(m)' <=> MessageStands(m)
        /\ NoAgreementIn(m.seen)' <=> NoAgreementIn(m.seen)
    BY <1>1 DEF MessageStands, TermsStand, Answers, NoAgreementIn, NoAnswerIn
  <2> QED BY <1>1, <1>4, <2>1, <2>2 DEF Carries
<1>6. ASSUME NEW d \in Callers \ {c} PROVE Carries(d)'
  BY <1>1, <1>4 DEF IInv, Carries, MessageStands, TermsStand, Answers, NoAgreementIn, NoAnswerIn
<1>7. \A j \in DOMAIN room' : RowStands(j)'
  BY <1>1 DEF IInv, RowStands, TermsStand, Answers
<1>8. SettlementClosesTheRoom'
  BY <1>1 DEF IInv, SettlementClosesTheRoom
<1>9. AssistanceStands'
  <2>1. Sweeps(c)'
    BY <1>4 DEF Sweeps
  <2>2. ASSUME NEW d \in Callers \ {c} PROVE Sweeps(d)'
    BY <1>1, <1>4 DEF IInv, AssistanceStands, Sweeps
  <2> QED BY <1>1, <2>1, <2>2 DEF IInv, AssistanceStands
<1> QED
  BY <1>3, <1>5, <1>6, <1>7, <1>8, <1>9 DEF IInv

\* What resolveProposalAmount gives suits its settlement.
LEMMA AmountResolved ==
  ASSUME NEW type \in Settlements, NEW input \in Inputs,
         NEW amount \in resolveProposalAmount(type, input)
  PROVE  /\ amount \in Amount
         /\ type \in {"FULL_REFUND", "RELEASE_TO_SELLER"} => amount = DealAmount
         /\ type = "PARTIAL_REFUND" => amount \in 1..DealAmount
  BY AmountAssumption DEF resolveProposalAmount, Amount

\* A request reads a room that has a length.
LEMMA RoomLength == ASSUME IInv PROVE Len(room) \in Nat /\ DOMAIN room = 1..Len(room)
  BY DEF IInv, TypeOK

\* What a party says is a message, of the room's length.
LEMMA SaysType ==
  ASSUME IInv, NEW role \in Party, NEW type \in MessageType,
         NEW settlement \in SettlementType \cup {"NULL"}, NEW amount \in Amount, NEW to \in Nat
  PROVE  /\ Says(role, type, settlement, amount, to) \in Message
         /\ Says(role, type, settlement, amount, to).seen = Len(room)
         /\ Says(role, type, settlement, amount, to).swept = 0
  BY RoomLength DEF Says, Message

LEMMA MessagePassed ==
  ASSUME IInv, NEW c \in Callers, NEW role \in Party, BeginMessage(c, role)
  PROVE  IInv'
<1> DEFINE m == Says(role, "MESSAGE", "NULL", NoAmount, 0)
<1>1. m \in Message /\ m.seen = Len(room) /\ m.swept = 0
  BY SaysType DEF MessageType, Amount, Says
<1>a. m.type = "MESSAGE"
  BY DEF Says
<1>2. MessageStands(m)
  BY <1>a DEF MessageStands, Answer
<1>3. Pass(c, "write", m)
  BY DEF BeginMessage
<1> HIDE DEF m
<1> QED
  BY <1>1, <1>a, <1>2, <1>3, Passed

LEMMA ProposalPassed ==
  ASSUME IInv, NEW c \in Callers, NEW role \in Party, NEW type \in Settlements,
         NEW input \in Inputs, BeginProposal(c, role, type, input)
  PROVE  IInv'
<1>1. PICK amount \in resolveProposalAmount(type, input) :
        Pass(c, "write", Says(role, "PROPOSAL", type, amount, 0))
  BY DEF BeginProposal
<1> DEFINE m == Says(role, "PROPOSAL", type, amount, 0)
<1>2. amount \in Amount /\ type \in SettlementType
  BY <1>1, AmountResolved, SettlementsAssumption
<1>3. m \in Message /\ m.seen = Len(room) /\ m.swept = 0
  BY <1>2, SaysType DEF MessageType
<1>a. m.type = "PROPOSAL" /\ m.settlement = type /\ m.amount = amount
  BY DEF Says
<1>4. NoAgreementIn(Len(room))
  BY DEF BeginProposal, MayPropose, ensureNoAcceptedSettlement, NoAgreementIn, IInv, TypeOK
<1>5. TermsStand(m)
  BY <1>1, <1>a, AmountResolved DEF TermsStand
<1>6. Pass(c, "write", m)
  BY <1>1
<1> HIDE DEF m
<1>7. MessageStands(m)
  BY <1>3, <1>a, <1>4, <1>5 DEF MessageStands, Answer
<1> QED
  BY <1>3, <1>a, <1>6, <1>7, Passed

LEMMA RespondPassed ==
  ASSUME IInv, NEW c \in Callers, NEW role \in Party, NEW i \in DOMAIN room,
         NEW answer \in Answer, BeginRespond(c, role, i, answer)
  PROVE  IInv'
<1> DEFINE m == Says(role, answer, room[i].settlement, room[i].amount, i)
<1>1. room[i] \in Message /\ Len(room) \in Nat /\ DOMAIN room = 1..Len(room) /\ i \in Nat
  BY RoomLength DEF IInv, TypeOK
<1>a. room[i].settlement \in SettlementType \cup {"NULL"} /\ room[i].amount \in Amount
  BY <1>1 DEF Message
<1>b. m \in Message /\ m.seen = Len(room) /\ m.swept = 0
  BY <1>1, <1>a, SaysType DEF MessageType
<1>2. /\ m.type = answer
      /\ m.by = role
      /\ m.to = i
      /\ m.settlement = room[i].settlement
      /\ m.amount = room[i].amount
  BY DEF Says
<1>3. /\ room[i].type = "PROPOSAL"
      /\ room[i].by # role
      /\ Unanswered(i)
      /\ answer = "PROPOSAL_ACCEPTED" => ensureNoAcceptedSettlement
  BY DEF BeginRespond, MayRespond
<1> PICK op : op = IF answer = "PROPOSAL_ACCEPTED" THEN "settle" ELSE "write"
  OBVIOUS
<1>4. Pass(c, op, m)
  BY DEF BeginRespond
<1> HIDE DEF m
<1>5. Answers(m, Len(room) + 1)
  BY <1>1, <1>2, <1>3 DEF Answers
<1>6. NoAnswerIn(m.seen, m.to)
  BY <1>1, <1>b, <1>2, <1>3 DEF NoAnswerIn, Unanswered
<1>7. m.type = "PROPOSAL_ACCEPTED" => NoAgreementIn(m.seen)
  BY <1>1, <1>b, <1>2, <1>3 DEF NoAgreementIn, ensureNoAcceptedSettlement
<1>8. MessageStands(m)
  BY <1>2, <1>5, <1>6, <1>7 DEF MessageStands, Answer
<1> QED
  BY <1>b, <1>2, <1>4, <1>8, Passed

LEMMA AssistancePassed ==
  ASSUME IInv, NEW c \in Callers, NEW role \in Party, BeginRequestAssistance(c, role)
  PROVE  IInv'
<1> DEFINE m == Says(role, "MESSAGE", "NULL", NoAmount, 0)
<1>1. m \in Message /\ m.seen = Len(room) /\ m.swept = 0
  BY SaysType DEF MessageType, Amount, Says
<1>2. NoAgreementIn(m.seen)
  BY <1>1 DEF BeginRequestAssistance, MayRequestAssistance, ensureNoAcceptedSettlement,
              NoAgreementIn, IInv, TypeOK
<1>3. Pass(c, "assistance", m)
  BY DEF BeginRequestAssistance
<1> HIDE DEF m
<1> QED
  BY <1>1, <1>2, <1>3, Passed

-----------------------------------------------------------------------------
(* The transactions.                                                       *)

\* An acceptance about to commit has looked for an assistance.
LEMMA AssistanceSettled ==
  ASSUME IInv, NEW c \in Callers, SettleAssistance(c)
  PROVE  IInv'
<1> PICK m, op : /\ m = [call[c].message EXCEPT !.swept = Len(room)]
                 /\ op = IF assistance.status = "REQUESTED" THEN "close" ELSE "write"
  OBVIOUS
<1>1. /\ UNCHANGED <<status, room, assistance, log>>
      /\ call[c].op = "settle" /\ call[c] \in Request /\ call[c].message \in Message
  BY DEF SettleAssistance, IInv, TypeOK, Request
<1>2. Len(room) \in Nat
  BY RoomLength
<1>3. call' = [call EXCEPT ![c].op = op, ![c].message.swept = Len(room)]
  BY DEF SettleAssistance
<1>4. /\ m \in Message /\ m.swept = Len(room) /\ m.seen = call[c].message.seen
      /\ m.type = call[c].message.type /\ m.to = call[c].message.to
      /\ m.by = call[c].message.by /\ m.settlement = call[c].message.settlement
      /\ m.amount = call[c].message.amount
  BY <1>1, <1>2 DEF Message
<1>5. /\ call'[c] = [op |-> op, message |-> m]
      /\ \A d \in Callers \ {c} : call'[d] = call[d]
      /\ call' \in [Callers -> Request]
  BY <1>1, <1>3, <1>4 DEF IInv, TypeOK, Request
<1>6. TypeOK'
  BY <1>1, <1>5 DEF IInv, TypeOK
<1>7. Carries(c)'
  <2>1. MessageStands(call[c].message) /\ call[c].message.seen \in 0..Len(room)
    BY <1>1 DEF IInv, Carries
  <2>2. MessageStands(m)'
    BY <1>1, <1>4, <2>1 DEF MessageStands, TermsStand, Answers, NoAgreementIn, NoAnswerIn
  <2>3. /\ call'[c].message = m /\ call'[c].op # "assistance"
        /\ m.seen \in 0..Len(room) /\ m.swept <= Len(room)
    BY <1>2, <1>4, <1>5, <2>1
  <2> QED BY <1>1, <2>2, <2>3 DEF Carries
<1>8. ASSUME NEW d \in Callers \ {c} PROVE Carries(d)'
  BY <1>1, <1>5 DEF IInv, Carries, MessageStands, TermsStand, Answers, NoAgreementIn, NoAnswerIn
<1>9. AssistanceStands'
  <2>1. Sweeps(c)'
    BY <1>1, <1>5 DEF Sweeps
  <2>2. ASSUME NEW d \in Callers \ {c} PROVE Sweeps(d)'
    BY <1>1, <1>5 DEF IInv, AssistanceStands, Sweeps
  <2> QED BY <1>1, <2>1, <2>2 DEF IInv, AssistanceStands
<1>10. \A j \in DOMAIN room' : RowStands(j)'
  BY <1>1 DEF IInv, RowStands, TermsStand, Answers
<1>11. SettlementClosesTheRoom'
  BY <1>1 DEF IInv, SettlementClosesTheRoom
<1> QED
  BY <1>6, <1>7, <1>8, <1>9, <1>10, <1>11 DEF IInv

\* The row written stands, no earlier agreement or answer is passed over by
\* it, and an open assistance does not survive an acceptance.
LEMMA Written ==
  ASSUME IInv, NEW c \in Callers, Write(c)
  PROVE  IInv'
<1>a. PICK m : m = call[c].message
  OBVIOUS
<1>b. PICK n : n = Len(room) + 1
  OBVIOUS
<1>1. /\ call[c] \in Request
      /\ m \in Message
      /\ room \in Seq(Message)
      /\ assistance \in Assistance
  BY <1>a DEF IInv, TypeOK, Request
<1>2. /\ MessageStands(m)
      /\ m.seen \in 0..Len(room) /\ m.swept <= Len(room)
  BY <1>a DEF IInv, Carries, Write
<1>3. room' = Append(room, m) /\ Return(c) /\ Settle(call[c].op)
  BY <1>a DEF Write
<1>4. /\ Len(room) \in Nat
      /\ DOMAIN room = 1..Len(room)
      /\ room' \in Seq(Message)
      /\ Len(room') = n
      /\ DOMAIN room' = 1..n
      /\ \A i \in 1..Len(room) : room'[i] = room[i]
      /\ room'[n] = m
  BY <1>1, <1>3, <1>b, RoomGrows
<1>5. /\ call' \in [Callers -> Request]
      /\ call'[c] = Idle
      /\ \A d \in Callers \ {c} : call'[d] = call[d]
  BY <1>3, Returned DEF IInv
<1>6. assistance' \in Assistance
  BY <1>1, <1>3 DEF Settle, Assistance
<1>7. TypeOK'
  <2>1. EventOf(m.type) \in Event
    BY <1>1 DEF Message, MessageType, Answer, EventOf, Event
  <2>2. log' = [log EXCEPT ![EventOf(m.type)] = @ + 1] /\ status' = status
    BY <1>a DEF Write
  <2>3. log' \in [Event -> Nat]
    BY <2>1, <2>2 DEF IInv, TypeOK
  <2> QED BY <1>4, <1>5, <1>6, <2>2, <2>3 DEF IInv, TypeOK
<1>8. ASSUME NEW j \in DOMAIN room' PROVE RowStands(j)'
  <2>1. CASE j = n
    <3>1. m.type \in Answer => m.to \in 1..(n - 1) /\ room'[m.to] = room[m.to]
      BY <1>2, <1>4, <1>b DEF MessageStands, Answers
    <3>2. m.type \in Answer => Answers(m, n)'
      BY <1>2, <3>1 DEF MessageStands, Answers
    <3>3. m.type = "PROPOSAL" => TermsStand(m)
      BY <1>2 DEF MessageStands
    <3>4. m.swept <= n
      BY <1>1, <1>2, <1>4, <1>b DEF Message
    <3> QED BY <1>4, <1>b, <2>1, <3>2, <3>3, <3>4 DEF RowStands
  <2>2. CASE j \in 1..Len(room)
    <3>1. RowStands(j)
      BY <1>4, <1>b, <2>2 DEF IInv
    <3> QED BY <1>1, <1>3, <2>2, <3>1, RowStandsOn
  <2> QED BY <1>4, <1>b, <2>1, <2>2
<1>9. ASSUME NEW d \in Callers PROVE Carries(d)'
  <2>1. CASE d = c
    BY <1>4, <1>b, <1>5, <2>1, IdleCarries
  <2>2. CASE d # c
    <3>1. call'[d] = call[d] /\ Carries(d)
      BY <1>5, <2>2 DEF IInv
    <3> QED BY <1>1, <1>3, <3>1, CarriesOn DEF IInv
  <2> QED BY <2>1, <2>2
<1>10. SettlementClosesTheRoom'
  <2>1. ASSUME NEW i \in 1..n, room'[i].type = "PROPOSAL_ACCEPTED", NEW j \in (i + 1)..n,
               room'[j].type \in {"PROPOSAL", "PROPOSAL_ACCEPTED"}
        PROVE  room'[j].seen < i
    <3>1. i \in 1..Len(room) /\ room[i].type = "PROPOSAL_ACCEPTED"
      BY <1>4, <1>b, <2>1
    <3>2. CASE j = n
      <4>1. NoAgreementIn(m.seen)
        BY <1>2, <1>4, <1>b, <2>1, <3>2 DEF MessageStands
      <4>2. i \notin 1..m.seen
        BY <3>1, <4>1 DEF NoAgreementIn
      <4> QED BY <1>2, <1>4, <1>b, <3>1, <3>2, <4>2
    <3>3. CASE j \in (i + 1)..Len(room)
      BY <1>4, <1>b, <2>1, <3>1, <3>3 DEF IInv, SettlementClosesTheRoom
    <3> QED BY <1>4, <1>b, <2>1, <3>2, <3>3
  <2>2. ASSUME NEW i \in 1..n, room'[i].type = "PROPOSAL_ACCEPTED",
               assistance'.status = "REQUESTED"
        PROVE  assistance'.seen < i /\ room'[i].swept <= assistance'.at
    <3>1. assistance' = assistance /\ call[c].op = "write"
      BY <1>1, <1>3, <2>2 DEF Settle, Assistance, Write
    <3>2. CASE i = n
      <4>1. assistance.seen \in Nat /\ assistance.seen <= Len(room)
        BY <1>1 DEF Assistance, IInv, AssistanceStands
      <4>2. m.swept <= assistance.at
        BY <1>4, <1>a, <2>2, <3>1, <3>2 DEF IInv, AssistanceStands, Sweeps
      <4> QED BY <1>4, <1>b, <3>1, <3>2, <4>1, <4>2
    <3>3. CASE i \in 1..Len(room)
      BY <1>4, <1>b, <2>2, <3>1, <3>3 DEF IInv, SettlementClosesTheRoom
    <3> QED BY <1>4, <1>b, <3>2, <3>3
  <2>3. ASSUME NEW i \in 1..n, room'[i].type \in Answer, NEW j \in (i + 1)..n,
               room'[j].type \in Answer, room'[j].to = room'[i].to
        PROVE  room'[j].seen < i
    <3>1. i \in 1..Len(room) /\ room'[i] = room[i]
      BY <1>4, <1>b, <2>3
    <3>2. CASE j = n
      <4>1. NoAnswerIn(m.seen, m.to)
        BY <1>2, <1>4, <1>b, <2>3, <3>2 DEF MessageStands
      <4>2. i \notin 1..m.seen
        BY <1>4, <1>b, <2>3, <3>1, <3>2, <4>1 DEF NoAnswerIn
      <4> QED BY <1>2, <1>4, <1>b, <3>1, <3>2, <4>2
    <3>3. CASE j \in (i + 1)..Len(room)
      BY <1>4, <1>b, <2>3, <3>1, <3>3 DEF IInv, SettlementClosesTheRoom
    <3> QED BY <1>4, <1>b, <2>3, <3>2, <3>3
  <2> QED BY <1>4, <1>b, <2>1, <2>2, <2>3 DEF SettlementClosesTheRoom
<1>11. AssistanceStands'
  <2>1. assistance.seen \in Nat /\ assistance'.seen = assistance.seen /\ assistance'.at = assistance.at
    BY <1>1, <1>3 DEF Settle, Assistance
  <2>2. assistance'.seen <= Len(room')
    BY <1>4, <1>b, <2>1 DEF IInv, AssistanceStands
  <2>3. ASSUME NEW d \in Callers PROVE Sweeps(d)'
    <3>1. CASE d = c
      BY <1>5, <3>1 DEF Sweeps, Idle, Silence
    <3>2. CASE d # c
      <4>1. /\ assistance'.status = "NONE" => assistance.status = "NONE"
            /\ assistance'.status = "REQUESTED" => assistance.status = "REQUESTED"
        BY <1>1, <1>3 DEF Settle, Assistance
      <4> QED BY <1>5, <2>1, <3>2, <4>1 DEF IInv, AssistanceStands, Sweeps
    <3> QED BY <3>1, <3>2
  <2> QED BY <2>2, <2>3 DEF AssistanceStands
<1> QED
  BY <1>7, <1>8, <1>9, <1>10, <1>11 DEF IInv

\* An assistance opened past an agreement had read the room before it.
LEMMA AssistanceRequested ==
  ASSUME IInv, NEW c \in Callers, RequestAssistance(c)
  PROVE  IInv'
<1> DEFINE m == call[c].message
<1>1. /\ m \in Message /\ m.seen \in 0..Len(room) /\ NoAgreementIn(m.seen)
      /\ Len(room) \in Nat /\ DOMAIN room = 1..Len(room)
  BY DEF IInv, TypeOK, Request, Carries, RequestAssistance
<1>2. /\ room' = room /\ status' = status /\ Return(c)
      /\ assistance' = [status |-> "REQUESTED", seen |-> m.seen, at |-> Len(room)]
      /\ log' = [log EXCEPT !["assistance_requested"] = @ + 1]
  BY DEF RequestAssistance
<1> HIDE DEF m
<1>3. /\ call' \in [Callers -> Request]
      /\ call'[c] = Idle
      /\ \A d \in Callers \ {c} : call'[d] = call[d]
  BY <1>2, Returned DEF IInv
<1>4. TypeOK'
  <2>1. assistance' \in Assistance
    BY <1>1, <1>2 DEF Assistance
  <2>2. log' \in [Event -> Nat]
    BY <1>2 DEF IInv, TypeOK, Event
  <2> QED BY <1>2, <1>3, <2>1, <2>2 DEF IInv, TypeOK
<1>5. \A j \in DOMAIN room' : RowStands(j)'
  BY <1>2 DEF IInv, RowStands, TermsStand, Answers
<1>6. ASSUME NEW d \in Callers PROVE Carries(d)'
  <2>1. CASE d = c
    BY <1>2, <1>3, <2>1, IdleCarries DEF IInv, TypeOK
  <2>2. CASE d # c
    BY <1>2, <1>3, <2>2
       DEF IInv, Carries, MessageStands, TermsStand, Answers, NoAgreementIn, NoAnswerIn
  <2> QED BY <2>1, <2>2
<1>7. SettlementClosesTheRoom'
  <2>1. ASSUME NEW i \in 1..Len(room), room[i].type = "PROPOSAL_ACCEPTED"
        PROVE  m.seen < i /\ room[i].swept <= Len(room)
    BY <1>1, <2>1 DEF NoAgreementIn, IInv, RowStands
  <2>2. assistance'.seen = m.seen /\ assistance'.at = Len(room)
    BY <1>2
  <2> QED BY <1>1, <1>2, <2>1, <2>2 DEF IInv, SettlementClosesTheRoom
<1>8. AssistanceStands'
  <2>1. assistance'.seen <= Len(room')
    BY <1>1, <1>2
  <2>2. ASSUME NEW d \in Callers PROVE Sweeps(d)'
    <3>1. CASE d = c
      BY <1>3, <3>1 DEF Sweeps, Idle, Silence
    <3>2. CASE d # c
      <4>1. call[d].message.swept <= Len(room)
        BY DEF IInv, Carries
      <4> QED BY <1>2, <1>3, <3>2, <4>1 DEF Sweeps
    <3> QED BY <3>1, <3>2
  <2> QED BY <2>1, <2>2 DEF AssistanceStands
<1> QED
  BY <1>4, <1>5, <1>6, <1>7, <1>8 DEF IInv

LEMMA Failed ==
  ASSUME IInv, NEW c \in Callers, Fail(c)
  PROVE  IInv'
<1>1. UNCHANGED <<status, room, assistance, log>> /\ Return(c)
  BY DEF Fail
<1>2. /\ call' \in [Callers -> Request]
      /\ call'[c] = Idle
      /\ \A d \in Callers \ {c} : call'[d] = call[d]
  BY <1>1, Returned DEF IInv
<1>3. TypeOK'
  BY <1>1, <1>2 DEF IInv, TypeOK
<1>4. \A j \in DOMAIN room' : RowStands(j)'
  BY <1>1 DEF IInv, RowStands, TermsStand, Answers
<1>5. ASSUME NEW d \in Callers PROVE Carries(d)'
  <2>1. CASE d = c
    BY <1>1, <1>2, <2>1, IdleCarries DEF IInv, TypeOK
  <2>2. CASE d # c
    BY <1>1, <1>2, <2>2
       DEF IInv, Carries, MessageStands, TermsStand, Answers, NoAgreementIn, NoAnswerIn
  <2> QED BY <2>1, <2>2
<1>6. SettlementClosesTheRoom'
  BY <1>1 DEF IInv, SettlementClosesTheRoom
<1>7. AssistanceStands'
  <2>1. Sweeps(c)'
    BY <1>2 DEF Sweeps, Idle, Silence
  <2>2. ASSUME NEW d \in Callers \ {c} PROVE Sweeps(d)'
    BY <1>1, <1>2 DEF IInv, AssistanceStands, Sweeps
  <2> QED BY <1>1, <2>1, <2>2 DEF IInv, AssistanceStands
<1> QED
  BY <1>3, <1>4, <1>5, <1>6, <1>7 DEF IInv

\* The deal moves, or nothing does.
LEMMA DealMoved == ASSUME IInv, DealMoves \/ UNCHANGED vars PROVE IInv'
<1>1. UNCHANGED <<room, assistance, log, call>> /\ status' \in DealStatus
  BY DEF DealMoves, vars, IInv, TypeOK, DealStatus
<1> QED
  BY <1>1 DEF IInv, TypeOK, RowStands, Carries, MessageStands, TermsStand, Answers,
              NoAgreementIn, NoAnswerIn, AssistanceStands, Sweeps, SettlementClosesTheRoom

-----------------------------------------------------------------------------
(* The inductive invariant.                                                *)

LEMMA IInvInit == Init => IInv
<1> SUFFICES ASSUME Init PROVE IInv
  OBVIOUS
<1>1. TypeOK
  BY SilenceType DEF Init, TypeOK, Assistance, DealStatus
<1>2. \A c \in Callers : Carries(c)
  BY DEF Init, Carries, Idle, Silence
<1>3. /\ \A j \in DOMAIN room : RowStands(j)
      /\ SettlementClosesTheRoom /\ AssistanceStands
  BY DEF Init, SettlementClosesTheRoom, AssistanceStands, Sweeps, Idle, Silence
<1> QED
  BY <1>1, <1>2, <1>3 DEF IInv

LEMMA IInvNext == IInv /\ [Next]_vars => IInv'
<1> SUFFICES ASSUME IInv, [Next]_vars PROVE IInv'
  OBVIOUS
<1>1. CASE DealMoves \/ UNCHANGED vars
  BY <1>1, DealMoved
<1>2. ASSUME NEW c \in Callers, CallStep(c) PROVE IInv'
  <2>1. ASSUME NEW role \in Party, BeginMessage(c, role) PROVE IInv'
    BY <2>1, MessagePassed
  <2>2. ASSUME NEW role \in Party, NEW type \in Settlements, NEW input \in Inputs,
               BeginProposal(c, role, type, input)
        PROVE  IInv'
    BY <2>2, ProposalPassed
  <2>3. ASSUME NEW role \in Party, NEW i \in DOMAIN room, NEW answer \in Answer,
               BeginRespond(c, role, i, answer)
        PROVE  IInv'
    BY <2>3, RespondPassed
  <2>4. ASSUME NEW role \in Party, BeginRequestAssistance(c, role) PROVE IInv'
    BY <2>4, AssistancePassed
  <2>5. CASE Write(c)
    BY <2>5, Written
  <2>6. CASE RequestAssistance(c)
    BY <2>6, AssistanceRequested
  <2>7. CASE Fail(c)
    BY <2>7, Failed
  <2>8. CASE SettleAssistance(c)
    BY <2>8, AssistanceSettled
  <2> QED BY <1>2, <2>1, <2>2, <2>3, <2>4, <2>5, <2>6, <2>7, <2>8 DEF CallStep
<1> QED
  BY <1>1, <1>2 DEF Next

LEMMA IInvAlways == Spec => []IInv
  BY IInvInit, IInvNext, PTL DEF Spec

\* The room, the assistance and the requests keep their types.
THEOREM DisputesTypeCorrect == Spec => []TypeOK
<1>1. IInv => TypeOK
  BY DEF IInv
<1> QED
  BY <1>1, IInvAlways, PTL

\* No agreement of one party with himself, none on terms that nobody offered
\* or that exceed the deal, however many requests overlap.
THEOREM AgreementIsMutualAlways == Spec => []AgreementIsMutual
<1>1. IInv => AgreementIsMutual
  <2> SUFFICES ASSUME IInv, NEW j \in DOMAIN room, room[j].type \in Answer
               PROVE  /\ room[j].to \in 1..(j - 1)
                      /\ room[room[j].to].type = "PROPOSAL"
                      /\ room[room[j].to].by # room[j].by
                      /\ <<room[room[j].to].settlement, room[room[j].to].amount>>
                           = <<room[j].settlement, room[j].amount>>
                      /\ room[j].settlement \in {"FULL_REFUND", "RELEASE_TO_SELLER"}
                           => room[j].amount = DealAmount
                      /\ room[j].settlement = "PARTIAL_REFUND" => room[j].amount \in 1..DealAmount
    BY DEF AgreementIsMutual
  <2> DEFINE i == room[j].to
  <2>1. Answers(room[j], j)
    BY DEF IInv, RowStands
  <2>2. i \in DOMAIN room /\ room[i].type = "PROPOSAL"
    BY <2>1 DEF IInv, TypeOK, Answers
  <2>3. TermsStand(room[i])
    BY <2>2 DEF IInv, RowStands
  <2> QED BY <2>1, <2>3 DEF Answers, TermsStand
<1> QED
  BY <1>1, IInvAlways, PTL

\* An accepted settlement is final for every request that reads it, and so is
\* an answer to a proposal.
THEOREM SettlementClosesTheRoomAlways == Spec => []SettlementClosesTheRoom
<1>1. IInv => SettlementClosesTheRoom
  BY DEF IInv
<1> QED
  BY <1>1, IInvAlways, PTL

-----------------------------------------------------------------------------
(* The audit trail of the channel.                                         *)

CountIn(j, type) == Cardinality({i \in DOMAIN j : j[i].type = type})

\* An appended message counts once, under its type.
LEMMA CountAppend ==
  ASSUME NEW j \in Seq(Message), NEW m \in Message, NEW type
  PROVE  /\ CountIn(j, type) \in Nat
         /\ CountIn(Append(j, m), type) = CountIn(j, type) + (IF m.type = type THEN 1 ELSE 0)
<1> DEFINE k == Append(j, m)
           at == {i \in DOMAIN j : j[i].type = type}
           at2 == {i \in DOMAIN k : k[i].type = type}
<1> PICK n \in Nat : n = Len(j)
  OBVIOUS
<1>1. DOMAIN j = 1..n /\ DOMAIN k = 1..(n + 1) /\ k[n + 1] = m /\ \A i \in 1..n : k[i] = j[i]
  OBVIOUS
<1> HIDE DEF k
<1>2. at \subseteq 1..n /\ n + 1 \notin at
  BY <1>1
<1>3. IsFiniteSet(at)
  <2>1. IsFiniteSet(1..n) /\ at \in SUBSET (1..n)
    BY <1>2, FS_Interval
  <2> HIDE DEF at
  <2> QED BY <2>1, FS_Subset
<1>4. at2 = IF m.type = type THEN at \cup {n + 1} ELSE at
  BY <1>1
<1> HIDE DEF at, at2
<1>5. Cardinality(at2) = Cardinality(at) + (IF m.type = type THEN 1 ELSE 0) /\ Cardinality(at) \in Nat
  BY <1>2, <1>3, <1>4, FS_AddElement, FS_CardinalityType
<1> QED BY <1>5 DEF CountIn, at, at2, k

\* The events of two types of message are two events of the channel.
LEMMA EventsApart ==
  /\ \A type \in MessageType : EventOf(type) \in Event \ {"assistance_requested"}
  /\ \A s, t \in MessageType : EventOf(s) = EventOf(t) => s = t
  BY DEF MessageType, Answer, Event, EventOf

Audited(j, events, row) ==
  /\ \A type \in MessageType : events[EventOf(type)] = CountIn(j, type)
  /\ events["assistance_requested"] = IF row.status = "NONE" THEN 0 ELSE 1

LEMMA AuditInit == Init => Audited(room, log, assistance)
<1> SUFFICES ASSUME Init PROVE Audited(room, log, assistance)
  OBVIOUS
<1>1. \A type \in MessageType : {i \in DOMAIN room : room[i].type = type} = {}
  BY DEF Init
<1>2. \A type \in MessageType : CountIn(room, type) = 0
  BY <1>1, FS_EmptySet DEF CountIn
<1>3. \A e \in Event : log[e] = 0
  BY DEF Init
<1> QED BY <1>2, <1>3, EventsApart DEF Audited, Init, Event

LEMMA AuditStep == IInv /\ Audited(room, log, assistance) /\ [Next]_vars
                     => Audited(room, log, assistance)'
<1> SUFFICES ASSUME IInv, Audited(room, log, assistance), [Next]_vars
             PROVE  Audited(room', log', assistance')
  OBVIOUS
<1>1. log \in [Event -> Nat] /\ room \in Seq(Message) /\ assistance \in Assistance
  BY DEF IInv, TypeOK
<1>2. ASSUME NEW c \in Callers, Write(c) PROVE Audited(room', log', assistance')
  <2> DEFINE m == call[c].message
  <2>1. m \in Message /\ m.type \in MessageType
    BY DEF IInv, TypeOK, Request, Message
  <2>2. room' = Append(room, m) /\ log' = [log EXCEPT ![EventOf(m.type)] = @ + 1]
    BY <1>2 DEF Write
  <2>3. assistance'.status = "NONE" <=> assistance.status = "NONE"
    BY <1>1, <1>2 DEF Write, Settle, Assistance, IInv, AssistanceStands, Sweeps
  <2> HIDE DEF m
  <2>4. \A t \in MessageType : CountIn(room', t) = CountIn(room, t) + (IF m.type = t THEN 1 ELSE 0)
    BY <1>1, <2>1, <2>2, CountAppend
  <2>5. \A t \in MessageType : CountIn(room, t) \in Nat
    BY <1>1, <2>1, CountAppend
  <2>6. /\ \A t \in MessageType :
             log'[EventOf(t)] = log[EventOf(t)] + (IF m.type = t THEN 1 ELSE 0)
        /\ log'["assistance_requested"] = log["assistance_requested"]
    <3>1. \A e \in Event : log'[e] = IF e = EventOf(m.type) THEN log[e] + 1 ELSE log[e]
      BY <1>1, <2>2
    <3>2. \A e \in Event : log[e] \in Nat
      BY <1>1
    <3>3. "assistance_requested" \in Event
      BY DEF Event
    <3> QED BY <2>1, <3>1, <3>2, <3>3, EventsApart
  <2> QED BY <2>3, <2>4, <2>6 DEF Audited
<1>3. ASSUME NEW c \in Callers, RequestAssistance(c) PROVE Audited(room', log', assistance')
  <2>1. log["assistance_requested"] = 0 /\ room' = room /\ assistance'.status = "REQUESTED"
    BY <1>3 DEF RequestAssistance, Audited
  <2>2. \A e \in Event : log'[e] = IF e = "assistance_requested" THEN log[e] + 1 ELSE log[e]
    BY <1>1, <1>3 DEF RequestAssistance
  <2>3. log'["assistance_requested"] = 1
    BY <2>1, <2>2 DEF Event
  <2>4. \A t \in MessageType : log'[EventOf(t)] = log[EventOf(t)]
    BY <2>2, EventsApart
  <2> QED BY <2>1, <2>3, <2>4 DEF Audited
<1>4. CASE UNCHANGED <<room, log, assistance>>
  BY <1>4
<1> QED
  BY <1>2, <1>3, <1>4
  DEF Next, CallStep, DealMoves, BeginMessage, BeginProposal, BeginRespond, BeginRequestAssistance,
      SettleAssistance, Pass, Fail, vars

\* Every message of the channel and the assistance have their events and no
\* event is without its row, whatever overlaps or dies (ChannelIsAudited).
THEOREM ChannelIsAuditedAlways == Spec => []ChannelIsAudited
<1>1. Audited(room, log, assistance) => ChannelIsAudited
  BY DEF Audited, CountIn, ChannelIsAudited
<1> QED
  BY <1>1, AuditInit, AuditStep, IInvAlways, PTL DEF Spec

-----------------------------------------------------------------------------
(* The panel.                                                              *)

\* Only an answer names a proposal, in the room and on its way there: what
\* the panel collects as answered is then what the server finds answered.
OnlyAnswersName ==
  /\ \A j \in DOMAIN room : room[j].type \notin Answer => room[j].to = 0
  /\ \A c \in Callers : call[c].message.type \notin Answer => call[c].message.to = 0

LEMMA OnlyAnswersNameInit == Init => OnlyAnswersName
  BY DEF Init, OnlyAnswersName, Idle, Silence

\* A request goes on with a message that names a proposal only to answer it.
LEMMA NamesPassed ==
  ASSUME TypeOK, OnlyAnswersName, NEW c \in Callers, NEW op, NEW m,
         Pass(c, op, m), m.type \notin Answer => m.to = 0
  PROVE  OnlyAnswersName'
<1>1. room' = room /\ call' = [call EXCEPT ![c] = [op |-> op, message |-> m]]
  BY DEF Pass
<1>2. \A d \in Callers : call'[d].message = IF d = c THEN m ELSE call[d].message
  BY <1>1 DEF TypeOK
<1> QED
  BY <1>1, <1>2 DEF OnlyAnswersName

LEMMA NamesReturned ==
  ASSUME TypeOK, OnlyAnswersName, NEW c \in Callers, Return(c)
  PROVE  \A d \in Callers : call'[d].message.type \notin Answer => call'[d].message.to = 0
<1>1. Idle.message.to = 0
  BY DEF Idle, Silence
<1> QED
  BY <1>1, Returned DEF OnlyAnswersName

LEMMA OnlyAnswersNameStep == IInv /\ OnlyAnswersName /\ [Next]_vars => OnlyAnswersName'
<1> SUFFICES ASSUME IInv, OnlyAnswersName, [Next]_vars PROVE OnlyAnswersName'
  OBVIOUS
<1>t. TypeOK
  BY DEF IInv
<1>1. ASSUME NEW c \in Callers, NEW role \in Party, NEW type, NEW settlement, NEW amount,
             NEW to, NEW op, Pass(c, op, Says(role, type, settlement, amount, to)),
             type \notin Answer => to = 0
      PROVE  OnlyAnswersName'
  <2> DEFINE m == Says(role, type, settlement, amount, to)
  <2>1. m.type = type /\ m.to = to
    BY DEF Says
  <2>2. Pass(c, op, m)
    BY <1>1
  <2> HIDE DEF m
  <2> QED BY <1>t, <1>1, <2>1, <2>2, NamesPassed
<1>2. ASSUME NEW c \in Callers, NEW role \in Party, BeginMessage(c, role) PROVE OnlyAnswersName'
  BY <1>1, <1>2 DEF BeginMessage
<1>3. ASSUME NEW c \in Callers, NEW role \in Party, NEW type \in Settlements,
             NEW input \in Inputs, BeginProposal(c, role, type, input)
      PROVE  OnlyAnswersName'
  BY <1>1, <1>3 DEF BeginProposal
<1>4. ASSUME NEW c \in Callers, NEW role \in Party, NEW i \in DOMAIN room,
             NEW answer \in Answer, BeginRespond(c, role, i, answer)
      PROVE  OnlyAnswersName'
  BY <1>1, <1>4 DEF BeginRespond
<1>5. ASSUME NEW c \in Callers, NEW role \in Party, BeginRequestAssistance(c, role)
      PROVE  OnlyAnswersName'
  BY <1>1, <1>5 DEF BeginRequestAssistance
<1>6. ASSUME NEW c \in Callers, Write(c) PROVE OnlyAnswersName'
  <2> DEFINE m == call[c].message
  <2>1. m \in Message /\ room \in Seq(Message) /\ (m.type \notin Answer => m.to = 0)
    BY <1>t DEF TypeOK, Request, OnlyAnswersName
  <2>2. room' = Append(room, m) /\ Return(c)
    BY <1>6 DEF Write
  <2> HIDE DEF m
  <2>3. \A j \in DOMAIN room' : room'[j].type \notin Answer => room'[j].to = 0
    BY <2>1, <2>2, RoomGrows DEF OnlyAnswersName
  <2> QED BY <1>t, <2>2, <2>3, NamesReturned DEF OnlyAnswersName
<1>7. ASSUME NEW c \in Callers, RequestAssistance(c) \/ Fail(c) PROVE OnlyAnswersName'
  <2>1. room' = room /\ Return(c)
    BY <1>7 DEF RequestAssistance, Fail
  <2> QED BY <1>t, <2>1, NamesReturned DEF OnlyAnswersName
<1>8. CASE DealMoves \/ UNCHANGED vars
  BY <1>8 DEF DealMoves, vars, OnlyAnswersName
<1>9. ASSUME NEW c \in Callers, SettleAssistance(c) PROVE OnlyAnswersName'
  <2>1. /\ room' = room
        /\ \A d \in Callers : /\ call'[d].message.type = call[d].message.type
                             /\ call'[d].message.to = call[d].message.to
    <3>1. room' = room /\ call[c] \in Request /\ call[c].message \in Message
      BY <1>t, <1>9 DEF SettleAssistance, TypeOK, Request
    <3>2. \E op : call' = [call EXCEPT ![c].op = op, ![c].message.swept = Len(room)]
      BY <1>9 DEF SettleAssistance
    <3>3. \A d \in Callers \ {c} : call'[d] = call[d]
      BY <1>t, <3>2 DEF TypeOK
    <3>4. call'[c].message.type = call[c].message.type /\ call'[c].message.to = call[c].message.to
      BY <1>t, <3>1, <3>2 DEF TypeOK, Request, Message
    <3> QED BY <3>1, <3>3, <3>4
  <2> QED BY <2>1 DEF OnlyAnswersName
<1> QED
  BY <1>2, <1>3, <1>4, <1>5, <1>6, <1>7, <1>8, <1>9 DEF Next, CallStep

\* A panel that has just loaded offers an action exactly when the server
\* would take it, after any overlap of requests (PanelAgreesWithServer).
THEOREM PanelAgreesWithServerAlways == Spec => []PanelAgreesWithServer
<1>1. IInv /\ OnlyAnswersName => PanelAgreesWithServer
  <2> SUFFICES ASSUME IInv, OnlyAnswersName PROVE PanelAgreesWithServer
    OBVIOUS
  <2>1. /\ enabled <=> ensureDisputeDeal
        /\ ~hasAcceptedAgreement(room) <=> ensureNoAcceptedSettlement
    BY DEF enabled, ensureDisputeDeal, disputeStatuses, hasAcceptedAgreement,
           ensureNoAcceptedSettlement
  <2>2. ASSUME NEW i \in DOMAIN room
        PROVE  i \notin respondedProposalIds(room) <=> Unanswered(i)
    <3>1. i # 0
      BY DEF IInv, TypeOK
    <3>2. \A j \in DOMAIN room : room[j].to = i => room[j].type \in Answer
      BY <3>1 DEF OnlyAnswersName
    <3> QED BY <3>1, <3>2 DEF respondedProposalIds, Unanswered
  <2>3. ASSUME NEW role \in Party, NEW i \in DOMAIN room
        PROVE  /\ canRespond(room, role, i) <=> MayRespond(role, i, "PROPOSAL_ACCEPTED")
               /\ canRespond(room, role, i) => MayRespond(role, i, "PROPOSAL_REJECTED")
    BY <2>1, <2>2 DEF canRespond, MayRespond
  <2>4. proposalForm(room) <=> MayPropose
    BY <2>1 DEF proposalForm, MayPropose
  <2>5. assistanceButton(room, assistance) <=> MayRequestAssistance
    BY <2>1 DEF assistanceButton, MayRequestAssistance
  <2> QED BY <2>3, <2>4, <2>5 DEF PanelAgreesWithServer
<1> QED
  BY <1>1, OnlyAnswersNameInit, OnlyAnswersNameStep, IInvAlways, PTL DEF Spec

=============================================================================
