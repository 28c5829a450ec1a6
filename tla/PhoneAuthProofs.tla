-------------------------- MODULE PhoneAuthProofs --------------------------
(***************************************************************************)
(* Proofs about PhoneAuth, for any number of overlapping calls, any limit  *)
(* of attempts and any periods.  What makes them work is that a code is    *)
(* made once: a call that holds a code older than the challenge's can      *)
(* neither clean it up nor guess at it.                                    *)
(***************************************************************************)
EXTENDS PhoneAuth, FiniteSetTheorems, TLAPS

Made == 1..Len(outcome)

\* What a call in flight still knows when it writes.
CallStands(c) ==
  /\ call[c].at \in {"read", "sending", "failed"} => call[c].time <= now
  /\ call[c].at \in {"sending", "failed", "mismatched", "matched"} => call[c].code \in Made
  /\ call[c].at \in {"sending", "failed"} => outcome[call[c].code] = "sending"
  /\ call[c].at = "matched" =>
       /\ call[c].seen <= Len(uses)
       /\ \A i \in DOMAIN uses : uses[i].code = call[c].code => call[c].seen < i

\* A code is delivered by the call that made it.
CodesApart ==
  \A c, d \in Callers :
    c # d /\ call[c].at \in {"sending", "failed"} /\ call[d].at \in {"sending", "failed"}
      => call[c].code # call[d].code

\* The row holds the last code made; while it is not consumed, no login used
\* it, and it has counted every wrong guess at it.
ChallengeStands ==
  /\ challenge.code = Len(outcome)
  /\ ~challenge.consumed => \A i \in DOMAIN uses : uses[i].code # challenge.code
  /\ challenge.code # 0 => answered[challenge.code] <= challenge.attempts

IInv ==
  /\ TypeOK
  /\ Len(answered) = Len(outcome)
  /\ ChallengeStands
  /\ \A c \in Callers : CallStands(c)
  /\ CodesApart
  /\ \A i \in DOMAIN uses : uses[i].code \in Made
  /\ CleanupHitsItsOwnCode
  /\ OneLoginPerCode

-----------------------------------------------------------------------------
LEMMA Tables ==
  ASSUME IInv
  PROVE  /\ challenge \in Challenge /\ now \in Nat
         /\ Len(outcome) \in Nat /\ DOMAIN outcome = Made
         /\ Len(answered) \in Nat /\ DOMAIN answered = Made
         /\ Len(uses) \in Nat /\ DOMAIN uses = 1..Len(uses)
         /\ Len(sessions) \in Nat /\ DOMAIN sessions = 1..Len(sessions)
         /\ \A k \in Made : outcome[k] \in Outcome /\ answered[k] \in Nat
         /\ \A i \in DOMAIN uses : uses[i] \in Use
         /\ \A c \in Callers : call[c] \in Call
  BY DEF IInv, TypeOK, Made

LEMMA IdleTypes == Idle \in Call /\ Idle.at = "idle" /\ Live \in Session
  BY DEF Idle, Call, Phase, Live, Session

\* A call that comes to a point where it holds nothing.
LEMMA CallEnds ==
  ASSUME IInv, NEW c \in Callers, Return(c),
         UNCHANGED <<challenge, outcome, answered, uses, sessions, now>>
  PROVE  IInv'
<1>1. /\ call' \in [Callers -> Call]
      /\ call'[c] = Idle
      /\ \A d \in Callers \ {c} : call'[d] = call[d]
  BY IdleTypes DEF Return, IInv, TypeOK
<1>2. TypeOK'
  BY <1>1 DEF IInv, TypeOK
<1>3. \A d \in Callers : CallStands(d)'
  BY <1>1, IdleTypes DEF IInv, CallStands, Made
<1>4. CodesApart'
  BY <1>1, IdleTypes DEF IInv, CodesApart
<1>5. ChallengeStands'
  BY DEF IInv, ChallengeStands
<1>6. CleanupHitsItsOwnCode'
  BY DEF IInv, CleanupHitsItsOwnCode
<1> QED BY <1>2, <1>3, <1>4, <1>5, <1>6 DEF IInv, OneLoginPerCode, Made

LEMMA RequestBegins ==
  ASSUME IInv, NEW c \in Callers, BeginRequest(c)
  PROVE  IInv'
<1>1. /\ UNCHANGED <<challenge, outcome, answered, uses, sessions, now>>
      /\ call' = [call EXCEPT ![c] = [Idle EXCEPT !.at = "read", !.time = now]]
  BY DEF BeginRequest
<1> DEFINE r == [Idle EXCEPT !.at = "read", !.time = now]
<1>2. r \in Call /\ r.at = "read" /\ r.time = now
  BY Tables DEF Idle, Call, Phase, Live, Session
<1>3. /\ call' \in [Callers -> Call]
      /\ call'[c] = r
      /\ \A d \in Callers \ {c} : call'[d] = call[d]
  BY <1>1, <1>2 DEF IInv, TypeOK
<1> HIDE DEF r
<1>4. TypeOK'
  BY <1>1, <1>3 DEF IInv, TypeOK
<1>5. \A d \in Callers : CallStands(d)'
  BY <1>1, <1>2, <1>3, Tables DEF IInv, CallStands, Made
<1>6. CodesApart'
  BY <1>2, <1>3 DEF IInv, CodesApart
<1> QED BY <1>1, <1>4, <1>5, <1>6
        DEF IInv, OneLoginPerCode, Made, ChallengeStands, CleanupHitsItsOwnCode

LEMMA ChallengeUpserted ==
  ASSUME IInv, NEW c \in Callers, UpsertChallenge(c)
  PROVE  IInv'
<1> PICK n \in Nat : n = Len(outcome) + 1
  BY Tables
<1>1. /\ call[c].at = "read"
      /\ challenge' = [code |-> n, sentAt |-> call[c].time,
                       expiresAt |-> call[c].time + Ttl, attempts |-> 0, consumed |-> FALSE]
      /\ outcome' = Append(outcome, "sending")
      /\ answered' = Append(answered, 0)
      /\ call' = [call EXCEPT ![c].at = "sending", ![c].code = n]
      /\ UNCHANGED <<uses, sessions, now>>
  BY DEF UpsertChallenge
<1>2. /\ outcome' \in Seq(Outcome) /\ Len(outcome') = n
      /\ outcome'[n] = "sending"
      /\ \A k \in Made : outcome'[k] = outcome[k]
      /\ answered' \in Seq(Nat) /\ Len(answered') = n
      /\ answered'[n] = 0
      /\ \A k \in Made : answered'[k] = answered[k]
  BY <1>1, Tables DEF IInv, TypeOK, Outcome, Made
<1>3. /\ n \notin Made /\ Made \subseteq Made' /\ n \in Made'
      /\ n # 0
  BY <1>2, Tables DEF Made
<1>4. /\ call' \in [Callers -> Call]
      /\ call'[c].at = "sending" /\ call'[c].code = n /\ call'[c].time = call[c].time
      /\ \A d \in Callers \ {c} : call'[d] = call[d]
  BY <1>1 DEF IInv, TypeOK, Call, Phase
<1>5. /\ call[c].time \in Nat /\ call[c].time <= now
  BY <1>1, Tables DEF IInv, CallStands, Call
<1>6. challenge' \in Challenge
  BY <1>1, <1>5, PeriodsAssumption DEF Challenge
<1>7. TypeOK'
  BY <1>1, <1>2, <1>4, <1>6 DEF IInv, TypeOK
<1>8. ASSUME NEW d \in Callers PROVE CallStands(d)'
  <2>1. CASE d = c
    BY <1>1, <1>2, <1>3, <1>4, <1>5, <2>1, Tables DEF CallStands
  <2>2. CASE d # c
    BY <1>1, <1>2, <1>3, <1>4, <2>2, Tables DEF IInv, CallStands
  <2> QED BY <2>1, <2>2
<1>9. CodesApart'
  BY <1>3, <1>4 DEF IInv, CodesApart, CallStands
<1>10. ChallengeStands'
  BY <1>1, <1>2, <1>3, Tables DEF IInv, ChallengeStands, Made
<1>11. CleanupHitsItsOwnCode'
  BY <1>1, <1>2, <1>5 DEF CleanupHitsItsOwnCode
<1>12. \A i \in DOMAIN uses' : uses'[i].code \in Made'
  BY <1>1, <1>3 DEF IInv
<1> QED BY <1>1, <1>2, <1>7, <1>8, <1>9, <1>10, <1>11, <1>12
        DEF IInv, OneLoginPerCode

\* How a delivery ends: its code's outcome is known, its call returns.
LEMMA OutcomeKnown ==
  ASSUME IInv, NEW c \in Callers, call[c].at \in {"sending", "failed"},
         NEW o \in {"sent", "failed"}, outcome' = [outcome EXCEPT ![call[c].code] = o],
         Return(c), UNCHANGED <<answered, uses, sessions, now>>
  PROVE  /\ call' \in [Callers -> Call]
         /\ outcome' \in Seq(Outcome) /\ Len(outcome') = Len(outcome)
         /\ call[c].code \in Made /\ outcome[call[c].code] = "sending"
         /\ outcome'[call[c].code] = o
         /\ \A k \in Made : k # call[c].code => outcome'[k] = outcome[k]
         /\ \A d \in Callers : CallStands(d)'
         /\ CodesApart'
<1>1. /\ call' \in [Callers -> Call]
      /\ call'[c] = Idle
      /\ \A d \in Callers \ {c} : call'[d] = call[d]
  BY IdleTypes DEF Return, IInv, TypeOK
<1>2. call[c].code \in Made /\ outcome[call[c].code] = "sending"
  BY DEF IInv, CallStands
<1>3. /\ outcome' \in Seq(Outcome) /\ Len(outcome') = Len(outcome)
      /\ outcome'[call[c].code] = o
      /\ \A k \in Made : k # call[c].code => outcome'[k] = outcome[k]
  BY <1>2, Tables DEF IInv, TypeOK, Outcome, Made
<1>4. Made' = Made
  BY <1>3 DEF Made
<1>5. ASSUME NEW d \in Callers PROVE CallStands(d)'
  <2>1. CASE d = c
    BY <1>1, <2>1, IdleTypes DEF CallStands
  <2>2. CASE d # c
    <3>1. CallStands(d) /\ call'[d] = call[d]
      BY <1>1, <2>2 DEF IInv
    <3>2. call[d].at \in {"sending", "failed"} => call[d].code # call[c].code
      BY <2>2 DEF IInv, CodesApart
    <3> QED BY <1>3, <1>4, <3>1, <3>2 DEF CallStands
  <2> QED BY <2>1, <2>2
<1>6. CodesApart'
  BY <1>1, IdleTypes DEF IInv, CodesApart
<1> QED BY <1>1, <1>2, <1>3, <1>5, <1>6

LEMMA DeliveryEnds ==
  ASSUME IInv, NEW c \in Callers, Delivered(c)
  PROVE  IInv'
<1>1. /\ call[c].at = "sending"
      /\ outcome' = [outcome EXCEPT ![call[c].code] = "sent"]
      /\ Return(c)
      /\ UNCHANGED <<challenge, answered, uses, sessions, now>>
  BY DEF Delivered
<1>2. /\ call' \in [Callers -> Call]
      /\ outcome' \in Seq(Outcome) /\ Len(outcome') = Len(outcome)
      /\ outcome[call[c].code] = "sending" /\ outcome'[call[c].code] = "sent"
      /\ \A k \in Made : k # call[c].code => outcome'[k] = outcome[k]
      /\ \A d \in Callers : CallStands(d)'
      /\ CodesApart'
  BY <1>1, OutcomeKnown
<1>3. TypeOK'
  BY <1>1, <1>2 DEF IInv, TypeOK
<1>4. CleanupHitsItsOwnCode'
  BY <1>1, <1>2, Tables DEF IInv, ChallengeStands, CleanupHitsItsOwnCode, Made
<1> QED BY <1>1, <1>2, <1>3, <1>4 DEF IInv, ChallengeStands, OneLoginPerCode, Made

LEMMA CleanedUp ==
  ASSUME IInv, NEW c \in Callers, CleanUp(c)
  PROVE  IInv'
<1>1. /\ call[c].at = "failed"
      /\ outcome' = [outcome EXCEPT ![call[c].code] = "failed"]
      /\ Return(c)
      /\ UNCHANGED <<answered, uses, sessions, now>>
  BY DEF CleanUp
<1>2. /\ call' \in [Callers -> Call]
      /\ outcome' \in Seq(Outcome) /\ Len(outcome') = Len(outcome)
      /\ outcome[call[c].code] = "sending" /\ outcome'[call[c].code] = "failed"
      /\ \A k \in Made : k # call[c].code => outcome'[k] = outcome[k]
      /\ \A d \in Callers : CallStands(d)'
      /\ CodesApart'
  BY <1>1, OutcomeKnown
<1>3. call[c].time \in Nat /\ call[c].time <= now
  BY <1>1, Tables DEF IInv, CallStands, Call
<1>4. /\ challenge' \in Challenge
      /\ challenge'.code = challenge.code
      /\ challenge'.attempts = challenge.attempts
      /\ challenge'.consumed = challenge.consumed
  <2>1. CASE challenge.code = call[c].code /\ ~challenge.consumed
    <3>1. challenge' = [challenge EXCEPT !.expiresAt = call[c].time, !.sentAt = Epoch]
      BY <2>1 DEF CleanUp
    <3>2. Epoch \in Int
      BY PeriodsAssumption DEF Epoch
    <3>3. challenge' = [code |-> challenge.code, sentAt |-> Epoch, expiresAt |-> call[c].time,
                        attempts |-> challenge.attempts, consumed |-> challenge.consumed]
      BY <3>1, Tables DEF Challenge
    <3> QED BY <1>3, <3>2, <3>3, Tables DEF Challenge
  <2>2. CASE ~(challenge.code = call[c].code /\ ~challenge.consumed)
    BY <2>2, Tables DEF CleanUp
  <2> QED BY <2>1, <2>2
<1>5. TypeOK'
  BY <1>1, <1>2, <1>4 DEF IInv, TypeOK
<1>6. CleanupHitsItsOwnCode'
  <2>1. CASE challenge.code = call[c].code /\ ~challenge.consumed
    <3>1. challenge'.expiresAt = call[c].time /\ challenge'.sentAt = Epoch
      BY <2>1, Tables DEF CleanUp, Challenge
    <3> QED BY <1>1, <1>2, <1>3, <1>4, <2>1, <3>1 DEF CleanupHitsItsOwnCode
  <2>2. CASE challenge.code = call[c].code /\ challenge.consumed
    <3>1. challenge' = challenge
      BY <2>2 DEF CleanUp
    <3> QED BY <1>2, <2>2, <3>1 DEF CleanupHitsItsOwnCode
  <2>3. CASE challenge.code # call[c].code
    <3>1. challenge' = challenge
      BY <2>3 DEF CleanUp
    <3>2. challenge.code # 0 => outcome'[challenge.code] = outcome[challenge.code]
      BY <1>2, <2>3, Tables DEF IInv, ChallengeStands, Made
    <3> QED BY <1>1, <3>1, <3>2 DEF IInv, CleanupHitsItsOwnCode
  <2> QED BY <2>1, <2>2, <2>3
<1>7. ChallengeStands'
  BY <1>1, <1>2, <1>4 DEF IInv, ChallengeStands
<1> QED BY <1>1, <1>2, <1>5, <1>6, <1>7 DEF IInv, OneLoginPerCode, Made

LEMMA DeliveryFailed ==
  ASSUME IInv, NEW c \in Callers, DeliveryFails(c)
  PROVE  IInv'
<1>1. /\ call[c].at = "sending"
      /\ call' = [call EXCEPT ![c].at = "failed"]
      /\ UNCHANGED <<challenge, outcome, answered, uses, sessions, now>>
  BY DEF DeliveryFails
<1>2. /\ call' \in [Callers -> Call]
      /\ call'[c].at = "failed" /\ call'[c].code = call[c].code /\ call'[c].time = call[c].time
      /\ \A d \in Callers \ {c} : call'[d] = call[d]
  BY <1>1 DEF IInv, TypeOK, Call, Phase
<1>3. TypeOK'
  BY <1>1, <1>2 DEF IInv, TypeOK
<1>4. \A d \in Callers : CallStands(d)'
  BY <1>1, <1>2 DEF IInv, CallStands, Made
<1>5. CodesApart'
  BY <1>1, <1>2 DEF IInv, CodesApart
<1> QED BY <1>1, <1>3, <1>4, <1>5
        DEF IInv, OneLoginPerCode, Made, ChallengeStands, CleanupHitsItsOwnCode

LEMMA VerifyBegins ==
  ASSUME IInv, NEW c \in Callers, NEW at \in {"matched", "mismatched"}, BeginVerify(c, at)
  PROVE  IInv'
<1> DEFINE r == [Idle EXCEPT !.at = at, !.code = challenge.code, !.seen = Len(uses)]
<1>1. /\ Open
      /\ call' = [call EXCEPT ![c] = r]
      /\ UNCHANGED <<challenge, outcome, answered, uses, sessions, now>>
  BY DEF BeginVerify
<1>2. r \in Call /\ r.at = at /\ r.code = challenge.code /\ r.seen = Len(uses)
  BY Tables DEF Idle, Call, Phase, Live, Session, Challenge
<1> HIDE DEF r
<1>3. /\ call' \in [Callers -> Call]
      /\ call'[c] = r
      /\ \A d \in Callers \ {c} : call'[d] = call[d]
  BY <1>1, <1>2 DEF IInv, TypeOK
<1>4. TypeOK'
  BY <1>1, <1>3 DEF IInv, TypeOK
<1>5. ASSUME NEW d \in Callers PROVE CallStands(d)'
  <2>1. CASE d = c
    BY <1>1, <1>2, <1>3, <2>1, Tables DEF IInv, ChallengeStands, CallStands, Open, Made
  <2>2. CASE d # c
    BY <1>1, <1>3, <2>2 DEF IInv, CallStands, Made
  <2> QED BY <2>1, <2>2
<1>6. CodesApart'
  BY <1>2, <1>3 DEF IInv, CodesApart
<1> QED BY <1>1, <1>4, <1>5, <1>6
        DEF IInv, OneLoginPerCode, Made, ChallengeStands, CleanupHitsItsOwnCode

LEMMA Mismatched ==
  ASSUME IInv, NEW c \in Callers, Mismatch(c)
  PROVE  IInv'
<1>1. /\ call[c].at = "mismatched"
      /\ challenge' = [challenge EXCEPT !.attempts = @ + 1]
      /\ answered' = [answered EXCEPT ![call[c].code] = @ + 1]
      /\ call' = [call EXCEPT ![c] = Idle]
      /\ UNCHANGED <<outcome, uses, sessions, now>>
  BY DEF Mismatch, Return
<1>2. /\ call' \in [Callers -> Call]
      /\ call'[c] = Idle
      /\ \A d \in Callers \ {c} : call'[d] = call[d]
  BY <1>1, IdleTypes DEF IInv, TypeOK
<1>3. /\ challenge' \in Challenge
      /\ challenge'.attempts = challenge.attempts + 1
      /\ challenge'.code = challenge.code /\ challenge'.consumed = challenge.consumed
      /\ challenge'.sentAt = challenge.sentAt /\ challenge'.expiresAt = challenge.expiresAt
  BY <1>1, Tables DEF Challenge
<1>4. call[c].code \in Made
  BY <1>1 DEF IInv, CallStands
<1>5. /\ answered' \in Seq(Nat) /\ Len(answered') = Len(answered)
      /\ \A k \in Made : answered'[k] = IF k = call[c].code THEN answered[k] + 1 ELSE answered[k]
  BY <1>1, <1>4, Tables DEF IInv, TypeOK, Made
<1>6. TypeOK'
  BY <1>1, <1>2, <1>3, <1>5 DEF IInv, TypeOK
<1>7. \A d \in Callers : CallStands(d)'
  BY <1>1, <1>2, IdleTypes DEF IInv, CallStands, Made
<1>8. CodesApart'
  BY <1>2, IdleTypes DEF IInv, CodesApart
<1>9. ChallengeStands'
  <2>1. challenge.code # 0 => challenge.code \in Made
    BY Tables DEF IInv, ChallengeStands, Made
  <2>2. challenge.code # 0 => answered'[challenge.code] <= challenge.attempts + 1
    BY <1>5, <2>1, Tables DEF IInv, ChallengeStands, Challenge
  <2> QED BY <1>1, <1>3, <2>2 DEF IInv, ChallengeStands
<1>10. CleanupHitsItsOwnCode'
  BY <1>1, <1>3 DEF IInv, CleanupHitsItsOwnCode
<1> QED BY <1>1, <1>5, <1>6, <1>7, <1>8, <1>9, <1>10 DEF IInv, OneLoginPerCode, Made

LEMMA Consumed ==
  ASSUME IInv, NEW c \in Callers, Consume(c)
  PROVE  IInv'
<1> DEFINE u == [code |-> call[c].code, seen |-> call[c].seen]
<1> PICK n \in Nat : n = Len(uses) + 1
  BY Tables
<1>1. /\ call[c].at = "matched"
      /\ challenge' = [challenge EXCEPT !.consumed = TRUE]
      /\ uses' = Append(uses, u)
      /\ call' = [call EXCEPT ![c].at = "consumed"]
      /\ UNCHANGED <<outcome, answered, sessions, now>>
  BY DEF Consume
<1>2. u \in Use /\ u.code = call[c].code /\ u.seen = call[c].seen
  BY Tables DEF Use, Call
<1> HIDE DEF u
<1>3. /\ uses' \in Seq(Use) /\ DOMAIN uses' = 1..n /\ Len(uses') = n
      /\ uses'[n] = u
      /\ \A i \in DOMAIN uses : uses'[i] = uses[i]
      /\ DOMAIN uses = 1..(n - 1)
  BY <1>1, <1>2, Tables DEF IInv, TypeOK
<1>4. /\ challenge' \in Challenge
      /\ challenge'.consumed
      /\ challenge'.code = challenge.code /\ challenge'.attempts = challenge.attempts
      /\ challenge'.sentAt = challenge.sentAt /\ challenge'.expiresAt = challenge.expiresAt
  BY <1>1, Tables DEF Challenge
<1>5. /\ call' \in [Callers -> Call]
      /\ call'[c].at = "consumed"
      /\ \A d \in Callers \ {c} : call'[d] = call[d]
  BY <1>1 DEF IInv, TypeOK, Call, Phase
<1>6. TypeOK'
  BY <1>1, <1>3, <1>4, <1>5 DEF IInv, TypeOK
<1>7. /\ call[c].code \in Made
      /\ \A i \in 1..(n - 1) : uses[i].code = call[c].code => call[c].seen < i
  BY <1>1, <1>3 DEF IInv, CallStands
<1>8. ASSUME NEW d \in Callers PROVE CallStands(d)'
  <2>1. CASE d = c
    BY <1>5, <2>1 DEF CallStands
  <2>2. CASE d # c
    <3>1. CallStands(d) /\ call'[d] = call[d] /\ call[d].seen \in Nat
      BY <1>5, <2>2, Tables DEF IInv, Call
    <3>2. ASSUME call[d].at = "matched", NEW i \in 1..n, uses'[i].code = call[d].code
          PROVE  call[d].seen < i
      <4>1. CASE i = n
        BY <3>1, <3>2, <4>1, Tables DEF CallStands
      <4>2. CASE i # n
        <5>1. i \in DOMAIN uses /\ uses'[i] = uses[i]
          BY <1>3, <4>2
        <5> QED BY <3>1, <3>2, <5>1 DEF CallStands
      <4> QED BY <4>1, <4>2
    <3> QED BY <1>1, <1>3, <3>1, <3>2 DEF CallStands, Made
  <2> QED BY <2>1, <2>2
<1>9. CodesApart'
  BY <1>1, <1>5 DEF IInv, CodesApart
<1>10. ChallengeStands'
  BY <1>1, <1>4 DEF IInv, ChallengeStands
<1>11. \A i \in DOMAIN uses' : uses'[i].code \in Made'
  BY <1>1, <1>2, <1>3, <1>7 DEF IInv, Made
<1>12. CleanupHitsItsOwnCode'
  BY <1>1, <1>4 DEF IInv, CleanupHitsItsOwnCode
<1>13. OneLoginPerCode'
  <2> SUFFICES ASSUME NEW i \in 1..n, NEW j \in 1..n, i < j, uses'[i].code = uses'[j].code
               PROVE  uses'[j].seen < i
    BY <1>3 DEF OneLoginPerCode
  <2>1. CASE j = n
    BY <1>2, <1>3, <1>7, <2>1
  <2>2. CASE j # n
    BY <1>3, <2>2 DEF IInv, OneLoginPerCode
  <2> QED BY <2>1, <2>2
<1> QED BY <1>1, <1>6, <1>8, <1>9, <1>10, <1>11, <1>12, <1>13 DEF IInv

LEMMA SessionIssued ==
  ASSUME IInv, NEW c \in Callers, issueSession(c)
  PROVE  IInv'
<1>1. /\ sessions' = Append(sessions, Live)
      /\ call' = [call EXCEPT ![c] = Idle]
      /\ UNCHANGED <<challenge, outcome, answered, uses, now>>
  BY DEF issueSession, Return
<1>2. /\ call' \in [Callers -> Call]
      /\ call'[c] = Idle
      /\ \A d \in Callers \ {c} : call'[d] = call[d]
      /\ sessions' \in Seq(Session)
  BY <1>1, IdleTypes DEF IInv, TypeOK
<1>3. TypeOK'
  BY <1>1, <1>2 DEF IInv, TypeOK
<1>4. \A d \in Callers : CallStands(d)'
  BY <1>1, <1>2, IdleTypes DEF IInv, CallStands, Made
<1>5. CodesApart'
  BY <1>2, IdleTypes DEF IInv, CodesApart
<1> QED BY <1>1, <1>3, <1>4, <1>5
        DEF IInv, OneLoginPerCode, Made, ChallengeStands, CleanupHitsItsOwnCode

LEMMA GuardBegins ==
  ASSUME IInv, NEW c \in Callers, NEW s \in DOMAIN sessions, BeginRequireUser(c, s)
  PROVE  IInv'
<1> DEFINE r == [Idle EXCEPT !.at = "guarded", !.session = s, !.row = sessions[s]]
<1>1. /\ call' = [call EXCEPT ![c] = r]
      /\ UNCHANGED <<challenge, outcome, answered, uses, sessions, now>>
  BY DEF BeginRequireUser
<1>2. r \in Call /\ r.at = "guarded"
  <2>1. s \in Nat /\ sessions[s] \in Session
    BY Tables DEF IInv, TypeOK
  <2> QED BY <2>1 DEF Idle, Call, Phase
<1> HIDE DEF r
<1>3. /\ call' \in [Callers -> Call]
      /\ call'[c] = r
      /\ \A d \in Callers \ {c} : call'[d] = call[d]
  BY <1>1, <1>2 DEF IInv, TypeOK
<1>4. TypeOK'
  BY <1>1, <1>3 DEF IInv, TypeOK
<1>5. \A d \in Callers : CallStands(d)'
  BY <1>1, <1>2, <1>3 DEF IInv, CallStands, Made
<1>6. CodesApart'
  BY <1>2, <1>3 DEF IInv, CodesApart
<1> QED BY <1>1, <1>4, <1>5, <1>6
        DEF IInv, OneLoginPerCode, Made, ChallengeStands, CleanupHitsItsOwnCode

LEMMA LoggedOut ==
  ASSUME IInv, NEW s \in DOMAIN sessions, logout(s)
  PROVE  IInv'
<1>1. /\ sessions' = [sessions EXCEPT ![s].revoked = TRUE]
      /\ UNCHANGED <<challenge, outcome, answered, uses, now, call>>
  BY DEF logout
<1>2. sessions' \in Seq(Session)
  <2>1. \A t \in 1..Len(sessions) : sessions[t] \in Session
    BY DEF IInv, TypeOK
  <2>2. [sessions[s] EXCEPT !.revoked = TRUE] \in Session
    BY <2>1, Tables DEF Session
  <2> QED BY <1>1, <2>1, <2>2, Tables DEF IInv, TypeOK
<1>3. TypeOK'
  BY <1>1, <1>2 DEF IInv, TypeOK
<1>4. \A d \in Callers : CallStands(d)'
  BY <1>1 DEF IInv, CallStands, Made
<1> QED BY <1>1, <1>3, <1>4
        DEF IInv, CodesApart, OneLoginPerCode, Made, ChallengeStands, CleanupHitsItsOwnCode

LEMMA Ticked ==
  ASSUME IInv, Tick
  PROVE  IInv'
<1>1. /\ now' = now + 1
      /\ UNCHANGED <<challenge, outcome, answered, uses, sessions, call>>
  BY DEF Tick
<1>2. TypeOK'
  BY <1>1 DEF IInv, TypeOK
<1>3. \A d \in Callers : CallStands(d)'
  BY <1>1, Tables DEF IInv, CallStands, Made, Call
<1>4. CleanupHitsItsOwnCode'
  BY <1>1, Tables DEF IInv, CleanupHitsItsOwnCode, Challenge
<1> QED BY <1>1, <1>2, <1>3, <1>4
        DEF IInv, CodesApart, OneLoginPerCode, Made, ChallengeStands

LEMMA IInvInit == Init => IInv
<1> SUFFICES ASSUME Init PROVE IInv
  OBVIOUS
<1>1. TypeOK
  BY IdleTypes, PeriodsAssumption
  DEF Init, TypeOK, Challenge, Outcome, Use, Session, Epoch
<1>2. \A c \in Callers : CallStands(c)
  BY IdleTypes DEF Init, CallStands
<1>3. CodesApart
  BY IdleTypes DEF Init, CodesApart
<1> QED BY <1>1, <1>2, <1>3
        DEF Init, IInv, ChallengeStands, Made, CleanupHitsItsOwnCode, OneLoginPerCode

LEMMA IInvNext == IInv /\ [Next]_vars => IInv'
<1> SUFFICES ASSUME IInv, [Next]_vars PROVE IInv'
  OBVIOUS
<1>1. ASSUME NEW c \in Callers, CallStep(c) PROVE IInv'
  <2>1. CASE BeginRequest(c)
    BY <2>1, RequestBegins
  <2>2. CASE UpsertChallenge(c)
    BY <2>2, ChallengeUpserted
  <2>3. CASE Delivered(c)
    BY <2>3, DeliveryEnds
  <2>4. CASE DeliveryFails(c)
    BY <2>4, DeliveryFailed
  <2>5. CASE CleanUp(c)
    BY <2>5, CleanedUp
  <2>6. CASE \E at \in {"matched", "mismatched"} : BeginVerify(c, at)
    BY <2>6, VerifyBegins
  <2>7. CASE Mismatch(c)
    BY <2>7, Mismatched
  <2>8. CASE Consume(c)
    BY <2>8, Consumed
  <2>9. CASE issueSession(c)
    BY <2>9, SessionIssued
  <2>10. CASE \E s \in DOMAIN sessions : BeginRequireUser(c, s)
    BY <2>10, GuardBegins
  <2>11. CASE Touch(c) \/ Crash(c)
    BY <2>11, CallEnds DEF Touch, Crash
  <2> QED BY <1>1, <2>1, <2>2, <2>3, <2>4, <2>5, <2>6, <2>7, <2>8, <2>9, <2>10, <2>11
          DEF CallStep
<1>2. CASE \E s \in DOMAIN sessions : logout(s)
  BY <1>2, LoggedOut
<1>3. CASE Tick
  BY <1>3, Ticked
<1>4. CASE UNCHANGED vars
  BY <1>4 DEF vars, IInv, TypeOK, CallStands, CodesApart, Made, ChallengeStands,
              CleanupHitsItsOwnCode, OneLoginPerCode
<1> QED BY <1>1, <1>2, <1>3, <1>4 DEF Next

LEMMA Invariance == Spec => []IInv
  BY IInvInit, IInvNext, PTL DEF Spec

-----------------------------------------------------------------------------
(* The limit of attempts.                                                  *)

LEMMA GuessingCounts ==
  ASSUME NEW k
  PROVE  /\ IsFiniteSet(Guessing(k)) /\ Guessing(k) \subseteq Callers
         /\ Cardinality(Guessing(k)) \in Nat /\ Cardinality(Callers) \in Nat
         /\ Cardinality(Guessing(k)) <= Cardinality(Callers)
<1>1. Guessing(k) \in SUBSET Callers
  BY DEF Guessing
<1> QED BY <1>1, FS_Subset, FS_CardinalityType, CallersAssumption

LEMMA GuessingCountsNext ==
  ASSUME NEW k
  PROVE  /\ IsFiniteSet(Guessing(k)') /\ Guessing(k)' \subseteq Callers
         /\ Cardinality(Guessing(k)') \in Nat
         /\ Cardinality(Guessing(k)') <= Cardinality(Callers)
<1>1. Guessing(k)' \in SUBSET Callers
  BY DEF Guessing
<1> QED BY <1>1, FS_Subset, FS_CardinalityType, CallersAssumption

\* A code whose count stays and that nobody begins to guess at.
LEMMA NoMoreGuesses ==
  ASSUME IInv, AttemptsAreLimited, NEW k \in DOMAIN answered,
         answered'[k] = answered[k], Guessing(k)' \subseteq Guessing(k)
  PROVE  answered'[k] + Cardinality(Guessing(k)') < MaxAttempts + Cardinality(Callers)
<1>1. answered[k] \in Nat
  BY Tables
<1>2. Cardinality(Guessing(k)') <= Cardinality(Guessing(k))
  BY GuessingCounts, FS_Subset
<1>3. answered[k] + Cardinality(Guessing(k)) < MaxAttempts + Cardinality(Callers)
  BY DEF AttemptsAreLimited
<1> QED BY <1>1, <1>2, <1>3, GuessingCounts, GuessingCountsNext, PeriodsAssumption

LEMMA AttemptsNext ==
  ASSUME IInv, AttemptsAreLimited, [Next]_vars
  PROVE  AttemptsAreLimited'
<1>1. ASSUME NEW c \in Callers, CallStep(c) PROVE AttemptsAreLimited'
  <2> call \in [Callers -> Call]
    BY DEF IInv, TypeOK
  <2>1. CASE UpsertChallenge(c)
    <3> PICK n \in Nat : n = Len(outcome) + 1
      BY Tables
    <3>1. /\ DOMAIN answered' = 1..n /\ answered'[n] = 0
          /\ \A k \in Made : answered'[k] = answered[k]
      <4>1. answered' = Append(answered, 0)
        BY <2>1 DEF UpsertChallenge
      <4> QED BY <4>1, Tables DEF IInv, TypeOK, Made
    <3>2. ASSUME NEW k PROVE Guessing(k)' \subseteq Guessing(k)
      BY <2>1 DEF UpsertChallenge, Guessing, Call
    <3>3. ASSUME NEW k \in DOMAIN answered'
          PROVE  answered'[k] + Cardinality(Guessing(k)') < MaxAttempts + Cardinality(Callers)
      <4>1. CASE k = n
        <5>1. Guessing(k) = {}
          BY <4>1, Tables DEF Guessing, IInv, CallStands, Made
        <5>2. Guessing(k)' = {}
          BY <3>2, <5>1
        <5>3. Cardinality(Guessing(k)') = 0 /\ answered'[k] = 0
          BY <3>1, <4>1, <5>2, FS_EmptySet
        <5>4. Cardinality(Callers) \in Nat
          BY GuessingCounts
        <5> QED BY <5>3, <5>4, PeriodsAssumption
      <4>2. CASE k # n
        <5>1. k \in Made /\ k \in DOMAIN answered
          BY <3>1, <4>2, Tables DEF Made
        <5> QED BY <3>1, <3>2, <5>1, NoMoreGuesses
      <4> QED BY <4>1, <4>2
    <3> QED BY <3>3 DEF AttemptsAreLimited
  <2>2. CASE Mismatch(c)
    <3>1. /\ call[c].at = "mismatched" /\ call[c].code \in Made
          /\ answered' = [answered EXCEPT ![call[c].code] = @ + 1]
          /\ call' = [call EXCEPT ![c] = Idle]
      BY <2>2 DEF Mismatch, Return, IInv, CallStands
    <3>2. /\ DOMAIN answered' = DOMAIN answered
          /\ answered'[call[c].code] = answered[call[c].code] + 1
          /\ \A k \in Made : k # call[c].code => answered'[k] = answered[k]
      BY <3>1, Tables DEF IInv, TypeOK
    <3>3. ASSUME NEW k PROVE Guessing(k)' = Guessing(k) \ {c}
      BY <3>1, IdleTypes DEF Guessing
    <3>4. ASSUME NEW k \in DOMAIN answered'
          PROVE  answered'[k] + Cardinality(Guessing(k)') < MaxAttempts + Cardinality(Callers)
      <4>1. CASE k = call[c].code
        <5>1. c \in Guessing(k)
          BY <3>1, <4>1 DEF Guessing
        <5>2. Cardinality(Guessing(k)') = Cardinality(Guessing(k)) - 1
          BY <3>3, <5>1, GuessingCounts, FS_RemoveElement
        <5>3. answered[k] \in Nat /\ k \in DOMAIN answered
          BY <3>1, <4>1, Tables
        <5>4. answered[k] + Cardinality(Guessing(k)) < MaxAttempts + Cardinality(Callers)
          BY <5>3 DEF AttemptsAreLimited
        <5> QED BY <3>2, <4>1, <5>2, <5>3, <5>4, GuessingCounts, PeriodsAssumption
      <4>2. CASE k # call[c].code
        BY <3>2, <3>3, <4>2, NoMoreGuesses, Tables
      <4> QED BY <4>1, <4>2
    <3> QED BY <3>4 DEF AttemptsAreLimited
  <2>3. ASSUME NEW at \in {"matched", "mismatched"}, BeginVerify(c, at)
        PROVE  AttemptsAreLimited'
    <3> DEFINE r == [Idle EXCEPT !.at = at, !.code = challenge.code, !.seen = Len(uses)]
    <3>1. r.code = challenge.code
      BY DEF Idle
    <3>2. call' = [call EXCEPT ![c] = r] /\ answered' = answered
      BY <2>3 DEF BeginVerify
    <3> HIDE DEF r
    <3>3. ASSUME NEW k \in DOMAIN answered
          PROVE  answered[k] + Cardinality(Guessing(k)') < MaxAttempts + Cardinality(Callers)
      <4>1. CASE k = challenge.code
        <5>1. answered[k] < MaxAttempts
          BY <2>3, <4>1, Tables, PeriodsAssumption
          DEF BeginVerify, Open, IInv, ChallengeStands, Challenge
        <5>2. answered[k] \in Nat
          BY Tables
        <5>3. /\ Cardinality(Guessing(k)') \in Nat /\ Cardinality(Callers) \in Nat
              /\ Cardinality(Guessing(k)') <= Cardinality(Callers)
          BY GuessingCounts, GuessingCountsNext
        <5> QED BY <5>1, <5>2, <5>3, PeriodsAssumption
      <4>2. CASE k # challenge.code
        <5>1. Guessing(k)' \subseteq Guessing(k)
          BY <3>1, <3>2, <4>2 DEF Guessing
        <5> QED BY <3>2, <5>1, NoMoreGuesses
      <4> QED BY <4>1, <4>2
    <3> QED BY <3>2, <3>3 DEF AttemptsAreLimited
  <2>4. ASSUME answered' = answered, call' \in [Callers -> Call],
               \A d \in Callers : call'[d].at = "mismatched" => call'[d] = call[d]
        PROVE  AttemptsAreLimited'
    <3>1. ASSUME NEW k PROVE Guessing(k)' \subseteq Guessing(k)
      BY <2>4 DEF Guessing
    <3> QED BY <2>4, <3>1, NoMoreGuesses DEF AttemptsAreLimited
  <2>5. CASE BeginRequest(c)
    <3>1. [Idle EXCEPT !.at = "read", !.time = now].at = "read"
      BY DEF Idle
    <3>2. /\ answered' = answered
          /\ \A d \in Callers : call'[d].at = "mismatched" => call'[d] = call[d]
      BY <2>5, <3>1 DEF BeginRequest
    <3> QED BY <2>4, <2>5, <3>2, RequestBegins DEF IInv, TypeOK
  <2>6. ASSUME NEW s \in DOMAIN sessions, BeginRequireUser(c, s) PROVE AttemptsAreLimited'
    <3>1. [Idle EXCEPT !.at = "guarded", !.session = s, !.row = sessions[s]].at = "guarded"
      BY DEF Idle
    <3>2. /\ answered' = answered
          /\ \A d \in Callers : call'[d].at = "mismatched" => call'[d] = call[d]
      BY <2>6, <3>1 DEF BeginRequireUser
    <3> QED BY <2>4, <2>6, <3>2, GuardBegins DEF IInv, TypeOK
  <2>7. CASE Return(c) /\ answered' = answered
    BY <2>4, <2>7, IdleTypes DEF Return
  <2>8. CASE DeliveryFails(c) \/ Consume(c)
    <3>1. \E phase \in {"failed", "consumed"} : call' = [call EXCEPT ![c].at = phase]
      BY <2>8 DEF DeliveryFails, Consume
    <3>2. answered' = answered
      BY <2>8 DEF DeliveryFails, Consume
    <3> QED BY <2>4, <3>1, <3>2 DEF Call, Phase
  <2> QED BY <1>1, <2>1, <2>2, <2>3, <2>5, <2>6, <2>7, <2>8
          DEF CallStep, Delivered, CleanUp, issueSession, Touch, Crash
<1>2. CASE (\E s \in DOMAIN sessions : logout(s)) \/ Tick \/ UNCHANGED vars
  <2>1. answered' = answered /\ call' = call
    BY <1>2 DEF logout, Tick, vars
  <2>2. ASSUME NEW k PROVE Guessing(k)' = Guessing(k)
    BY <2>1 DEF Guessing
  <2> QED BY <2>1, <2>2 DEF AttemptsAreLimited
<1> QED BY <1>1, <1>2 DEF Next

-----------------------------------------------------------------------------
\* The phone's row, the sessions and the calls keep their types.
THEOREM PhoneAuthTypeCorrect == Spec => []TypeOK
<1>1. IInv => TypeOK
  BY DEF IInv
<1> QED BY <1>1, Invariance, PTL

\* A failed delivery invalidates its own code and no other, however late it
\* is noticed (CleanupHitsItsOwnCode).
THEOREM CleanupHitsItsOwnCodeAlways == Spec => []CleanupHitsItsOwnCode
<1>1. IInv => CleanupHitsItsOwnCode
  BY DEF IInv
<1> QED BY <1>1, Invariance, PTL

\* A second login by one code comes only from a verification that had read
\* the challenge before the first (OneLoginPerCode).
THEOREM OneLoginPerCodeAlways == Spec => []OneLoginPerCode
<1>1. IInv => OneLoginPerCode
  BY DEF IInv
<1> QED BY <1>1, Invariance, PTL

\* No code stands more wrong guesses than the limit and one for each guess
\* that overlaps (AttemptsAreLimited).
THEOREM AttemptsAreLimitedAlways == Spec => []AttemptsAreLimited
<1>1. Init => AttemptsAreLimited
  BY DEF Init, AttemptsAreLimited
<1>2. IInv /\ AttemptsAreLimited /\ [Next]_vars => AttemptsAreLimited'
  BY AttemptsNext
<1> QED BY <1>1, <1>2, Invariance, PTL DEF Spec

\* A session that was logged out stays out (RevokedStaysRevoked).
THEOREM RevokedStaysRevokedAlways == Spec => RevokedStaysRevoked
<1>1. ASSUME IInv, [Next]_vars, NEW s \in DOMAIN sessions, sessions[s].revoked
      PROVE  sessions'[s].revoked
  <2> sessions \in Seq(Session)
    BY <1>1 DEF IInv, TypeOK
  <2>1. CASE sessions' = Append(sessions, Live)
    BY <1>1, <2>1
  <2>2. CASE \E t \in DOMAIN sessions : logout(t)
    BY <1>1, <2>2 DEF logout, Session
  <2>3. CASE sessions' = sessions
    BY <1>1, <2>3
  <2> QED BY <1>1, <2>1, <2>2, <2>3
          DEF Next, CallStep, BeginRequest, UpsertChallenge, Delivered, DeliveryFails, CleanUp,
              BeginVerify, Mismatch, Consume, issueSession, BeginRequireUser, Touch, Crash,
              Tick, vars
<1>2. IInv /\ [Next]_vars =>
        [\A s \in DOMAIN sessions : sessions[s].revoked => sessions'[s].revoked]_vars
  BY <1>1
<1> QED BY <1>2, Invariance, PTL DEF Spec, RevokedStaysRevoked

=============================================================================
