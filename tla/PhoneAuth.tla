----------------------------- MODULE PhoneAuth -----------------------------
(***************************************************************************)
(* Login by a code sent to one phone, and the sessions that come of it:    *)
(* phone-auth.service.ts, otp-delivery.service.ts, the session part of     *)
(* auth.service.ts and the guard that every other endpoint goes through.   *)
(*                                                                         *)
(* The phone has one challenge row.  requestCode reads it, writes it,      *)
(* waits for the delivery and cleans up after a failed one; verifyCode     *)
(* reads it, then writes by phone, whatever the row holds by then, and     *)
(* creates the session in a statement of its own.  Calls overlap, and each *)
(* can die between two steps.                                              *)
(*                                                                         *)
(* Codes are numbered as they are made: random codes of six digits can     *)
(* coincide, which the model leaves out.  A guess is right or wrong for    *)
(* the code it is compared with.  Without a transport requestCode refuses  *)
(* before it writes, which is no step.                                     *)
(***************************************************************************)
EXTENDS Integers, Sequences, FiniteSets

CONSTANTS
  Callers,         \* calls that may be in flight at the same time
  ResendInterval,  \* a code may be sent again after that many ticks
  Ttl,             \* a code lives that many ticks
  MaxAttempts,     \* wrong guesses allowed
  MaxCodes,        \* bound: no request begins with that many codes made
  MaxUses,         \* bound: no guess is made after that many logins
  MaxTime          \* bound: the clock stops here

ASSUME CallersAssumption == IsFiniteSet(Callers)
ASSUME PeriodsAssumption ==
  /\ ResendInterval \in Nat \ {0}
  /\ Ttl \in Nat \ {0}
  /\ MaxAttempts \in Nat \ {0}
ASSUME BoundsAssumption == MaxCodes \in Nat /\ MaxUses \in Nat /\ MaxTime \in Nat

VARIABLES
  challenge,  \* the phone's row; code 0 if there is none
  outcome,    \* for each code made, how its delivery went
  answered,   \* for each code made, how many guesses were answered "wrong"
  uses,       \* the verifications that consumed the challenge, oldest first
  sessions,   \* the user's sessions, oldest first
  now,        \* the clock
  call        \* for each caller, how far its call has come
vars == <<challenge, outcome, answered, uses, sessions, now, call>>

\* new Date(0), before any time the clock shows.
Epoch == -ResendInterval

Challenge == [code : Nat, sentAt : Int, expiresAt : Int, attempts : Nat, consumed : BOOLEAN]
Outcome == {"sending", "sent", "failed"}
Session == [revoked : BOOLEAN]

(* `seen' is no column: how many verifications had committed when this one *)
(* read the challenge.                                                     *)
Use == [code : Nat, seen : Nat]
Phase == {"idle", "read", "sending", "failed", "mismatched", "matched", "consumed", "guarded"}
Call == [at : Phase, code : Nat, time : Nat, seen : Nat, session : Nat, row : Session]

Live == [revoked |-> FALSE]
Idle == [at |-> "idle", code |-> 0, time |-> 0, seen |-> 0, session |-> 0, row |-> Live]

Init ==
  /\ challenge = [code |-> 0, sentAt |-> Epoch, expiresAt |-> 0, attempts |-> 0,
                  consumed |-> FALSE]
  /\ outcome = <<>>
  /\ answered = <<>>
  /\ uses = <<>>
  /\ sessions = <<>>
  /\ now = 0
  /\ call = [c \in Callers |-> Idle]

Return(c) == call' = [call EXCEPT ![c] = Idle]

-----------------------------------------------------------------------------
(* requestCode.                                                            *)

BeginRequest(c) ==
  /\ call[c] = Idle
  /\ Len(outcome) < MaxCodes
  /\ challenge.code = 0 \/ challenge.sentAt <= now - ResendInterval
  /\ call' = [call EXCEPT ![c] = [Idle EXCEPT !.at = "read", !.time = now]]
  /\ UNCHANGED <<challenge, outcome, answered, uses, sessions, now>>

\* upsert: a new code over whatever the row holds; then it is handed to the
\* transport.
UpsertChallenge(c) ==
  /\ call[c].at = "read"
  /\ challenge' = [code |-> Len(outcome) + 1, sentAt |-> call[c].time,
                   expiresAt |-> call[c].time + Ttl, attempts |-> 0, consumed |-> FALSE]
  /\ outcome' = Append(outcome, "sending")
  /\ answered' = Append(answered, 0)
  /\ call' = [call EXCEPT ![c].at = "sending", ![c].code = Len(outcome) + 1]
  /\ UNCHANGED <<uses, sessions, now>>

\* deliver: the transport takes the code,
Delivered(c) ==
  /\ call[c].at = "sending"
  /\ outcome' = [outcome EXCEPT ![call[c].code] = "sent"]
  /\ Return(c)
  /\ UNCHANGED <<challenge, answered, uses, sessions, now>>

\* or it refuses it, cannot be reached or does not answer in time.
DeliveryFails(c) ==
  /\ call[c].at = "sending"
  /\ call' = [call EXCEPT ![c].at = "failed"]
  /\ UNCHANGED <<challenge, outcome, answered, uses, sessions, now>>

\* Faulty variant: the cleanup is not scoped by the code.
CleanUpPhone(c) ==
  /\ call[c].at = "failed"
  /\ challenge' = IF ~challenge.consumed
                  THEN [challenge EXCEPT !.expiresAt = call[c].time, !.sentAt = Epoch]
                  ELSE challenge
  /\ outcome' = [outcome EXCEPT ![call[c].code] = "failed"]
  /\ Return(c)
  /\ UNCHANGED <<answered, uses, sessions, now>>

\* The catch clause; the error goes to the caller.
CleanUp(c) ==
  /\ call[c].at = "failed"
  /\ challenge' = IF challenge.code = call[c].code /\ ~challenge.consumed
                  THEN [challenge EXCEPT !.expiresAt = call[c].time, !.sentAt = Epoch]
                  ELSE challenge
  /\ outcome' = [outcome EXCEPT ![call[c].code] = "failed"]
  /\ Return(c)
  /\ UNCHANGED <<answered, uses, sessions, now>>

-----------------------------------------------------------------------------
(* verifyCode.                                                             *)

\* Faulty variant: a consumed code is taken again.
OpenUnlessExpired ==
  /\ challenge.code # 0
  /\ challenge.expiresAt > now
  /\ challenge.attempts < MaxAttempts

\* The checks on the row as it is read.
Open ==
  /\ challenge.code # 0
  /\ ~challenge.consumed
  /\ challenge.expiresAt > now
  /\ challenge.attempts < MaxAttempts

BeginVerify(c, at) ==
  /\ call[c] = Idle
  /\ Len(uses) < MaxUses
  /\ Open
  /\ at \in {"matched", "mismatched"}
  /\ call' = [call EXCEPT ![c] = [Idle EXCEPT !.at = at, !.code = challenge.code,
                                              !.seen = Len(uses)]]
  /\ UNCHANGED <<challenge, outcome, answered, uses, sessions, now>>

\* Faulty variant: the count is written as it was read, plus one.
MismatchStale(c) ==
  /\ call[c].at = "mismatched"
  /\ challenge' = [challenge EXCEPT !.attempts = 1]
  /\ answered' = [answered EXCEPT ![call[c].code] = @ + 1]
  /\ Return(c)
  /\ UNCHANGED <<outcome, uses, sessions, now>>

\* A wrong guess counts against the row the phone has now.
Mismatch(c) ==
  /\ call[c].at = "mismatched"
  /\ challenge' = [challenge EXCEPT !.attempts = @ + 1]
  /\ answered' = [answered EXCEPT ![call[c].code] = @ + 1]
  /\ Return(c)
  /\ UNCHANGED <<outcome, uses, sessions, now>>

\* The transaction: the phone's challenge is consumed, the user is there.
Consume(c) ==
  /\ call[c].at = "matched"
  /\ challenge' = [challenge EXCEPT !.consumed = TRUE]
  /\ uses' = Append(uses, [code |-> call[c].code, seen |-> call[c].seen])
  /\ call' = [call EXCEPT ![c].at = "consumed"]
  /\ UNCHANGED <<outcome, answered, sessions, now>>

issueSession(c) ==
  /\ call[c].at = "consumed"
  /\ sessions' = Append(sessions, Live)
  /\ Return(c)
  /\ UNCHANGED <<challenge, outcome, answered, uses, now>>

-----------------------------------------------------------------------------
(* Sessions.                                                               *)

\* requireUser, for any request: the session is read, and a request whose
\* session is revoked (or expired, a refusal at any time here) ends there;
BeginRequireUser(c, s) ==
  /\ call[c] = Idle
  /\ sessions[s] = Live
  /\ call' = [call EXCEPT ![c] = [Idle EXCEPT !.at = "guarded", !.session = s,
                                              !.row = sessions[s]]]
  /\ UNCHANGED <<challenge, outcome, answered, uses, sessions, now>>

\* Faulty variant: the row is saved as it was read.
SaveSession(c) ==
  /\ call[c].at = "guarded"
  /\ sessions' = [sessions EXCEPT ![call[c].session] = call[c].row]
  /\ Return(c)
  /\ UNCHANGED <<challenge, outcome, answered, uses, now>>

\* and lastSeenAt, a column that nothing reads, is written by id.
Touch(c) ==
  /\ call[c].at = "guarded"
  /\ Return(c)
  /\ UNCHANGED <<challenge, outcome, answered, uses, sessions, now>>

logout(s) ==
  /\ ~sessions[s].revoked
  /\ sessions' = [sessions EXCEPT ![s].revoked = TRUE]
  /\ UNCHANGED <<challenge, outcome, answered, uses, now, call>>

\* The call dies; what it has not written is lost.
Crash(c) ==
  /\ call[c] # Idle
  /\ Return(c)
  /\ UNCHANGED <<challenge, outcome, answered, uses, sessions, now>>

Tick ==
  /\ now < MaxTime
  /\ now' = now + 1
  /\ UNCHANGED <<challenge, outcome, answered, uses, sessions, call>>

-----------------------------------------------------------------------------
CallStep(c) ==
  \/ BeginRequest(c)
  \/ UpsertChallenge(c)
  \/ Delivered(c)
  \/ DeliveryFails(c)
  \/ CleanUp(c)
  \/ \E at \in {"matched", "mismatched"} : BeginVerify(c, at)
  \/ Mismatch(c)
  \/ Consume(c)
  \/ issueSession(c)
  \/ \E s \in DOMAIN sessions : BeginRequireUser(c, s)
  \/ Touch(c)
  \/ Crash(c)

Next ==
  \/ \E c \in Callers : CallStep(c)
  \/ \E s \in DOMAIN sessions : logout(s)
  \/ Tick

Spec == Init /\ [][Next]_vars

-----------------------------------------------------------------------------
(* Properties.                                                             *)

TypeOK ==
  /\ challenge \in Challenge
  /\ outcome \in Seq(Outcome)
  /\ answered \in Seq(Nat)
  /\ uses \in Seq(Use)
  /\ sessions \in Seq(Session)
  /\ now \in Nat
  /\ call \in [Callers -> Call]

Guessing(k) == {c \in Callers : call[c].at = "mismatched" /\ call[c].code = k}

\* No code stands more wrong guesses than the limit and one for each guess
\* that overlaps: the count is read before it is written, but never lost.
AttemptsAreLimited ==
  \A k \in DOMAIN answered :
    answered[k] + Cardinality(Guessing(k)) < MaxAttempts + Cardinality(Callers)

\* docs/auth.md: a failed delivery invalidates that challenge at once, so
\* that the user can ask again.  The cleanup hits its own code only: a code
\* whose delivery did not fail keeps its full life and its cooldown, however
\* late the failure of an earlier one is noticed.
CleanupHitsItsOwnCode ==
  challenge.code # 0 =>
    IF outcome[challenge.code] = "failed"
    THEN challenge.consumed \/ (challenge.sentAt = Epoch /\ challenge.expiresAt <= now)
    ELSE challenge.sentAt >= 0 /\ challenge.expiresAt = challenge.sentAt + Ttl

\* One code, one login: a second verification of a code commits only if it
\* had read the challenge before the first one did.
OneLoginPerCode ==
  \A i, j \in DOMAIN uses : i < j /\ uses[i].code = uses[j].code => uses[j].seen < i

\* A session that was logged out stays out, whatever requests were passing
\* the guard at that moment.
RevokedStaysRevoked ==
  [][\A s \in DOMAIN sessions : sessions[s].revoked => sessions'[s].revoked]_vars

=============================================================================
