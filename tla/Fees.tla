-------------------------------- MODULE Fees --------------------------------
(***************************************************************************)
(* The platform's fee for a deal: calculateFee of deals.service.ts.        *)
(* Amounts and fees are whole tenge; the percentages and the two bounds    *)
(* come from the environment.                                              *)
(***************************************************************************)
EXTENDS ProtectionChecklist, Integers

CONSTANTS
  BasicPercent, ExtendedPercent,  \* PLATFORM_FEE_PERCENT, EXTENDED_PROTECTION_FEE_PERCENT
  MinFee, MaxFee                  \* PLATFORM_FEE_MIN_KZT, PLATFORM_FEE_MAX_KZT

ASSUME PercentAssumption == BasicPercent \in Nat /\ ExtendedPercent \in Nat
ASSUME FeeAssumption == MinFee \in Nat /\ MaxFee \in Nat /\ MinFee <= MaxFee

percent(plan) == IF plan = "EXTENDED" THEN ExtendedPercent ELSE BasicPercent

AtLeast(a, b) == IF a < b THEN b ELSE a
AtMost(a, b) == IF a < b THEN a ELSE b

\* Math.round of amount * percent / 100: halves go up.
Share(amount, plan) == (amount * percent(plan) + 50) \div 100

\* Faulty variant: the bounds are swapped.
FeeBoundsSwapped(amount, plan) == AtLeast(MaxFee, AtMost(MinFee, Share(amount, plan)))

calculateFee(amount, plan) == AtMost(MaxFee, AtLeast(MinFee, Share(amount, plan)))

-----------------------------------------------------------------------------
(* Properties of the fee of two deals.                                     *)

\* What calculateFee charges stays within its bounds, does not fall when the
\* amount rises, and is no less on the EXTENDED plan (of the higher percent).
\* It is within half a tenge of the exact share, more only if it is the
\* lowest fee, less only if it is the highest.
FeeIsOrdered(a, b) ==
  /\ \A plan \in ProtectionPlan :
       /\ calculateFee(a, plan) \in MinFee..MaxFee
       /\ a <= b => calculateFee(a, plan) <= calculateFee(b, plan)
       /\ calculateFee(a, plan) > MinFee => 100 * calculateFee(a, plan) - a * percent(plan) <= 50
       /\ calculateFee(a, plan) < MaxFee => a * percent(plan) - 100 * calculateFee(a, plan) < 50
  /\ BasicPercent <= ExtendedPercent => calculateFee(a, "BASIC") <= calculateFee(a, "EXTENDED")

=============================================================================
