----------------------- MODULE MCProtectionChecklist -----------------------
(***************************************************************************)
(* Runs the checklist on every set of files of both parties, spelled in    *)
(* upper and lower case, one upload after the other, for deals of the      *)
(* amounts at which a bound of the fee or its rounding begins to matter.   *)
(***************************************************************************)
EXTENDS Fees

CONSTANTS
  FileKinds,  \* the kinds that the uploaded files have
  Amounts     \* amounts of deals

ASSUME AmountsAssumption == Amounts \subseteq Nat

VARIABLES amount, evidence

Init == amount \in Amounts /\ evidence = {}
Upload ==
  /\ \E role \in PartyRole, kind \in FileKinds :
       evidence' = evidence \cup {File(role, kind)}
  /\ UNCHANGED amount
Spec == Init /\ [][Upload]_<<amount, evidence>>

\* No gate is opened or closed by the other party, whatever is uploaded.
EveryGateIsOwnersAlone == GateIsOwnersAlone(evidence)

\* The panel and the gates never disagree, whatever is uploaded.
PanelTellsTheGate == PanelTellsGate(evidence)

\* The fee of the deal is in order, by itself and beside that of any other.
FeesAreOrdered == \A b \in Amounts : FeeIsOrdered(amount, b)

=============================================================================
