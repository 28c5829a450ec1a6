--------------------- MODULE ProtectionChecklistProofs ---------------------
(***************************************************************************)
(* Proofs about the checklist, for any set of files whatever, and about    *)
(* the fee, for any amount.                                                *)
(***************************************************************************)
EXTENDS MCProtectionChecklist, TLAPS

\* A rule's stage is passed by the party who must upload for it.
LEMMA RuleOwner ==
  ASSUME NEW category \in DealCategory, NEW item \in rules[category]
  PROVE  item.stage \in ProtectionStage /\ item.role = StageOwner(item.stage)
  BY DEF rules, Item, DealCategory, ProtectionStage, StageOwner

\* A file of the owner satisfies a rule among all files as among his own.
LEMMA OwnFilesSuffice ==
  ASSUME NEW item, NEW files
  PROVE  Satisfied(item, files) <=> Satisfied(item, FilesOf(item.role, files))
  BY DEF Satisfied, FilesOf

\* Both gates of missingRequiredEvidence are opened by their owner's files
\* alone, for every set of files.
LEMMA GateOwner == ASSUME NEW files PROVE GateIsOwnersAlone(files)
<1> SUFFICES ASSUME NEW category \in DealCategory, NEW plan \in ProtectionPlan,
                    NEW stage \in ProtectionStage
             PROVE  missingRequiredEvidence(category, plan, files, stage)
                      = missingRequiredEvidence(category, plan, FilesOf(StageOwner(stage), files), stage)
  BY DEF GateIsOwnersAlone
<1>1. ASSUME NEW item \in ChecklistItems(category, plan), item.stage = stage
      PROVE  Satisfied(item, files) <=> Satisfied(item, FilesOf(StageOwner(stage), files))
  <2>1. item.role = StageOwner(stage)
    BY <1>1, RuleOwner DEF ChecklistItems
  <2> QED BY <2>1, OwnFilesSuffice
<1> QED
  BY <1>1 DEF missingRequiredEvidence

\* The gates, the panel and the checklist shown to the parties agree, for
\* every set of files: every rule guards the gate of its role.
LEMMA PanelAgrees == ASSUME NEW files PROVE PanelTellsGate(files)
<1> SUFFICES ASSUME NEW category \in DealCategory
             PROVE  /\ \A stage \in ProtectionStage :
                         visibleChecklistComplete(StageOwner(stage), category, "EXTENDED", files)
                           <=> missingRequiredEvidence(category, "EXTENDED", files, stage) = {}
                    /\ ChecklistComplete(category, "EXTENDED", files)
                         <=> \A stage \in ProtectionStage :
                               missingRequiredEvidence(category, "EXTENDED", files, stage) = {}
  BY DEF PanelTellsGate
<1>1. \A item \in ChecklistItems(category, "EXTENDED") :
        item.stage \in ProtectionStage /\ item.role = StageOwner(item.stage)
  BY RuleOwner DEF ChecklistItems
<1>2. \A stage \in ProtectionStage :
        visibleChecklistComplete(StageOwner(stage), category, "EXTENDED", files)
          <=> missingRequiredEvidence(category, "EXTENDED", files, stage) = {}
  <2> TAKE stage \in ProtectionStage
  <2>1. \A item \in ChecklistItems(category, "EXTENDED") :
          item.role = StageOwner(stage) <=> item.stage = stage
    BY <1>1 DEF ProtectionStage, StageOwner
  <2> QED
    BY <2>1 DEF visibleChecklistComplete, visibleChecklist, missingRequiredEvidence
<1>3. ChecklistComplete(category, "EXTENDED", files)
        <=> \A stage \in ProtectionStage :
              missingRequiredEvidence(category, "EXTENDED", files, stage) = {}
  BY <1>1 DEF missingRequiredEvidence, ChecklistComplete
<1> QED
  BY <1>2, <1>3

\* Math.round is within a half of what it rounds, and does not fall when
\* that rises.
LEMMA Rounding ==
  ASSUME NEW x \in Nat
  PROVE  /\ (x + 50) \div 100 \in Nat
         /\ 100 * ((x + 50) \div 100) - x <= 50
         /\ x - 100 * ((x + 50) \div 100) < 50
         /\ \A y \in Nat : x <= y => (x + 50) \div 100 <= (y + 50) \div 100
<1>1. \A y \in Nat : x <= y => (x + 50) \div 100 <= (y + 50) \div 100
  OBVIOUS
<1>2. /\ (x + 50) \div 100 \in Nat
      /\ 100 * ((x + 50) \div 100) - x <= 50
      /\ x - 100 * ((x + 50) \div 100) < 50
  OBVIOUS
<1> QED
  BY <1>1, <1>2

LEMMA PercentType == ASSUME NEW plan PROVE percent(plan) \in Nat
  BY PercentAssumption DEF percent

LEMMA ShareExact ==
  ASSUME NEW a \in Nat, NEW plan
  PROVE  /\ Share(a, plan) \in Nat
         /\ 100 * Share(a, plan) - a * percent(plan) <= 50
         /\ a * percent(plan) - 100 * Share(a, plan) < 50
<1>1. a * percent(plan) \in Nat
  BY PercentType
<1> QED
  BY <1>1, Rounding DEF Share

LEMMA ShareMonotone ==
  ASSUME NEW a \in Nat, NEW b \in Nat, NEW plan, a <= b
  PROVE  Share(a, plan) <= Share(b, plan)
<1> DEFINE p == percent(plan)
<1>1. p \in Nat
  BY PercentType
<1> HIDE DEF p
<1>2. a * p \in Nat /\ b * p \in Nat /\ a * p <= b * p
  BY <1>1
<1>3. (a * p + 50) \div 100 <= (b * p + 50) \div 100
  BY <1>2, Rounding
<1> QED
  BY <1>3 DEF Share, p

LEMMA ShareOfHigherPercent ==
  ASSUME NEW a \in Nat, BasicPercent <= ExtendedPercent
  PROVE  Share(a, "BASIC") <= Share(a, "EXTENDED")
<1>1. percent("BASIC") = BasicPercent /\ percent("EXTENDED") = ExtendedPercent
  BY DEF percent
<1>2. a * BasicPercent \in Nat /\ a * ExtendedPercent \in Nat
  BY PercentAssumption
<1>3. a * BasicPercent <= a * ExtendedPercent
  BY PercentAssumption
<1>4. (a * BasicPercent + 50) \div 100 <= (a * ExtendedPercent + 50) \div 100
  BY <1>2, <1>3, Rounding
<1> QED
  BY <1>1, <1>4 DEF Share

\* The bounds keep the order of the shares.
LEMMA Clamped ==
  ASSUME NEW s \in Nat, NEW t \in Nat
  PROVE  /\ AtMost(MaxFee, AtLeast(MinFee, s)) \in MinFee..MaxFee
         /\ s <= t => AtMost(MaxFee, AtLeast(MinFee, s)) <= AtMost(MaxFee, AtLeast(MinFee, t))
         /\ AtMost(MaxFee, AtLeast(MinFee, s)) > MinFee => AtMost(MaxFee, AtLeast(MinFee, s)) <= s
         /\ AtMost(MaxFee, AtLeast(MinFee, s)) < MaxFee => AtMost(MaxFee, AtLeast(MinFee, s)) >= s
  BY FeeAssumption DEF AtMost, AtLeast

\* The fees of any two deals are in order.
LEMMA FeeInOrder == ASSUME NEW a \in Nat, NEW b \in Nat PROVE FeeIsOrdered(a, b)
<1>1. ASSUME NEW plan \in ProtectionPlan
      PROVE  /\ calculateFee(a, plan) \in MinFee..MaxFee
             /\ a <= b => calculateFee(a, plan) <= calculateFee(b, plan)
             /\ calculateFee(a, plan) > MinFee =>
                  100 * calculateFee(a, plan) - a * percent(plan) <= 50
             /\ calculateFee(a, plan) < MaxFee =>
                  a * percent(plan) - 100 * calculateFee(a, plan) < 50
  <2>1. /\ Share(a, plan) \in Nat /\ Share(b, plan) \in Nat /\ a * percent(plan) \in Nat
        /\ 100 * Share(a, plan) - a * percent(plan) <= 50
        /\ a * percent(plan) - 100 * Share(a, plan) < 50
    <3>1. percent(plan) \in Nat
      BY PercentType
    <3>2. a * percent(plan) \in Nat
      BY <3>1
    <3> QED
      BY <3>2, ShareExact
  <2>2. a <= b => Share(a, plan) <= Share(b, plan)
    BY ShareMonotone
  <2>3. /\ calculateFee(a, plan) \in MinFee..MaxFee
        /\ a <= b => calculateFee(a, plan) <= calculateFee(b, plan)
        /\ calculateFee(a, plan) > MinFee => calculateFee(a, plan) <= Share(a, plan)
        /\ calculateFee(a, plan) < MaxFee => calculateFee(a, plan) >= Share(a, plan)
    BY <2>1, <2>2, Clamped DEF calculateFee
  <2> DEFINE fee == calculateFee(a, plan)
             share == Share(a, plan)
             exact == a * percent(plan)
  <2>4. fee \in Nat /\ share \in Nat /\ exact \in Nat
    BY <2>1, <2>3, FeeAssumption
  <2> HIDE DEF fee, share, exact
  <2>5. fee > MinFee => 100 * fee - exact <= 50
    BY <2>1, <2>3, <2>4, FeeAssumption DEF fee, share, exact
  <2>6. fee < MaxFee => exact - 100 * fee < 50
    BY <2>1, <2>3, <2>4, FeeAssumption DEF fee, share, exact
  <2> QED
    BY <2>3, <2>5, <2>6 DEF fee, exact
<1>2. BasicPercent <= ExtendedPercent => calculateFee(a, "BASIC") <= calculateFee(a, "EXTENDED")
  <2>1. Share(a, "BASIC") \in Nat /\ Share(a, "EXTENDED") \in Nat
    BY ShareExact
  <2> QED
    BY <2>1, ShareOfHigherPercent, Clamped DEF calculateFee
<1> QED
  BY <1>1, <1>2 DEF FeeIsOrdered

\* The buyer's uploads never open or close the seller's gate, nor the
\* seller's the buyer's, whatever kinds of files there are.
THEOREM GatesAreOwners == Spec => []EveryGateIsOwnersAlone
<1>1. EveryGateIsOwnersAlone
  BY GateOwner DEF EveryGateIsOwnersAlone
<1> QED
  BY <1>1, PTL

\* What the panel shows a party and what the gates ask never disagree,
\* whatever is uploaded.
THEOREM PanelTellsTheGateAlways == Spec => []PanelTellsTheGate
<1>1. PanelTellsTheGate
  BY PanelAgrees DEF PanelTellsTheGate
<1> QED
  BY <1>1, PTL

\* The fee keeps within its bounds, rises with the amount and the plan and is
\* the rounded share between them, for any percentages, bounds and amounts.
THEOREM FeesAreOrderedAlways == Spec => []FeesAreOrdered
<1>1. Init => amount \in Nat
  BY AmountsAssumption DEF Init
<1>2. amount \in Nat /\ [Upload]_<<amount, evidence>> => (amount \in Nat)'
  BY DEF Upload
<1>3. amount \in Nat => FeesAreOrdered
  BY FeeInOrder, AmountsAssumption DEF FeesAreOrdered
<1> QED
  BY <1>1, <1>2, <1>3, PTL DEF Spec

=============================================================================
