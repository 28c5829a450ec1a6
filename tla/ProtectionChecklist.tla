------------------------ MODULE ProtectionChecklist ------------------------
(***************************************************************************)
(* The evidence checklist of a deal, from evidence/protection-checklist.ts.*)
(* Pure definitions.  A rule's key and label only name it: a rule is the   *)
(* role that must upload, the kind of file, the stage whose gate it guards *)
(* and whether only the EXTENDED plan has it.                              *)
(***************************************************************************)

PartyRole == {"SELLER", "BUYER"}
ProtectionPlan == {"BASIC", "EXTENDED"}
DealCategory == {"GOODS", "EQUIPMENT", "REPAIR", "SERVICE", "OTHER"}
ProtectionStage == {"PRE_SHIPMENT", "RECEIPT"}
RequiredKind == {"PHOTO", "PACKAGING", "VIDEO", "SERIAL_NUMBER", "DOCUMENT"}

Item(role, kind, stage, extendedOnly) ==
  [role |-> role, kind |-> kind, stage |-> stage, extendedOnly |-> extendedOnly]

rules == [ category \in DealCategory |->
  CASE category = "GOODS" ->
         { Item("SELLER", "PHOTO",         "PRE_SHIPMENT", FALSE),
           Item("SELLER", "PACKAGING",     "PRE_SHIPMENT", TRUE),
           Item("BUYER",  "PHOTO",         "RECEIPT",      FALSE),
           Item("BUYER",  "VIDEO",         "RECEIPT",      TRUE) }
    [] category = "EQUIPMENT" ->
         { Item("SELLER", "PHOTO",         "PRE_SHIPMENT", FALSE),
           Item("SELLER", "SERIAL_NUMBER", "PRE_SHIPMENT", FALSE),
           Item("SELLER", "PACKAGING",     "PRE_SHIPMENT", TRUE),
           Item("BUYER",  "PHOTO",         "RECEIPT",      FALSE),
           Item("BUYER",  "SERIAL_NUMBER", "RECEIPT",      TRUE) }
    [] category = "REPAIR" ->
         { Item("SELLER", "PHOTO",         "PRE_SHIPMENT", FALSE),
           Item("SELLER", "DOCUMENT",      "PRE_SHIPMENT", TRUE),
           Item("BUYER",  "PHOTO",         "RECEIPT",      FALSE),
           Item("BUYER",  "DOCUMENT",      "RECEIPT",      TRUE) }
    [] category = "SERVICE" ->
         { Item("SELLER", "DOCUMENT",      "PRE_SHIPMENT", FALSE),
           Item("BUYER",  "DOCUMENT",      "RECEIPT",      FALSE),
           Item("SELLER", "PHOTO",         "PRE_SHIPMENT", TRUE) }
    [] category = "OTHER" ->
         { Item("SELLER", "PHOTO",         "PRE_SHIPMENT", FALSE),
           Item("BUYER",  "PHOTO",         "RECEIPT",      FALSE) } ]

(***************************************************************************)
(* toUpperCase on the kinds that matter: the lower-case spelling of a      *)
(* required kind becomes that kind, any other string keeps matching none.  *)
(***************************************************************************)
LowerCaseKind ==
  [ photo |-> "PHOTO", packaging |-> "PACKAGING", video |-> "VIDEO",
    serial_number |-> "SERIAL_NUMBER", document |-> "DOCUMENT" ]
UpperCase(kind) ==
  IF kind \in DOMAIN LowerCaseKind THEN LowerCaseKind[kind] ELSE kind

File(role, kind) == [uploaderRole |-> role, kind |-> kind]

\* Faulty variant: any party's file will do.
SatisfiedByAnyone(item, evidence) ==
  \E file \in evidence : UpperCase(file.kind) = item.kind

Satisfied(item, evidence) ==
  \E file \in evidence :
    file.uploaderRole = item.role /\ UpperCase(file.kind) = item.kind

\* buildProtectionChecklist: the rules of the category that the plan has.
ChecklistItems(category, plan) ==
  { item \in rules[category] : plan = "EXTENDED" \/ ~item.extendedOnly }

\* The field `complete` of the checklist shown to the participants.
ChecklistComplete(category, plan, evidence) ==
  \A item \in ChecklistItems(category, plan) : Satisfied(item, evidence)

\* Faulty variant: only the plan's additional items are demanded.
missingExtendedEvidence(category, plan, evidence, stage) ==
  { item \in ChecklistItems(category, plan) :
      /\ plan = "EXTENDED"
      /\ item.extendedOnly
      /\ item.stage = stage
      /\ ~Satisfied(item, evidence) }

missingRequiredEvidence(category, plan, evidence, stage) ==
  { item \in ChecklistItems(category, plan) :
      /\ plan = "EXTENDED"
      /\ item.stage = stage
      /\ ~Satisfied(item, evidence) }

(***************************************************************************)
(* What the evidence panel of the web application shows a party: his own   *)
(* items, and whether he is through with them.                             *)
(***************************************************************************)
visibleChecklist(role, category, plan) ==
  { item \in ChecklistItems(category, plan) : item.role = role }

visibleChecklistComplete(role, category, plan, evidence) ==
  \A item \in visibleChecklist(role, category, plan) : Satisfied(item, evidence)

-----------------------------------------------------------------------------
(* Properties of the checklist, for a set of files.                        *)

StageOwner(stage) == IF stage = "PRE_SHIPMENT" THEN "SELLER" ELSE "BUYER"
FilesOf(role, evidence) == {file \in evidence : file.uploaderRole = role}

\* Each gate of missingRequiredEvidence is opened by the files of the party
\* that passes it and of no one else: the buyer's uploads neither let the
\* seller ship nor keep him from it, and the reverse at receipt.
GateIsOwnersAlone(evidence) ==
  \A category \in DealCategory, plan \in ProtectionPlan, stage \in ProtectionStage :
    missingRequiredEvidence(category, plan, evidence, stage)
      = missingRequiredEvidence(category, plan, FilesOf(StageOwner(stage), evidence), stage)

\* The panel shows items by role, the gates ask by stage, the `complete' of
\* the API by neither; on the EXTENDED plan they agree: a party is shown to
\* be through exactly when his gate is open, both exactly when `complete'.
PanelTellsGate(evidence) ==
  \A category \in DealCategory :
    LET open(stage) == missingRequiredEvidence(category, "EXTENDED", evidence, stage) = {}
    IN  /\ \A stage \in ProtectionStage :
             visibleChecklistComplete(StageOwner(stage), category, "EXTENDED", evidence) <=> open(stage)
        /\ ChecklistComplete(category, "EXTENDED", evidence)
             <=> \A stage \in ProtectionStage : open(stage)

=============================================================================
