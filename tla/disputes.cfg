SPECIFICATION Spec
CONSTANTS
  Callers = {c1, c2}
  Settlements = {"PARTIAL_REFUND", "FULL_REFUND"}
  DealAmount = 1
  Inputs <- AllInputs
  NoAmount = NoAmount
  MaxMessages = 3
SYMMETRY Symmetry
INVARIANTS
  AgreementIsMutual
  SettlementClosesTheRoom
  ChannelIsAudited
  PanelAgreesWithServer
