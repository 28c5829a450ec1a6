SPECIFICATION Spec
CONSTANTS
  FileKinds = {"PHOTO", "photo", "PACKAGING", "VIDEO", "SERIAL_NUMBER", "DOCUMENT", "OTHER"}
  Amounts = {1000, 25000, 25025, 666666, 666667, 1000001}
  BasicPercent = 2
  ExtendedPercent = 3
  MinFee = 500
  MaxFee = 20000
INVARIANTS
  EveryGateIsOwnersAlone
  PanelTellsTheGate
  FeesAreOrdered
