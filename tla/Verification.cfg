SPECIFICATION SuitesSpec
CONSTANTS
  p1 = p1
  c1 = c1
  c2 = c2
  Payments = {p1}
  Calls = {c1, c2}
  Quote <- MCQuote
  Marker <- MCNoMarker
  LiveConfirm = FALSE
  Outcomes = {TRUE}
  UsdcAmounts = {3}
  ExpectedUsdc = 3
  MaxExternal = 1
  MaxEffects = 4
  MaxEvents = 7
  Subjects = {"payment", "custody", "sums"}
  SendAmounts <- MCSendAmounts
  Settings <- MCSettings
  Bridgers = {"bridge"}
  Probers = {"probe"}
  TestbedAmount = 1
  OthersAmount = 1
  Confirmations = 2
  MaxHeight = 4
  MaxTransfers = 2
  MaxTrouble = 1
SYMMETRY CallSymmetry
INVARIANTS
  SuitesTypeOK
  SoundPaymentPasses
  NeverMisreadsCollectionOrRefund
  PassedRefundIsEmpty
  ConfirmedMeansMoved
  TransferChecksAreSound
  SumsAgree
