SPECIFICATION OrchestratorSpec
CONSTANTS
  p1 = p1
  w1 = w1
  w2 = w2
  r1 = r1
  r2 = r2
  Payments = {p1}
  Calls = {w1, w2, r1, r2}
  Workers = {w1, w2}
  Requests = {r1, r2}
  Settings <- MCSettings
  MaxAttempts = 3
  MAX_INLINE_STEPS = 25
  Quote <- MCQuote
  Marker <- MCNoMarker
  LiveConfirm = FALSE
  Outcomes = {TRUE, FALSE}
  UsdcAmounts = {3}
  MaxExternal = 2
  MaxEffects = 4
  MaxEvents = 20
INVARIANTS
  OrchestratorTypeOK
  QuietPaymentIsSerial
  NothingStranded
PROPERTIES
  FundedComesToAnEnd
CHECK_DEADLOCK FALSE
