SPECIFICATION OrchestratorSpec
CONSTANTS
  p1 = p1
  w1 = w1
  w2 = w2
  r1 = r1
  r2 = r2
  Payments = {p1}
  Calls = {w1, r1}
  Workers = {w1}
  Requests = {r1}
  Settings <- MCOneWorker
  MaxAttempts = 3
  MAX_INLINE_STEPS = 25
  Quote <- MCQuote
  Marker <- MCNoMarker
  LiveConfirm = TRUE
  Outcomes = {TRUE, FALSE}
  UsdcAmounts = {3}
  MaxExternal = 2
  MaxEffects = 5
  MaxEvents = 12
PROPERTIES
  BridgingIsRepolled
CHECK_DEADLOCK FALSE
