SPECIFICATION Spec
CONSTANTS
  p1 = p1
  p2 = p2
  c1 = c1
  c2 = c2
  Payments = {p1}
  Calls = {c1, c2}
  Quote <- MCQuote
  Marker <- MCNoMarker
  LiveConfirm = TRUE
  Outcomes = {TRUE, FALSE}
  UsdcAmounts = {3, 5}
  MaxExternal = 2
  MaxEffects = 5
  MaxEvents = 7
INVARIANTS
  RefundedNetsToZero
