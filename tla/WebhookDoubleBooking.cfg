SPECIFICATION WebhooksSpec
CONSTANTS
  p1 = p1
  h1 = h1
  h2 = h2
  d1 = d1
  d2 = d2
  Payments = {p1}
  Calls = {h1, h2, d1}
  Handlers = {h1, h2}
  Drivers = {d1}
  MaxDeliveries = 2
  Quote <- MCQuote
  Marker <- MCNoMarker
  LiveConfirm = FALSE
  Outcomes = {TRUE, FALSE}
  UsdcAmounts = {3}
  MaxExternal = 1
  MaxEffects = 1
  MaxEvents = 2
SYMMETRY SlotSymmetry
INVARIANTS
  CallbacksAreDeduped
CHECK_DEADLOCK FALSE
