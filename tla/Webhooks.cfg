SPECIFICATION DeliverySpec
CONSTANTS
  p1 = p1
  h1 = h1
  h2 = h2
  d1 = d1
  d2 = d2
  Payments = {p1}
  Calls = {h1, h2, d1, d2}
  Handlers = {h1, h2}
  Drivers = {d1, d2}
  MaxDeliveries = 2
  Settings <- MCSettings
  Quote <- MCQuote
  Marker <- MCNoMarker
  LiveConfirm = FALSE
  Outcomes = {TRUE, FALSE}
  UsdcAmounts = {3}
  MaxExternal = 2
  MaxEffects = 2
  MaxEvents = 5
INVARIANTS
  WebhooksTypeOK
  BookedMeansPaid
  BookedOncePerPaidPush
PROPERTIES
  PaidIsBookedOrWasted
CHECK_DEADLOCK FALSE
