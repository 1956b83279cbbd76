SPECIFICATION ReconciliationSpec
CONSTANTS
  p1 = p1
  p2 = p2
  c1 = c1
  Payments = {p1, p2}
  Calls = {c1}
  Quote <- MCQuote
  Marker <- MCMarker
  LiveConfirm = TRUE
  Outcomes = {TRUE, FALSE}
  UsdcAmounts = {3, 5}
  MaxExternal = 2
  MaxEffects = 5
  MaxEvents = 10
INVARIANTS
  ReportIsClean
PROPERTIES
  ImplementsCorridor
