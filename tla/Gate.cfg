SPECIFICATION Spec
CONSTANTS
  i1 = i1
  i2 = i2
  s1 = s1
  q1 = q1
  q2 = q2
  r1 = r1
  r2 = r2
  Importers = {i1, i2}
  Suppliers = {s1}
  Quotes = {q1}
  Requests = {r1, r2}
  MaxRecords = 2
SYMMETRY GateSymmetry
INVARIANTS
  GateTypeOK
  OnePaymentPerQuote
  ConsumedMeansPaid
  PaymentsPassedTheGate
  StatusIsLatestVerdict
