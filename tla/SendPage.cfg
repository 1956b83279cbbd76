SPECIFICATION BrowserSpec
CONSTANTS
  i1 = i1
  i2 = i2
  i3 = i3
  s1 = s1
  s2 = s2
  s3 = s3
  ops = ops
  tracker = tracker
  mirror = mirror
  Nobody = Nobody
  MaxPayments = 1
  Importers = {i1, i2, i3}
  Suppliers = {s2, s3}
  Seeded = {i1}
  Listings = {{i1, i2, s2}, {i1, i3, s2}}
  ProfilePages = {"profile"}
  ReviewPages = {"review"}
  SendPages = {"send"}
  Traits <- MCTraits
  Owner <- MCOwner
  Scenes <- MCScenes
  OpsTabs = {ops}
  ImporterTabs = {tracker}
  ExporterTabs = {mirror}
  MaxLost = 1
  FormImporters = {i1, i2}
  FormSuppliers = {s1, s2}
  NoId = NoId
  SeedRows <- MCSeedRows
  Amounts = {0, 1, 2}
  MaxMade = 2
  MaxDropped = 1
INVARIANTS
  SendPageTypeOK
  VerifiedIsEarned
  DecisionStands
  OwnPaymentsAreScreened
  BrowserTypeOK
  StoppedPagesAreFinal
  PagesTellTheTruth
  RestingFormFits
  ClickPaysOnce
PROPERTIES
  ProgressIsKept
  PagesReachTheEnd
