CONSTANTS
  Subjects = {alice}
  NoSub = NoSub
  Tokens = {a1}
  NoTok = NoTok
  Missing = Missing
  Garbled = Garbled
  Rests <- SlotRests
  NoRest = NoRest
  PostAuthTtl = 1
  PreAuthTtl = 1
  MaxLifetime = 1
  TouchCoalesce = 1
  FutureSkew = 0
  None = None
  Requests = {r1, r2}
  Keys = {k1, k2, k3}
  NoKey = NoKey
  NoRow = NoRow
  Sliding = TRUE
  AppOps = {"rest"}
  Faults = {}
  LegacyRows <- NoLegacy
  MaxNow = 1
  Browsers = {b1}
  Owner <- OneBrowser
  StepUps = {FALSE}
  MaxSlots = 1
  MaxAge = 0
  AuthSkew = 0
  AuthTimes = {0}
  Nothing = Nothing
  r1 = r1
  r2 = r2
  b1 = b1
  b2 = b2
SYMMETRY Symmetry
SPECIFICATION BffSpec
INVARIANTS
  RevokedTokensGo
  OneLoginPerCode
  ExtractorAgrees
PROPERTIES
  StoreSpec
CHECK_DEADLOCK FALSE
