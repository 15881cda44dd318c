CONSTANTS
  Subjects = {alice}
  NoSub = NoSub
  Tokens = {a1, a2}
  NoTok = NoTok
  Missing = Missing
  Garbled = Garbled
  Rests <- SlotRests
  NoRest = NoRest
  PostAuthTtl = 3
  PreAuthTtl = 2
  MaxLifetime = 9
  TouchCoalesce = 1
  FutureSkew = 0
  None = None
  Requests = {r1, r2}
  Keys = {k1, k2, k3}
  NoKey = NoKey
  NoRow = NoRow
  Sliding = FALSE
  AppOps = {"rest"}
  Faults = {"abort"}
  LegacyRows <- NoLegacy
  MaxNow = 0
  Browsers = {b1, b2}
  Owner <- TwoBrowsers
  StepUps = {FALSE}
  MaxSlots = 1
  MaxAge = 0
  AuthSkew = 0
  AuthTimes = {0}
  Nothing = Nothing
  r1 = r1
  r2 = r2
  b1 = b1
  b2 = b2
SYMMETRY Symmetry
SPECIFICATION BffSpec
INVARIANTS
  BffTypeOK
  OneLoginPerCode
  LoginInOwnBrowser
CHECK_DEADLOCK FALSE
