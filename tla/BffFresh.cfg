CONSTANTS
  Subjects = {alice}
  NoSub = NoSub
  Tokens = {a1, a2}
  NoTok = NoTok
  Missing = Missing
  Garbled = Garbled
  Rests <- SlotRests
  NoRest = NoRest
  PostAuthTtl = 3
  PreAuthTtl = 2
  MaxLifetime = 9
  TouchCoalesce = 1
  FutureSkew = 0
  None = None
  Requests = {r1}
  Keys = {k1, k2}
  NoKey = NoKey
  NoRow = NoRow
  Sliding = FALSE
  AppOps = {"rest"}
  Faults = {}
  LegacyRows <- NoLegacy
  MaxNow = 3
  Browsers = {b1}
  Owner <- OneBrowser
  StepUps = {FALSE, TRUE}
  MaxSlots = 2
  MaxAge = 0
  AuthSkew = 1
  AuthTimes = {None, 0, 2}
  Nothing = Nothing
  r1 = r1
  r2 = r2
  b1 = b1
  b2 = b2
SYMMETRY Symmetry
SPECIFICATION BffSpec
INVARIANTS
  StepUpFresh
PROPERTIES
  AttemptsExpire
CHECK_DEADLOCK FALSE
