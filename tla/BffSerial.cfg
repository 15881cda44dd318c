CONSTANTS
  Subjects = {alice}
  NoSub = NoSub
  Tokens = {a1, a2, a3}
  NoTok = NoTok
  Missing = Missing
  Garbled = Garbled
  Rests <- SlotRests
  NoRest = NoRest
  PostAuthTtl = 3
  PreAuthTtl = 2
  MaxLifetime = 2
  TouchCoalesce = 1
  FutureSkew = 0
  None = None
  Requests = {r1}
  Keys = {k1, k2, k3}
  NoKey = NoKey
  NoRow = NoRow
  Sliding = FALSE
  AppOps = {"rest"}
  Faults = {}
  LegacyRows <- NoLegacy
  MaxNow = 2
  Browsers = {b1}
  Owner <- OneBrowser
  StepUps = {FALSE}
  MaxSlots = 2
  MaxAge = 0
  AuthSkew = 0
  AuthTimes = {0}
  Nothing = Nothing
  r1 = r1
  r2 = r2
  b1 = b1
  b2 = b2
SYMMETRY Symmetry
SPECIFICATION BffSpec
INVARIANTS
  SlotsWellFormed
  SlotsSurvive
PROPERTIES
  StateSingleUse
CHECK_DEADLOCK FALSE
