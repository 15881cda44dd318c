CONSTANTS
  Subjects = {alice}
  NoSub = NoSub
  Tokens = {t1}
  NoTok = NoTok
  Missing = Missing
  Garbled = Garbled
  Rests = {NoRest, slots}
  NoRest = NoRest
  PostAuthTtl = 2
  PreAuthTtl = 1
  MaxLifetime = 3
  TouchCoalesce = 1
  FutureSkew = 1
  None = None
  Requests = {r1, r2}
  Keys = {k1, k2}
  NoKey = NoKey
  NoRow = NoRow
  Sliding = TRUE
  AppOps = {"rest", "dropLoginAt"}
  Faults = {"abort", "deleteFails", "sweep"}
  LegacyRows <- WithLegacy
  MaxNow = 3
SYMMETRY Symmetry
SPECIFICATION Spec
INVARIANTS
  KeyKeepsItsSession
  OneKeyPerLogin
  Safe
  TypeOK
  LifetimeCapped
  AnonymousCapped
  FallbackIsAnonymous
PROPERTIES
  DeadKeysStayDead
  RevocableSpec
