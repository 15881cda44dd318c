CONSTANTS
  Subjects = {alice}
  NoSub = NoSub
  Tokens = {t1}
  NoTok = NoTok
  Missing = Missing
  Garbled = Garbled
  Rests = {NoRest}
  NoRest = NoRest
  PostAuthTtl = 2
  PreAuthTtl = 1
  MaxLifetime = 3
  TouchCoalesce = 1
  FutureSkew = 1
  None = None
  Requests = {r1, r2}
  Keys = {k1, k2}
  NoKey = NoKey
  NoRow = NoRow
  Sliding = TRUE
  AppOps = {"clear"}
  Faults = {"abort", "deleteFails", "sweep"}
  LegacyRows <- NoLegacy
  MaxNow = 3
SYMMETRY Symmetry
SPECIFICATION Spec
INVARIANTS
  AnonymousCapped
