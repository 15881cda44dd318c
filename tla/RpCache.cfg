SPECIFICATION FairSpec
CONSTANTS
  c1 = c1
  c2 = c2
  c3 = c3
  Nobody = Nobody
  Callers <- TwoCallers
  JwksTtl = 3
  ForcedInterval = 3
  FetchLimit = 1
  MaxGeneration = 1
INVARIANTS RpTypeOK AtMostTwoFetches CacheAgeBounded
PROPERTY KeysArrive
