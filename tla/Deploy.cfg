CONSTANTS
  Tokens <- SmallTokens
  Encode <- SmallEncode
  Decode <- SmallDecode
  Width <- SmallWidth
  Controls <- SmallControls
  Replacement = "U+FFFD"
  Unprintable <- SmallUnprintable
  MAX_RETURN_TO_LEN = 8
  MAX_PASSTHROUGH_VALUE_LEN = 4
  MAX_PASSTHROUGH_TOTAL_LEN = 9
  MAX_COMPOSED_REDIRECT_LEN = 18
  MAX_EXTRA_AUTH_VALUE_LEN = 4
  MAX_AUTH_AGE_SECS = 8
  DEFAULT_PRE_AUTH_TTL_SECS = 2
  DEFAULT_POST_AUTH_TTL_SECS = 3
  DEFAULT_MAX_SESSION_LIFETIME_SECS = 5
  MAX_TTL_SECS = 8
  DEFAULT_TOUCH_COALESCE_SECS = 2
  MIN_KEY_BYTES = 64
  Releases <- SmallReleases
  Grants <- SmallGrants
  FreshKeys <- SmallFreshKeys
  MaxNow = 6
  MaxLogins = 2
  Missing = Missing
  Garbled = Garbled
  Dead = Dead
SPECIFICATION Spec
INVARIANTS
  TypeOK
  IdentityOfThisLogin
  SessionsWithinLifetime
  ActiveUserStays
CHECK_DEADLOCK FALSE
