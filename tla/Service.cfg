CONSTANTS
  Tokens <- SmallTokens
  Encode <- SmallEncode
  Decode <- SmallDecode
  Width <- SmallWidth
  Controls <- SmallControls
  Replacement = "U+FFFD"
  Unprintable <- SmallUnprintable
  MAX_RETURN_TO_LEN = 8
  MAX_PASSTHROUGH_VALUE_LEN = 4
  MAX_PASSTHROUGH_TOTAL_LEN = 9
  MAX_COMPOSED_REDIRECT_LEN = 18
  MAX_EXTRA_AUTH_VALUE_LEN = 4
  MAX_AUTH_AGE_SECS = 8
  DEFAULT_PRE_AUTH_TTL_SECS = 2
  DEFAULT_POST_AUTH_TTL_SECS = 4
  DEFAULT_MAX_SESSION_LIFETIME_SECS = 6
  MAX_TTL_SECS = 8
  DEFAULT_TOUCH_COALESCE_SECS = 1
  MIN_KEY_BYTES = 64
  SetterCalls <- AllCalls
  MaxCalls = 2
  Providers <- SmallProviders
  Variants <- SmallVariants
  ReturnTos <- SmallReturnTos
  Queries <- SmallQueries
  Pages <- SmallPages
  SiteOf <- SmallSites
  Agents = {"fetch", "origin", "referer", "bare"}
SPECIFICATION Spec
INVARIANTS
  TypeOK
  StoreWiringsAgree
  AuthRequestUnambiguous
  MaxAgeAgrees
  GuardNeverTrips
  LocationKeepsReturnTo
  NoParamStarved
PROPERTIES
  LogoutIsOwn
CHECK_DEADLOCK FALSE
