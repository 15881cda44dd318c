------------------------------ MODULE BffConfig ------------------------------
(***************************************************************************)
(* The configuration: a builder whose setters keep raw values, and build,  *)
(* which validates all of them in a fixed order and derives the rest.      *)
(*                                                                         *)
(* The builder is a record of options.  Names, claims and scopes are Texts *)
(* (module ParamNames), the return_to prefix is a sequence of tokens       *)
(* (RedirectTarget), URLs are those of Csrf.                               *)
(***************************************************************************)
EXTENDS AuthRequest, Csrf

CONSTANTS
  DEFAULT_PRE_AUTH_TTL_SECS,
  DEFAULT_POST_AUTH_TTL_SECS,
  DEFAULT_MAX_SESSION_LIFETIME_SECS,
  MAX_TTL_SECS,
  DEFAULT_TOUCH_COALESCE_SECS,
  MIN_KEY_BYTES              \* 64 bytes make a cookie key

ASSUME DefaultsAssumption ==
  /\ MAX_TTL_SECS \in Nat
  /\ DEFAULT_PRE_AUTH_TTL_SECS \in 1 .. MAX_TTL_SECS
  /\ DEFAULT_POST_AUTH_TTL_SECS \in 1 .. DEFAULT_MAX_SESSION_LIFETIME_SECS
  /\ DEFAULT_MAX_SESSION_LIFETIME_SECS \in 1 .. MAX_TTL_SECS
  /\ DEFAULT_TOUCH_COALESCE_SECS \in 0 .. MAX_TTL_SECS

\* What TLC knows of literals, and the provers do not.
ASSUME LiteralsAssumption ==
  {"openid", "profile", "email", "__Host-oidc_bff_session", "oidc_bff_session",
   "https", "idp", "app", "client", "secret", "drawn", NoError, "InvalidSessionKey"} \subseteq STRING
ASSUME EmptyLiteralAssumption == "" \in STRING

MAX_PASSTHROUGH_PARAMS == 8
JWKS_TTL_SECS == 900

RequiredFields == {"issuer_url", "client_id", "client_secret", "redirect_url"}
OptionalFields ==
  {"scopes", "persist_claims", "callback_passthrough_params", "return_to_prefix",
   "post_logout_redirect_url", "pre_auth_ttl", "post_auth_ttl",
   "max_session_lifetime", "session_expiry"}

\* builder(): nothing is set.
NewBuilder ==
  [f \in RequiredFields \cup {"session_key_source"} \cup OptionalFields |-> None]

\* A setter stores the raw value and replaces what an earlier call stored.
SetRequired(b, field, raw) == [b EXCEPT ![field] = Some(raw)]
SetOption(b, field, raw) == [b EXCEPT ![field] = Some(raw)]

\* The three key setters replace each other; the verdict on a base64 text is
\* reached in its setter and reported by build.
KeySource(kind, key, error) == [kind |-> kind, key |-> key, error |-> error]
SessionKey(b, key) == SetRequired(b, "session_key_source", KeySource("explicit", key, NoError))
SessionKeyBase64(b, text) ==
  SetRequired(b, "session_key_source",
    KeySource("base64", text.key,
              Check(~text.valid \/ text.bytes < MIN_KEY_BYTES, "InvalidSessionKey")))
GenerateEphemeralSessionKey(b) ==
  SetRequired(b, "session_key_source", KeySource("ephemeral", "", NoError))

\* The minimal builder the test suites start from.
TestConfigBuilder ==
  GenerateEphemeralSessionKey(
    [NewBuilder EXCEPT
      !["issuer_url"] = Some(Url("https", "idp", 443)),
      !["client_id"] = Some(Text("client")),
      !["client_secret"] = Some(Text("secret")),
      !["redirect_url"] = Some(Url("https", "app", 443))])

\* Mutant: white space will do.
IsBlank_OnlyUnset(option) == option = None

\* The setters nobody called, or called with white space only, are reported together.
IsBlank(option) == option = None \/ option[1].len = 0

MissingFields(b) ==
  {f \in RequiredFields : IsBlank(b[f])}
    \cup {f \in {"session_key_source"} : b[f] = None}

\* The checks the two URLs have in common, after trimming.
UrlError(url, error) ==
  Check(~url.parses \/ url.scheme \notin {"http", "https"} \/ tuple_origin(url) = None, error)

CleanTexts(texts) ==
  LET trimmed == [i \in DOMAIN texts |-> Trim(texts[i])]
  IN  Retain(trimmed, ToSet(trimmed) \ {EmptyText})

\* normalize_scopes
NormalizeScopes(scopes) ==
  LET default == <<Text("openid"), Text("profile"), Text("email")>>
      names   == CleanTexts(OrElse(scopes, <<>>))
  IN  IF names = <<>>
      THEN default
      ELSE IF Text("openid") \in ToSet(names) THEN names ELSE <<Text("openid")>> \o names

\* RESERVED_SESSION_KEYS and VALIDATION_ARTIFACT_CLAIMS
RESERVED_SESSION_KEYS ==
  {"sub", "iss", "email", "name", "access_token", "refresh_token", "id_token",
   "__bff_claim_keys", "__bff_login_at", "oidc_pre_auth"}
VALIDATION_ARTIFACT_CLAIMS == {"aud", "exp", "iat", "nbf", "nonce", "at_hash", "c_hash"}

PersistClaims(option) == CleanTexts(OrElse(option, <<>>))
ClaimsError(option) ==
  Check(\E c \in ToSet(PersistClaims(option)) :
          c.word \in RESERVED_SESSION_KEYS \cup VALIDATION_ARTIFACT_CLAIMS,
        "ReservedClaimName")

\* normalize_passthrough_params: names that differ only in letter case are two names.
PassthroughParams(option) == CleanTexts(OrElse(option, <<>>))
PassthroughError(option) ==
  LET names == PassthroughParams(option)
  IN  Check(\/ Len(names) > MAX_PASSTHROUGH_PARAMS
            \/ \E i \in DOMAIN names :
                 \/ validate_param_name(names[i], DENIED_PASSTHROUGH_PARAMS) # NoError
                 \/ \E j \in 1 .. i - 1 : names[j] = names[i],
            "InvalidPassthroughParam")

\* post_logout_redirect_url: https when the application is.
PostLogoutError(option, secure) ==
  IF option = None
  THEN NoError
  ELSE FirstError(<<
         UrlError(option[1], "InvalidPostLogoutRedirectUrl"),
         Check(secure /\ option[1].scheme # "https", "InvalidPostLogoutRedirectUrl")>>)

\* Mutant: a fraction of a second is cut off after the check for zero.
TtlError_Truncates(duration) ==
  Check(\/ duration = Duration(0)
        \/ duration.secs > MAX_TTL_SECS,
        "InvalidTtl")

\* duration_to_ttl_secs: whole seconds, at least one, at most MAX_TTL_SECS.
TtlError(duration) ==
  Check(\/ duration.secs = 0
        \/ duration.frac
        \/ duration.secs > MAX_TTL_SECS,
        "InvalidTtl")

PreAuthTtlOf(b) == OrElse(b["pre_auth_ttl"], Duration(DEFAULT_PRE_AUTH_TTL_SECS))
PostAuthTtlOf(b) == OrElse(b["post_auth_ttl"], Duration(DEFAULT_POST_AUTH_TTL_SECS))
MaxLifetimeOf(b) == OrElse(b["max_session_lifetime"], Duration(DEFAULT_MAX_SESSION_LIFETIME_SECS))
ReturnToPrefix(b) == OrElse(b["return_to_prefix"], <<"/">>)

\* What build says of a builder that misses nothing: the checks in their order.
ValueError(b) ==
  LET redirect == b["redirect_url"][1]
      secure   == redirect.scheme = "https"
  IN  FirstError(<<
        UrlError(redirect, "InvalidRedirectUrl"),
        b["session_key_source"][1].error,
        Check(~ValidateReturnTo(ReturnToPrefix(b), ReturnToPrefix(b)), "InvalidReturnToPrefix"),
        ClaimsError(b["persist_claims"]),
        PassthroughError(b["callback_passthrough_params"]),
        PostLogoutError(b["post_logout_redirect_url"], secure),
        TtlError(PreAuthTtlOf(b)), TtlError(PostAuthTtlOf(b)), TtlError(MaxLifetimeOf(b)),
        Check(PostAuthTtlOf(b).secs > MaxLifetimeOf(b).secs, "InvalidTtl")>>)

BuildError(b) == IF MissingFields(b) # {} THEN "MissingFields" ELSE ValueError(b)

\* What its fields hold: a builder's raw values, and the configuration, as documented.
Texts == [word : STRING, lower : STRING, pad : BOOLEAN, len : Nat, plain : BOOLEAN]
Urls == [scheme : STRING, host : STRING, port : Nat, parses : BOOLEAN, pad : BOOLEAN, len : Nat]
TrimmedTexts == {t \in Texts : ~t.pad}
OidcBffConfig ==
  [issuer_url : Urls, client_id : Texts, client_secret : Texts, redirect_url : Urls,
   session_key : STRING, cookie_secure : BOOLEAN, cookie_name : STRING,
   allowed_origin : {"http", "https"} \X STRING \X Nat,
   scopes : Seq(TrimmedTexts), jwks_ttl_secs : {JWKS_TTL_SECS},
   pre_auth_ttl_secs : 1 .. MAX_TTL_SECS, post_auth_ttl_secs : 1 .. MAX_TTL_SECS,
   max_session_lifetime_secs : 1 .. MAX_TTL_SECS,
   session_expiry : {"Fixed", "Sliding"}, return_to_prefix : Seq(Tokens),
   persist_claims : Seq(TrimmedTexts), post_logout_redirect_url : Seq(Urls),
   callback_passthrough_params : Seq(TrimmedTexts)]

Durations == [secs : Nat, frac : BOOLEAN]
KeySources == [kind : {"explicit", "base64", "ephemeral"}, key : STRING, error : STRING]
IsOption(o, S) == o \in Seq(S) /\ Len(o) <= 1
IsBuilder(b) ==
  /\ \A f \in {"issuer_url", "redirect_url", "post_logout_redirect_url"} : IsOption(b[f], Urls)
  /\ \A f \in {"client_id", "client_secret"} : IsOption(b[f], Texts)
  /\ \A f \in {"scopes", "persist_claims", "callback_passthrough_params"} : IsOption(b[f], Seq(Texts))
  /\ \A f \in {"pre_auth_ttl", "post_auth_ttl", "max_session_lifetime"} : IsOption(b[f], Durations)
  /\ IsOption(b["session_key_source"], KeySources)
  /\ IsOption(b["return_to_prefix"], Seq(Tokens))
  /\ IsOption(b["session_expiry"], {"Fixed", "Sliding"})

\* The configuration build returns when there is no error; fresh is the key it
\* draws for a builder that asked for an ephemeral one.
Built(b, fresh) ==
  LET redirect == Trim(b["redirect_url"][1])
      key      == b["session_key_source"][1]
      secure   == redirect.scheme = "https"
  IN  [issuer_url    |-> b["issuer_url"][1],
       client_id     |-> b["client_id"][1],
       client_secret |-> b["client_secret"][1],
       redirect_url  |-> redirect,
       session_key   |-> IF key.kind = "ephemeral" THEN fresh ELSE key.key,
       cookie_secure |-> secure,
       cookie_name   |-> IF secure THEN "__Host-oidc_bff_session" ELSE "oidc_bff_session",
       allowed_origin |-> Origin(redirect),
       scopes        |-> NormalizeScopes(b["scopes"]),
       jwks_ttl_secs |-> JWKS_TTL_SECS,
       pre_auth_ttl_secs  |-> PreAuthTtlOf(b).secs,
       post_auth_ttl_secs |-> PostAuthTtlOf(b).secs,
       max_session_lifetime_secs |-> MaxLifetimeOf(b).secs,
       session_expiry     |-> OrElse(b["session_expiry"], "Fixed"),
       return_to_prefix   |-> ReturnToPrefix(b),
       persist_claims     |-> PersistClaims(b["persist_claims"]),
       post_logout_redirect_url |->
         [i \in DOMAIN b["post_logout_redirect_url"] |-> Trim(b["post_logout_redirect_url"][i])],
       callback_passthrough_params |-> PassthroughParams(b["callback_passthrough_params"])]

\* SessionExpiry::from_str, in any letter case and with white space around it.
ParseExpiry(text) ==
  CASE text.lower = "fixed" -> Some("Fixed")
    [] text.lower = "sliding" -> Some("Sliding")
    [] OTHER -> None

(***************************************************************************)
(* The store's own settings: from_config takes the configuration's, new    *)
(* keeps the crate's defaults, with_* replaces one of them.                *)
(***************************************************************************)
StoreFromConfig(c) ==
  [pre_auth_ttl_secs   |-> c.pre_auth_ttl_secs,
   max_lifetime_secs   |-> c.max_session_lifetime_secs,
   touch_coalesce_secs |-> DEFAULT_TOUCH_COALESCE_SECS]

NewStore ==
  [pre_auth_ttl_secs   |-> DEFAULT_PRE_AUTH_TTL_SECS,
   max_lifetime_secs   |-> DEFAULT_MAX_SESSION_LIFETIME_SECS,
   touch_coalesce_secs |-> DEFAULT_TOUCH_COALESCE_SECS]

\* clamp_positive_ttl: the default for what is not positive, the maximum for
\* what is above it.
ClampPositiveTtl(secs, default) ==
  IF secs <= 0 THEN default ELSE IF secs > MAX_TTL_SECS THEN MAX_TTL_SECS ELSE secs

\* clamp_touch_coalesce_secs: zero is a window like any other.
ClampTouchCoalesce(secs) ==
  IF secs < 0 THEN 0 ELSE IF secs > MAX_TTL_SECS THEN MAX_TTL_SECS ELSE secs

WithPreAuthTtl(store, secs) ==
  [store EXCEPT !.pre_auth_ttl_secs = ClampPositiveTtl(secs, DEFAULT_PRE_AUTH_TTL_SECS)]
WithMaxLifetime(store, secs) ==
  [store EXCEPT !.max_lifetime_secs =
                  ClampPositiveTtl(secs, DEFAULT_MAX_SESSION_LIFETIME_SECS)]
WithTouchCoalesce(store, secs) ==
  [store EXCEPT !.touch_coalesce_secs = ClampTouchCoalesce(secs)]
=============================================================================
