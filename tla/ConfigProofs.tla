----------------------------- MODULE ConfigProofs -----------------------------
(***************************************************************************)
(* What build promises, for every builder: a configuration it returns is   *)
(* as documented, field by field.  And what append_passthrough composes,   *)
(* for every target, query and allowlist: a target the last guard accepts. *)
(***************************************************************************)
EXTENDS BffConfig, SelectionProofs

-----------------------------------------------------------------------------
(* Chains of checks. *)

\* Nothing is reported exactly when every check passes.
LEMMA FirstErrorNone ==
  ASSUME NEW n \in Nat, NEW checks, DOMAIN checks = 1..n
  PROVE  FirstError(checks) = NoError <=> \A i \in 1..n : checks[i] = NoError
<1> DEFINE failed == {i \in 1..n : checks[i] # NoError}
<1>1. FirstError(checks) =
        IF failed = {} THEN NoError
        ELSE checks[CHOOSE i \in failed : \A j \in failed : i <= j]
  BY DEF FirstError
<1>2. CASE failed = {}
  BY <1>1, <1>2
<1>3. CASE failed # {}
  <2>0. failed \in SUBSET Nat
    OBVIOUS
  <2> HIDE DEF failed
  <2>1. \E i \in failed : \A j \in failed : i <= j
    BY <1>3, <2>0, LeastElement
  <2>2. (CHOOSE i \in failed : \A j \in failed : i <= j) \in failed
    BY <2>1
  <2>3. QED
    BY <1>1, <1>3, <2>2 DEF failed
<1>4. QED
  BY <1>2, <1>3

LEMMA CheckPasses ==
  ASSUME NEW fails \in BOOLEAN, NEW error, error # NoError
  PROVE  Check(fails, error) = NoError <=> ~fails
BY DEF Check

LEMMA UrlAccepted ==
  ASSUME NEW url \in Urls, NEW error, error # NoError, UrlError(url, error) = NoError
  PROVE  url.parses /\ url.scheme \in {"http", "https"}
BY DEF UrlError, Check, Urls

LEMMA TtlAccepted ==
  ASSUME NEW d \in Durations, TtlError(d) = NoError
  PROVE  d.secs \in 1 .. MAX_TTL_SECS /\ ~d.frac
BY DefaultsAssumption DEF TtlError, Check, Durations, NoError

\* What the checks of build say together when none reports an error.
LEMMA ValuesAccepted ==
  ASSUME NEW b, ValueError(b) = NoError
  PROVE  /\ UrlError(b["redirect_url"][1], "InvalidRedirectUrl") = NoError
         /\ b["session_key_source"][1].error = NoError
         /\ ValidateReturnTo(ReturnToPrefix(b), ReturnToPrefix(b))
         /\ ClaimsError(b["persist_claims"]) = NoError
         /\ PassthroughError(b["callback_passthrough_params"]) = NoError
         /\ PostLogoutError(b["post_logout_redirect_url"], b["redirect_url"][1].scheme = "https") = NoError
         /\ TtlError(PreAuthTtlOf(b)) = NoError
         /\ TtlError(PostAuthTtlOf(b)) = NoError
         /\ TtlError(MaxLifetimeOf(b)) = NoError
         /\ ~(PostAuthTtlOf(b).secs > MaxLifetimeOf(b).secs)
<1> DEFINE redirect == b["redirect_url"][1]
           e1 == UrlError(redirect, "InvalidRedirectUrl")
           e2 == b["session_key_source"][1].error
           e3 == Check(~ValidateReturnTo(ReturnToPrefix(b), ReturnToPrefix(b)), "InvalidReturnToPrefix")
           e4 == ClaimsError(b["persist_claims"])
           e5 == PassthroughError(b["callback_passthrough_params"])
           e6 == PostLogoutError(b["post_logout_redirect_url"], redirect.scheme = "https")
           e7 == TtlError(PreAuthTtlOf(b))
           e8 == TtlError(PostAuthTtlOf(b))
           e9 == TtlError(MaxLifetimeOf(b))
           e10 == Check(PostAuthTtlOf(b).secs > MaxLifetimeOf(b).secs, "InvalidTtl")
<1>1. ValueError(b) = FirstError(<<e1, e2, e3, e4, e5, e6, e7, e8, e9, e10>>)
  BY DEF ValueError
<1>2. /\ e3 = NoError => ValidateReturnTo(ReturnToPrefix(b), ReturnToPrefix(b))
      /\ e10 = NoError => ~(PostAuthTtlOf(b).secs > MaxLifetimeOf(b).secs)
  BY DEF Check, NoError
<1> HIDE DEF e1, e2, e3, e4, e5, e6, e7, e8, e9, e10
<1> DEFINE checks == <<e1, e2, e3, e4, e5, e6, e7, e8, e9, e10>>
<1>3. DOMAIN checks = 1..10
  OBVIOUS
<1>4. FirstError(checks) = NoError
  BY <1>1
<1>5. \A i \in 1..10 : checks[i] = NoError
  <2> HIDE DEF checks
  <2>1. QED
    BY <1>3, <1>4, FirstErrorNone
<1>6. /\ e1 = NoError /\ e2 = NoError /\ e3 = NoError /\ e4 = NoError /\ e5 = NoError
      /\ e6 = NoError /\ e7 = NoError /\ e8 = NoError /\ e9 = NoError /\ e10 = NoError
  BY <1>5
<1>7. QED
  BY <1>2, <1>6 DEF e1, e2, e4, e5, e6, e7, e8, e9

-----------------------------------------------------------------------------
(* The fields of a configuration. *)

LEMMA TextFacts ==
  /\ \A t \in Texts : Trim(t) \in TrimmedTexts
  /\ \A w \in STRING : Text(w) \in TrimmedTexts /\ Text(w).word = w
  /\ \A url \in Urls : /\ Trim(url) \in Urls /\ Trim(url).scheme = url.scheme
                       /\ Trim(url).host = url.host /\ Trim(url).port = url.port
BY DEF Texts, TrimmedTexts, Trim, Text, Spelled, Urls

LEMMA OptionFacts ==
  ASSUME NEW S, NEW o, IsOption(o, S)
  PROVE  /\ o # None => o[1] \in S /\ Len(o) = 1 /\ DOMAIN o = 1..1
         /\ \A default \in S : OrElse(o, default) \in S
<1>1. o \in Seq(S) /\ Len(o) \in Nat /\ Len(o) <= 1
  BY LenProperties DEF IsOption
<1>2. o # None => Len(o) # 0
  BY <1>1, EmptySeq, LenProperties DEF None
<1>3. o # None => 1 \in 1..Len(o)
  BY <1>1, <1>2
<1>4. o # None => o[1] \in S /\ Len(o) = 1 /\ DOMAIN o = 1..1
  <2> SUFFICES ASSUME o # None PROVE o[1] \in S /\ Len(o) = 1 /\ DOMAIN o = 1..1
    OBVIOUS
  <2>1. o[1] \in S
    BY <1>1, <1>3, ElementOfSeq
  <2>2. Len(o) = 1
    <3>1. PICK n \in Nat : n = Len(o)
      BY <1>1
    <3>2. n <= 1 /\ n # 0
      BY <1>1, <1>2, <3>1
    <3>3. n = 1
      BY <3>2
    <3>4. QED
      BY <3>1, <3>3
  <2>3. DOMAIN o = 1..Len(o)
    BY <1>1, LenProperties
  <2>4. QED
    BY <2>1, <2>2, <2>3
<1>5. QED
  BY <1>4 DEF OrElse

\* Trimming, then dropping what is empty, leaves trimmed texts that were asked for.
LEMMA CleanTextsTyped ==
  ASSUME NEW texts \in Seq(Texts)
  PROVE  CleanTexts(texts) \in Seq(TrimmedTexts)
<1> DEFINE trimmed == [i \in DOMAIN texts |-> Trim(texts[i])]
           kept == ToSet(trimmed) \ {EmptyText}
<1>1. trimmed \in Seq(TrimmedTexts)
  <2>1. DOMAIN texts = 1..Len(texts) /\ Len(texts) \in Nat
    BY LenProperties
  <2>2. \A i \in 1..Len(texts) : Trim(texts[i]) \in TrimmedTexts
    BY ElementOfSeq, TextFacts
  <2>3. QED
    BY <2>1, <2>2, IsASeq
<1>2. CleanTexts(texts) = Retain(trimmed, kept)
  BY DEF CleanTexts
<1> HIDE DEF trimmed, kept
<1>3. QED
  BY <1>1, <1>2, RetainTyped

LEMMA NormalizedTyped ==
  ASSUME NEW option, IsOption(option, Seq(Texts))
  PROVE  /\ NormalizeScopes(option) \in Seq(TrimmedTexts)
         /\ PersistClaims(option) \in Seq(TrimmedTexts)
         /\ PassthroughParams(option) \in Seq(TrimmedTexts)
<1> DEFINE names == CleanTexts(OrElse(option, <<>>))
           default == <<Text("openid"), Text("profile"), Text("email")>>
<1>1. OrElse(option, <<>>) \in Seq(Texts)
  <2>1. <<>> \in Seq(Texts)
    BY EmptySeq
  <2>2. QED
    BY <2>1, OptionFacts
<1>2. names \in Seq(TrimmedTexts)
  BY <1>1, CleanTextsTyped
<1>3. /\ Text("openid") \in TrimmedTexts /\ Text("profile") \in TrimmedTexts
      /\ Text("email") \in TrimmedTexts
  <2>1. "openid" \in STRING /\ "profile" \in STRING /\ "email" \in STRING
    BY LiteralsAssumption
  <2>2. QED
    BY <2>1, TextFacts, Zenon
<1>4. NormalizeScopes(option) \in {default, names, <<Text("openid")>> \o names}
  BY DEF NormalizeScopes
<1> HIDE DEF names
<1>5. default \in Seq(TrimmedTexts) /\ <<Text("openid")>> \in Seq(TrimmedTexts)
  BY <1>3
<1> HIDE DEF default
<1>6. <<Text("openid")>> \o names \in Seq(TrimmedTexts)
  BY <1>2, <1>5, ConcatProperties
<1>7. QED
  BY <1>2, <1>4, <1>5, <1>6 DEF PersistClaims, PassthroughParams, names

LEMMA PostLogoutTyped ==
  ASSUME NEW option, IsOption(option, Urls)
  PROVE  [i \in DOMAIN option |-> Trim(option[i])] \in Seq(Urls)
<1>1. option \in Seq(Urls)
  BY DEF IsOption
<1>2. DOMAIN option = 1..Len(option) /\ Len(option) \in Nat
  BY <1>1, LenProperties
<1>3. \A i \in 1..Len(option) : Trim(option[i]) \in Urls
  BY <1>1, ElementOfSeq, TextFacts
<1>4. QED
  BY <1>2, <1>3, IsASeq

LEMMA TtlsTyped ==
  ASSUME NEW b, IsBuilder(b)
  PROVE  /\ PreAuthTtlOf(b) \in Durations
         /\ PostAuthTtlOf(b) \in Durations
         /\ MaxLifetimeOf(b) \in Durations
<1>1. /\ Duration(DEFAULT_PRE_AUTH_TTL_SECS) \in Durations
      /\ Duration(DEFAULT_POST_AUTH_TTL_SECS) \in Durations
      /\ Duration(DEFAULT_MAX_SESSION_LIFETIME_SECS) \in Durations
  BY DefaultsAssumption DEF Duration, Durations
<1>2. /\ IsOption(b["pre_auth_ttl"], Durations)
      /\ IsOption(b["post_auth_ttl"], Durations)
      /\ IsOption(b["max_session_lifetime"], Durations)
  BY DEF IsBuilder
<1>3. QED
  BY <1>1, <1>2, OptionFacts, Zenon DEF PreAuthTtlOf, PostAuthTtlOf, MaxLifetimeOf

\* Whatever the setters were given: if build accepts it, every field of the
\* configuration holds what its documentation says, the required ones are not
\* blank, and a session cannot outlast its absolute lifetime (OidcBffConfig and
\* the checks of build in config.rs).
THEOREM BuildIsDocumented ==
  ASSUME NEW b, IsBuilder(b), NEW fresh \in STRING, BuildError(b) = NoError
  PROVE  /\ Built(b, fresh) \in OidcBffConfig
         /\ \A f \in RequiredFields : Built(b, fresh)[f].len > 0
         /\ Built(b, fresh).post_auth_ttl_secs <= Built(b, fresh).max_session_lifetime_secs
<1> DEFINE redirect == Trim(b["redirect_url"][1])
           key == b["session_key_source"][1]
           c == Built(b, fresh)
<1>1. MissingFields(b) = {} /\ ValueError(b) = NoError
  BY DEF BuildError, NoError
<1>2. /\ \A f \in RequiredFields : b[f] # None /\ b[f][1].len # 0
      /\ b["session_key_source"] # None
  BY <1>1 DEF MissingFields, IsBlank
<1>3. /\ b["issuer_url"][1] \in Urls /\ b["redirect_url"][1] \in Urls
      /\ b["client_id"][1] \in Texts /\ b["client_secret"][1] \in Texts
      /\ key \in KeySources
  <2>1. /\ b["issuer_url"] # None /\ b["redirect_url"] # None
        /\ b["client_id"] # None /\ b["client_secret"] # None
    BY <1>2 DEF RequiredFields
  <2>2. /\ IsOption(b["issuer_url"], Urls) /\ IsOption(b["redirect_url"], Urls)
        /\ IsOption(b["client_id"], Texts) /\ IsOption(b["client_secret"], Texts)
        /\ IsOption(b["session_key_source"], KeySources)
    BY DEF IsBuilder
  <2>3. QED
    BY <1>2, <2>1, <2>2, OptionFacts, Zenon
<1>4. redirect \in Urls /\ redirect.scheme \in {"http", "https"}
  <2>1. b["redirect_url"][1].scheme \in {"http", "https"}
    BY <1>1, <1>3, ValuesAccepted, UrlAccepted DEF NoError
  <2>2. QED
    BY <1>3, <2>1, TextFacts
<1>5. Origin(redirect) \in {"http", "https"} \X STRING \X Nat
  BY <1>4 DEF Origin, Urls
<1>6. /\ PreAuthTtlOf(b).secs \in 1 .. MAX_TTL_SECS
      /\ PostAuthTtlOf(b).secs \in 1 .. MAX_TTL_SECS
      /\ MaxLifetimeOf(b).secs \in 1 .. MAX_TTL_SECS
      /\ PostAuthTtlOf(b).secs <= MaxLifetimeOf(b).secs
  <2>1. /\ PreAuthTtlOf(b).secs \in 1 .. MAX_TTL_SECS
        /\ PostAuthTtlOf(b).secs \in 1 .. MAX_TTL_SECS
        /\ MaxLifetimeOf(b).secs \in 1 .. MAX_TTL_SECS
    BY <1>1, ValuesAccepted, TtlsTyped, TtlAccepted
  <2>2. ~(PostAuthTtlOf(b).secs > MaxLifetimeOf(b).secs)
    BY <1>1, ValuesAccepted
  <2>3. QED
    BY <2>1, <2>2, DefaultsAssumption
<1>7. /\ NormalizeScopes(b["scopes"]) \in Seq(TrimmedTexts)
      /\ PersistClaims(b["persist_claims"]) \in Seq(TrimmedTexts)
      /\ PassthroughParams(b["callback_passthrough_params"]) \in Seq(TrimmedTexts)
  BY NormalizedTyped DEF IsBuilder
<1>8. [i \in DOMAIN b["post_logout_redirect_url"] |-> Trim(b["post_logout_redirect_url"][i])]
        \in Seq(Urls)
  BY PostLogoutTyped DEF IsBuilder
<1>9. /\ OrElse(b["session_expiry"], "Fixed") \in {"Fixed", "Sliding"}
      /\ ReturnToPrefix(b) \in Seq(Tokens)
  <2>1. <<"/">> \in Seq(Tokens)
    BY TokenAssumption DEF Delimiters
  <2>2. IsOption(b["session_expiry"], {"Fixed", "Sliding"}) /\ IsOption(b["return_to_prefix"], Seq(Tokens))
    BY DEF IsBuilder
  <2>3. QED
    BY <2>1, <2>2, OptionFacts DEF ReturnToPrefix
<1>10. /\ (IF key.kind = "ephemeral" THEN fresh ELSE key.key) \in STRING
       /\ (IF redirect.scheme = "https" THEN "__Host-oidc_bff_session" ELSE "oidc_bff_session") \in STRING
       /\ (redirect.scheme = "https") \in BOOLEAN
  BY <1>3, LiteralsAssumption DEF KeySources
<1>11. c \in OidcBffConfig
  BY <1>3, <1>4, <1>5, <1>6, <1>7, <1>8, <1>9, <1>10 DEF Built, OidcBffConfig
<1>12. \A f \in RequiredFields : c[f].len > 0
  <2>1. /\ c["issuer_url"] = b["issuer_url"][1] /\ c["client_id"] = b["client_id"][1]
        /\ c["client_secret"] = b["client_secret"][1] /\ c["redirect_url"] = redirect
    BY DEF Built
  <2>2. redirect.len = b["redirect_url"][1].len
    BY <1>3 DEF Trim, Urls
  <2>3. /\ c["issuer_url"].len > 0 /\ c["client_id"].len > 0
        /\ c["client_secret"].len > 0 /\ c["redirect_url"].len > 0
    BY <1>2, <1>3, <2>1, <2>2 DEF RequiredFields, Urls, Texts
  <2>4. QED
    BY <2>3 DEF RequiredFields
<1>13. c.post_auth_ttl_secs <= c.max_session_lifetime_secs
  BY <1>6 DEF Built
<1>14. QED
  BY <1>11, <1>12, <1>13

-----------------------------------------------------------------------------
(* The limits of a store. *)

\* from_config takes the limits of a configuration as they are, with_* clamps
\* what it is given: for a documented configuration both say the same.
LEMMA WiringsAgree ==
  ASSUME NEW c \in OidcBffConfig
  PROVE  StoreFromConfig(c)
           = WithMaxLifetime(WithPreAuthTtl(NewStore, c.pre_auth_ttl_secs),
                             c.max_session_lifetime_secs)
<1>1. /\ c.pre_auth_ttl_secs \in 1 .. MAX_TTL_SECS
      /\ c.max_session_lifetime_secs \in 1 .. MAX_TTL_SECS
  BY DEF OidcBffConfig
<1>2. /\ ClampPositiveTtl(c.pre_auth_ttl_secs, DEFAULT_PRE_AUTH_TTL_SECS) = c.pre_auth_ttl_secs
      /\ ClampPositiveTtl(c.max_session_lifetime_secs, DEFAULT_MAX_SESSION_LIFETIME_SECS)
           = c.max_session_lifetime_secs
  BY <1>1, DefaultsAssumption DEF ClampPositiveTtl
<1>3. ASSUME NEW x, NEW y
      PROVE  [[NewStore EXCEPT !.pre_auth_ttl_secs = x] EXCEPT !.max_lifetime_secs = y]
               = [pre_auth_ttl_secs |-> x, max_lifetime_secs |-> y,
                  touch_coalesce_secs |-> DEFAULT_TOUCH_COALESCE_SECS]
  <2>1. [NewStore EXCEPT !.pre_auth_ttl_secs = x]
          = [pre_auth_ttl_secs |-> x,
             max_lifetime_secs |-> DEFAULT_MAX_SESSION_LIFETIME_SECS,
             touch_coalesce_secs |-> DEFAULT_TOUCH_COALESCE_SECS]
    BY DEF NewStore
  <2>2. [[pre_auth_ttl_secs |-> x,
          max_lifetime_secs |-> DEFAULT_MAX_SESSION_LIFETIME_SECS,
          touch_coalesce_secs |-> DEFAULT_TOUCH_COALESCE_SECS] EXCEPT !.max_lifetime_secs = y]
          = [pre_auth_ttl_secs |-> x, max_lifetime_secs |-> y,
             touch_coalesce_secs |-> DEFAULT_TOUCH_COALESCE_SECS]
    OBVIOUS
  <2>3. QED
    BY <2>1, <2>2, Zenon
<1>4. QED
  BY <1>2, <1>3 DEF StoreFromConfig, WithMaxLifetime, WithPreAuthTtl

-----------------------------------------------------------------------------
(* Bytes. *)

\* f counts up by w, m times.
Counts(f, w, m) == \A n \in 1 .. m : f[n] = f[n - 1] + w[n]
Naturals(f, m) == \A n \in 0 .. m : f[n] \in Nat
Weights(w, m) == \A n \in 1 .. m : w[n] \in Nat
Widths(s) == [n \in 1 .. Len(s) |-> Width[s[n]]]

IsCount(f, s) == f = [n \in 0 .. Len(s) |-> IF n = 0 THEN 0 ELSE f[n - 1] + Width[s[n]]]

\* Bytes adds the widths of the tokens one by one.
LEMMA BytesCounts ==
  ASSUME NEW s \in Seq(Tokens)
  PROVE  \E f : /\ Bytes(s) = f[Len(s)] /\ f[0] = 0
                /\ Counts(f, Widths(s), Len(s)) /\ Naturals(f, Len(s))
<1> DEFINE m == Len(s)
           step == [p \in Nat \X (1 .. m) |-> p[1] + Width[s[p[2]]]]
           f == CHOOSE f : IsCount(f, s)
<1>1. m \in Nat /\ \A n \in 1 .. m : Width[s[n]] \in Nat
  <2>1. m \in Nat
    BY LenProperties
  <2>2. \A n \in 1 .. m : s[n] \in Tokens
    BY ElementOfSeq
  <2>3. QED
    BY <2>1, <2>2, TokenAssumption
<1>2. Bytes(s) = f[m]
  BY DEF Bytes, IsCount
<1> HIDE DEF m
<1>3. PICK g : Iterates(g, 0, step, m)
  BY <1>1, IterationExists
<1> HIDE DEF step
<1>4. g[0] = 0 /\ \A n \in 1 .. m : g[n] = step[<<g[n - 1], n>>]
  <2>1. 0 \in 0 .. m /\ \A n \in 1 .. m : n \in 0 .. m /\ n # 0
    BY <1>1
  <2>2. g[0] = IF 0 = 0 THEN 0 ELSE step[<<g[0 - 1], 0>>]
    BY <1>3, <2>1, Zenon DEF Iterates
  <2>3. \A n \in 1 .. m : g[n] = IF n = 0 THEN 0 ELSE step[<<g[n - 1], n>>]
    BY <1>3, <2>1, Zenon DEF Iterates
  <2>4. QED
    BY <2>1, <2>2, <2>3
<1>5. ASSUME NEW n \in 1 .. m, NEW x \in Nat
      PROVE  step[<<x, n>>] = x + Width[s[n]]
  <2>1. <<x, n>> \in Nat \X (1 .. m) /\ <<x, n>>[1] = x /\ <<x, n>>[2] = n
    OBVIOUS
  <2>2. step[<<x, n>>] = <<x, n>>[1] + Width[s[<<x, n>>[2]]]
    BY <2>1, Zenon DEF step
  <2>3. QED
    BY <2>1, <2>2
<1>6. \A n \in 0 .. m : g[n] \in Nat
  <2>1. g[0] \in Nat
    BY <1>4
  <2>2. ASSUME NEW n \in 1 .. m, g[n - 1] \in Nat PROVE g[n] \in Nat
    <3>1. g[n] = step[<<g[n - 1], n>>]
      BY <1>4
    <3>2. g[n] = g[n - 1] + Width[s[n]]
      BY <1>5, <2>2, <3>1
    <3>3. QED
      BY <1>1, <2>2, <3>2
  <2>3. m \in Nat
    BY <1>1
  <2>4. QED
    BY <2>1, <2>2, <2>3, Stepwise
<1>7. IsCount(g, s)
  <2>1. ASSUME NEW n \in 0 .. m
        PROVE  step[<<g[n - 1], n>>] = g[n - 1] + Width[s[n]] \/ n = 0
    <3>1. CASE n # 0
      <4>1. n \in 1 .. m /\ n - 1 \in 0 .. m
        BY <1>1, <3>1
      <4>2. QED
        BY <1>5, <1>6, <4>1
    <3>2. QED
      BY <3>1
  <2>2. g = [n \in 0 .. m |-> IF n = 0 THEN 0 ELSE g[n - 1] + Width[s[n]]]
    BY <1>3, <2>1 DEF Iterates
  <2>3. QED
    BY <2>2 DEF IsCount, m
<1>8. IsCount(f, s)
  BY <1>7
<1> HIDE DEF f
<1>9. f[0] = 0 /\ \A n \in 1 .. m : f[n] = f[n - 1] + Width[s[n]]
  <2>1. 0 \in 0 .. m /\ \A n \in 1 .. m : n \in 0 .. m /\ n # 0
    BY <1>1
  <2>2. f = [n \in 0 .. m |-> IF n = 0 THEN 0 ELSE f[n - 1] + Width[s[n]]]
    BY <1>8 DEF IsCount, m
  <2>3. f[0] = IF 0 = 0 THEN 0 ELSE f[0 - 1] + Width[s[0]]
    BY <2>1, <2>2, Zenon
  <2>4. \A n \in 1 .. m : f[n] = IF n = 0 THEN 0 ELSE f[n - 1] + Width[s[n]]
    BY <2>1, <2>2, Zenon
  <2>5. QED
    BY <2>1, <2>3, <2>4
<1>10. \A n \in 0 .. m : f[n] \in Nat
  <2>1. f[0] \in Nat
    BY <1>9
  <2>2. \A n \in 1 .. m : f[n - 1] \in Nat => f[n] \in Nat
    BY <1>1, <1>9
  <2>3. QED
    BY <1>1, <2>1, <2>2, Stepwise
<1>11. Counts(f, Widths(s), m)
  BY <1>9 DEF Counts, Widths, m
<1>12. Naturals(f, m)
  BY <1>10 DEF Naturals
<1>13. QED
  BY <1>2, <1>9, <1>11, <1>12 DEF m

\* Two counts that grow alike from a known distance keep it.
LEMMA GrowAlike ==
  ASSUME NEW m \in Nat, NEW c \in Nat, NEW f, NEW g, NEW w,
         f[0] = c + g[0], Counts(f, w, m), Counts(g, w, m),
         Weights(w, m), Naturals(g, m)
  PROVE  f[m] = c + g[m]
<1> DEFINE alike == {n \in 0 .. m : f[n] = c + g[n]}
           d == [n \in 0 .. m |-> n]
<1>1. \A n \in 0 .. m : d[n] = n
  OBVIOUS
<1> HIDE DEF d
<1>2. d[0] \in alike
  BY <1>1
<1>3. ASSUME NEW n \in 1 .. m, d[n - 1] \in alike PROVE d[n] \in alike
  <2>1. n - 1 \in 0 .. m /\ n \in 0 .. m
    OBVIOUS
  <2>2. f[n - 1] = c + g[n - 1]
    BY <1>1, <1>3, <2>1
  <2>3. f[n] = c + g[n - 1] + w[n] /\ g[n] = g[n - 1] + w[n]
    BY <2>2 DEF Counts
  <2>4. g[n - 1] \in Nat /\ w[n] \in Nat
    BY <2>1 DEF Naturals, Weights
  <2>5. f[n] = c + g[n]
    BY <2>3, <2>4
  <2>6. QED
    BY <1>1, <2>1, <2>5
<1>4. m \in 0 .. m /\ m \in Nat
  OBVIOUS
<1> HIDE DEF alike
<1>5. \A n \in 0 .. m : d[n] \in alike
  BY <1>2, <1>3, <1>4, Stepwise
<1>6. QED
  BY <1>1, <1>4, <1>5 DEF alike

LEMMA WidthsTyped ==
  ASSUME NEW s \in Seq(Tokens)
  PROVE  \A n \in 1 .. Len(s) : Widths(s)[n] \in Nat /\ Widths(s)[n] = Width[s[n]]
<1>1. \A n \in 1 .. Len(s) : s[n] \in Tokens
  BY ElementOfSeq
<1>2. QED
  BY <1>1, TokenAssumption DEF Widths

\* The bytes of two strings, one behind the other.
LEMMA BytesJoin ==
  ASSUME NEW s \in Seq(Tokens), NEW t \in Seq(Tokens)
  PROVE  /\ Bytes(s) \in Nat
         /\ s \o t \in Seq(Tokens)
         /\ Bytes(s \o t) = Bytes(s) + Bytes(t)
<1> DEFINE p == Len(s)
           q == Len(t)
<1>1. p \in Nat /\ q \in Nat
  BY LenProperties
<1>2. s \o t \in Seq(Tokens) /\ Len(s \o t) = p + q
  BY ConcatProperties
<1>3. /\ \A n \in 1 .. p : (s \o t)[n] = s[n]
      /\ \A n \in 1 .. q : (s \o t)[p + n] = t[n]
  <2>1. \A n \in 1 .. p + q : (s \o t)[n] = IF n <= p THEN s[n] ELSE t[n - p]
    BY ConcatProperties
  <2>2. \A n \in 1 .. p : n \in 1 .. p + q /\ n <= p
    BY <1>1
  <2>3. \A n \in 1 .. q : p + n \in 1 .. p + q /\ ~(p + n <= p) /\ (p + n) - p = n
    BY <1>1
  <2>4. \A n \in 1 .. q : (s \o t)[p + n] = t[n]
    BY <2>1, <2>3
  <2>5. QED
    BY <2>1, <2>2, <2>4
<1>4. PICK f : /\ Bytes(s \o t) = f[Len(s \o t)] /\ f[0] = 0
               /\ Counts(f, Widths(s \o t), Len(s \o t))
  BY <1>2, BytesCounts
<1>5. PICK g : /\ Bytes(s) = g[p] /\ g[0] = 0
               /\ Counts(g, Widths(s), p) /\ Naturals(g, p)
  BY BytesCounts
<1>6. PICK h : /\ Bytes(t) = h[q] /\ h[0] = 0
               /\ Counts(h, Widths(t), q) /\ Naturals(h, q)
  BY BytesCounts
<1>7. /\ \A n \in 1 .. p : Widths(s)[n] \in Nat /\ Widths(s)[n] = Width[s[n]]
      /\ \A n \in 1 .. q : Widths(t)[n] \in Nat /\ Widths(t)[n] = Width[t[n]]
  BY WidthsTyped
<1>8. \A n \in 1 .. p + q : f[n] = f[n - 1] + Width[(s \o t)[n]]
  BY <1>2, <1>4 DEF Counts, Widths
<1> HIDE DEF p, q
<1>9. f[p] = g[p] /\ g[p] \in Nat
  <2>1. Counts(f, Widths(s), p)
    <3>1. \A n \in 1 .. p : n \in 1 .. p + q
      BY <1>1
    <3>2. ASSUME NEW n \in 1 .. p PROVE f[n] = f[n - 1] + Widths(s)[n]
      <4>1. f[n] = f[n - 1] + Width[(s \o t)[n]]
        BY <1>8, <3>1
      <4>2. QED
        BY <1>3, <1>7, <4>1
    <3>3. QED
      BY <3>2 DEF Counts
  <2>2. f[0] = 0 + g[0]
    BY <1>4, <1>5
  <2>3. f[p] = 0 + g[p]
    <3>1. Weights(Widths(s), p)
      BY <1>7 DEF Weights
    <3>2. p \in Nat /\ 0 \in Nat /\ Counts(g, Widths(s), p) /\ Naturals(g, p)
      BY <1>1, <1>5
    <3>3. QED
      BY <2>1, <2>2, <3>1, <3>2, GrowAlike
  <2>4. p \in 0 .. p
    BY <1>1
  <2>5. QED
    BY <1>5, <2>3, <2>4 DEF Naturals
<1>10. f[p + q] = g[p] + h[q]
  <2> DEFINE e == [n \in 0 .. q |-> f[p + n]]
  <2>1. \A n \in 0 .. q : e[n] = f[p + n]
    OBVIOUS
  <2> HIDE DEF e
  <2>2. Counts(e, Widths(t), q)
    <3> SUFFICES ASSUME NEW n \in 1 .. q PROVE e[n] = e[n - 1] + Widths(t)[n]
      BY DEF Counts
    <3>1. n \in 0 .. q /\ n - 1 \in 0 .. q /\ p + n \in 1 .. p + q /\ (p + n) - 1 = p + (n - 1)
      BY <1>1
    <3>2. e[n] = f[p + n] /\ e[n - 1] = f[p + (n - 1)]
      BY <2>1, <3>1
    <3>3. f[p + n] = f[(p + n) - 1] + Width[(s \o t)[p + n]]
      BY <1>8, <3>1
    <3>4. (s \o t)[p + n] = t[n] /\ Widths(t)[n] = Width[t[n]]
      BY <1>3, <1>7
    <3>5. QED
      BY <3>1, <3>2, <3>3, <3>4
  <2>3. e[0] = g[p] + h[0] /\ e[q] = f[p + q]
    <3>1. 0 \in 0 .. q /\ q \in 0 .. q /\ p + 0 = p
      BY <1>1
    <3>2. e[0] = f[p] /\ e[q] = f[p + q]
      BY <2>1, <3>1
    <3>3. QED
      BY <1>6, <1>9, <3>2
  <2>4. e[q] = g[p] + h[q]
    <3>1. Weights(Widths(t), q)
      BY <1>7 DEF Weights
    <3>2. q \in Nat /\ g[p] \in Nat /\ Counts(h, Widths(t), q) /\ Naturals(h, q)
      BY <1>1, <1>6, <1>9
    <3>3. e[0] = g[p] + h[0]
      BY <2>3
    <3>4. QED
      BY <2>2, <3>1, <3>2, <3>3, GrowAlike
  <2>5. QED
    BY <2>3, <2>4
<1>11. Bytes(s \o t) = f[p + q]
  BY <1>2, <1>4
<1>12. QED
  BY <1>2, <1>5, <1>6, <1>9, <1>10, <1>11

LEMMA BytesOfOne ==
  ASSUME NEW t \in Tokens
  PROVE  Bytes(<<t>>) = Width[t]
<1>1. <<t>> \in Seq(Tokens) /\ Len(<<t>>) = 1 /\ <<t>>[1] = t
  OBVIOUS
<1>2. PICK f : /\ Bytes(<<t>>) = f[Len(<<t>>)] /\ f[0] = 0
               /\ Counts(f, Widths(<<t>>), Len(<<t>>))
  BY <1>1, BytesCounts
<1>3. \A n \in 1 .. Len(<<t>>) : Widths(<<t>>)[n] \in Nat /\ Widths(<<t>>)[n] = Width[<<t>>[n]]
  BY <1>1, WidthsTyped
<1>4. f[1] = 0 + Width[t] /\ Width[t] \in Nat
  BY <1>1, <1>2, <1>3, TokenAssumption DEF Counts
<1>5. QED
  BY <1>1, <1>2, <1>4

-----------------------------------------------------------------------------
(* Strings: what is inserted in a target, and where. *)

LEMMA Joined ==
  ASSUME NEW S, NEW a \in Seq(S), NEW b \in Seq(S)
  PROVE  /\ a \o b \in Seq(S) /\ Len(a \o b) = Len(a) + Len(b)
         /\ \A i \in 1 .. Len(a) + Len(b) :
              \/ i \in 1 .. Len(a) /\ (a \o b)[i] = a[i]
              \/ i - Len(a) \in 1 .. Len(b) /\ (a \o b)[i] = b[i - Len(a)]
<1>1. Len(a) \in Nat /\ Len(b) \in Nat
  BY LenProperties
<1>2. a \o b \in Seq(S) /\ Len(a \o b) = Len(a) + Len(b)
  BY ConcatProperties
<1>3. \A i \in 1 .. Len(a) + Len(b) : (a \o b)[i] = IF i <= Len(a) THEN a[i] ELSE b[i - Len(a)]
  BY ConcatProperties
<1>4. QED
  BY <1>1, <1>2, <1>3

\* Until and Rest divide a string in front of the first t.
LEMMA UntilAndRest ==
  ASSUME NEW s \in Seq(Tokens), NEW t
  PROVE  \E p \in 0 .. Len(s) :
           /\ Until(s, t) = SubSeq(s, 1, p) /\ Rest(s, t) = SubSeq(s, p + 1, Len(s))
           /\ p < Len(s) => s[p + 1] = t
           /\ s # <<>> /\ s[1] # t => 1 <= p
           /\ \A i \in 1 .. p : s[i] # t
<1> DEFINE m == Len(s)
           I == {j \in 1 .. m : s[j] = t}
           least == CHOOSE x \in I : \A y \in I : x =< y
<1>1. m \in Nat /\ (s # <<>> => m # 0)
  BY LenProperties, EmptySeq
<1>2. Until(s, t) = IF (IF I # {} THEN least ELSE 0) = 0 THEN s
                    ELSE SubSeq(s, 1, (IF I # {} THEN least ELSE 0) - 1)
  BY DEF Until, SelectInSeq, Min
<1>3. CASE I = {}
  <2>1. Until(s, t) = s /\ s = SubSeq(s, 1, m)
    BY <1>2, <1>3, SubSeqFull
  <2>2. m \in 0 .. m /\ ~(m < m)
    BY <1>1
  <2>3. Rest(s, t) = SubSeq(s, m + 1, m)
    BY <2>1 DEF Rest
  <2>4. s # <<>> => 1 <= m
    BY <1>1
  <2>5. \A i \in 1 .. m : s[i] # t
    BY <1>3
  <2>6. QED
    BY <2>1, <2>2, <2>3, <2>4, <2>5
<1>4. CASE I # {}
  <2>1. \E x \in I : \A y \in I : x <= y
    <3>1. I \in SUBSET Nat
      BY <1>1
    <3> HIDE DEF I
    <3>2. QED
      BY <1>4, <3>1, LeastElement
  <2>2. least \in I /\ \A y \in I : least <= y
    BY <2>1
  <2> HIDE DEF least
  <2>10. \A i \in 1 .. least - 1 : s[i] # t
    <3> SUFFICES ASSUME NEW i \in 1 .. least - 1, s[i] = t PROVE FALSE
      OBVIOUS
    <3>1. least \in 1 .. m
      BY <2>2
    <3>2. i \in 1 .. m /\ i < least
      BY <1>1, <3>1
    <3>3. i \in I
      BY <3>2
    <3> HIDE DEF I
    <3>4. least <= i
      BY <2>2, <3>3
    <3>5. QED
      BY <3>1, <3>2, <3>4
  <2>3. least \in 1 .. m /\ s[least] = t
    BY <2>2
  <2> HIDE DEF I
  <2>4. least \in Nat /\ least # 0 /\ least - 1 \in 0 .. m /\ (least - 1) + 1 = least
    BY <1>1, <2>3
  <2>5. Until(s, t) = SubSeq(s, 1, least - 1)
    BY <1>2, <1>4, <2>4
  <2>6. Len(SubSeq(s, 1, least - 1)) = least - 1
    <3>1. \A j \in 1 .. least - 1 : s[j] \in Tokens
      <4>1. \A j \in 1 .. least - 1 : j \in 1 .. Len(s)
        BY <1>1, <2>3
      <4>2. QED
        BY <4>1, ElementOfSeq
    <3>2. 1 \in Int /\ least - 1 \in Int
      BY <2>4
    <3>3. Len(SubSeq(s, 1, least - 1)) = IF 1 <= least - 1 THEN least - 1 - 1 + 1 ELSE 0
      BY <3>1, <3>2, SubSeqProperties
    <3>4. QED
      BY <2>4, <3>3
  <2>7. Rest(s, t) = SubSeq(s, (least - 1) + 1, m)
    BY <2>5, <2>6 DEF Rest
  <2>8. s[1] # t => 1 <= least - 1
    BY <2>3, <2>4
  <2>9. QED
    BY <2>3, <2>4, <2>5, <2>7, <2>8, <2>10
<1>5. QED
  BY <1>3, <1>4

\* t is s with mid inserted behind its first p tokens.
Inserts(t, s, p, mid) == t = (SubSeq(s, 1, p) \o mid) \o SubSeq(s, p + 1, Len(s))

\* What stands where in it.
LEMMA Inserted ==
  ASSUME NEW s \in Seq(Tokens), NEW p \in 0 .. Len(s), NEW mid \in Seq(Tokens),
         NEW t, Inserts(t, s, p, mid)
  PROVE  /\ t \in Seq(Tokens) /\ Len(t) = Len(s) + Len(mid)
         /\ \A i \in 1 .. Len(s) + Len(mid) :
              \/ i \in 1 .. p /\ t[i] = s[i]
              \/ i - p \in 1 .. Len(mid) /\ t[i] = mid[i - p]
              \/ i - Len(mid) \in p + 1 .. Len(s) /\ t[i] = s[i - Len(mid)]
         /\ Bytes(t) = Bytes(s) + Bytes(mid)
<1> DEFINE m == Len(s)
           n == Len(mid)
           u == SubSeq(s, 1, p)
           r == SubSeq(s, p + 1, m)
<1>1. m \in Nat /\ n \in Nat /\ p \in Nat
  BY LenProperties
<1>2. \A j \in 1 .. m : s[j] \in Tokens
  BY ElementOfSeq
<1> HIDE DEF m, n
<1>3. u \in Seq(Tokens) /\ Len(u) = p /\ \A j \in 1 .. p : u[j] = s[j]
  <2>1. \A j \in 1 .. p : s[j] \in Tokens
    BY <1>1, <1>2 DEF m
  <2>2. 1 \in Int /\ p \in Int
    BY <1>1
  <2>3. /\ u \in Seq(Tokens) /\ Len(u) = IF 1 <= p THEN p - 1 + 1 ELSE 0
        /\ \A j \in 1 .. p - 1 + 1 : u[j] = s[1 + j - 1]
    BY <2>1, <2>2, SubSeqProperties
  <2>4. \A j \in 1 .. p : j \in 1 .. p - 1 + 1 /\ 1 + j - 1 = j
    BY <1>1
  <2> HIDE DEF u
  <2>5. QED
    BY <1>1, <2>3, <2>4
<1>4. r \in Seq(Tokens) /\ Len(r) = m - p /\ \A j \in 1 .. m - p : r[j] = s[p + j]
  <2>1. \A j \in p + 1 .. m : s[j] \in Tokens
    BY <1>1, <1>2
  <2>2. p + 1 \in Int /\ m \in Int /\ p <= m
    BY <1>1 DEF m
  <2>3. /\ r \in Seq(Tokens) /\ Len(r) = IF p + 1 <= m THEN m - (p + 1) + 1 ELSE 0
        /\ \A j \in 1 .. m - (p + 1) + 1 : r[j] = s[p + 1 + j - 1]
    BY <2>1, <2>2, SubSeqProperties
  <2>4. \A j \in 1 .. m - p : j \in 1 .. m - (p + 1) + 1 /\ p + 1 + j - 1 = p + j
    BY <1>1
  <2> HIDE DEF r
  <2>5. QED
    BY <1>1, <2>2, <2>3, <2>4
<1>5. t = (u \o mid) \o r
  BY DEF Inserts, m
<1>6. u \o r = s
  <2>1. 1 \in 1 .. Len(s) + 1 /\ p \in 1 - 1 .. Len(s) /\ Len(s) \in p .. Len(s)
    BY <1>1 DEF m
  <2>2. SubSeq(s, 1, p) \o SubSeq(s, p + 1, Len(s)) = SubSeq(s, 1, Len(s))
    BY <2>1, ConcatAdjacentSubSeq
  <2>3. QED
    BY <2>2, SubSeqFull DEF m
<1> HIDE DEF u, r
<1> DEFINE a == u \o mid
<1>7. /\ a \in Seq(Tokens) /\ Len(a) = p + n
      /\ \A i \in 1 .. p + n :
           \/ i \in 1 .. p /\ a[i] = u[i]
           \/ i - p \in 1 .. n /\ a[i] = mid[i - p]
  BY <1>3, Joined DEF n
<1>8. Bytes(a) = Bytes(u) + Bytes(mid)
  BY <1>3, BytesJoin
<1> HIDE DEF a
<1> DEFINE w == a \o r
<1>9. /\ w \in Seq(Tokens) /\ Len(w) = (p + n) + (m - p)
      /\ \A i \in 1 .. (p + n) + (m - p) :
           \/ i \in 1 .. p + n /\ w[i] = a[i]
           \/ i - (p + n) \in 1 .. m - p /\ w[i] = r[i - (p + n)]
  <2>1. /\ w \in Seq(Tokens) /\ Len(w) = Len(a) + Len(r)
        /\ \A i \in 1 .. Len(a) + Len(r) :
             \/ i \in 1 .. Len(a) /\ w[i] = a[i]
             \/ i - Len(a) \in 1 .. Len(r) /\ w[i] = r[i - Len(a)]
    BY <1>4, <1>7, Joined
  <2>2. Len(a) = p + n /\ Len(r) = m - p
    BY <1>4, <1>7
  <2> HIDE DEF w
  <2>3. QED
    BY <2>1, <2>2
<1>10. Bytes(w) = Bytes(a) + Bytes(r)
  BY <1>4, <1>7, BytesJoin
<1>11. Bytes(s) = Bytes(u) + Bytes(r) /\ Bytes(u) \in Nat /\ Bytes(r) \in Nat /\ Bytes(mid) \in Nat
  BY <1>3, <1>4, <1>6, BytesJoin
<1>12. t = w
  BY <1>5 DEF a
<1> HIDE DEF w
<1>13. ASSUME NEW i \in 1 .. m + n
       PROVE  \/ i \in 1 .. p /\ t[i] = s[i]
              \/ i - p \in 1 .. n /\ t[i] = mid[i - p]
              \/ i - n \in p + 1 .. m /\ t[i] = s[i - n]
  <2>1. i \in 1 .. (p + n) + (m - p)
    BY <1>1
  <2>2. CASE i \in 1 .. p + n /\ t[i] = a[i]
    BY <1>3, <1>7, <2>2
  <2>3. CASE i - (p + n) \in 1 .. m - p /\ t[i] = r[i - (p + n)]
    <3>1. p + (i - (p + n)) = i - n /\ i - n \in p + 1 .. m
      BY <1>1, <2>3
    <3>2. r[i - (p + n)] = s[p + (i - (p + n))]
      BY <1>4, <2>3
    <3>3. QED
      BY <2>3, <3>1, <3>2
  <2>4. QED
    BY <1>9, <1>12, <2>1, <2>2, <2>3
<1>14. Len(w) = m + n
  BY <1>1, <1>9
<1>15. Bytes(w) = Bytes(s) + Bytes(mid)
  BY <1>8, <1>10, <1>11
<1>16. QED
  BY <1>9, <1>12, <1>13, <1>14, <1>15, Zenon DEF m, n

\* What may be inserted in a target without changing what it is.
UrlTokens == (Tokens \ (Delimiters \cup Unprintable)) \cup {"?", "&", "="}

LEMMA UrlTokensAre ==
  /\ UrlTokens \subseteq Tokens
  /\ \A t \in UrlTokens : t \notin Unprintable /\ t # "/" /\ t # "\\" /\ t # ":"
BY TokenAssumption DEF UrlTokens, Delimiters

\* Behind the first token, at the end or in front of a fragment.
LEMMA InsertKeepsPath ==
  ASSUME NEW s \in Seq(Tokens), NEW p \in 0 .. Len(s), NEW mid \in Seq(UrlTokens),
         NEW t, Inserts(t, s, p, mid),
         PathLike(s), 1 <= p, p < Len(s) => s[p + 1] = "#"
  PROVE  PathLike(t)
<1> DEFINE m == Len(s)
           n == Len(mid)
<1>1. m \in Nat /\ n \in Nat /\ p \in Nat /\ p <= m
  BY LenProperties
<1>2. mid \in Seq(Tokens)
  BY UrlTokensAre, SeqMonotonic
<1>3. \A i \in 1 .. n : mid[i] \notin Unprintable /\ mid[i] # "/" /\ mid[i] # "\\" /\ mid[i] # ":"
  <2>1. \A i \in 1 .. n : mid[i] \in UrlTokens
    BY ElementOfSeq
  <2>2. QED
    BY <2>1, UrlTokensAre
<1>4. /\ t \in Seq(Tokens) /\ Len(t) = m + n
      /\ \A i \in 1 .. m + n :
           \/ i \in 1 .. p /\ t[i] = s[i]
           \/ i - p \in 1 .. n /\ t[i] = mid[i - p]
           \/ i - n \in p + 1 .. m /\ t[i] = s[i - n]
  BY <1>2, Inserted
<1>5. /\ s[1] = "/"
      /\ \A i \in 1 .. m : s[i] \notin Unprintable /\ s[i] # "\\"
      /\ \A i \in 1 .. m - 1 : s[i + 1] = "/" => s[i] # "/" /\ s[i] # ":"
  <2>1. DOMAIN s = 1 .. m
    BY LenProperties
  <2>2. QED
    BY <2>1 DEF PathLike, ToSet, Holds, Adjacent
<1>6. p < m => s[p + 1] # "/"
  OBVIOUS
<1>7. DOMAIN t = 1 .. m + n
  BY <1>4, LenProperties
<1> HIDE DEF m, n
<1>8. t[1] = "/" /\ t # <<>>
  <2>1. 1 \in 1 .. m + n /\ ~(1 - p \in 1 .. n) /\ ~(1 - n \in p + 1 .. m)
    BY <1>1
  <2>2. t[1] = s[1]
    BY <1>4, <2>1
  <2>3. 1 <= Len(t)
    BY <1>1, <1>4
  <2>4. QED
    BY <1>4, <1>5, <2>2, <2>3, EmptySeq
<1>9. \A i \in 1 .. m + n : t[i] \notin Unprintable /\ t[i] # "\\"
  <2> SUFFICES ASSUME NEW i \in 1 .. m + n PROVE t[i] \notin Unprintable /\ t[i] # "\\"
    OBVIOUS
  <2>1. CASE i \in 1 .. p /\ t[i] = s[i]
    <3>1. i \in 1 .. m
      BY <1>1, <2>1
    <3>2. QED
      BY <1>5, <2>1, <3>1
  <2>2. CASE i - p \in 1 .. n /\ t[i] = mid[i - p]
    BY <1>3, <2>2
  <2>3. CASE i - n \in p + 1 .. m /\ t[i] = s[i - n]
    <3>1. i - n \in 1 .. m
      BY <1>1, <2>3
    <3>2. QED
      BY <1>5, <2>3, <3>1
  <2>4. QED
    BY <1>4, <2>1, <2>2, <2>3
<1>10. ASSUME NEW i \in 1 .. (m + n) - 1, t[i + 1] = "/" PROVE t[i] # "/" /\ t[i] # ":"
  <2>0. i + 1 \in 1 .. m + n /\ i \in 1 .. m + n /\ i \in Int
    BY <1>1
  <2>1. CASE i + 1 \in 1 .. p /\ t[i + 1] = s[i + 1]
    <3>1. i \in 1 .. p /\ ~(i - p \in 1 .. n) /\ ~(i - n \in p + 1 .. m) /\ i \in 1 .. m - 1
      BY <1>1, <2>0, <2>1
    <3>2. t[i] = s[i]
      BY <1>4, <2>0, <3>1
    <3>3. QED
      BY <1>5, <1>10, <2>1, <3>1, <3>2
  <2>2. CASE (i + 1) - p \in 1 .. n /\ t[i + 1] = mid[(i + 1) - p]
    BY <1>3, <1>10, <2>2
  <2>3. CASE (i + 1) - n \in p + 1 .. m /\ t[i + 1] = s[(i + 1) - n]
    <3>1. (i + 1) - n # p + 1
      <4>1. s[(i + 1) - n] = "/" /\ (i + 1) - n <= m
        BY <1>1, <1>10, <2>3
      <4>2. CASE (i + 1) - n = p + 1
        <5>1. p + 1 <= m /\ s[p + 1] = "/"
          BY <4>1, <4>2
        <5>2. QED
          BY <1>1, <1>6, <5>1
      <4>3. QED
        BY <4>2
    <3>2. /\ i - n \in p + 1 .. m /\ i - n \in 1 .. m - 1 /\ (i - n) + 1 = (i + 1) - n
          /\ ~(i \in 1 .. p) /\ ~(i - p \in 1 .. n)
      BY <1>1, <2>0, <2>3, <3>1
    <3>3. t[i] = s[i - n]
      BY <1>4, <2>0, <3>2
    <3>4. s[(i - n) + 1] = "/"
      BY <1>10, <2>3, <3>2
    <3>5. QED
      BY <1>5, <3>2, <3>3, <3>4
  <2>4. QED
    BY <1>4, <2>0, <2>1, <2>2, <2>3
<1>11. ToSet(t) \cap Unprintable = {} /\ ~Holds(t, "\\")
  BY <1>7, <1>9 DEF ToSet, Holds
<1>12. ~Adjacent(t, "/", "/") /\ ~Adjacent(t, ":", "/")
  <2>1. Len(t) - 1 = (m + n) - 1
    BY <1>4
  <2>2. QED
    BY <1>10, <2>1 DEF Adjacent
<1>13. QED
  BY <1>8, <1>11, <1>12 DEF PathLike

-----------------------------------------------------------------------------
(* append_passthrough. *)

\* What a loop has appended: written tokens, within the budget.
Passable == {a \in Seq(UrlTokens) : Bytes(a) <= MAX_PASSTHROUGH_TOTAL_LEN}

LEMMA FoundIsThere ==
  ASSUME NEW S, NEW query \in Seq(STRING \X Seq(S)), NEW name, First(query, name) # 0
  PROVE  query[First(query, name)][2] \in Seq(S)
<1> DEFINE I == {j \in 1 .. Len(query) : query[j][1] = name}
           least == CHOOSE x \in I : \A y \in I : x =< y
<1>1. First(query, name) = IF I # {} THEN least ELSE 0
  BY DEF First, SelectInSeq, Min
<1>2. I # {} /\ I \in SUBSET Nat
  BY <1>1, LenProperties
<1> HIDE DEF I
<1>3. \E x \in I : \A y \in I : x <= y
  BY <1>2, LeastElement
<1>4. least \in I
  BY <1>3
<1> HIDE DEF least
<1>5. First(query, name) \in 1 .. Len(query)
  BY <1>1, <1>2, <1>4 DEF I
<1>6. query[First(query, name)] \in STRING \X Seq(S)
  BY <1>5, ElementOfSeq
<1>7. QED
  BY <1>6

LEMMA PairIsWritten ==
  ASSUME NEW name, Plain(name), NEW value \in Seq(Tokens)
  PROVE  EncodedPair(name, value) \in Seq(UrlTokens)
<1>1. Plain(name) => name \in UrlTokens
  BY DEF Plain, UrlTokens
<1>2. <<name, "=">> \in Seq(UrlTokens)
  BY <1>1 DEF UrlTokens
<1>3. Translate(value, Encode) \in Seq(UrlTokens)
  <2>1. Len(value) \in Nat /\ DOMAIN value = 1 .. Len(value)
    BY LenProperties
  <2>2. \A i \in 1 .. Len(value) : Encode[value[i]] \in UrlTokens
    <3>1. \A i \in 1 .. Len(value) : value[i] \in Tokens
      BY ElementOfSeq
    <3>2. QED
      BY <3>1, TokenAssumption DEF UrlTokens
  <2>3. [i \in 1 .. Len(value) |-> Encode[value[i]]] \in Seq(UrlTokens)
    BY <2>1, <2>2, IsASeq
  <2>4. QED
    BY <2>1, <2>3 DEF Translate
<1>4. QED
  BY <1>2, <1>3, ConcatProperties DEF EncodedPair

\* A turn of the loop keeps to the budget and the alphabet.
LEMMA AppendPairKeeps ==
  ASSUME NEW a \in Passable, NEW return_to, NEW query \in Seq(STRING \X Seq(Tokens)),
         NEW name, Plain(name)
  PROVE  AppendPair(a, return_to, query, name) \in Passable
<1> DEFINE pair == EncodedPair(name, query[First(query, name)][2])
           joined == IF a = <<>> THEN pair ELSE (a \o <<"&">>) \o pair
<1>1. CASE \/ ~IsSelected(query, name)
           \/ <<name>> \in NamesOf(return_to)
           \/ Bytes(joined) > MAX_PASSTHROUGH_TOTAL_LEN
  BY <1>1 DEF AppendPair
<1>2. CASE ~ \/ ~IsSelected(query, name)
             \/ <<name>> \in NamesOf(return_to)
             \/ Bytes(joined) > MAX_PASSTHROUGH_TOTAL_LEN
  <2>1. AppendPair(a, return_to, query, name) = joined
    BY <1>2 DEF AppendPair
  <2>2. pair \in Seq(UrlTokens)
    BY <1>2, FoundIsThere, PairIsWritten DEF IsSelected
  <2>3. a \in Seq(UrlTokens)
    BY DEF Passable
  <2> HIDE DEF pair
  <2>4. joined \in Seq(UrlTokens)
    <3>1. <<"&">> \in Seq(UrlTokens)
      BY DEF UrlTokens
    <3>2. a \o <<"&">> \in Seq(UrlTokens)
      BY <2>3, <3>1, ConcatProperties
    <3>3. (a \o <<"&">>) \o pair \in Seq(UrlTokens)
      BY <2>2, <3>2, ConcatProperties
    <3>4. QED
      BY <2>2, <3>3
  <2> HIDE DEF joined
  <2>5. Bytes(joined) \in Nat
    <3>1. joined \in Seq(Tokens)
      BY <2>4, UrlTokensAre, SeqMonotonic
    <3>2. QED
      BY <3>1, BytesJoin
  <2>6. Bytes(joined) <= MAX_PASSTHROUGH_TOTAL_LEN
    <3>1. ~(Bytes(joined) > MAX_PASSTHROUGH_TOTAL_LEN)
      BY <1>2
    <3>2. QED
      BY <2>5, <3>1, BudgetAssumption
  <2>7. QED
    BY <2>1, <2>4, <2>6 DEF Passable
<1>3. QED
  BY <1>1, <1>2

\* The loop over the allowlist.
IsLoop(f, return_to, query, allow) ==
  f = [n \in 0 .. Len(allow) |->
         IF n = 0 THEN <<>> ELSE AppendPair(f[n - 1], return_to, query, allow[n])]
Appended(return_to, query, allow) ==
  (CHOOSE f : IsLoop(f, return_to, query, allow))[Len(allow)]

\* f goes through the loop, and stays within the budget.
Runs(f, return_to, query, allow) ==
  /\ f[0] = <<>>
  /\ \A n \in 1 .. Len(allow) : f[n] = AppendPair(f[n - 1], return_to, query, allow[n])
  /\ \A n \in 0 .. Len(allow) : f[n] \in Passable

LEMMA LoopRunsPassably ==
  ASSUME NEW return_to, NEW query \in Seq(STRING \X Seq(Tokens)), NEW allow,
         Len(allow) \in Nat, \A n \in 1 .. Len(allow) : Plain(allow[n])
  PROVE  \E f : Appended(return_to, query, allow) = f[Len(allow)] /\ Runs(f, return_to, query, allow)
<1> DEFINE m == Len(allow)
           turn(a, n) == AppendPair(a, return_to, query, allow[n])
           step == [x \in Passable \X (1 .. m) |-> turn(x[1], x[2])]
           f == CHOOSE f : IsLoop(f, return_to, query, allow)
<1>1. m \in Nat
  OBVIOUS
<1>2. <<>> \in Passable
  <2>1. <<>> \in Seq(UrlTokens) /\ <<>> \in Seq(Tokens) /\ Len(<<>>) = 0
    BY EmptySeq
  <2>2. PICK g : Bytes(<<>>) = g[Len(<<>>)] /\ g[0] = 0
    BY <2>1, BytesCounts
  <2>3. Bytes(<<>>) = 0
    BY <2>1, <2>2
  <2>4. QED
    BY <2>1, <2>3, BudgetAssumption DEF Passable
<1>3. \A a \in Passable, n \in 1 .. m : turn(a, n) \in Passable
  BY AppendPairKeeps
<1>4. \A a \in Passable, n \in 1 .. m : step[<<a, n>>] = turn(a, n)
  <2> HIDE DEF turn, m
  <2> SUFFICES ASSUME NEW a \in Passable, NEW n \in 1 .. m PROVE step[<<a, n>>] = turn(a, n)
    OBVIOUS
  <2>1. <<a, n>> \in Passable \X (1 .. m) /\ <<a, n>>[1] = a /\ <<a, n>>[2] = n
    OBVIOUS
  <2>2. step[<<a, n>>] = turn(<<a, n>>[1], <<a, n>>[2])
    BY <2>1, Zenon DEF step
  <2>3. QED
    BY <2>1, <2>2
<1> HIDE DEF step, turn
<1>5. PICK g : Iterates(g, <<>>, step, m)
  BY <1>1, IterationExists
<1> HIDE DEF m
<1>6. \A n \in 0 .. m : g[n] = IF n = 0 THEN <<>> ELSE step[<<g[n - 1], n>>]
  BY <1>5, Zenon DEF Iterates
<1>7. \A n \in 0 .. m : g[n] \in Passable
  <2>1. g[0] \in Passable
    <3>1. 0 \in 0 .. m
      BY <1>1
    <3>2. g[0] = <<>>
      BY <1>6, <3>1, Zenon
    <3>3. QED
      BY <1>2, <3>2
  <2>2. ASSUME NEW n \in 1 .. m, g[n - 1] \in Passable PROVE g[n] \in Passable
    <3>1. n \in 0 .. m /\ n # 0
      BY <1>1
    <3>2. g[n] = step[<<g[n - 1], n>>]
      BY <1>6, <3>1
    <3>3. QED
      BY <1>3, <1>4, <2>2, <3>2
  <2>3. QED
    BY <1>1, <2>1, <2>2, Stepwise
<1>8. \A n \in 1 .. m : step[<<g[n - 1], n>>] = turn(g[n - 1], n)
  <2>1. \A n \in 1 .. m : n - 1 \in 0 .. m
    BY <1>1
  <2>2. QED
    BY <1>4, <1>7, <2>1
<1>9. IsLoop(g, return_to, query, allow)
  <2>1. \A n \in 0 .. m : n # 0 => n \in 1 .. m
    BY <1>1
  <2>2. g = [n \in 0 .. m |-> IF n = 0 THEN <<>> ELSE turn(g[n - 1], n)]
    <3>1. \A n \in 0 .. m : (IF n = 0 THEN <<>> ELSE step[<<g[n - 1], n>>])
                              = (IF n = 0 THEN <<>> ELSE turn(g[n - 1], n))
      BY <1>8, <2>1
    <3>2. QED
      BY <1>5, <3>1, Zenon DEF Iterates
  <2>3. QED
    BY <2>2, Zenon DEF IsLoop, m, turn
<1>10. IsLoop(f, return_to, query, allow)
  BY <1>9
<1> HIDE DEF f
<1>11. f = [n \in 0 .. m |-> IF n = 0 THEN <<>> ELSE turn(f[n - 1], n)]
  BY <1>10, Zenon DEF IsLoop, m, turn
<1>12. \A n \in 0 .. m : f[n] \in Passable
  <2>1. \A n \in 0 .. m : f[n] = IF n = 0 THEN <<>> ELSE turn(f[n - 1], n)
    BY <1>11, Zenon
  <2>2. f[0] \in Passable
    <3>1. 0 \in 0 .. m
      BY <1>1
    <3>2. f[0] = <<>>
      BY <2>1, <3>1, Zenon
    <3>3. QED
      BY <1>2, <3>2
  <2>3. ASSUME NEW n \in 1 .. m, f[n - 1] \in Passable PROVE f[n] \in Passable
    <3>1. n \in 0 .. m /\ n # 0
      BY <1>1
    <3>2. f[n] = turn(f[n - 1], n)
      BY <2>1, <3>1
    <3>3. QED
      BY <1>3, <2>3, <3>2
  <2>4. QED
    BY <1>1, <2>2, <2>3, Stepwise
<1>13. f[0] = <<>> /\ \A n \in 1 .. m : f[n] = turn(f[n - 1], n)
  <2>1. 0 \in 0 .. m /\ \A n \in 1 .. m : n \in 0 .. m /\ n # 0
    BY <1>1
  <2>2. f[0] = IF 0 = 0 THEN <<>> ELSE turn(f[0 - 1], 0)
    BY <1>11, <2>1, Zenon
  <2>3. \A n \in 1 .. m : f[n] = IF n = 0 THEN <<>> ELSE turn(f[n - 1], n)
    BY <1>11, <2>1, Zenon
  <2>4. QED
    BY <2>1, <2>2, <2>3
<1>14. Appended(return_to, query, allow) = f[m]
  BY DEF Appended, f, m
<1>15. Runs(f, return_to, query, allow)
  BY <1>12, <1>13, Zenon DEF turn, m, Runs
<1>16. QED
  BY <1>14, <1>15 DEF m

LEMMA AppendedIsPassable ==
  ASSUME NEW return_to, NEW query \in Seq(STRING \X Seq(Tokens)), NEW allow,
         Len(allow) \in Nat, \A n \in 1 .. Len(allow) : Plain(allow[n])
  PROVE  Appended(return_to, query, allow) \in Passable
<1>1. PICK f : Appended(return_to, query, allow) = f[Len(allow)] /\ Runs(f, return_to, query, allow)
  BY LoopRunsPassably
<1>2. Len(allow) \in 0 .. Len(allow)
  OBVIOUS
<1>3. QED
  BY <1>1, <1>2 DEF Runs

LEMMA JoinsAssociate ==
  ASSUME NEW u \in Seq(Tokens), NEW j \in Seq(Tokens), NEW a \in Seq(Tokens)
  PROVE  (u \o j) \o a = u \o (j \o a)
BY ConcatAssociative

\* Whatever comes back from the provider, what is composed from a target that was
\* validated is safe: the guard in front of the Location header has nothing to do.
LEMMA ComposedIsSafe ==
  ASSUME NEW s \in Seq(Tokens), PathLike(s), Bytes(s) <= MAX_RETURN_TO_LEN,
         NEW query \in Seq(STRING \X Seq(Tokens)), NEW allow,
         Len(allow) \in Nat, \A n \in 1 .. Len(allow) : Plain(allow[n])
  PROVE  IsSafeComposedRedirect(AppendPassthrough(s, query, allow))
<1> DEFINE a == Appended(s, query, allow)
           j == IF HasQuery(s) THEN <<"&">> ELSE <<"?">>
           u == Until(s, "#")
           r == Rest(s, "#")
<1>1. a \in Seq(UrlTokens) /\ Bytes(a) <= MAX_PASSTHROUGH_TOTAL_LEN
  BY AppendedIsPassable DEF Passable
<1>2. AppendPassthrough(s, query, allow)
        = IF a = <<>> THEN s ELSE ((u \o j) \o a) \o r
  BY DEF AppendPassthrough, Appended, IsLoop
<1> HIDE DEF a
<1>3. /\ Bytes(s) \in Nat /\ MAX_RETURN_TO_LEN \in Nat /\ MAX_PASSTHROUGH_TOTAL_LEN \in Nat
      /\ MAX_COMPOSED_REDIRECT_LEN \in Nat
      /\ MAX_RETURN_TO_LEN + 1 + MAX_PASSTHROUGH_TOTAL_LEN <= MAX_COMPOSED_REDIRECT_LEN
  BY BytesJoin, BudgetAssumption
<1>4. CASE a = <<>>
  BY <1>2, <1>3, <1>4 DEF IsSafeComposedRedirect
<1>5. CASE a # <<>>
  <2>1. PICK p \in 0 .. Len(s) :
          /\ u = SubSeq(s, 1, p) /\ r = SubSeq(s, p + 1, Len(s))
          /\ p < Len(s) => s[p + 1] = "#"
          /\ s # <<>> /\ s[1] # "#" => 1 <= p
    BY UntilAndRest
  <2>2. 1 <= p
    BY <2>1 DEF PathLike
  <2>3. j \in Seq(UrlTokens) /\ Bytes(j) = 1
    <3>1. /\ "&" \in UrlTokens /\ "?" \in UrlTokens /\ "&" \in Tokens /\ "?" \in Tokens
          /\ Width["&"] = 1 /\ Width["?"] = 1
      BY TokenAssumption DEF UrlTokens, Delimiters
    <3>2. Bytes(<<"&">>) = 1 /\ Bytes(<<"?">>) = 1
      BY <3>1, BytesOfOne
    <3>3. <<"&">> \in Seq(UrlTokens) /\ <<"?">> \in Seq(UrlTokens)
      BY <3>1
    <3>4. QED
      BY <3>2, <3>3
  <2> DEFINE mid == j \o a
  <2>4. j \in Seq(Tokens) /\ a \in Seq(Tokens)
    BY <1>1, <2>3, UrlTokensAre, SeqMonotonic
  <2> HIDE DEF j
  <2>5. mid \in Seq(UrlTokens) /\ mid \in Seq(Tokens) /\ Bytes(mid) = 1 + Bytes(a) /\ Bytes(a) \in Nat
    <3>1. mid \in Seq(UrlTokens)
      BY <1>1, <2>3, ConcatProperties
    <3>2. mid \in Seq(Tokens) /\ Bytes(mid) = Bytes(j) + Bytes(a)
      BY <2>4, BytesJoin
    <3>3. Bytes(a) \in Nat
      BY <2>4, BytesJoin
    <3>4. QED
      BY <2>3, <3>1, <3>2, <3>3
  <2>6. u \in Seq(Tokens)
    <3>1. \A i \in 1 .. p : s[i] \in Tokens
      <4>1. \A i \in 1 .. p : i \in 1 .. Len(s)
        BY LenProperties
      <4>2. QED
        BY <4>1, ElementOfSeq
    <3>2. 1 \in Int /\ p \in Int
      OBVIOUS
    <3>3. QED
      BY <2>1, <3>1, <3>2, SubSeqProperties
  <2> HIDE DEF u, r
  <2>7. (u \o j) \o a = u \o mid
    BY <2>4, <2>6, JoinsAssociate, Zenon
  <2> HIDE DEF mid
  <2>8. PICK t : t = (u \o mid) \o r
    OBVIOUS
  <2>9. Inserts(t, s, p, mid)
    BY <2>1, <2>8, Zenon DEF Inserts
  <2>10. PathLike(t)
    BY <2>1, <2>2, <2>5, <2>9, InsertKeepsPath
  <2>11. Bytes(t) = Bytes(s) + Bytes(mid)
    BY <2>5, <2>9, Inserted
  <2>12. Bytes(t) <= MAX_COMPOSED_REDIRECT_LEN
    BY <1>1, <1>3, <2>5, <2>11
  <2>13. AppendPassthrough(s, query, allow) = t
    BY <1>2, <1>5, <2>7, <2>8, Zenon
  <2>14. QED
    BY <2>10, <2>12, <2>13 DEF IsSafeComposedRedirect
<1>6. QED
  BY <1>4, <1>5

-----------------------------------------------------------------------------
(* Strings: cut in front of the first t, and split at every t. *)

\* What is joined comes apart where it was joined.
LEMMA ComesApart ==
  ASSUME NEW S, NEW a \in Seq(S), NEW b \in Seq(S)
  PROVE  /\ SubSeq(a \o b, 1, Len(a)) = a
         /\ SubSeq(a \o b, Len(a) + 1, Len(a \o b)) = b
<1> DEFINE p == Len(a)
           q == Len(b)
           w == a \o b
<1>1. p \in Nat /\ q \in Nat
  BY LenProperties
<1>2. /\ w \in Seq(S) /\ Len(w) = p + q
      /\ \A i \in 1 .. p + q : w[i] = IF i <= p THEN a[i] ELSE b[i - p]
  BY ConcatProperties
<1> HIDE DEF p, q, w
<1>3. \A i \in 1 .. p + q : w[i] \in S
  BY <1>2, ElementOfSeq
<1>4. SubSeq(w, 1, p) = a
  <2>1. \A i \in 1 .. p : i \in 1 .. p + q /\ 1 + i - 1 = i /\ i <= p /\ i \in 1 .. p - 1 + 1
    BY <1>1
  <2>2. 1 \in Int /\ p \in Int /\ \A i \in 1 .. p : w[i] \in S
    BY <1>1, <1>3, <2>1
  <2>3. /\ SubSeq(w, 1, p) \in Seq(S)
        /\ Len(SubSeq(w, 1, p)) = IF 1 <= p THEN p - 1 + 1 ELSE 0
        /\ \A i \in 1 .. p - 1 + 1 : SubSeq(w, 1, p)[i] = w[1 + i - 1]
    BY <2>2, SubSeqProperties
  <2>4. Len(SubSeq(w, 1, p)) = Len(a)
    BY <1>1, <2>3 DEF p
  <2>5. \A i \in 1 .. Len(a) : SubSeq(w, 1, p)[i] = a[i]
    <3>1. \A i \in 1 .. p : SubSeq(w, 1, p)[i] = w[i]
      BY <2>1, <2>3
    <3>2. \A i \in 1 .. p : w[i] = a[i]
      BY <1>2, <2>1
    <3>3. QED
      BY <3>1, <3>2 DEF p
  <2>6. QED
    BY <2>3, <2>4, <2>5, SeqEqual
<1>5. SubSeq(w, p + 1, p + q) = b
  <2>1. \A i \in 1 .. q : /\ p + i \in 1 .. p + q /\ p + 1 + i - 1 = p + i /\ ~(p + i <= p)
                          /\ (p + i) - p = i /\ i \in 1 .. (p + q) - (p + 1) + 1
    BY <1>1
  <2>2. p + 1 \in Int /\ p + q \in Int /\ \A i \in p + 1 .. p + q : w[i] \in S
    BY <1>1, <1>3
  <2>3. /\ SubSeq(w, p + 1, p + q) \in Seq(S)
        /\ Len(SubSeq(w, p + 1, p + q))
             = IF p + 1 <= p + q THEN (p + q) - (p + 1) + 1 ELSE 0
        /\ \A i \in 1 .. (p + q) - (p + 1) + 1 :
             SubSeq(w, p + 1, p + q)[i] = w[p + 1 + i - 1]
    BY <2>2, SubSeqProperties
  <2>4. Len(SubSeq(w, p + 1, p + q)) = Len(b)
    BY <1>1, <2>3 DEF q
  <2>5. \A i \in 1 .. Len(b) : SubSeq(w, p + 1, p + q)[i] = b[i]
    <3>1. \A i \in 1 .. q : SubSeq(w, p + 1, p + q)[i] = w[p + i]
      BY <2>1, <2>3
    <3>2. \A i \in 1 .. q : w[p + i] = b[i]
      BY <1>2, <2>1
    <3>3. QED
      BY <3>1, <3>2 DEF q
  <2>6. QED
    BY <2>3, <2>4, <2>5, SeqEqual
<1>6. QED
  BY <1>2, <1>4, <1>5 DEF p, w

LEMMA HoldsIs ==
  ASSUME NEW S, NEW s \in Seq(S), NEW t
  PROVE  Holds(s, t) <=> \E i \in 1 .. Len(s) : s[i] = t
<1>1. DOMAIN s = 1 .. Len(s)
  BY LenProperties
<1>2. QED
  BY <1>1 DEF Holds, ToSet

LEMMA HoldsJoined ==
  ASSUME NEW S, NEW a \in Seq(S), NEW b \in Seq(S), NEW t
  PROVE  Holds(a \o b, t) <=> Holds(a, t) \/ Holds(b, t)
<1> DEFINE p == Len(a)
           q == Len(b)
           w == a \o b
<1>1. p \in Nat /\ q \in Nat
  BY LenProperties
<1>2. /\ w \in Seq(S) /\ Len(w) = p + q
      /\ \A i \in 1 .. p + q : w[i] = IF i <= p THEN a[i] ELSE b[i - p]
  BY ConcatProperties
<1>3. /\ Holds(a, t) <=> \E i \in 1 .. p : a[i] = t
      /\ Holds(b, t) <=> \E i \in 1 .. q : b[i] = t
  BY HoldsIs
<1>4. Holds(w, t) <=> \E i \in 1 .. p + q : w[i] = t
  BY <1>2, HoldsIs
<1> HIDE DEF p, q, w
<1>5. ASSUME NEW i \in 1 .. p + q, w[i] = t PROVE Holds(a, t) \/ Holds(b, t)
  <2>1. CASE i <= p
    <3>1. i \in 1 .. p /\ a[i] = t
      BY <1>1, <1>2, <1>5, <2>1
    <3>2. QED
      BY <1>3, <3>1
  <2>2. CASE ~(i <= p)
    <3>1. i - p \in 1 .. q /\ b[i - p] = t
      BY <1>1, <1>2, <1>5, <2>2
    <3>2. QED
      BY <1>3, <3>1
  <2>3. QED
    BY <2>1, <2>2
<1>6. ASSUME NEW i \in 1 .. p, a[i] = t PROVE Holds(w, t)
  <2>1. i \in 1 .. p + q /\ w[i] = t
    BY <1>1, <1>2, <1>6
  <2>2. QED
    BY <1>4, <2>1
<1>7. ASSUME NEW i \in 1 .. q, b[i] = t PROVE Holds(w, t)
  <2>1. p + i \in 1 .. p + q /\ ~(p + i <= p) /\ (p + i) - p = i
    BY <1>1
  <2>2. w[p + i] = t
    BY <1>2, <1>7, <2>1
  <2>3. QED
    BY <1>4, <2>1, <2>2
<1>8. QED
  BY <1>3, <1>4, <1>5, <1>6, <1>7 DEF w

\* A string cut in front of its first t.
LEMMA UntilCuts ==
  ASSUME NEW s \in Seq(Tokens), NEW t
  PROVE  /\ Until(s, t) \in Seq(Tokens) /\ Rest(s, t) \in Seq(Tokens)
         /\ Until(s, t) \o Rest(s, t) = s
         /\ Rest(s, t) # <<>> => Rest(s, t)[1] = t
         /\ ~Holds(Until(s, t), t)
<1>1. PICK p \in 0 .. Len(s) :
        /\ Until(s, t) = SubSeq(s, 1, p) /\ Rest(s, t) = SubSeq(s, p + 1, Len(s))
        /\ p < Len(s) => s[p + 1] = t
        /\ \A i \in 1 .. p : s[i] # t
  BY UntilAndRest
<1>2. PICK m \in Nat : m = Len(s)
  BY LenProperties
<1>3. p \in Nat /\ p <= m
  BY <1>1, <1>2
<1>4. \A i \in 1 .. m : s[i] \in Tokens
  BY <1>2, ElementOfSeq
<1>5. SubSeq(s, 1, p) \in Seq(Tokens)
  <2>1. 1 \in Int /\ p \in Int /\ \A i \in 1 .. p : s[i] \in Tokens
    BY <1>3, <1>4
  <2>2. QED
    BY <2>1, SubSeqProperties
<1>6. /\ SubSeq(s, p + 1, m) \in Seq(Tokens)
      /\ Len(SubSeq(s, p + 1, m)) = IF p + 1 <= m THEN m - (p + 1) + 1 ELSE 0
      /\ \A i \in 1 .. m - (p + 1) + 1 : SubSeq(s, p + 1, m)[i] = s[p + 1 + i - 1]
  <2>1. p + 1 \in Int /\ m \in Int /\ \A i \in p + 1 .. m : s[i] \in Tokens
    BY <1>3, <1>4
  <2>2. QED
    BY <2>1, SubSeqProperties
<1>7. SubSeq(s, 1, p) \o SubSeq(s, p + 1, m) = s
  <2>1. 1 \in 1 .. Len(s) + 1 /\ p \in 1 - 1 .. Len(s) /\ Len(s) \in p .. Len(s)
    BY <1>2, <1>3
  <2>2. SubSeq(s, 1, p) \o SubSeq(s, p + 1, Len(s)) = SubSeq(s, 1, Len(s))
    BY <2>1, ConcatAdjacentSubSeq
  <2>3. QED
    BY <1>2, <2>2, SubSeqFull
<1>8. SubSeq(s, p + 1, m) # <<>> => SubSeq(s, p + 1, m)[1] = t
  <2> SUFFICES ASSUME SubSeq(s, p + 1, m) # <<>> PROVE SubSeq(s, p + 1, m)[1] = t
    OBVIOUS
  <2>1. Len(SubSeq(s, p + 1, m)) # 0
    BY <1>6, EmptySeq
  <2>2. p + 1 <= m
    BY <1>6, <2>1
  <2>3. 1 \in 1 .. m - (p + 1) + 1 /\ p + 1 + 1 - 1 = p + 1 /\ p < Len(s)
    BY <1>2, <1>3, <2>2
  <2>4. SubSeq(s, p + 1, m)[1] = s[p + 1]
    BY <1>6, <2>3
  <2>5. QED
    BY <1>1, <2>3, <2>4
<1>9. ~Holds(SubSeq(s, 1, p), t)
  <2>1. 1 \in Int /\ p \in Int /\ \A i \in 1 .. p : s[i] \in Tokens
    BY <1>3, <1>4
  <2>2. /\ Len(SubSeq(s, 1, p)) = IF 1 <= p THEN p - 1 + 1 ELSE 0
        /\ \A i \in 1 .. p - 1 + 1 : SubSeq(s, 1, p)[i] = s[1 + i - 1]
    BY <2>1, SubSeqProperties
  <2>3. Len(SubSeq(s, 1, p)) = p
    BY <1>3, <2>2
  <2>4. \A i \in 1 .. p : 1 + i - 1 = i /\ i \in 1 .. p - 1 + 1
    BY <1>3
  <2>5. \A i \in 1 .. p : SubSeq(s, 1, p)[i] = s[i]
    BY <2>2, <2>4
  <2>6. PICK u \in Seq(Tokens) : u = SubSeq(s, 1, p)
    BY <1>5
  <2>7. Len(u) = p /\ \A i \in 1 .. p : u[i] # t
    BY <1>1, <2>3, <2>5, <2>6
  <2>8. ~Holds(u, t)
    BY <2>7, HoldsIs
  <2>9. QED
    BY <2>6, <2>8
<1>10. QED
  BY <1>1, <1>2, <1>5, <1>6, <1>7, <1>8, <1>9

\* And only there: a string without t, with what begins with t behind it.
LEMMA CutIs ==
  ASSUME NEW a \in Seq(Tokens), NEW b \in Seq(Tokens), NEW t, ~Holds(a, t), b # <<>> => b[1] = t
  PROVE  Until(a \o b, t) = a /\ Rest(a \o b, t) = b
<1> DEFINE p == Len(a)
           q == Len(b)
           w == a \o b
           I == {j \in 1 .. Len(w) : w[j] = t}
           least == CHOOSE x \in I : \A y \in I : x =< y
<1>1. p \in Nat /\ q \in Nat /\ (b = <<>> <=> q = 0)
  BY LenProperties, EmptySeq
<1>2. /\ w \in Seq(Tokens) /\ Len(w) = p + q
      /\ \A i \in 1 .. p + q : w[i] = IF i <= p THEN a[i] ELSE b[i - p]
  BY ConcatProperties
<1>3. SubSeq(w, 1, p) = a /\ SubSeq(w, p + 1, Len(w)) = b
  BY ComesApart
<1>4. Until(w, t) = IF (IF I # {} THEN least ELSE 0) = 0 THEN w
                    ELSE SubSeq(w, 1, (IF I # {} THEN least ELSE 0) - 1)
  BY DEF Until, SelectInSeq, Min
<1>5. Until(w, t) = a => Rest(w, t) = b
  BY <1>3 DEF Rest
<1>6. \A i \in 1 .. p : a[i] # t
  BY HoldsIs
<1>7. \A i \in 1 .. p : i \notin I
  <2>1. \A i \in 1 .. p : i \in 1 .. p + q /\ i <= p
    BY <1>1
  <2>2. QED
    BY <1>2, <1>6, <2>1
<1>8. CASE b = <<>>
  <2>1. w = a
    BY <1>8, ConcatEmptySeq
  <2>2. I = {}
    BY <1>1, <1>2, <1>7, <1>8
  <2>3. Until(w, t) = w
    BY <1>4, <2>2
  <2> HIDE DEF w
  <2>4. QED
    BY <1>5, <2>1, <2>3 DEF w
<1>9. CASE b # <<>>
  <2>1. p + 1 \in 1 .. p + q /\ ~(p + 1 <= p) /\ (p + 1) - p = 1
    BY <1>1, <1>9
  <2>2. w[p + 1] = t
    BY <1>2, <1>9, <2>1
  <2>3. p + 1 \in I /\ \A y \in I : y \in Nat /\ p + 1 <= y
    <3>1. p + 1 \in I
      BY <1>2, <2>1, <2>2
    <3>2. \A y \in I : y \in 1 .. p + q
      BY <1>2
    <3> HIDE DEF I
    <3>3. ASSUME NEW y \in I PROVE y \in Nat /\ p + 1 <= y
      <4>1. y \in 1 .. p + q /\ y \notin 1 .. p
        BY <1>7, <3>2
      <4>2. QED
        BY <1>1, <4>1
    <3>4. QED
      BY <3>1, <3>3
  <2> HIDE DEF I
  <2>4. least \in I /\ \A y \in I : least <= y
    BY <2>3
  <2> HIDE DEF least
  <2>5. least \in Nat /\ least <= p + 1 /\ p + 1 <= least
    BY <2>3, <2>4
  <2>6. least = p + 1
    BY <1>1, <2>5
  <2>7. I # {} /\ least # 0 /\ least - 1 = p
    BY <1>1, <2>4, <2>6
  <2>8. Until(w, t) = SubSeq(w, 1, p)
    BY <1>4, <2>7
  <2> HIDE DEF w
  <2>9. QED
    BY <1>3, <1>5, <2>8 DEF w
<1>10. QED
  BY <1>8, <1>9

\* Split reads a string token by token.
Rows == Seq(Seq(Tokens)) \ {<<>>}
Extended(parts, x, t) ==
  IF x = t THEN Append(parts, <<>>) ELSE [parts EXCEPT ![Len(parts)] = Append(@, x)]
IsSplit(f, s, t) ==
  f = [n \in 0 .. Len(s) |->
         IF n = 0 THEN <<<<>>>>
         ELSE IF s[n] = t THEN Append(f[n - 1], <<>>)
         ELSE [f[n - 1] EXCEPT ![Len(f[n - 1])] = Append(@, s[n])]]

LEMMA ExtendedTyped ==
  ASSUME NEW parts \in Rows, NEW x \in Tokens, NEW t
  PROVE  Extended(parts, x, t) \in Rows
<1>1. parts \in Seq(Seq(Tokens)) /\ parts # <<>> /\ <<>> \in Seq(Tokens)
  BY EmptySeq DEF Rows
<1>2. Append(parts, <<>>) \in Rows
  BY <1>1, AppendProperties DEF Rows
<1>3. Len(parts) \in 1 .. Len(parts)
  BY <1>1, EmptySeq
<1>4. parts[Len(parts)] \in Seq(Tokens)
  BY <1>1, <1>3, ElementOfSeq
<1>5. PICK w : w = Append(parts[Len(parts)], x)
  OBVIOUS
<1>6. w \in Seq(Tokens)
  BY <1>4, <1>5, AppendProperties
<1>7. /\ [parts EXCEPT ![Len(parts)] = w] \in Seq(Seq(Tokens))
      /\ Len([parts EXCEPT ![Len(parts)] = w]) = Len(parts)
  BY <1>1, <1>3, <1>6, ExceptSeq
<1>8. [parts EXCEPT ![Len(parts)] = w] \in Rows
  BY <1>3, <1>7, EmptySeq DEF Rows
<1>9. QED
  BY <1>2, <1>5, <1>8, Zenon DEF Extended

LEMMA ExtendedIs ==
  ASSUME NEW parts \in Seq(Seq(Tokens)), NEW w \in Seq(Tokens), NEW x \in Tokens, NEW t, x # t
  PROVE  Extended(Append(parts, w), x, t) = Append(parts, Append(w, x))
<1> DEFINE v == Append(parts, w)
           u == Append(parts, Append(w, x))
           k == Len(parts)
<1>1. k \in Nat /\ Append(w, x) \in Seq(Tokens)
  BY LenProperties, AppendProperties
<1>2. /\ v \in Seq(Seq(Tokens)) /\ Len(v) = k + 1 /\ v[k + 1] = w
      /\ \A i \in 1 .. k : v[i] = parts[i]
  BY AppendProperties
<1>3. /\ u \in Seq(Seq(Tokens)) /\ Len(u) = k + 1 /\ u[k + 1] = Append(w, x)
      /\ \A i \in 1 .. k : u[i] = parts[i]
  BY <1>1, AppendProperties
<1> HIDE DEF u, v, k
<1> DEFINE e == [v EXCEPT ![k + 1] = Append(w, x)]
<1>4. Extended(v, x, t) = e
  <2>1. Extended(v, x, t) = [v EXCEPT ![Len(v)] = Append(v[Len(v)], x)]
    BY DEF Extended
  <2>2. QED
    BY <1>2, <2>1
<1>5. k + 1 \in 1 .. Len(v)
  BY <1>1, <1>2
<1>6. /\ e \in Seq(Seq(Tokens)) /\ Len(e) = Len(v)
      /\ \A j \in 1 .. Len(v) : e[j] = IF j = k + 1 THEN Append(w, x) ELSE v[j]
  BY <1>1, <1>2, <1>5, ExceptSeq
<1> HIDE DEF e
<1>7. ASSUME NEW j \in 1 .. Len(e) PROVE e[j] = u[j]
  <2>1. j \in 1 .. Len(v) /\ j \in 1 .. k + 1
    BY <1>2, <1>6
  <2>2. CASE j = k + 1
    BY <1>3, <1>6, <2>1, <2>2
  <2>3. CASE j # k + 1
    <3>1. j \in 1 .. k
      BY <1>1, <2>1, <2>3
    <3>2. QED
      BY <1>2, <1>3, <1>6, <2>1, <2>3, <3>1
  <2>4. QED
    BY <2>2, <2>3
<1>8. e = u
  <2>1. Len(e) = Len(u) /\ \A i \in 1 .. Len(e) : e[i] = u[i]
    BY <1>2, <1>3, <1>6, <1>7
  <2>2. e \in Seq(Seq(Tokens)) /\ u \in Seq(Seq(Tokens))
    BY <1>3, <1>6
  <2>3. QED
    BY <2>1, <2>2, SeqEqual
<1>9. QED
  BY <1>4, <1>8 DEF u, v

Reads(f, s, t) ==
  f[0] = <<<<>>>> /\ \A n \in 1 .. Len(s) : f[n] = Extended(f[n - 1], s[n], t)

LEMMA SplitReads ==
  ASSUME NEW s \in Seq(Tokens), NEW t
  PROVE  \E f : Split(s, t) = f[Len(s)] /\ Reads(f, s, t) /\ \A n \in 0 .. Len(s) : f[n] \in Rows
<1> DEFINE m == Len(s)
           step == [p \in Rows \X (1 .. m) |-> Extended(p[1], s[p[2]], t)]
           f == CHOOSE f : IsSplit(f, s, t)
<1>1. m \in Nat /\ \A n \in 1 .. m : s[n] \in Tokens
  BY LenProperties, ElementOfSeq
<1>2. <<<<>>>> \in Rows
  <2>1. <<>> \in Seq(Tokens)
    BY EmptySeq
  <2>2. QED
    BY <2>1 DEF Rows
<1>3. Split(s, t) = f[m]
  BY DEF Split, IsSplit
<1> HIDE DEF m
<1>4. \A r \in Rows, n \in 1 .. m : Extended(r, s[n], t) \in Rows
  BY <1>1, ExtendedTyped
<1>5. \A r \in Rows, n \in 1 .. m : step[<<r, n>>] = Extended(r, s[n], t)
  <2> SUFFICES ASSUME NEW r \in Rows, NEW n \in 1 .. m
               PROVE  step[<<r, n>>] = Extended(r, s[n], t)
    OBVIOUS
  <2>1. <<r, n>> \in Rows \X (1 .. m) /\ <<r, n>>[1] = r /\ <<r, n>>[2] = n
    OBVIOUS
  <2>2. step[<<r, n>>] = Extended(<<r, n>>[1], s[<<r, n>>[2]], t)
    BY <2>1, Zenon DEF step
  <2>3. QED
    BY <2>1, <2>2, Zenon
<1> HIDE DEF step
<1>6. PICK g : /\ Iterates(g, <<<<>>>>, step, m)
               /\ \A n \in 1 .. m : g[n] = step[<<g[n - 1], n>>]
               /\ \A n \in 0 .. m : g[n] \in Rows
  <2>1. \A r \in Rows, n \in 1 .. m : step[<<r, n>>] \in Rows
    BY <1>4, <1>5
  <2>2. QED
    BY <1>1, <1>2, <2>1, LoopRuns
<1>7. IsSplit(g, s, t)
  <2>1. \A n \in 0 .. m : n # 0 => n \in 1 .. m /\ n - 1 \in 0 .. m
    BY <1>1
  <2>2. \A n \in 0 .. m : (IF n = 0 THEN <<<<>>>> ELSE step[<<g[n - 1], n>>])
                            = IF n = 0 THEN <<<<>>>> ELSE Extended(g[n - 1], s[n], t)
    BY <1>5, <1>6, <2>1
  <2>3. g = [n \in 0 .. m |-> IF n = 0 THEN <<<<>>>> ELSE Extended(g[n - 1], s[n], t)]
    BY <1>6, <2>2, Zenon DEF Iterates
  <2>4. QED
    BY <2>3, Zenon DEF IsSplit, Extended, m
<1>8. IsSplit(f, s, t)
  BY <1>7
<1> HIDE DEF f
<1>9. \A n \in 0 .. m : f[n] = IF n = 0 THEN <<<<>>>> ELSE Extended(f[n - 1], s[n], t)
  <2>1. f = [n \in 0 .. m |-> IF n = 0 THEN <<<<>>>> ELSE Extended(f[n - 1], s[n], t)]
    BY <1>8, Zenon DEF IsSplit, Extended, m
  <2>2. QED
    BY <2>1, Zenon
<1>10. 0 \in 0 .. m /\ \A n \in 1 .. m : n \in 0 .. m /\ n # 0
  BY <1>1
<1>11. f[0] = <<<<>>>> /\ \A n \in 1 .. m : f[n] = Extended(f[n - 1], s[n], t)
  BY <1>9, <1>10
<1>12. Reads(f, s, t)
  BY <1>11 DEF Reads, m
<1>13. \A n \in 0 .. m : f[n] \in Rows
  <2>1. \A n \in 1 .. m : f[n - 1] \in Rows => f[n] \in Rows
    BY <1>4, <1>11
  <2>2. f[0] \in Rows
    BY <1>2, <1>11
  <2>3. QED
    BY <1>1, <2>1, <2>2, Stepwise
<1>14. QED
  BY <1>3, <1>12, <1>13 DEF m

\* f has read these parts, and a t, after k steps, and reads p from there on.
ReadsOn(f, k, parts, p, t) ==
  /\ f[k] = Append(parts, <<>>)
  /\ \A i \in 1 .. Len(p) : f[k + i] = Extended(f[k + i - 1], p[i], t)

\* Behind a t, all that is read up to the next one becomes one more part.
LEMMA TailReads ==
  ASSUME NEW p \in Seq(Tokens), NEW t, ~Holds(p, t), NEW parts \in Seq(Seq(Tokens)),
         NEW f, NEW k \in Nat, ReadsOn(f, k, parts, p, t)
  PROVE  f[k + Len(p)] = Append(parts, p)
<1> DEFINE m == Len(p)
           G == {i \in Nat : i <= m => f[k + i] = Append(parts, SubSeq(p, 1, i))}
<1>1. m \in Nat /\ (\A i \in 1 .. m : p[i] \in Tokens) /\ SubSeq(p, 1, m) = p
  BY LenProperties, ElementOfSeq, SubSeqFull
<1>2. \A i \in 1 .. m : p[i] # t
  BY HoldsIs
<1>3. 0 \in G
  <2>1. k + 0 = k /\ SubSeq(p, 1, 0) = <<>>
    BY SubSeqEmpty
  <2>2. QED
    BY <2>1 DEF ReadsOn
<1>4. ASSUME NEW i \in Nat, i \in G PROVE i + 1 \in G
  <2> SUFFICES ASSUME i + 1 <= m PROVE f[k + (i + 1)] = Append(parts, SubSeq(p, 1, i + 1))
    OBVIOUS
  <2>1. i + 1 \in 1 .. m /\ k + (i + 1) - 1 = k + i /\ i <= m
    BY <1>1
  <2>2. f[k + i] = Append(parts, SubSeq(p, 1, i))
    BY <1>4, <2>1
  <2> HIDE DEF G
  <2>3. f[k + (i + 1)] = Extended(f[k + i], p[i + 1], t)
    BY <2>1 DEF ReadsOn
  <2>4. SubSeq(p, 1, i) \in Seq(Tokens)
    <3>1. 1 \in Int /\ i \in Int /\ \A j \in 1 .. i : p[j] \in Tokens
      BY <1>1, <2>1
    <3>2. QED
      BY <3>1, SubSeqProperties
  <2>5. Extended(f[k + i], p[i + 1], t) = Append(parts, Append(SubSeq(p, 1, i), p[i + 1]))
    <3>1. PICK x, w : x = p[i + 1] /\ w = SubSeq(p, 1, i)
      OBVIOUS
    <3>2. x \in Tokens /\ x # t /\ w \in Seq(Tokens)
      BY <1>1, <1>2, <2>1, <2>4, <3>1
    <3>3. Extended(Append(parts, w), x, t) = Append(parts, Append(w, x))
      BY <3>2, ExtendedIs
    <3>4. QED
      BY <2>2, <3>1, <3>3
  <2>6. SubSeq(p, 1, i + 1) = Append(SubSeq(p, 1, i), p[i + 1])
    <3>1. 1 \in 1 .. Len(p) /\ i + 1 \in 1 .. Len(p) /\ (i + 1) - 1 = i
      BY <1>1, <2>1
    <3>2. SubSeq(p, 1, i + 1) = SubSeq(p, 1, (i + 1) - 1) \o <<p[i + 1]>>
      BY <3>1, SubSeqRecursiveSecond
    <3>3. Append(SubSeq(p, 1, i), p[i + 1]) = SubSeq(p, 1, i) \o <<p[i + 1]>>
      BY <1>1, <2>1, <2>4, AppendIsConcat
    <3>4. QED
      BY <3>1, <3>2, <3>3
  <2>7. QED
    BY <2>3, <2>5, <2>6
<1> HIDE DEF G
<1>5. G = Nat
  <2>1. G \in SUBSET Nat
    BY DEF G
  <2>2. QED
    BY <1>3, <1>4, <2>1, SetInduction
<1>6. m \in G /\ m <= m
  BY <1>1, <1>5
<1>7. f[k + m] = Append(parts, SubSeq(p, 1, m))
  BY <1>6 DEF G
<1>8. QED
  BY <1>1, <1>7

\* A string without t is one part.
LEMMA SplitOfOne ==
  ASSUME NEW s \in Seq(Tokens), NEW t, ~Holds(s, t)
  PROVE  Split(s, t) = <<s>>
<1>1. PICK f : Split(s, t) = f[Len(s)] /\ Reads(f, s, t)
  BY SplitReads
<1>2. PICK m \in Nat : m = Len(s)
  BY LenProperties
<1>3. f[0] = Append(<<>>, <<>>) /\ <<>> \in Seq(Seq(Tokens))
  BY <1>1, EmptySeq DEF Reads
<1>4. ReadsOn(f, 0, <<>>, s, t)
  <2>1. \A i \in 1 .. Len(s) : 0 + i = i /\ 0 + i - 1 = i - 1
    BY <1>2
  <2>2. QED
    BY <1>1, <1>3, <2>1 DEF Reads, ReadsOn
<1>5. f[0 + Len(s)] = Append(<<>>, s)
  <2>1. 0 \in Nat /\ <<>> \in Seq(Seq(Tokens)) /\ ReadsOn(f, 0, <<>>, s, t)
    BY <1>3, <1>4
  <2>2. QED
    BY <2>1, TailReads, Zenon
<1>6. 0 + Len(s) = Len(s) /\ Append(<<>>, s) = <<s>>
  BY <1>2
<1>7. QED
  BY <1>1, <1>5, <1>6

\* A part behind a t comes last.
LEMMA SplitNext ==
  ASSUME NEW q \in Seq(Tokens), NEW p \in Seq(Tokens), NEW t \in Tokens, ~Holds(p, t)
  PROVE  /\ Split(q, t) \in Rows
         /\ Split((q \o <<t>>) \o p, t) = Append(Split(q, t), p)
<1> DEFINE k == Len(q)
           m == Len(p)
           v == q \o <<t>>
           w == v \o p
<1>1. k \in Nat /\ m \in Nat
  BY LenProperties
<1>2. /\ v \in Seq(Tokens) /\ Len(v) = k + 1 /\ v[k + 1] = t
      /\ \A i \in 1 .. k : v[i] = q[i]
  <2>1. v = Append(q, t)
    BY AppendIsConcat
  <2>2. QED
    BY <2>1, AppendProperties
<1> HIDE DEF v
<1>3. /\ w \in Seq(Tokens) /\ Len(w) = (k + 1) + m
      /\ \A i \in 1 .. (k + 1) + m : w[i] = IF i <= k + 1 THEN v[i] ELSE p[i - (k + 1)]
  <2>1. /\ w \in Seq(Tokens) /\ Len(w) = Len(v) + Len(p)
        /\ \A i \in 1 .. Len(v) + Len(p) : w[i] = IF i <= Len(v) THEN v[i] ELSE p[i - Len(v)]
    BY <1>2, ConcatProperties
  <2>2. QED
    BY <1>2, <2>1
<1> HIDE DEF w
<1>4. /\ \A i \in 1 .. k : i \in 1 .. (k + 1) + m /\ w[i] = q[i]
      /\ k + 1 \in 1 .. (k + 1) + m /\ w[k + 1] = t
      /\ \A i \in 1 .. m : (k + 1) + i \in 1 .. (k + 1) + m /\ w[(k + 1) + i] = p[i]
  <2>1. \A i \in 1 .. k : i \in 1 .. (k + 1) + m /\ i <= k + 1
    BY <1>1
  <2>2. k + 1 \in 1 .. (k + 1) + m /\ k + 1 <= k + 1
    BY <1>1
  <2>3. \A i \in 1 .. m : /\ (k + 1) + i \in 1 .. (k + 1) + m /\ ~((k + 1) + i <= k + 1)
                          /\ (k + 1) + i - (k + 1) = i
    BY <1>1
  <2>4. \A i \in 1 .. k : w[i] = q[i]
    BY <1>2, <1>3, <2>1
  <2>5. w[k + 1] = t
    BY <1>2, <1>3, <2>2
  <2>6. \A i \in 1 .. m : w[(k + 1) + i] = p[i]
    BY <1>3, <2>3
  <2>7. QED
    BY <2>1, <2>2, <2>3, <2>4, <2>5, <2>6
<1>5. PICK f : Split(w, t) = f[Len(w)] /\ Reads(f, w, t)
  BY <1>3, SplitReads
<1>6. PICK g : /\ Split(q, t) = g[k] /\ Reads(g, q, t)
               /\ \A n \in 0 .. Len(q) : g[n] \in Rows
  BY SplitReads
<1>7. \A i \in 1 .. (k + 1) + m : f[i] = Extended(f[i - 1], w[i], t)
  BY <1>3, <1>5 DEF Reads
<1>8. \A i \in 1 .. k : g[i] = Extended(g[i - 1], q[i], t)
  BY <1>6 DEF Reads
<1>9. f[k] = g[k]
  <2>1. f[0] = g[0]
    BY <1>5, <1>6 DEF Reads
  <2>2. ASSUME NEW n \in 1 .. k, f[n - 1] = g[n - 1] PROVE f[n] = g[n]
    <3>1. f[n] = Extended(f[n - 1], w[n], t) /\ g[n] = Extended(g[n - 1], q[n], t) /\ w[n] = q[n]
      BY <1>4, <1>7, <1>8
    <3>2. QED
      BY <2>2, <3>1
  <2>3. QED
    BY <1>1, <2>1, <2>2, RunAlike
<1>10. k \in 0 .. Len(q) /\ g[k] \in Rows
  BY <1>1, <1>6
<1>11. f[k + 1] = Append(g[k], <<>>)
  <2>1. f[k + 1] = Extended(f[k + 1 - 1], w[k + 1], t) /\ k + 1 - 1 = k
    BY <1>1, <1>4, <1>7
  <2>2. QED
    BY <1>4, <1>9, <2>1 DEF Extended
<1>12. ReadsOn(f, k + 1, g[k], p, t)
  BY <1>4, <1>7, <1>11 DEF ReadsOn
<1>13. f[(k + 1) + Len(p)] = Append(g[k], p)
  <2>1. k + 1 \in Nat /\ g[k] \in Seq(Seq(Tokens))
    BY <1>1, <1>10 DEF Rows
  <2>2. PICK n, parts : n = k + 1 /\ parts = g[k]
    OBVIOUS
  <2>3. n \in Nat /\ parts \in Seq(Seq(Tokens)) /\ ReadsOn(f, n, parts, p, t)
    BY <1>12, <2>1, <2>2
  <2>4. f[n + Len(p)] = Append(parts, p)
    BY <2>3, TailReads
  <2>5. QED
    BY <2>2, <2>4
<1>14. QED
  BY <1>3, <1>5, <1>6, <1>10, <1>13 DEF w, v

\* The first token of a string that something follows.
LEMMA TailJoined ==
  ASSUME NEW S, NEW a \in Seq(S), a # <<>>, NEW b \in Seq(S)
  PROVE  /\ a \o b \in Seq(S) /\ a \o b # <<>> /\ (a \o b)[1] = a[1]
         /\ Tail(a) \in Seq(S) /\ Tail(a \o b) = Tail(a) \o b
<1> DEFINE w == a \o b
           p == Len(a)
           q == Len(b)
<1>1. p \in Nat /\ q \in Nat /\ p # 0
  BY LenProperties, EmptySeq
<1>2. /\ w \in Seq(S) /\ Len(w) = p + q
      /\ \A i \in 1 .. p + q : w[i] = IF i <= p THEN a[i] ELSE b[i - p]
  BY ConcatProperties
<1> HIDE DEF w
<1>3. w # <<>>
  BY <1>1, <1>2, EmptySeq
<1>4. 1 \in 1 .. p + q /\ 1 <= p
  BY <1>1
<1>5. w[1] = a[1]
  BY <1>2, <1>4
<1>6. /\ Tail(w) \in Seq(S) /\ Len(Tail(w)) = (p + q) - 1
      /\ \A i \in 1 .. (p + q) - 1 : Tail(w)[i] = w[i + 1]
  BY <1>2, <1>3, HeadTailProperties
<1>7. /\ Tail(a) \in Seq(S) /\ Len(Tail(a)) = p - 1
      /\ \A i \in 1 .. p - 1 : Tail(a)[i] = a[i + 1]
  BY HeadTailProperties
<1>8. PICK v \in Seq(S) : v = Tail(a)
  BY <1>7
<1>9. /\ v \o b \in Seq(S) /\ Len(v \o b) = (p - 1) + q
      /\ \A i \in 1 .. (p - 1) + q : (v \o b)[i] = IF i <= p - 1 THEN v[i] ELSE b[i - (p - 1)]
  BY <1>7, <1>8, ConcatProperties
<1> HIDE DEF p, q
<1>10. \A i \in 1 .. (p + q) - 1 : Tail(w)[i] = (v \o b)[i]
  <2> SUFFICES ASSUME NEW i \in 1 .. (p + q) - 1 PROVE Tail(w)[i] = (v \o b)[i]
    OBVIOUS
  <2>1. i \in Nat /\ i \in 1 .. (p - 1) + q
    BY <1>1
  <2>2. PICK k \in Nat : k = i + 1
    BY <2>1
  <2>3. k \in 1 .. p + q
    BY <1>1, <2>2
  <2>4. Tail(w)[i] = IF k <= p THEN a[k] ELSE b[k - p]
    BY <1>2, <1>6, <2>2, <2>3
  <2>5. CASE i <= p - 1
    <3>1. k <= p /\ i \in 1 .. p - 1
      BY <1>1, <2>1, <2>2, <2>5
    <3>2. QED
      BY <1>7, <1>8, <1>9, <2>1, <2>2, <2>4, <2>5, <3>1
  <2>6. CASE ~(i <= p - 1)
    <3>1. ~(k <= p) /\ k - p = i - (p - 1)
      BY <1>1, <2>1, <2>2, <2>6
    <3>2. QED
      BY <1>9, <2>1, <2>4, <2>6, <3>1
  <2>7. QED
    BY <2>5, <2>6
<1>11. Tail(w) = v \o b
  <2>1. Len(Tail(w)) = Len(v \o b)
    BY <1>1, <1>6, <1>9
  <2>2. \A i \in 1 .. Len(Tail(w)) : Tail(w)[i] = (v \o b)[i]
    BY <1>6, <1>10
  <2>3. PICK x \in Seq(S) : x = Tail(w)
    BY <1>6
  <2>4. PICK y \in Seq(S) : y = v \o b
    BY <1>9
  <2>5. QED
    BY <2>1, <2>2, <2>3, <2>4, SeqEqual
<1>12. QED
  BY <1>2, <1>3, <1>5, <1>7, <1>8, <1>11 DEF w
=============================================================================
