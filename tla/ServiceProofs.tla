----------------------------- MODULE ServiceProofs -----------------------------
(***************************************************************************)
(* What one start of an application takes in and answers, for all values   *)
(* the application, the browser and the provider may give.                 *)
(***************************************************************************)
EXTENDS Service, ConfigProofs, FiniteSetTheorems

-----------------------------------------------------------------------------
(* The builder. *)

LEMMA SomeIsOption ==
  ASSUME NEW S, NEW x \in S
  PROVE  IsOption(Some(x), S)
<1>1. <<x>> \in Seq(S) /\ Len(<<x>>) = 1
  OBVIOUS
<1>2. QED
  BY <1>1 DEF IsOption, Some

LEMMA NoneIsOption ==
  ASSUME NEW S
  PROVE  IsOption(None, S)
<1>1. <<>> \in Seq(S) /\ Len(<<>>) = 0
  BY EmptySeq
<1>2. QED
  BY <1>1 DEF IsOption, None

BuilderFields ==
  {"issuer_url", "redirect_url", "post_logout_redirect_url", "client_id", "client_secret",
   "scopes", "persist_claims", "callback_passthrough_params", "pre_auth_ttl", "post_auth_ttl",
   "max_session_lifetime", "session_key_source", "return_to_prefix", "session_expiry"}

LEMMA FieldsAre == DOMAIN NewBuilder = BuilderFields
BY DEF NewBuilder, RequiredFields, OptionalFields, BuilderFields

LEMMA NewBuilderFits == IsBuilder(NewBuilder)
<1>1. \A f \in BuilderFields : NewBuilder[f] = None
  BY DEF NewBuilder, RequiredFields, OptionalFields, BuilderFields
<1> HIDE DEF NewBuilder
<1>2. QED
  BY <1>1, NoneIsOption DEF IsBuilder, BuilderFields

\* x is what the field f can hold.
Takes(f, x) ==
  /\ f \in BuilderFields
  /\ f \in {"issuer_url", "redirect_url", "post_logout_redirect_url"} => x \in Urls
  /\ f \in {"client_id", "client_secret"} => x \in Texts
  /\ f \in {"scopes", "persist_claims", "callback_passthrough_params"} => x \in Seq(Texts)
  /\ f \in {"pre_auth_ttl", "post_auth_ttl", "max_session_lifetime"} => x \in Durations
  /\ f = "session_key_source" => x \in KeySources
  /\ f = "return_to_prefix" => x \in Seq(Tokens)
  /\ f = "session_expiry" => x \in {"Fixed", "Sliding"}

Fits(b) == IsBuilder(b) /\ DOMAIN b = BuilderFields

\* A setter that is given what it takes leaves the others' values alone.
LEMMA SetFits ==
  ASSUME NEW b, Fits(b), NEW f, NEW x, Takes(f, x)
  PROVE  Fits([b EXCEPT ![f] = Some(x)])
<1> DEFINE c == [b EXCEPT ![f] = Some(x)]
<1>1. /\ DOMAIN c = BuilderFields /\ c[f] = Some(x)
      /\ \A g \in BuilderFields : g # f => c[g] = b[g]
  BY DEF Fits, Takes
<1> HIDE DEF c
<1>2. ASSUME NEW S, NEW g \in BuilderFields, g = f => x \in S, IsOption(b[g], S)
      PROVE  IsOption(c[g], S)
  BY <1>1, <1>2, SomeIsOption
<1>3. \A g \in {"issuer_url", "redirect_url", "post_logout_redirect_url"} : IsOption(c[g], Urls)
  BY <1>2 DEF Fits, Takes, IsBuilder, BuilderFields
<1>4. \A g \in {"client_id", "client_secret"} : IsOption(c[g], Texts)
  BY <1>2 DEF Fits, Takes, IsBuilder, BuilderFields
<1>5. \A g \in {"scopes", "persist_claims", "callback_passthrough_params"} : IsOption(c[g], Seq(Texts))
  BY <1>2 DEF Fits, Takes, IsBuilder, BuilderFields
<1>6. \A g \in {"pre_auth_ttl", "post_auth_ttl", "max_session_lifetime"} : IsOption(c[g], Durations)
  BY <1>2 DEF Fits, Takes, IsBuilder, BuilderFields
<1>7. IsOption(c["session_key_source"], KeySources)
  BY <1>2 DEF Fits, Takes, IsBuilder, BuilderFields
<1>8. IsOption(c["return_to_prefix"], Seq(Tokens))
  BY <1>2 DEF Fits, Takes, IsBuilder, BuilderFields
<1>9. IsOption(c["session_expiry"], {"Fixed", "Sliding"})
  BY <1>2 DEF Fits, Takes, IsBuilder, BuilderFields
<1>10. IsBuilder(c)
  BY <1>3, <1>4, <1>5, <1>6, <1>7, <1>8, <1>9 DEF IsBuilder
<1>11. QED
  BY <1>1, <1>10 DEF c, Fits

LEMMA LiteralUrls ==
  ASSUME NEW s \in STRING, NEW h \in STRING, NEW p \in Nat
  PROVE  Url(s, h, p) \in Urls
BY DEF Url, Urls

LEMMA LiteralTexts ==
  ASSUME NEW w \in STRING
  PROVE  Text(w) \in Texts
BY DEF Text, Spelled, Texts

LEMMA TestBuilderFits == Fits(TestConfigBuilder)
<1>1. Fits(NewBuilder)
  BY NewBuilderFits, FieldsAre DEF Fits
<1>2. /\ Url("https", "idp", 443) \in Urls /\ Url("https", "app", 443) \in Urls
      /\ Text("client") \in Texts /\ Text("secret") \in Texts
  BY LiteralsAssumption, LiteralUrls, LiteralTexts
<1> DEFINE key == KeySource("ephemeral", "", NoError)
<1>3. key \in KeySources
  <2>1. "" \in STRING /\ NoError \in STRING /\ "ephemeral" \in {"explicit", "base64", "ephemeral"}
    BY LiteralsAssumption, EmptyLiteralAssumption, Zenon
  <2>2. ASSUME NEW text \in STRING
        PROVE  KeySource("ephemeral", text, NoError) \in KeySources
    BY LiteralsAssumption DEF KeySource, KeySources
  <2>3. QED
    BY <2>1, <2>2, Zenon
<1> DEFINE idp == Url("https", "idp", 443)
           app == Url("https", "app", 443)
           client == Text("client")
           secret == Text("secret")
           b1 == [NewBuilder EXCEPT !["issuer_url"] = Some(idp)]
           b2 == [b1 EXCEPT !["client_id"] = Some(client)]
           b3 == [b2 EXCEPT !["client_secret"] = Some(secret)]
           b4 == [b3 EXCEPT !["redirect_url"] = Some(app)]
           b5 == [b4 EXCEPT !["session_key_source"] = Some(key)]
<1>4. TestConfigBuilder = b5
  BY Zenon DEF TestConfigBuilder, GenerateEphemeralSessionKey, SetRequired
<1> HIDE DEF NewBuilder, b1, b2, b3, b4, b5, key, idp, app, client, secret
<1>5. /\ Takes("issuer_url", idp) /\ Takes("client_id", client)
      /\ Takes("client_secret", secret) /\ Takes("redirect_url", app)
  <2>1. idp \in Urls /\ app \in Urls /\ client \in Texts /\ secret \in Texts
    BY <1>2, Zenon DEF idp, app, client, secret
  <2>2. QED
    BY <2>1 DEF Takes, BuilderFields
<1>6. Takes("session_key_source", key)
  BY <1>3 DEF Takes, BuilderFields
<1>7. Fits(b1)
  BY <1>1, <1>5, SetFits DEF b1
<1>8. Fits(b2)
  BY <1>5, <1>7, SetFits DEF b2
<1>9. Fits(b3)
  BY <1>5, <1>8, SetFits DEF b3
<1>10. Fits(b4)
  BY <1>5, <1>9, SetFits DEF b4
<1>11. Fits(b5)
  BY <1>6, <1>10, SetFits DEF b5
<1>12. QED
  BY <1>4, <1>11

LEMMA AfterCallFits ==
  ASSUME NEW b, Fits(b), NEW call \in SetterCalls
  PROVE  Fits(AfterCall(b, call))
<1>1. PICK f, x : f = call[1] /\ x = call[2]
  OBVIOUS
<1>2. ASSUME NEW key \in KeySources
      PROVE  Fits([b EXCEPT !["session_key_source"] = Some(key)])
  <2>1. Takes("session_key_source", key)
    BY <1>2 DEF Takes, BuilderFields
  <2>2. QED
    BY <2>1, SetFits
<1>3. CASE f = "session_key"
  <2>1. x \in STRING
    BY <1>1, <1>3, ServiceAssumption
  <2>2. KeySource("explicit", x, NoError) \in KeySources
    BY <2>1, LiteralsAssumption DEF KeySource, KeySources
  <2>3. AfterCall(b, call) = SessionKey(b, x)
    BY <1>1, <1>3 DEF AfterCall, RequiredFields, OptionalFields
  <2>4. QED
    BY <1>2, <2>2, <2>3, Zenon DEF SessionKey, SetRequired
<1>4. CASE f = "session_key_base64"
  <2>1. x.key \in STRING
    BY <1>1, <1>4, ServiceAssumption
  <2>2. Check(~x.valid \/ x.bytes < MIN_KEY_BYTES, "InvalidSessionKey") \in STRING
    BY LiteralsAssumption DEF Check
  <2>3. ASSUME NEW error \in STRING
        PROVE  KeySource("base64", x.key, error) \in KeySources
    BY <2>1 DEF KeySource, KeySources
  <2>4. AfterCall(b, call) = SessionKeyBase64(b, x)
    BY <1>1, <1>4 DEF AfterCall, RequiredFields, OptionalFields
  <2>5. QED
    BY <1>2, <2>2, <2>3, <2>4, Zenon DEF SessionKeyBase64, SetRequired
<1>5. CASE f \notin {"session_key", "session_key_base64"}
  <2>1. /\ f \in RequiredFields \cup OptionalFields
        /\ Takes(f, x)
    BY <1>1, <1>5, ServiceAssumption DEF RequiredFields, OptionalFields, Takes, BuilderFields
  <2>2. AfterCall(b, call) = [b EXCEPT ![f] = Some(x)]
    BY <1>1, <1>5, <2>1 DEF AfterCall, SetRequired, SetOption
  <2>3. Fits([b EXCEPT ![f] = Some(x)])
    BY <2>1, SetFits
  <2>4. QED
    BY <2>2, <2>3, Zenon
<1>6. QED
  BY <1>3, <1>4, <1>5

LEMMA NameAccepted ==
  ASSUME NEW name, NEW denied, validate_param_name(name, denied) = NoError
  PROVE  /\ name.lower \notin denied
         /\ name.plain /\ ~name.pad
<1> DEFINE e1 == Check(name = EmptyText, "Empty")
           e2 == Check(name.len > MAX_PARAM_NAME_LEN, "TooLong")
           e3 == Check(~name.plain \/ name.pad, "InvalidCharset")
           e4 == Check(name.lower \in denied, "Denied")
           checks == <<e1, e2, e3, e4>>
<1>1. FirstError(checks) = NoError
  BY DEF validate_param_name
<1>2. /\ e3 = NoError => name.plain /\ ~name.pad
      /\ e4 = NoError => name.lower \notin denied
  BY DEF Check, NoError
<1> HIDE DEF e1, e2, e3, e4
<1>3. DOMAIN checks = 1..4 /\ checks[3] = e3 /\ checks[4] = e4
  OBVIOUS
<1> HIDE DEF checks
<1>4. checks[3] = NoError /\ checks[4] = NoError
  <2>1. 4 \in Nat /\ DOMAIN checks = 1..4 /\ FirstError(checks) = NoError
    BY <1>1, <1>3
  <2>2. \A i \in 1..4 : checks[i] = NoError
    BY <2>1, FirstErrorNone
  <2>3. QED
    BY <2>2
<1>5. QED
  BY <1>2, <1>3, <1>4

\* The names of a configuration are names the builder was given, and each is
\* written as one token that stays what it is in a URL; none stands there twice.
LEMMA NamesAreWritten ==
  ASSUME NEW b, IsBuilder(b), NamesSafe(b),
         PassthroughError(b["callback_passthrough_params"]) = NoError
  PROVE  IsAllowlist(WordsOf(PassthroughParams(b["callback_passthrough_params"])))
<1> DEFINE option == b["callback_passthrough_params"]
           texts == OrElse(option, <<>>)
           trimmed == [i \in DOMAIN texts |-> Trim(texts[i])]
           kept == ToSet(trimmed) \ {EmptyText}
           names == PassthroughParams(option)
<1>1. IsOption(option, Seq(Texts)) /\ <<>> \in Seq(Texts)
  BY EmptySeq DEF IsBuilder
<1>2. texts \in Seq(Texts)
  BY <1>1, OptionFacts
<1>3. Len(texts) \in Nat /\ DOMAIN texts = 1 .. Len(texts)
  BY <1>2, LenProperties
<1>4. WrittenAsToken(texts)
  <2>1. CASE option = None
    <3>1. texts = <<>>
      BY <2>1 DEF OrElse
    <3>2. QED
      BY <3>1 DEF WrittenAsToken
  <2>2. CASE option # None
    BY <2>2 DEF NamesSafe, OrElse
  <2>3. QED
    BY <2>1, <2>2
<1>5. trimmed \in Seq(TrimmedTexts) /\ Len(trimmed) = Len(texts)
  <2>1. \A i \in 1 .. Len(texts) : Trim(texts[i]) \in TrimmedTexts
    BY <1>2, ElementOfSeq, TextFacts
  <2>2. trimmed = [i \in 1 .. Len(texts) |-> Trim(texts[i])]
    BY <1>3
  <2>3. QED
    BY <1>3, <2>1, <2>2, IsASeq
<1>6. Selects(names, trimmed, TrimmedTexts \cap kept, Len(texts))
  <2>1. names = Retain(trimmed, kept)
    BY DEF PassthroughParams, CleanTexts
  <2> HIDE DEF names, trimmed, kept
  <2>2. QED
    BY <1>5, <2>1, RetainSelects
<1>7. names \in Seq(TrimmedTexts) /\ DOMAIN names = 1 .. Len(names)
  <2>1. names \in Seq(TrimmedTexts)
    BY <1>1, NormalizedTyped
  <2>2. QED
    BY <2>1, LenProperties
<1>8. \A i \in DOMAIN names : validate_param_name(names[i], DENIED_PASSTHROUGH_PARAMS) = NoError
  BY DEF PassthroughError, Check, NoError
<1>9. ASSUME NEW i \in DOMAIN names
      PROVE  \E q \in 1 .. Len(texts) : names[i] = Trim(texts[q]) /\ names[i].word = texts[q].word
  <2>1. PICK q \in 1 .. Len(texts) : names[i] = trimmed[q]
    BY <1>6, <1>7 DEF Selects
  <2>2. names[i] = Trim(texts[q])
    BY <1>3, <2>1
  <2>3. texts[q] \in Texts
    BY <1>2, ElementOfSeq
  <2>4. Trim(texts[q]).word = texts[q].word
    BY <2>3 DEF Texts, Trim
  <2>5. QED
    BY <2>2, <2>4
<1>10. ASSUME NEW i \in DOMAIN names
       PROVE  Plain(names[i].word) /\ Decode[names[i].word] = names[i].word
  <2>2. PICK q \in 1 .. Len(texts) : names[i] = Trim(texts[q])
    BY <1>9
  <2>3. names[i] # EmptyText
    <3>1. names \in Seq(TrimmedTexts \cap kept)
      BY <1>6 DEF Selects
    <3>2. i \in 1 .. Len(names)
      BY <1>7
    <3>3. names[i] \in TrimmedTexts \cap kept
      BY <3>1, <3>2, ElementOfSeq
    <3>4. QED
      BY <3>3
  <2>4. names[i].plain
    BY <1>8, NameAccepted
  <2>5. Trim(texts[q]).word = texts[q].word /\ Trim(texts[q]).plain = texts[q].plain
    <3>1. texts[q] \in Texts
      BY <1>2, ElementOfSeq
    <3>2. QED
      BY <3>1 DEF Texts, Trim
  <2>6. Plain(texts[q].word) /\ Decode[texts[q].word] = texts[q].word
    BY <1>3, <1>4, <2>2, <2>3, <2>4, <2>5 DEF WrittenAsToken
  <2>7. QED
    BY <2>2, <2>5, <2>6
<1>11. ASSUME NEW i \in DOMAIN names, NEW j \in DOMAIN names, names[i].word = names[j].word
       PROVE  i = j
  <2>1. PICK q \in 1 .. Len(texts) : names[i] = Trim(texts[q]) /\ names[i].word = texts[q].word
    BY <1>9
  <2>2. PICK r \in 1 .. Len(texts) : names[j] = Trim(texts[r]) /\ names[j].word = texts[r].word
    BY <1>9
  <2>3. names[i] = names[j]
    BY <1>3, <1>4, <1>11, <2>1, <2>2 DEF WrittenAsToken
  <2>4. \A k \in DOMAIN names : \A l \in 1 .. k - 1 : names[l] # names[k]
    BY DEF PassthroughError, Check, NoError
  <2>5. i \in Nat /\ j \in Nat /\ i >= 1 /\ j >= 1
    BY <1>7, LenProperties
  <2>6. ~(i < j) /\ ~(j < i)
    <3>1. i < j => i \in 1 .. j - 1
      BY <2>5
    <3>2. j < i => j \in 1 .. i - 1
      BY <2>5
    <3>3. QED
      BY <2>3, <2>4, <3>1, <3>2
  <2>7. QED
    BY <2>5, <2>6
<1> HIDE DEF names
<1>12. QED
  BY <1>10, <1>11 DEF IsAllowlist, WordsOf, names

\* What build returns has an origin, the one it allows.
LEMMA BuiltIsAsBuilt ==
  ASSUME NEW b, IsBuilder(b), NamesSafe(b), NEW fresh \in STRING, BuildError(b) = NoError
  PROVE  AsBuilt(Built(b, fresh))
<1>1. /\ Built(b, fresh) \in OidcBffConfig
      /\ \A f \in RequiredFields : Built(b, fresh)[f].len > 0
      /\ Built(b, fresh).post_auth_ttl_secs <= Built(b, fresh).max_session_lifetime_secs
  BY BuildIsDocumented
<1>2. MissingFields(b) = {} /\ ValueError(b) = NoError
  BY DEF BuildError, NoError
<1>3. b["redirect_url"][1] \in Urls
  <2>1. b["redirect_url"] # None
    BY <1>2 DEF MissingFields, IsBlank, RequiredFields
  <2>2. IsOption(b["redirect_url"], Urls)
    BY DEF IsBuilder
  <2>3. QED
    BY <2>1, <2>2, OptionFacts
<1>4. b["redirect_url"][1].parses /\ b["redirect_url"][1].scheme \in {"http", "https"}
  BY <1>2, <1>3, ValuesAccepted, UrlAccepted DEF NoError
<1>5. /\ Built(b, fresh).redirect_url = Trim(b["redirect_url"][1])
      /\ Built(b, fresh).allowed_origin = Origin(Trim(b["redirect_url"][1]))
  BY DEF Built
<1>6. Trim(b["redirect_url"][1]).parses /\ Trim(b["redirect_url"][1]).scheme \in {"http", "https"}
  BY <1>3, <1>4 DEF Trim, Urls
<1>7. IsAllowlist(WordsOf(Built(b, fresh).callback_passthrough_params))
  <2>1. PassthroughError(b["callback_passthrough_params"]) = NoError
    BY <1>2, ValuesAccepted
  <2>2. Built(b, fresh).callback_passthrough_params
          = PassthroughParams(b["callback_passthrough_params"])
    BY DEF Built
  <2>3. QED
    BY <2>1, <2>2, NamesAreWritten
<1>8. QED
  BY <1>1, <1>5, <1>6, <1>7 DEF AsBuilt

-----------------------------------------------------------------------------
(* What a login route adds to the authorization request. *)

LEMMA PairAccepted ==
  ASSUME NEW raw, NEW i \in Nat, PairError(raw, i) = NoError
  PROVE  /\ validate_param_name(Trim(raw[i].name), DENIED_AUTH_PARAMS) = NoError
         /\ \A j \in 1 .. i - 1 : ~EqIgnoreCase(Trim(raw[j].name), Trim(raw[i].name))
<1> DEFINE name == Trim(raw[i].name)
           outcome == validate_param_name(name, DENIED_AUTH_PARAMS)
           e1 == Check(outcome = "Denied", "ReservedName")
           e2 == Check(outcome # NoError, "InvalidName")
           e3 == Check(\E j \in 1 .. i - 1 : EqIgnoreCase(Trim(raw[j].name), name), "DuplicateName")
           e4 == Check(Bytes(raw[i].value) > MAX_EXTRA_AUTH_VALUE_LEN, "ValueTooLong")
           e5 == Check(has_control_chars(raw[i].value), "InvalidValue")
           checks == <<e1, e2, e3, e4, e5>>
<1>1. FirstError(checks) = NoError
  BY Zenon DEF PairError
<1>2. /\ e2 = NoError => outcome = NoError
      /\ e3 = NoError => \A j \in 1 .. i - 1 : ~EqIgnoreCase(Trim(raw[j].name), name)
  <2> HIDE DEF outcome, name
  <2>1. QED
    BY DEF Check, NoError
<1> HIDE DEF e1, e2, e3, e4, e5
<1>3. DOMAIN checks = 1..5 /\ checks[2] = e2 /\ checks[3] = e3
  OBVIOUS
<1> HIDE DEF checks
<1>4. checks[2] = NoError /\ checks[3] = NoError
  <2>1. 5 \in Nat /\ DOMAIN checks = 1..5 /\ FirstError(checks) = NoError
    BY <1>1, <1>3
  <2>2. \A n \in 1..5 : checks[n] = NoError
    BY <2>1, FirstErrorNone
  <2>3. QED
    BY <2>2
<1>5. QED
  BY <1>2, <1>3, <1>4

\* The names of accepted parameters: none is reserved, none stands twice.
LEMMA ParamsAccepted ==
  ASSUME NEW raw \in Seq([name : Texts, value : Seq(Tokens)]), ExtraError(raw) = NoError
  PROVE  /\ \A i \in 1 .. Len(raw) : /\ Trim(raw[i].name) \in Texts
                                     /\ Trim(raw[i].name).lower \notin DENIED_AUTH_PARAMS
         /\ \A i, j \in 1 .. Len(raw) :
              i # j => Trim(raw[i].name).lower # Trim(raw[j].name).lower
<1>1. Len(raw) \in Nat /\ DOMAIN raw = 1 .. Len(raw)
  BY LenProperties
<1> DEFINE checks == [i \in DOMAIN raw |-> PairError(raw, i)]
<1>2. FirstError(checks) = NoError
  BY DEF ExtraError, NoError
<1>3. DOMAIN checks = 1 .. Len(raw) /\ \A i \in 1 .. Len(raw) : checks[i] = PairError(raw, i)
  BY <1>1
<1> HIDE DEF checks
<1>4. \A i \in 1 .. Len(raw) : PairError(raw, i) = NoError
  BY <1>1, <1>2, <1>3, FirstErrorNone
<1>5. ASSUME NEW i \in 1 .. Len(raw)
      PROVE  /\ Trim(raw[i].name).lower \notin DENIED_AUTH_PARAMS
             /\ \A j \in 1 .. i - 1 : Trim(raw[j].name).lower # Trim(raw[i].name).lower
  <2>1. i \in Nat /\ PairError(raw, i) = NoError
    BY <1>1, <1>4
  <2>2. QED
    BY <2>1, PairAccepted, NameAccepted DEF EqIgnoreCase
<1>6. ASSUME NEW i \in 1 .. Len(raw) PROVE Trim(raw[i].name) \in Texts
  <2>1. raw[i] \in [name : Texts, value : Seq(Tokens)]
    BY <1>1, ElementOfSeq
  <2>2. QED
    BY <2>1, TextFacts DEF TrimmedTexts
<1>7. ASSUME NEW i \in 1 .. Len(raw), NEW j \in 1 .. Len(raw), i # j
      PROVE  Trim(raw[i].name).lower # Trim(raw[j].name).lower
  <2>1. i \in 1 .. j - 1 \/ j \in 1 .. i - 1
    BY <1>1, <1>7
  <2>2. QED
    BY <1>5, <2>1
<1>8. QED
  BY <1>5, <1>6, <1>7

\* What is known of the extra parameters of a route.
RouteFits(extra) ==
  /\ extra.max_age_secs \in Seq(Nat) /\ Len(extra.max_age_secs) <= 1
  /\ extra.params \in Seq([name : Texts, value : Seq(Tokens)])
  /\ \A i \in 1 .. Len(extra.params) : extra.params[i].name.lower \notin DENIED_AUTH_PARAMS
  /\ \A i, j \in 1 .. Len(extra.params) :
       i # j => extra.params[i].name.lower # extra.params[j].name.lower

LEMMA NoExtraFits == RouteFits(NoExtra)
<1>1. NoExtra.params = <<>> /\ NoExtra.max_age_secs = <<>>
  BY DEF NoExtra, None
<1>2. <<>> \in Seq(Nat) /\ <<>> \in Seq([name : Texts, value : Seq(Tokens)]) /\ Len(<<>>) = 0
  BY EmptySeq
<1>3. QED
  BY <1>1, <1>2 DEF RouteFits

LEMMA LengthIs ==
  ASSUME NEW m \in Nat, NEW n \in Nat, NEW d, d = 1 .. m, d = 1 .. n
  PROVE  m = n
<1>1. (m \in 1 .. m <=> m \in 1 .. n) /\ (n \in 1 .. m <=> n \in 1 .. n)
  BY Zenon
<1>2. (m >= 1 => m <= n) /\ (n >= 1 => n <= m)
  BY <1>1
<1>3. QED
  BY <1>2

\* The parameters and the age of a variant that is accepted.
LEMMA VariantFits ==
  ASSUME NEW v \in Variants, VariantError(v) = NoError
  PROVE  RouteFits(ExtraOf(v))
<1>1. v.params \in Seq([name : Texts, value : Seq(Tokens)]) /\ IsOption(v.age, Durations)
  BY ServiceAssumption
<1>2. Len(v.params) \in Nat /\ DOMAIN v.params = 1 .. Len(v.params)
  BY <1>1, LenProperties
<1>3. ExtraError(v.params) = NoError
  <2> DEFINE ages == [i \in DOMAIN v.age |-> AgeError(v.age[i])]
             checks == <<ExtraError(v.params)>> \o ages
  <2>1. FirstError(checks) = NoError
    BY DEF VariantError
  <2>2. /\ Len(v.age) \in Nat /\ DOMAIN v.age = 1 .. Len(v.age)
    BY <1>1, LenProperties DEF IsOption
  <2>3. ages \in Seq({AgeError(v.age[i]) : i \in DOMAIN v.age}) /\ Len(ages) \in Nat
    <3>1. \A i \in 1 .. Len(v.age) : AgeError(v.age[i]) \in {AgeError(v.age[j]) : j \in DOMAIN v.age}
      BY <2>2
    <3>2. ages \in Seq({AgeError(v.age[i]) : i \in DOMAIN v.age})
      BY <2>2, <3>1, IsASeq
    <3>3. QED
      BY <3>2, LenProperties
  <2>4. DOMAIN checks = 1 .. (1 + Len(ages)) /\ checks[1] = ExtraError(v.params)
    <3> HIDE DEF ages
    <3>1. QED
      BY <2>3
  <2> HIDE DEF checks, ages
  <2>5. 1 + Len(ages) \in Nat /\ 1 \in 1 .. (1 + Len(ages))
    BY <2>3
  <2>6. QED
    BY <2>1, <2>4, <2>5, FirstErrorNone
<1>4. PICK names : names = [i \in DOMAIN v.params |-> [v.params[i] EXCEPT !.name = Trim(@)]]
  OBVIOUS
<1>5. /\ ExtraOf(v).params = names
      /\ ExtraOf(v).max_age_secs \in {None} \cup {Some(d.secs) : d \in Durations}
  <2>1. ExtraAuthParams(v.params) = [params |-> names, max_age_secs |-> None]
    BY <1>4 DEF ExtraAuthParams, NoExtra
  <2>2. CASE v.age = None
    BY <2>1, <2>2 DEF ExtraOf
  <2>3. CASE v.age # None
    <3>1. v.age[1] \in Durations
      BY <1>1, <2>3, OptionFacts
    <3>2. ExtraOf(v) = RequireAuthWithin([params |-> names, max_age_secs |-> None], v.age[1])
      BY <2>1, <2>3 DEF ExtraOf
    <3>3. ExtraOf(v) = [params |-> names, max_age_secs |-> Some(v.age[1].secs)]
      BY <3>2 DEF RequireAuthWithin
    <3>4. QED
      BY <3>1, <3>3
  <2>4. QED
    BY <2>2, <2>3
<1>6. /\ ExtraOf(v).max_age_secs \in Seq(Nat) /\ Len(ExtraOf(v).max_age_secs) <= 1
  <2>1. IsOption(None, Nat) /\ \A d \in Durations : IsOption(Some(d.secs), Nat)
    BY NoneIsOption, SomeIsOption DEF Durations
  <2>2. QED
    BY <1>5, <2>1 DEF IsOption
<1>7. ASSUME NEW i \in 1 .. Len(v.params)
      PROVE  /\ names[i] \in [name : Texts, value : Seq(Tokens)]
             /\ names[i].name = Trim(v.params[i].name)
  <2>1. v.params[i] \in [name : Texts, value : Seq(Tokens)]
    BY <1>1, ElementOfSeq
  <2>2. names[i] = [v.params[i] EXCEPT !.name = Trim(@)]
    BY <1>2, <1>4
  <2>3. names[i] = [name |-> Trim(v.params[i].name), value |-> v.params[i].value]
    BY <2>1, <2>2
  <2>4. Trim(v.params[i].name) \in Texts
    BY <1>1, <1>3, ParamsAccepted
  <2>5. QED
    BY <2>1, <2>3, <2>4
<1>8. names \in Seq([name : Texts, value : Seq(Tokens)]) /\ Len(names) = Len(v.params)
  <2>1. names = [i \in 1 .. Len(v.params) |-> names[i]]
    BY <1>2, <1>4
  <2>2. [i \in 1 .. Len(v.params) |-> names[i]] \in Seq([name : Texts, value : Seq(Tokens)])
    BY <1>2, <1>7, IsASeq
  <2>3. DOMAIN names = 1 .. Len(v.params) /\ names \in Seq([name : Texts, value : Seq(Tokens)])
    BY <1>2, <1>4, <2>1, <2>2
  <2>4. Len(names) \in Nat /\ DOMAIN names = 1 .. Len(names)
    BY <2>3, LenProperties
  <2>5. Len(names) = Len(v.params)
    BY <1>2, <2>3, <2>4, LengthIs
  <2>6. QED
    BY <2>3, <2>5
<1>9. /\ \A i \in 1 .. Len(names) : names[i].name.lower \notin DENIED_AUTH_PARAMS
      /\ \A i, j \in 1 .. Len(names) : i # j => names[i].name.lower # names[j].name.lower
  <2>1. /\ \A i \in 1 .. Len(v.params) : Trim(v.params[i].name).lower \notin DENIED_AUTH_PARAMS
        /\ \A i, j \in 1 .. Len(v.params) :
             i # j => Trim(v.params[i].name).lower # Trim(v.params[j].name).lower
    BY <1>1, <1>3, ParamsAccepted
  <2>2. \A i \in 1 .. Len(names) : i \in 1 .. Len(v.params) /\ names[i].name = Trim(v.params[i].name)
    BY <1>7, <1>8
  <2>3. ASSUME NEW i \in 1 .. Len(names)
        PROVE  names[i].name.lower \notin DENIED_AUTH_PARAMS
    BY <2>1, <2>2
  <2>4. ASSUME NEW i \in 1 .. Len(names), NEW j \in 1 .. Len(names), i # j
        PROVE  names[i].name.lower # names[j].name.lower
    <3>1. Trim(v.params[i].name).lower # Trim(v.params[j].name).lower
      BY <2>1, <2>2, <2>4
    <3>2. QED
      BY <2>2, <3>1
  <2>5. QED
    BY <2>3, <2>4
<1>10. QED
  BY <1>5, <1>6, <1>8, <1>9 DEF RouteFits

LEMMA RoutesFit ==
  ASSUME NEW extra \in LoginRoutes
  PROVE  RouteFits(extra)
BY NoExtraFits, VariantFits DEF LoginRoutes

-----------------------------------------------------------------------------
(* The parameters of an authorization URL. *)

\* No two of these names are the same in lower case.
Distinct(names) == \A i, j \in 1 .. Len(names) : i # j => names[i].lower # names[j].lower

LEMMA ConcatDistinct ==
  ASSUME NEW S, NEW a \in Seq(S), NEW b \in Seq(S), Distinct(a), Distinct(b),
         \A i \in 1 .. Len(a), j \in 1 .. Len(b) : a[i].lower # b[j].lower
  PROVE  Distinct(a \o b)
<1> DEFINE c == a \o b
<1>1. Len(a) \in Nat /\ Len(b) \in Nat
  BY LenProperties
<1>2. /\ Len(c) = Len(a) + Len(b)
      /\ \A i \in 1 .. Len(a) + Len(b) :
           \/ i \in 1 .. Len(a) /\ c[i] = a[i]
           \/ i - Len(a) \in 1 .. Len(b) /\ c[i] = b[i - Len(a)]
  BY Joined
<1> HIDE DEF c
<1>3. ASSUME NEW i \in 1 .. Len(c), NEW j \in 1 .. Len(c), i # j
      PROVE  c[i].lower # c[j].lower
  <2>1. i \in Int /\ j \in Int /\ i \in 1 .. Len(a) + Len(b) /\ j \in 1 .. Len(a) + Len(b)
    BY <1>1, <1>2
  <2>2. CASE i \in 1 .. Len(a) /\ c[i] = a[i]
    <3>1. CASE j \in 1 .. Len(a) /\ c[j] = a[j]
      BY <1>3, <2>2, <3>1 DEF Distinct
    <3>2. CASE j - Len(a) \in 1 .. Len(b) /\ c[j] = b[j - Len(a)]
      BY <2>2, <3>2
    <3>3. QED
      BY <1>2, <2>1, <3>1, <3>2
  <2>3. CASE i - Len(a) \in 1 .. Len(b) /\ c[i] = b[i - Len(a)]
    <3>1. CASE j \in 1 .. Len(a) /\ c[j] = a[j]
      BY <2>3, <3>1
    <3>2. CASE j - Len(a) \in 1 .. Len(b) /\ c[j] = b[j - Len(a)]
      <4>1. i - Len(a) # j - Len(a)
        BY <1>1, <1>3, <2>1
      <4>2. QED
        BY <2>3, <3>2, <4>1 DEF Distinct
    <3>3. QED
      BY <1>2, <2>1, <3>1, <3>2
  <2>4. QED
    BY <1>2, <2>1, <2>2, <2>3
<1>4. QED
  BY <1>3 DEF Distinct, c

LEMMA LibraryNames ==
  /\ Len(LibraryParams) = 8 /\ DOMAIN LibraryParams = 1 .. 8
  /\ \A i \in 1 .. 8 : LibraryParams[i].lower \in DENIED_AUTH_PARAMS \ {"max_age"}
  /\ Distinct(LibraryParams)
<1>1. Len(LibraryParams) = 8 /\ DOMAIN LibraryParams = 1 .. 8
  BY DEF LibraryParams
<1>2. /\ LibraryParams[1].lower = "response_type" /\ LibraryParams[2].lower = "client_id"
      /\ LibraryParams[3].lower = "state" /\ LibraryParams[4].lower = "code_challenge"
      /\ LibraryParams[5].lower = "code_challenge_method"
      /\ LibraryParams[6].lower = "redirect_uri" /\ LibraryParams[7].lower = "scope"
      /\ LibraryParams[8].lower = "nonce"
  BY DEF LibraryParams, Text, Spelled
<1>3. ASSUME NEW i \in 1 .. 8
      PROVE  i = 1 \/ i = 2 \/ i = 3 \/ i = 4 \/ i = 5 \/ i = 6 \/ i = 7 \/ i = 8
  OBVIOUS
<1> HIDE DEF LibraryParams
<1>4. \A i \in 1 .. 8 : LibraryParams[i].lower \in DENIED_AUTH_PARAMS \ {"max_age"}
  BY <1>2, <1>3 DEF DENIED_AUTH_PARAMS
<1>5. \A i, j \in 1 .. 8 : i # j => LibraryParams[i].lower # LibraryParams[j].lower
  BY <1>2, <1>3
<1>6. QED
  BY <1>1, <1>4, <1>5 DEF Distinct

\* A route that is registered adds no name a second time.
LEMMA NamesUnambiguous ==
  ASSUME NEW extra, RouteFits(extra)
  PROVE  ~Repeats(UrlNames(extra))
<1> DEFINE added == [i \in DOMAIN extra.params |-> extra.params[i].name]
           ages == [i \in DOMAIN UrlMaxAge(extra) |-> Text("max_age")]
           S == Texts \cup {Text("max_age")} \cup {LibraryParams[i] : i \in 1 .. 8}
<1>1. /\ extra.params \in Seq([name : Texts, value : Seq(Tokens)])
      /\ Len(extra.params) \in Nat /\ DOMAIN extra.params = 1 .. Len(extra.params)
      /\ extra.max_age_secs \in Seq(Nat) /\ Len(extra.max_age_secs) \in Nat
      /\ DOMAIN extra.max_age_secs = 1 .. Len(extra.max_age_secs)
      /\ Len(extra.max_age_secs) <= 1
  BY LenProperties DEF RouteFits
<1>2. LibraryParams \in Seq(S)
  <2>1. \A i \in 1 .. 8 : LibraryParams[i] \in S
    OBVIOUS
  <2>2. LibraryParams = [i \in 1 .. 8 |-> LibraryParams[i]]
    BY DEF LibraryParams
  <2> HIDE DEF S
  <2>3. [i \in 1 .. 8 |-> LibraryParams[i]] \in Seq(S)
    <3>1. 8 \in Nat
      OBVIOUS
    <3>2. QED
      BY <2>1, <3>1, IsASeq
  <2>4. QED
    BY <2>2, <2>3
<1>3. /\ added \in Seq(S) /\ Len(added) = Len(extra.params)
      /\ \A i \in 1 .. Len(added) : added[i] = extra.params[i].name
  <2>1. \A i \in 1 .. Len(extra.params) : extra.params[i].name \in S
    <3>1. \A i \in 1 .. Len(extra.params) : extra.params[i] \in [name : Texts, value : Seq(Tokens)]
      BY <1>1, ElementOfSeq
    <3>2. QED
      BY <3>1
  <2> HIDE DEF S
  <2>2. added = [i \in 1 .. Len(extra.params) |-> extra.params[i].name]
    BY <1>1
  <2>3. [i \in 1 .. Len(extra.params) |-> extra.params[i].name] \in Seq(S)
    <3>1. Len(extra.params) \in Nat
      BY <1>1
    <3>2. QED
      BY <2>1, <3>1, IsASeq
  <2>4. added \in Seq(S)
    BY <2>2, <2>3
  <2>5. DOMAIN added = 1 .. Len(added) /\ Len(added) \in Nat
    BY <2>4, LenProperties
  <2>6. DOMAIN added = 1 .. Len(extra.params)
    BY <2>2
  <2>7. Len(added) = Len(extra.params)
    <3> HIDE DEF added
    <3>1. QED
      BY <1>1, <2>5, <2>6, LengthIs
  <2>8. QED
    BY <2>2, <2>4, <2>7
<1>4. /\ ages \in Seq(S) /\ Len(ages) = Len(extra.max_age_secs)
      /\ \A i \in 1 .. Len(ages) : ages[i] = Text("max_age")
  <2>1. Text("max_age") \in S
    OBVIOUS
  <2> HIDE DEF S
  <2>2. ages = [i \in 1 .. Len(extra.max_age_secs) |-> Text("max_age")]
    BY <1>1 DEF UrlMaxAge
  <2>3. [i \in 1 .. Len(extra.max_age_secs) |-> Text("max_age")] \in Seq(S)
    BY <1>1, <2>1, IsASeq
  <2>4. QED
    BY <1>1, <2>2, <2>3
<1>5. UrlNames(extra) = (LibraryParams \o added) \o ages
  BY DEF UrlNames
<1>6. Text("max_age").lower = "max_age" /\ "max_age" \in DENIED_AUTH_PARAMS
  BY DEF Text, Spelled, DENIED_AUTH_PARAMS
<1> HIDE DEF S, added, ages, LibraryParams
<1>7. /\ Distinct(added)
      /\ \A i \in 1 .. Len(added) : added[i].lower \notin DENIED_AUTH_PARAMS
  <2>1. \A i \in 1 .. Len(added) :
          i \in 1 .. Len(extra.params) /\ added[i] = extra.params[i].name
    BY <1>3
  <2>2. ASSUME NEW i \in 1 .. Len(added), NEW j \in 1 .. Len(added), i # j
        PROVE  added[i].lower # added[j].lower
    <3>1. extra.params[i].name.lower # extra.params[j].name.lower
      BY <2>1, <2>2 DEF RouteFits
    <3>2. QED
      BY <2>1, <3>1
  <2>3. ASSUME NEW i \in 1 .. Len(added)
        PROVE  added[i].lower \notin DENIED_AUTH_PARAMS
    <3>1. extra.params[i].name.lower \notin DENIED_AUTH_PARAMS
      BY <2>1 DEF RouteFits
    <3>2. QED
      BY <2>1, <3>1
  <2>4. QED
    BY <2>2, <2>3 DEF Distinct
<1>8. Distinct(ages)
  <2>1. \A i, j \in 1 .. Len(ages) : i = j
    BY <1>1, <1>4
  <2>2. QED
    BY <2>1 DEF Distinct
<1>9. /\ LibraryParams \o added \in Seq(S) /\ Distinct(LibraryParams \o added)
      /\ \A i \in 1 .. Len(LibraryParams \o added) : (LibraryParams \o added)[i].lower # "max_age"
  <2>1. \A i \in 1 .. Len(LibraryParams), j \in 1 .. Len(added) :
          LibraryParams[i].lower # added[j].lower
    BY <1>7, LibraryNames
  <2>2. Distinct(LibraryParams \o added)
    BY <1>2, <1>3, <1>7, <2>1, LibraryNames, ConcatDistinct
  <2>3. /\ LibraryParams \o added \in Seq(S)
        /\ Len(LibraryParams \o added) = Len(LibraryParams) + Len(added)
        /\ \A i \in 1 .. Len(LibraryParams) + Len(added) :
             \/ i \in 1 .. Len(LibraryParams) /\ (LibraryParams \o added)[i] = LibraryParams[i]
             \/ /\ i - Len(LibraryParams) \in 1 .. Len(added)
                /\ (LibraryParams \o added)[i] = added[i - Len(LibraryParams)]
    <3>1. LibraryParams \in Seq(S) /\ added \in Seq(S)
      BY <1>2, <1>3
    <3>2. QED
      BY <3>1, Joined, Zenon
  <2>4. /\ \A i \in 1 .. Len(LibraryParams) : LibraryParams[i].lower # "max_age"
        /\ \A i \in 1 .. Len(added) : added[i].lower # "max_age"
    BY <1>6, <1>7, LibraryNames
  <2>5. QED
    BY <2>2, <2>3, <2>4
<1> DEFINE front == LibraryParams \o added
<1> HIDE DEF front
<1>10. Distinct(front \o ages)
  <2>1. front \in Seq(S) /\ Distinct(front) /\ \A i \in 1 .. Len(front) : front[i].lower # "max_age"
    BY <1>9 DEF front
  <2>2. \A i \in 1 .. Len(front), j \in 1 .. Len(ages) : front[i].lower # ages[j].lower
    BY <1>4, <1>6, <2>1
  <2>3. QED
    BY <1>4, <1>8, <2>1, <2>2, ConcatDistinct
<1>11. DOMAIN (front \o ages) = 1 .. Len(front \o ages)
  <2>1. front \o ages \in Seq(S)
    BY <1>4, <1>9, ConcatProperties DEF front
  <2>2. QED
    BY <2>1, LenProperties
<1>12. QED
  BY <1>5, <1>10, <1>11 DEF Repeats, Distinct, EqIgnoreCase, front

\* openidconnect's own scope is passed once.
LEMMA OpenidOnce ==
  ASSUME NEW scopes \in Seq(TrimmedTexts)
  PROVE  Cardinality({i \in DOMAIN ScopeParam(scopes) : ScopeParam(scopes)[i].word = "openid"}) = 1
<1> DEFINE kept == {s \in ToSet(scopes) : s.word # "openid"}
           rest == Retain(scopes, kept)
           S == TrimmedTexts \cup {Text("openid")}
<1>1. rest \in Seq(TrimmedTexts \cap kept)
  BY RetainSelects DEF Selects
<1>2. rest \in Seq(S) /\ Len(rest) \in Nat
  <2>1. \A i \in 1 .. Len(rest) : rest[i] \in TrimmedTexts \cap kept
    BY <1>1, ElementOfSeq
  <2> HIDE DEF rest, kept, S
  <2>2. Len(rest) \in Nat /\ rest = [i \in 1 .. Len(rest) |-> rest[i]]
    BY <1>1, LenProperties
  <2>3. \A i \in 1 .. Len(rest) : rest[i] \in S
    BY <2>1 DEF S
  <2>4. [i \in 1 .. Len(rest) |-> rest[i]] \in Seq(S)
    BY <2>2, <2>3, IsASeq
  <2>5. QED
    BY <2>2, <2>4
<1>3. \A i \in 1 .. Len(rest) : rest[i].word # "openid"
  <2>1. \A i \in 1 .. Len(rest) : rest[i] \in TrimmedTexts \cap kept
    BY <1>1, ElementOfSeq
  <2> HIDE DEF rest
  <2>2. QED
    BY <2>1
<1>4. ScopeParam(scopes) = <<Text("openid")>> \o rest
  BY DEF ScopeParam
<1> DEFINE first == <<Text("openid")>>
           all == first \o rest
<1>5. first \in Seq(S) /\ Len(first) = 1 /\ first[1].word = "openid"
  BY DEF Text, Spelled
<1> HIDE DEF rest, kept, S, first
<1>6. /\ all \in Seq(S) /\ Len(all) = 1 + Len(rest)
      /\ \A i \in 1 .. Len(first) + Len(rest) :
              \/ i \in 1 .. Len(first) /\ all[i] = first[i]
              \/ i - Len(first) \in 1 .. Len(rest) /\ all[i] = rest[i - Len(first)]
  <2>1. /\ first \o rest \in Seq(S) /\ Len(first \o rest) = Len(first) + Len(rest)
        /\ \A i \in 1 .. Len(first) + Len(rest) :
              \/ i \in 1 .. Len(first) /\ (first \o rest)[i] = first[i]
              \/ i - Len(first) \in 1 .. Len(rest) /\ (first \o rest)[i] = rest[i - Len(first)]
    BY <1>2, <1>5, Joined
  <2>2. QED
    BY <1>5, <2>1
<1>7. DOMAIN all = 1 .. 1 + Len(rest)
  BY <1>6, LenProperties
<1> HIDE DEF all
<1>8. {i \in DOMAIN all : all[i].word = "openid"} = {1}
  <2>1. ASSUME NEW i \in 1 .. 1 + Len(rest)
        PROVE  all[i].word = "openid" <=> i = 1
    <3>1. i \in Int /\ i \in 1 .. Len(first) + Len(rest)
      BY <1>2, <1>5
    <3>2. CASE i \in 1 .. Len(first) /\ all[i] = first[i]
      <4>1. i = 1
        BY <1>5, <3>1, <3>2
      <4>2. QED
        BY <1>5, <3>2, <4>1
    <3>3. CASE i - Len(first) \in 1 .. Len(rest) /\ all[i] = rest[i - Len(first)]
      <4>1. i # 1
        BY <1>2, <1>5, <3>1, <3>3
      <4>2. QED
        BY <1>3, <3>3, <4>1
    <3>4. QED
      BY <1>6, <3>1, <3>2, <3>3
  <2>2. 1 \in DOMAIN all
    BY <1>2, <1>7
  <2>3. QED
    BY <1>7, <2>1, <2>2
<1>9. Cardinality({1}) = 1
  BY FS_Singleton
<1>10. ScopeParam(scopes) = all
  BY <1>4, Zenon DEF all, first
<1>11. QED
  BY <1>8, <1>9, <1>10

-----------------------------------------------------------------------------
(* The invariant: startup. *)

LEMMA NothingAnswered == NoAnswer.to = "nothing" /\ NoAnswer.status = 0
BY DEF NoAnswer

\* The names are those of the last call of their setter.
LEMMA NoNamesYet == NamesSafe(NewBuilder) /\ NamesSafe(TestConfigBuilder)
<1> DEFINE names == "callback_passthrough_params"
<1>1. DOMAIN NewBuilder = BuilderFields /\ NewBuilder[names] = None
  BY FieldsAre DEF NewBuilder, RequiredFields, OptionalFields, BuilderFields
<1>2. TestConfigBuilder[names] = NewBuilder[names]
  <2> HIDE DEF NewBuilder
  <2>1. QED
    BY <1>1 DEF TestConfigBuilder, GenerateEphemeralSessionKey, SetRequired, BuilderFields
<1>3. QED
  BY <1>1, <1>2 DEF NamesSafe

LEMMA AfterCallNames ==
  ASSUME NEW b, Fits(b), NamesSafe(b), NEW call \in SetterCalls
  PROVE  NamesSafe(AfterCall(b, call))
<1> DEFINE names == "callback_passthrough_params"
<1>1. CASE call[1] = names
  <2>1. AfterCall(b, call) = [b EXCEPT ![names] = Some(call[2])]
    BY <1>1 DEF AfterCall, RequiredFields, OptionalFields, SetOption
  <2>2. AfterCall(b, call)[names] = Some(call[2])
    BY <2>1 DEF Fits, BuilderFields
  <2>3. WrittenAsToken(call[2])
    BY <1>1, ServiceAssumption
  <2>4. QED
    BY <2>2, <2>3 DEF NamesSafe, Some, None
<1>2. CASE call[1] # names
  <2>1. AfterCall(b, call)[names] = b[names]
    <3>1. ASSUME NEW f, NEW x, f # names PROVE [b EXCEPT ![f] = x][names] = b[names]
      BY <3>1 DEF Fits, BuilderFields
    <3>2. CASE call[1] = "session_key"
      <4>1. AfterCall(b, call) = SessionKey(b, call[2])
        BY <3>2 DEF AfterCall, RequiredFields, OptionalFields
      <4>2. QED
        BY <3>1, <4>1 DEF SessionKey, SetRequired
    <3>3. CASE call[1] = "session_key_base64"
      <4>1. AfterCall(b, call) = SessionKeyBase64(b, call[2])
        BY <3>3 DEF AfterCall, RequiredFields, OptionalFields
      <4>2. QED
        BY <3>1, <4>1 DEF SessionKeyBase64, SetRequired
    <3>4. CASE call[1] \notin {"session_key", "session_key_base64"}
      <4>1. call[1] \in RequiredFields \cup OptionalFields
        BY <3>4, ServiceAssumption DEF RequiredFields, OptionalFields
      <4>2. AfterCall(b, call) = [b EXCEPT ![call[1]] = Some(call[2])]
        BY <3>4, <4>1 DEF AfterCall, SetRequired, SetOption
      <4>3. QED
        BY <1>2, <3>1, <4>2
    <3>5. QED
      BY <3>2, <3>3, <3>4
  <2>2. QED
    BY <2>1 DEF NamesSafe
<1>3. QED
  BY <1>1, <1>2

LEMMA StartSafe == Init => ServiceSafe
<1> SUFFICES ASSUME Init PROVE ServiceSafe
  OBVIOUS
<1>1. BuilderSafe
  BY TestBuilderFits, FieldsAre, NoNamesYet DEF Init, BuilderSafe, Fits
<1>2. InOrder
  BY ServiceAssumption DEF Init, InOrder
<1>3. /\ ConfigSafe /\ SessionIsTyped /\ SlotSafe
      /\ AuthRequestUnambiguous /\ MaxAgeAgrees /\ RedirectSafe
  BY NothingAnswered DEF Init, ConfigSafe, SessionIsTyped, SlotSafe, AuthRequestUnambiguous,
                         MaxAgeAgrees, RedirectSafe, GuardNeverTrips,
                         LocationKeepsReturnTo, NoParamStarved
<1>4. QED
  BY <1>1, <1>2, <1>3 DEF ServiceSafe

\* Steps before a request can be served leave the answer and the session alone.
LEMMA BeforeServing ==
  ASSUME ServiceSafe, rp = None, UNCHANGED <<slot, signedIn, answer>>,
         InOrder', BuilderSafe', ConfigSafe'
  PROVE  ServiceSafe'
<1>1. answer' = NoAnswer /\ slot' = None /\ signedIn' = FALSE
  <2>1. ~signedIn /\ signedIn \in BOOLEAN
    BY DEF ServiceSafe, InOrder, SessionIsTyped
  <2>2. slot = None /\ answer = NoAnswer
    BY DEF ServiceSafe, InOrder
  <2>3. QED
    BY <2>1, <2>2
<1>2. answer'.to = "nothing" /\ answer'.status = 0
  BY <1>1, NothingAnswered
<1>3. SessionIsTyped'
  BY <1>1, <1>2 DEF SessionIsTyped
<1>4. SlotSafe' /\ AuthRequestUnambiguous' /\ MaxAgeAgrees' /\ RedirectSafe'
  BY <1>1, <1>2 DEF SlotSafe, AuthRequestUnambiguous, MaxAgeAgrees, RedirectSafe, GuardNeverTrips,
                         LocationKeepsReturnTo, NoParamStarved
<1>5. QED
  BY <1>3, <1>4 DEF ServiceSafe

LEMMA CallSetterSafe ==
  ASSUME ServiceSafe, NEW call \in SetterCalls, CallSetter(call)
  PROVE  ServiceSafe'
<1>1. config = None /\ config' = None /\ rp = None /\ rp' = None
  BY DEF CallSetter, ServiceSafe, InOrder
<1>2. UNCHANGED <<verdict, slot, signedIn, answer>>
  BY DEF CallSetter
<1>3. BuilderSafe'
  <2>1. Fits(builder) /\ NamesSafe(builder)
    BY FieldsAre DEF ServiceSafe, BuilderSafe, Fits
  <2>2. Fits(AfterCall(builder, call)) /\ NamesSafe(AfterCall(builder, call))
    BY <2>1, AfterCallFits, AfterCallNames
  <2>3. QED
    BY <2>2, FieldsAre DEF CallSetter, BuilderSafe, Fits
<1>4. ConfigSafe'
  BY <1>1 DEF ConfigSafe
<1>5. InOrder'
  <2>1. calls' \in 0 .. MaxCalls
    BY ServiceAssumption DEF CallSetter, ServiceSafe, InOrder
  <2>2. ~signedIn /\ slot = None /\ answer = NoAnswer
    BY <1>1 DEF ServiceSafe, InOrder
  <2>3. QED
    BY <1>1, <1>2, <2>1, <2>2 DEF InOrder
<1>6. QED
  BY <1>1, <1>2, <1>3, <1>4, <1>5, BeforeServing

LEMMA BuildSafe ==
  ASSUME ServiceSafe, Build
  PROVE  ServiceSafe'
<1>1. rp = None /\ rp' = None /\ UNCHANGED <<slot, signedIn, answer>>
  BY DEF Build, ServiceSafe, InOrder
<1>2. BuilderSafe'
  BY NewBuilderFits, NoNamesYet DEF Build, BuilderSafe
<1>3. ConfigSafe'
  <2>1. CASE verdict' = NoError
    <3>1. PICK c : c = Built(builder, "drawn")
      OBVIOUS
    <3>2. AsBuilt(c)
      BY <2>1, <3>1, BuiltIsAsBuilt, LiteralsAssumption DEF Build, ServiceSafe, BuilderSafe
    <3>3. config' = Some(c)
      BY <2>1, <3>1 DEF Build
    <3>4. config'[1] = c
      BY <3>3 DEF Some
    <3>5. QED
      BY <3>2, <3>3, <3>4 DEF ConfigSafe
  <2>2. CASE verdict' # NoError
    BY <2>2 DEF Build, ConfigSafe
  <2>3. QED
    BY <2>1, <2>2
<1>4. InOrder'
  <2>1. ~signedIn /\ slot = None /\ answer = NoAnswer
    BY <1>1 DEF ServiceSafe, InOrder
  <2>2. calls' \in 0 .. MaxCalls
    BY ServiceAssumption DEF Build
  <2>3. QED
    BY <1>1, <2>1, <2>2 DEF InOrder
<1>5. QED
  BY <1>1, <1>2, <1>3, <1>4, BeforeServing

LEMMA DiscoverSafe ==
  ASSUME ServiceSafe, NEW provider, Discover(provider)
  PROVE  ServiceSafe'
<1>1. rp = None /\ UNCHANGED <<slot, signedIn, answer>>
  BY DEF Discover
<1>2. BuilderSafe' /\ ConfigSafe'
  BY DEF Discover, ServiceSafe, BuilderSafe, ConfigSafe
<1>3. InOrder'
  <2>1. ~signedIn /\ slot = None /\ answer = NoAnswer
    BY <1>1 DEF ServiceSafe, InOrder
  <2>2. calls' \in 0 .. MaxCalls /\ config' # None
    BY DEF Discover, ServiceSafe, InOrder
  <2>3. CASE verdict' = NoError
    <3>1. rp' = Some(provider)
      BY <2>3 DEF Discover
    <3>2. rp' # None /\ rp'[1] = provider
      BY <3>1 DEF Some, None
    <3>3. QED
      BY <2>2, <2>3, <3>1, <3>2 DEF InOrder
  <2>4. CASE verdict' # NoError
    <3>1. rp' = None
      BY <2>4 DEF Discover
    <3>2. QED
      BY <1>1, <2>1, <2>2, <3>1 DEF InOrder
  <2>5. QED
    BY <2>3, <2>4
<1>4. QED
  BY <1>1, <1>2, <1>3, BeforeServing

-----------------------------------------------------------------------------
(* The invariant: requests. *)

\* An answer that is not that of a login says nothing of an authorization URL.
LEMMA OtherAnswerSafe ==
  ASSUME ServiceSafe, Serving, UNCHANGED startup,
         slot' \in {slot, None},
         signedIn' \in BOOLEAN,
         answer'.to # "login" \/ answer'.status # 302,
         RedirectSafe',
         answer'.status \in {0, 200, 204, 302, 400, 401, 405}
  PROVE  ServiceSafe'
<1>1. InOrder' /\ BuilderSafe' /\ ConfigSafe'
  BY DEF ServiceSafe, Serving, startup, InOrder, BuilderSafe, ConfigSafe
<1>2. AuthRequestUnambiguous' /\ MaxAgeAgrees'
  BY DEF AuthRequestUnambiguous, MaxAgeAgrees
<1>3. SessionIsTyped' /\ SlotSafe'
  BY DEF ServiceSafe, startup, SessionIsTyped, SlotSafe
<1>4. QED
  BY <1>1, <1>2, <1>3 DEF ServiceSafe

\* While requests are served there is a configuration that build returned.
LEMMA ServingIsBuilt ==
  ASSUME ServiceSafe, Serving
  PROVE  config = Some(config[1]) /\ AsBuilt(config[1])
BY DEF ServiceSafe, Serving, InOrder, ConfigSafe

LEMMA LoginSafe ==
  ASSUME ServiceSafe, NEW extra \in LoginRoutes, NEW asked \in Seq(Tokens), Login(extra, asked)
  PROVE  ServiceSafe'
<1> DEFINE prefix == config[1].return_to_prefix
           return_to == IF asked = <<>> THEN prefix ELSE asked
<1>1. Serving /\ UNCHANGED startup /\ signedIn' = signedIn
  BY DEF Login
<1>2. AsBuilt(config[1]) /\ prefix \in Seq(Tokens) /\ config[1].scopes \in Seq(TrimmedTexts)
  BY <1>1, ServingIsBuilt DEF AsBuilt, OidcBffConfig
<1>3. RouteFits(extra)
  BY RoutesFit
<1>4. CASE ValidateReturnTo(return_to, prefix)
  <2>1. PICK s : s = [return_to |-> return_to, max_age_secs |-> SlotMaxAge(extra)]
    OBVIOUS
  <2>2. s \in Slot /\ s.max_age_secs = extra.max_age_secs
    BY <1>2, <1>3, <2>1 DEF Slot, SlotMaxAge, RouteFits
  <2>3. slot' = Some(s)
    BY <1>4, <2>1 DEF Login
  <2>4. slot' # None /\ slot'[1] = s
    BY <2>3 DEF Some, None
  <2>5. PICK names, scopes : names = UrlNames(extra) /\ scopes = ScopeParam(config[1].scopes)
    OBVIOUS
  <2>6. answer' = [NoAnswer EXCEPT !.to = "login", !.status = 302, !.names = names,
                                   !.scopes = scopes, !.max_age = UrlMaxAge(extra)]
    BY <1>4, <2>5 DEF Login
  <2>7. /\ answer'.status = 302 /\ answer'.names = names /\ answer'.scopes = scopes
        /\ answer'.max_age = UrlMaxAge(extra)
    BY <2>6 DEF NoAnswer
  <2>8. ~Repeats(names) /\ Cardinality({i \in DOMAIN scopes : scopes[i].word = "openid"}) = 1
    BY <1>2, <1>3, <2>5, NamesUnambiguous, OpenidOnce
  <2>9. AuthRequestUnambiguous'
    BY <2>7, <2>8 DEF AuthRequestUnambiguous
  <2>10. MaxAgeAgrees'
    BY <2>2, <2>4, <2>7 DEF MaxAgeAgrees, UrlMaxAge
  <2>11. SessionIsTyped'
    BY <1>1, <2>2, <2>3, <2>4, <2>7 DEF ServiceSafe, SessionIsTyped
  <2>12. InOrder' /\ BuilderSafe' /\ ConfigSafe'
    BY <1>1 DEF ServiceSafe, Serving, startup, InOrder, BuilderSafe, ConfigSafe
  <2>13. SlotSafe'
    <3>1. config' = config /\ s.return_to = return_to
      BY <1>1, <2>1 DEF startup
    <3>2. QED
      BY <1>4, <2>4, <3>1 DEF SlotSafe
  <2>14. RedirectSafe'
    <3>1. answer'.to = "login"
      BY <2>6 DEF NoAnswer
    <3>2. QED
      BY <3>1 DEF RedirectSafe, GuardNeverTrips, LocationKeepsReturnTo, NoParamStarved
  <2>15. QED
    BY <2>9, <2>10, <2>11, <2>12, <2>13, <2>14 DEF ServiceSafe
<1>5. CASE ~ValidateReturnTo(return_to, prefix)
  <2>1. slot' = slot /\ answer' = Refused("login", "BadRequest")
    BY <1>5 DEF Login
  <2>2. Refused("login", "BadRequest").status = 400 /\ Refused("login", "BadRequest").to = "login"
    BY DEF Refused, NoAnswer, StatusOf
  <2>3. RedirectSafe'
    BY <2>1, <2>2 DEF RedirectSafe, GuardNeverTrips, LocationKeepsReturnTo, NoParamStarved
  <2>4. QED
    BY <1>1, <2>1, <2>2, <2>3, OtherAnswerSafe DEF ServiceSafe, SessionIsTyped
<1>6. QED
  BY <1>4, <1>5

-----------------------------------------------------------------------------
(* What the callback adds to the target. *)

LEMMA QueryTyped ==
  ASSUME NEW query \in Queries
  PROVE  /\ query \in Seq(STRING \X Seq(DecodedTokens))
         /\ query \in Seq(STRING \X Seq(Tokens))
<1>1. query \in Seq(STRING \X Seq(DecodedTokens))
  BY ServiceAssumption
<1>2. STRING \X Seq(DecodedTokens) \subseteq STRING \X Seq(Tokens)
  <2>1. \A v \in Seq(DecodedTokens) : v \in Seq(Tokens)
    <3>1. DecodedTokens \subseteq Tokens
      BY DEF DecodedTokens
    <3>2. QED
      BY <3>1, SeqMonotonic
  <2>2. QED
    BY <2>1
<1>3. QED
  BY <1>1, <1>2, SeqMonotonic

\* An encoded pair holds no "&", and is read back as what was encoded.
LEMMA PairIsRead ==
  ASSUME NEW name, Plain(name), Decode[name] = name, NEW value \in Seq(DecodedTokens)
  PROVE  /\ EncodedPair(name, value) \in Seq(Tokens) /\ EncodedPair(name, value) # <<>>
         /\ ~Holds(EncodedPair(name, value), "&")
         /\ NameOf(EncodedPair(name, value)) = <<name>>
         /\ ValueOf(EncodedPair(name, value)) = value
<1> DEFINE tail == Translate(value, Encode)
           behind == <<"=">> \o tail
           pair == EncodedPair(name, value)
           m == Len(value)
<1>1. name \in Tokens /\ name \notin Delimiters /\ "=" \in Tokens /\ "=" # "&" /\ "&" \in Delimiters
      /\ "=" \in Delimiters
  BY TokenAssumption DEF Plain, Delimiters
<1>2. m \in Nat /\ DOMAIN value = 1 .. m /\ \A i \in 1 .. m : value[i] \in DecodedTokens
  BY LenProperties, ElementOfSeq
<1> HIDE DEF m
<1>3. \A i \in 1 .. m : /\ Encode[value[i]] \in Tokens /\ Encode[value[i]] # "&"
                        /\ Decode[Encode[value[i]]] = value[i]
  BY <1>1, <1>2, TokenAssumption DEF DecodedTokens
<1>4. tail = [i \in 1 .. m |-> Encode[value[i]]]
  BY <1>2 DEF Translate
<1>5. tail \in Seq(Tokens)
  BY <1>2, <1>3, <1>4, IsASeq
<1>6. Len(tail) = m /\ \A i \in 1 .. m : tail[i] = Encode[value[i]]
  <2>1. DOMAIN tail = 1 .. m /\ \A i \in 1 .. m : tail[i] = Encode[value[i]]
    BY <1>4
  <2>2. Len(tail) \in Nat /\ DOMAIN tail = 1 .. Len(tail)
    BY <1>5, LenProperties
  <2>3. QED
    BY <1>2, <2>1, <2>2
<1> HIDE DEF tail
<1>7. <<"=">> \in Seq(Tokens) /\ <<name>> \in Seq(Tokens) /\ <<name, "=">> = <<name>> \o <<"=">>
  BY <1>1
<1>8. behind \in Seq(Tokens) /\ Len(behind) = 1 + m /\ behind[1] = "=" /\ behind # <<>>
      /\ \A i \in 1 .. m : behind[i + 1] = tail[i]
  <2>1. Len(<<"=">>) = 1 /\ <<"=">>[1] = "="
    OBVIOUS
  <2>2. /\ behind \in Seq(Tokens) /\ Len(behind) = 1 + m
        /\ \A i \in 1 .. 1 + m : behind[i] = IF i <= 1 THEN <<"=">>[i] ELSE tail[i - 1]
    BY <1>5, <1>6, <1>7, <2>1, ConcatProperties
  <2> HIDE DEF behind
  <2>3. 1 \in 1 .. 1 + m /\ \A i \in 1 .. m : i + 1 \in 1 .. 1 + m /\ ~(i + 1 <= 1) /\ (i + 1) - 1 = i
    BY <1>2
  <2>4. behind[1] = "=" /\ \A i \in 1 .. m : behind[i + 1] = tail[i]
    BY <2>1, <2>2, <2>3
  <2>5. behind # <<>>
    BY <1>2, <2>2, EmptySeq
  <2>6. QED
    BY <2>2, <2>4, <2>5
<1>9. pair = <<name>> \o behind
  <2>1. pair = (<<name>> \o <<"=">>) \o tail
    BY <1>7 DEF EncodedPair, tail
  <2>2. QED
    BY <1>5, <1>7, <2>1, ConcatAssociative
<1> HIDE DEF pair
<1>10. ~Holds(<<name>>, "&") /\ ~Holds(<<name>>, "=") /\ ~Holds(<<"=">>, "&")
  BY <1>1 DEF Holds, ToSet
<1>11. ~Holds(tail, "&")
  BY <1>3, <1>5, <1>6, HoldsIs
<1>12. pair \in Seq(Tokens) /\ ~Holds(pair, "&") /\ pair # <<>>
  <2>1. ~Holds(behind, "&")
    BY <1>5, <1>7, <1>10, <1>11, HoldsJoined
  <2> HIDE DEF behind
  <2>2. ~Holds(pair, "&")
    BY <1>7, <1>8, <1>9, <1>10, <2>1, HoldsJoined
  <2>3. pair \in Seq(Tokens) /\ pair # <<>>
    BY <1>7, <1>8, <1>9, ConcatProperties, ConcatEqualIffEmpty
  <2>4. QED
    BY <2>2, <2>3
<1>13. Until(pair, "=") = <<name>> /\ Rest(pair, "=") = behind
  <2> HIDE DEF behind
  <2>1. QED
    BY <1>7, <1>8, <1>9, <1>10, CutIs
<1>14. NameOf(pair) = <<name>>
  <2>1. Translate(<<name>>, Decode) = <<Decode[name]>>
    BY DEF Translate
  <2>2. QED
    BY <1>13, <2>1 DEF NameOf
<1>15. Tail(behind) = tail
  <2>1. /\ Tail(behind) \in Seq(Tokens) /\ Len(Tail(behind)) = Len(behind) - 1
        /\ \A i \in 1 .. Len(Tail(behind)) : Tail(behind)[i] = behind[i + 1]
    <3> HIDE DEF behind
    <3>1. QED
      BY <1>8, HeadTailProperties
  <2>2. Len(Tail(behind)) = Len(tail) /\ \A i \in 1 .. Len(Tail(behind)) : Tail(behind)[i] = tail[i]
    <3> HIDE DEF behind
    <3>1. QED
      BY <1>2, <1>6, <1>8, <2>1
  <2> HIDE DEF behind
  <2>3. QED
    BY <1>5, <2>1, <2>2, SeqEqual
<1>16. ValueOf(pair) = value
  <2>1. Translate(tail, Decode) = [i \in 1 .. m |-> Decode[tail[i]]]
    BY <1>5, <1>6, LenProperties DEF Translate
  <2>2. value = [i \in 1 .. m |-> value[i]]
    BY <1>2, LenProperties
  <2>3. \A i \in 1 .. m : Decode[tail[i]] = value[i]
    BY <1>3, <1>6
  <2>4. Translate(tail, Decode) = value
    BY <2>1, <2>2, <2>3
  <2>5. QED
    BY <1>13, <1>15, <2>4 DEF ValueOf
<1>17. QED
  BY <1>12, <1>14, <1>16 DEF pair

\* Spent adds the costs of the pairs one by one.
Cost(pair, names) == IF NameOf(pair) \in names THEN Bytes(pair) + 1 ELSE 0
IsSpent(f, pairs, names) ==
  f = [n \in 0 .. Len(pairs) |->
         IF n = 0 THEN 0
         ELSE f[n - 1] + IF NameOf(pairs[n]) \in names THEN Bytes(pairs[n]) + 1 ELSE 0]

SumsCosts(f, pairs, names) ==
  /\ f[0] = 0
  /\ \A n \in 1 .. Len(pairs) : f[n] = f[n - 1] + Cost(pairs[n], names)
  /\ \A n \in 0 .. Len(pairs) : f[n] \in Nat

LEMMA SpentCounts ==
  ASSUME NEW pairs \in Seq(Seq(Tokens)), NEW names
  PROVE  \E f : Spent(pairs, names) = f[Len(pairs)] /\ SumsCosts(f, pairs, names)
<1> DEFINE m == Len(pairs)
           step == [p \in Nat \X (1 .. m) |-> p[1] + Cost(pairs[p[2]], names)]
           f == CHOOSE f : IsSpent(f, pairs, names)
<1>1. m \in Nat /\ \A n \in 1 .. m : Cost(pairs[n], names) \in Nat
  <2>1. \A n \in 1 .. m : pairs[n] \in Seq(Tokens)
    BY ElementOfSeq
  <2>2. \A n \in 1 .. m : Bytes(pairs[n]) \in Nat
    BY <2>1, BytesJoin
  <2>3. QED
    BY <2>2, LenProperties DEF Cost
<1>2. Spent(pairs, names) = f[m]
  BY DEF Spent, IsSpent
<1> HIDE DEF m
<1>3. \A x \in Nat, n \in 1 .. m : step[<<x, n>>] = x + Cost(pairs[n], names)
  <2> SUFFICES ASSUME NEW x \in Nat, NEW n \in 1 .. m
               PROVE  step[<<x, n>>] = x + Cost(pairs[n], names)
    OBVIOUS
  <2>1. <<x, n>> \in Nat \X (1 .. m) /\ <<x, n>>[1] = x /\ <<x, n>>[2] = n
    OBVIOUS
  <2>2. step[<<x, n>>] = <<x, n>>[1] + Cost(pairs[<<x, n>>[2]], names)
    BY <2>1, Zenon DEF step
  <2>3. QED
    BY <2>1, <2>2, Zenon
<1> HIDE DEF step
<1>4. PICK g : /\ Iterates(g, 0, step, m)
               /\ \A n \in 1 .. m : g[n] = step[<<g[n - 1], n>>]
               /\ \A n \in 0 .. m : g[n] \in Nat
  <2>1. \A x \in Nat, n \in 1 .. m : step[<<x, n>>] \in Nat
    <3> SUFFICES ASSUME NEW x \in Nat, NEW n \in 1 .. m PROVE step[<<x, n>>] \in Nat
      OBVIOUS
    <3>1. step[<<x, n>>] = x + Cost(pairs[n], names) /\ Cost(pairs[n], names) \in Nat
      BY <1>1, <1>3
    <3>2. QED
      BY <3>1
  <2>2. 0 \in Nat
    OBVIOUS
  <2>3. QED
    BY <1>1, <2>1, <2>2, LoopRuns
<1>5. IsSpent(g, pairs, names)
  <2>1. \A n \in 0 .. m : n # 0 => n \in 1 .. m /\ n - 1 \in 0 .. m
    BY <1>1
  <2>2. \A n \in 0 .. m : (IF n = 0 THEN 0 ELSE step[<<g[n - 1], n>>])
                            = IF n = 0 THEN 0 ELSE g[n - 1] + Cost(pairs[n], names)
    BY <1>3, <1>4, <2>1
  <2>3. g = [n \in 0 .. m |-> IF n = 0 THEN 0 ELSE g[n - 1] + Cost(pairs[n], names)]
    BY <1>4, <2>2, Zenon DEF Iterates
  <2>4. QED
    BY <2>3, Zenon DEF IsSpent, Cost, m
<1>6. IsSpent(f, pairs, names)
  BY <1>5
<1> HIDE DEF f
<1>7. \A n \in 0 .. m : f[n] = IF n = 0 THEN 0 ELSE f[n - 1] + Cost(pairs[n], names)
  <2>1. f = [n \in 0 .. m |-> IF n = 0 THEN 0 ELSE f[n - 1] + Cost(pairs[n], names)]
    BY <1>6, Zenon DEF IsSpent, Cost, m
  <2>2. QED
    BY <2>1, Zenon
<1>8. 0 \in 0 .. m /\ \A n \in 1 .. m : n \in 0 .. m /\ n # 0
  BY <1>1
<1>9. f[0] = 0 /\ \A n \in 1 .. m : f[n] = f[n - 1] + Cost(pairs[n], names)
  BY <1>7, <1>8
<1>10. \A n \in 0 .. m : f[n] \in Nat
  <2>1. \A n \in 1 .. m : f[n - 1] \in Nat => f[n] \in Nat
    BY <1>1, <1>9
  <2>2. f[0] \in Nat
    BY <1>9
  <2>3. QED
    BY <1>1, <2>1, <2>2, Stepwise
<1>11. SumsCosts(f, pairs, names)
  BY <1>9, <1>10 DEF SumsCosts, m
<1>12. QED
  BY <1>2, <1>11 DEF m

\* One more pair costs what it costs.
LEMMA SpentNext ==
  ASSUME NEW pairs \in Seq(Seq(Tokens)), NEW pair \in Seq(Tokens), NEW names
  PROVE  /\ Spent(pairs, names) \in Nat /\ Spent(<<>>, names) = 0
         /\ Spent(Append(pairs, pair), names) = Spent(pairs, names) + Cost(pair, names)
<1> DEFINE longer == Append(pairs, pair)
           m == Len(pairs)
<1>1. m \in Nat
  BY LenProperties
<1>2. /\ longer \in Seq(Seq(Tokens)) /\ Len(longer) = m + 1 /\ longer[m + 1] = pair
      /\ \A n \in 1 .. m : longer[n] = pairs[n]
  BY AppendProperties
<1> HIDE DEF longer
<1>3. PICK f : Spent(longer, names) = f[Len(longer)] /\ SumsCosts(f, longer, names)
  BY <1>2, SpentCounts
<1>4. PICK g : Spent(pairs, names) = g[m] /\ SumsCosts(g, pairs, names)
  BY SpentCounts
<1>11. /\ f[0] = 0 /\ g[0] = 0
       /\ \A n \in 1 .. m + 1 : f[n] = f[n - 1] + Cost(longer[n], names)
       /\ \A n \in 1 .. m : g[n] = g[n - 1] + Cost(pairs[n], names)
       /\ \A n \in 0 .. m : g[n] \in Nat
  BY <1>2, <1>3, <1>4 DEF SumsCosts
<1> HIDE DEF m
<1>5. f[m] = g[m]
  <2>1. ASSUME NEW n \in 1 .. m, f[n - 1] = g[n - 1] PROVE f[n] = g[n]
    <3>1. n \in 1 .. m + 1
      BY <1>1
    <3>2. QED
      BY <1>2, <1>11, <2>1, <3>1
  <2>2. f[0] = g[0]
    BY <1>11
  <2>3. QED
    BY <1>1, <2>1, <2>2, RunAlike
<1>6. f[m + 1] = f[m] + Cost(pair, names)
  <2>1. PICK k \in Nat : k = m + 1
    BY <1>1
  <2>2. k \in 1 .. m + 1 /\ k - 1 = m
    BY <1>1, <2>1
  <2>3. f[k] = f[k - 1] + Cost(longer[k], names)
    BY <1>11, <2>2
  <2>4. QED
    BY <1>2, <2>1, <2>2, <2>3
<1>7. Spent(longer, names) = Spent(pairs, names) + Cost(pair, names)
  BY <1>2, <1>3, <1>4, <1>5, <1>6
<1>8. Spent(pairs, names) \in Nat
  <2>1. m \in 0 .. m
    BY <1>1
  <2>2. QED
    BY <1>4, <1>11, <2>1
<1>9. Spent(<<>>, names) = 0
  <2>1. <<>> \in Seq(Seq(Tokens)) /\ Len(<<>>) = 0
    BY EmptySeq
  <2>2. PICK h : Spent(<<>>, names) = h[Len(<<>>)] /\ SumsCosts(h, <<>>, names)
    BY <2>1, SpentCounts
  <2>3. QED
    BY <2>1, <2>2 DEF SumsCosts
<1>10. QED
  BY <1>7, <1>8, <1>9 DEF longer

\* A name the request has a value for, and return_to has not; and its pair.
PairOf(query, name) == EncodedPair(name, query[First(query, name)][2])
Offered(return_to, query, name) ==
  IsSelected(query, name) /\ <<name>> \notin NamesOf(return_to)
Join(a, pair) == IF a = <<>> THEN pair ELSE a \o <<"&">> \o pair

LEMMA PairTurns ==
  ASSUME NEW a, NEW return_to, NEW query, NEW name
  PROVE  AppendPair(a, return_to, query, name) =
           IF /\ Offered(return_to, query, name)
              /\ ~(Bytes(Join(a, PairOf(query, name))) > MAX_PASSTHROUGH_TOTAL_LEN)
           THEN Join(a, PairOf(query, name)) ELSE a
BY DEF AppendPair, Offered, Join, PairOf

LEMMA OfferIsRead ==
  ASSUME NEW return_to, NEW query \in Seq(STRING \X Seq(DecodedTokens)),
         NEW name, Plain(name), Decode[name] = name, Offered(return_to, query, name)
  PROVE  /\ PairOf(query, name) \in Seq(Tokens) /\ PairOf(query, name) # <<>>
         /\ ~Holds(PairOf(query, name), "&")
         /\ NameOf(PairOf(query, name)) = <<name>>
         /\ ValueOf(PairOf(query, name)) = query[First(query, name)][2]
<1>1. query[First(query, name)][2] \in Seq(DecodedTokens)
  BY FoundIsThere DEF Offered, IsSelected
<1>2. QED
  BY <1>1, PairIsRead, Zenon DEF PairOf

\* Concatenation is associative, of strings and of sequences of strings.
Associates(u, j, a) == (u \o j) \o a = u \o (j \o a)

LEMMA ThreeAssociate ==
  ASSUME NEW u \in Seq(Tokens), NEW j \in Seq(Tokens), NEW a \in Seq(Tokens)
  PROVE  Associates(u, j, a)
BY JoinsAssociate DEF Associates

LEMMA PairsAssociate ==
  ASSUME NEW u \in Seq(Seq(Tokens)), NEW j \in Seq(Seq(Tokens)), NEW a \in Seq(Seq(Tokens))
  PROVE  Associates(u, j, a)
BY ConcatAssociative DEF Associates

\* The string a is the pairs ps, joined, wherever it stands.
Assembled(a, ps) ==
  /\ a \in Seq(Tokens) /\ ps \in Seq(Seq(Tokens))
  /\ a = <<>> <=> ps = <<>>
  /\ a # <<>> =>
       /\ Split(a, "&") = ps
       /\ \A q \in Seq(Tokens) : Split((q \o <<"&">>) \o a, "&") = Split(q, "&") \o ps

LEMMA AssembledNext ==
  ASSUME NEW a, NEW ps, Assembled(a, ps),
         NEW pair \in Seq(Tokens), pair # <<>>, ~Holds(pair, "&")
  PROVE  Assembled(Join(a, pair), Append(ps, pair))
<1> DEFINE qs == Append(ps, pair)
           b == Join(a, pair)
<1>1. a \in Seq(Tokens) /\ ps \in Seq(Seq(Tokens)) /\ (a = <<>> <=> ps = <<>>)
  BY DEF Assembled
<1>2. "&" \in Tokens /\ <<"&">> \in Seq(Tokens)
  BY TokenAssumption DEF Delimiters
<1>3. qs \in Seq(Seq(Tokens)) /\ qs # <<>> /\ qs = ps \o <<pair>>
  BY <1>1, AppendProperties, AppendIsConcat
<1>4. \A q \in Seq(Tokens) : /\ Split(q, "&") \in Seq(Seq(Tokens))
                           /\ Split((q \o <<"&">>) \o pair, "&") = Append(Split(q, "&"), pair)
  BY <1>2, SplitNext DEF Rows
<1>5. \A v \in Seq(Seq(Tokens)) : Append(v, pair) = v \o <<pair>>
  BY AppendIsConcat
<1>6. CASE a = <<>>
  <2>1. b = pair /\ ps = <<>>
    BY <1>1, <1>6 DEF Join
  <2>2. qs = <<pair>>
    BY <2>1
  <2>3. Split(b, "&") = qs
    BY <1>2, <2>1, <2>2, SplitOfOne
  <2>4. \A q \in Seq(Tokens) : Split((q \o <<"&">>) \o b, "&") = Split(q, "&") \o qs
    BY <1>4, <1>5, <2>1, <2>2
  <2> HIDE DEF qs, b
  <2>5. Assembled(b, qs)
    BY <1>3, <2>1, <2>3, <2>4 DEF Assembled
  <2>6. QED
    BY <2>5 DEF qs, b
<1>7. CASE a # <<>>
  <2>1. b = (a \o <<"&">>) \o pair
    BY <1>7 DEF Join
  <2>2. /\ Split(a, "&") = ps
        /\ \A q \in Seq(Tokens) : Split((q \o <<"&">>) \o a, "&") = Split(q, "&") \o ps
    BY <1>7 DEF Assembled
  <2>3. b \in Seq(Tokens) /\ b # <<>>
    <3>1. a \o <<"&">> \in Seq(Tokens)
      BY <1>1, <1>2, ConcatProperties
    <3>2. QED
      BY <2>1, <3>1, ConcatProperties, ConcatEqualIffEmpty
  <2>4. Split(b, "&") = qs
    BY <1>1, <1>4, <2>1, <2>2
  <2> HIDE DEF qs, b
  <2>5. ASSUME NEW q \in Seq(Tokens)
        PROVE  Split((q \o <<"&">>) \o b, "&") = Split(q, "&") \o qs
    <3>1. PICK v : v = (q \o <<"&">>) \o a
      OBVIOUS
    <3>2. q \o <<"&">> \in Seq(Tokens) /\ a \o <<"&">> \in Seq(Tokens)
      BY <1>1, <1>2, ConcatProperties
    <3>3. v \in Seq(Tokens)
      BY <1>1, <3>1, <3>2, ConcatProperties
    <3>4. (q \o <<"&">>) \o b = (v \o <<"&">>) \o pair
      <4>1. Associates(q \o <<"&">>, a \o <<"&">>, pair)
        BY <3>2, ThreeAssociate
      <4>2. Associates(q \o <<"&">>, a, <<"&">>)
        BY <1>1, <1>2, <3>2, ThreeAssociate
      <4>3. (q \o <<"&">>) \o ((a \o <<"&">>) \o pair) = ((q \o <<"&">>) \o (a \o <<"&">>)) \o pair
        BY <4>1, Zenon DEF Associates
      <4>4. (q \o <<"&">>) \o (a \o <<"&">>) = v \o <<"&">>
        BY <3>1, <4>2, Zenon DEF Associates
      <4>5. QED
        BY <2>1, <4>3, <4>4, Zenon
    <3>5. Split((q \o <<"&">>) \o b, "&") = Append(Split(v, "&"), pair)
      BY <1>4, <3>3, <3>4
    <3>6. Split(v, "&") = Split(q, "&") \o ps
      BY <2>2, <3>1
    <3>7. Split(q, "&") \in Seq(Seq(Tokens)) /\ Split(q, "&") \o ps \in Seq(Seq(Tokens))
      BY <1>1, <1>4, ConcatProperties
    <3>8. Append(Split(v, "&"), pair) = (Split(q, "&") \o ps) \o <<pair>>
      BY <1>5, <3>6, <3>7
    <3>9. (Split(q, "&") \o ps) \o <<pair>> = Split(q, "&") \o (ps \o <<pair>>)
      <4>1. <<pair>> \in Seq(Seq(Tokens))
        OBVIOUS
      <4>2. Associates(Split(q, "&"), ps, <<pair>>)
        BY <1>1, <3>7, <4>1, PairsAssociate
      <4>3. QED
        BY <4>2, Zenon DEF Associates
    <3>10. QED
      BY <1>3, <3>5, <3>8, <3>9
  <2>6. Assembled(b, qs)
    BY <1>3, <2>3, <2>4, <2>5 DEF Assembled
  <2>7. QED
    BY <2>6 DEF qs, b
<1>8. QED
  BY <1>6, <1>7

\* What a string of pairs takes, with its joiners, is what its pairs spend.
Weighs(a, ps) ==
  \A names : (\A k \in 1 .. Len(ps) : NameOf(ps[k]) \in names) =>
    Spent(ps, names) = IF a = <<>> THEN 0 ELSE Bytes(a) + 1

LEMMA JoinBytes ==
  ASSUME NEW a \in Seq(Tokens), NEW pair \in Seq(Tokens)
  PROVE  /\ Bytes(a) \in Nat /\ Bytes(pair) \in Nat
         /\ Join(a, pair) \in Seq(Tokens)
         /\ Bytes(Join(a, pair)) = (IF a = <<>> THEN 0 ELSE Bytes(a) + 1) + Bytes(pair)
<1>1. Bytes(a) \in Nat /\ Bytes(pair) \in Nat
  BY BytesJoin
<1>2. "&" \in Tokens /\ <<"&">> \in Seq(Tokens) /\ Width["&"] = 1
  BY TokenAssumption DEF Delimiters
<1>3. Bytes(<<"&">>) = 1
  BY <1>2, BytesOfOne
<1>4. a \o <<"&">> \in Seq(Tokens) /\ Bytes(a \o <<"&">>) = Bytes(a) + 1
  BY <1>2, <1>3, BytesJoin
<1>5. /\ (a \o <<"&">>) \o pair \in Seq(Tokens)
      /\ Bytes((a \o <<"&">>) \o pair) = Bytes(a \o <<"&">>) + Bytes(pair)
  BY <1>4, BytesJoin
<1>6. CASE a = <<>>
  BY <1>1, <1>6 DEF Join
<1>7. CASE a # <<>>
  <2>1. Join(a, pair) = (a \o <<"&">>) \o pair
    BY <1>7 DEF Join
  <2>2. QED
    BY <1>1, <1>4, <1>5, <1>7, <2>1
<1>8. QED
  BY <1>6, <1>7

LEMMA WeighsNext ==
  ASSUME NEW a \in Seq(Tokens), NEW ps \in Seq(Seq(Tokens)), Weighs(a, ps),
         NEW pair \in Seq(Tokens), Join(a, pair) # <<>>
  PROVE  Weighs(Join(a, pair), Append(ps, pair))
<1> DEFINE qs == Append(ps, pair)
           k == Len(ps)
<1>1. /\ k \in Nat /\ qs \in Seq(Seq(Tokens)) /\ Len(qs) = k + 1 /\ qs[k + 1] = pair
      /\ \A i \in 1 .. k : qs[i] = ps[i]
  BY AppendProperties, LenProperties
<1>2. ASSUME NEW names, \A i \in 1 .. Len(qs) : NameOf(qs[i]) \in names
      PROVE  Spent(qs, names) = Bytes(Join(a, pair)) + 1
  <2> HIDE DEF qs, k
  <2>1. \A i \in 1 .. k : NameOf(ps[i]) \in names
    <3>1. \A i \in 1 .. k : i \in 1 .. Len(qs)
      BY <1>1
    <3>2. QED
      BY <1>1, <1>2, <3>1
  <2>2. NameOf(pair) \in names
    <3>1. k + 1 \in 1 .. Len(qs)
      BY <1>1
    <3>2. NameOf(qs[k + 1]) \in names
      BY <1>2, <3>1
    <3>3. QED
      BY <1>1, <3>2
  <2>3. Spent(ps, names) = IF a = <<>> THEN 0 ELSE Bytes(a) + 1
    BY <2>1 DEF Weighs, k
  <2>4. Cost(pair, names) = Bytes(pair) + 1
    BY <2>2 DEF Cost
  <2>5. Spent(qs, names) = Spent(ps, names) + Cost(pair, names)
    BY SpentNext DEF qs
  <2>6. /\ Bytes(a) \in Nat /\ Bytes(pair) \in Nat
        /\ Bytes(Join(a, pair)) = (IF a = <<>> THEN 0 ELSE Bytes(a) + 1) + Bytes(pair)
    BY JoinBytes
  <2>7. PICK x \in Nat : x = IF a = <<>> THEN 0 ELSE Bytes(a) + 1
    BY <2>6
  <2>8. PICK b \in Nat : b = Bytes(pair)
    BY <2>6
  <2>9. Spent(qs, names) = x + (b + 1) /\ Bytes(Join(a, pair)) = x + b
    BY <2>3, <2>4, <2>5, <2>6, <2>7, <2>8, Zenon
  <2>10. QED
    <3>1. x + (b + 1) = (x + b) + 1
      OBVIOUS
    <3>2. QED
      BY <2>9, <3>1, Zenon
<1>3. QED
  BY <1>2 DEF Weighs

\* What the loop has made of the first n names: ps are pairs of names on offer,
\* each name once; and a name on offer is among them or did not fit in what the
\* earlier names had left.
Earlier(allow, m) == {<<allow[j]>> : j \in 1 .. m - 1}
Chosen(ps, n, return_to, query, allow) ==
  \A k \in 1 .. Len(ps) : \E m \in 1 .. n :
    Offered(return_to, query, allow[m]) /\ ps[k] = PairOf(query, allow[m])
Apart(ps) ==
  \A k \in 1 .. Len(ps) : \A l \in 1 .. k - 1 : NameOf(ps[k]) # NameOf(ps[l])
Served(ps, m, query, allow) ==
  \/ \E k \in 1 .. Len(ps) : NameOf(ps[k]) = <<allow[m]>>
  \/ Spent(ps, Earlier(allow, m)) + Bytes(PairOf(query, allow[m])) > MAX_PASSTHROUGH_TOTAL_LEN
Fair(ps, n, return_to, query, allow) ==
  \A m \in 1 .. n : Offered(return_to, query, allow[m]) => Served(ps, m, query, allow)
Packed(a, ps, n, return_to, query, allow) ==
  /\ Assembled(a, ps) /\ Weighs(a, ps)
  /\ Chosen(ps, n, return_to, query, allow) /\ Apart(ps)
  /\ Fair(ps, n, return_to, query, allow)

\* The allowlist and the query of a callback.
Requested(query, allow) ==
  /\ query \in Seq(STRING \X Seq(DecodedTokens))
  /\ Len(allow) \in Nat /\ DOMAIN allow = 1 .. Len(allow) /\ IsAllowlist(allow)

LEMMA PackedNext ==
  ASSUME NEW query, NEW allow, Requested(query, allow), NEW return_to,
         NEW n \in 1 .. Len(allow), NEW a, NEW ps, Packed(a, ps, n - 1, return_to, query, allow)
  PROVE  \E qs : Packed(AppendPair(a, return_to, query, allow[n]), qs, n, return_to, query, allow)
<1> DEFINE name == allow[n]
           pair == PairOf(query, name)
           after == AppendPair(a, return_to, query, name)
           budget == MAX_PASSTHROUGH_TOTAL_LEN
<1>1. n \in Nat /\ Len(allow) \in Nat /\ budget \in Nat
  BY BudgetAssumption DEF Requested
<1>2. query \in Seq(STRING \X Seq(DecodedTokens))
  BY DEF Requested
<1>3. /\ \A i \in 1 .. Len(allow) : Plain(allow[i]) /\ Decode[allow[i]] = allow[i]
      /\ \A i, j \in 1 .. Len(allow) : allow[i] = allow[j] => i = j
  BY DEF Requested, IsAllowlist
<1>4. /\ Assembled(a, ps) /\ Weighs(a, ps) /\ Chosen(ps, n - 1, return_to, query, allow)
      /\ Apart(ps) /\ Fair(ps, n - 1, return_to, query, allow)
  BY DEF Packed
<1>5. a \in Seq(Tokens) /\ ps \in Seq(Seq(Tokens)) /\ Len(ps) \in Nat
  BY <1>4, LenProperties DEF Assembled
<1>6. \A m \in 1 .. Len(allow) : Offered(return_to, query, allow[m]) =>
        /\ PairOf(query, allow[m]) \in Seq(Tokens) /\ PairOf(query, allow[m]) # <<>>
        /\ ~Holds(PairOf(query, allow[m]), "&")
        /\ NameOf(PairOf(query, allow[m])) = <<allow[m]>>
  <2>1. ASSUME NEW word, Plain(word), Decode[word] = word, Offered(return_to, query, word)
        PROVE  /\ PairOf(query, word) \in Seq(Tokens) /\ PairOf(query, word) # <<>>
               /\ ~Holds(PairOf(query, word), "&")
               /\ NameOf(PairOf(query, word)) = <<word>>
    BY <1>2, <2>1, OfferIsRead
  <2>2. QED
    BY <1>3, <2>1
<1>7. \A m \in 1 .. n - 1 : m \in 1 .. n /\ m \in 1 .. Len(allow) /\ m # n
  BY <1>1
<1>8. after = IF Offered(return_to, query, name) /\ ~(Bytes(Join(a, pair)) > budget)
              THEN Join(a, pair) ELSE a
  BY PairTurns
<1> HIDE DEF after, budget
<1>9. \A k \in 1 .. Len(ps) : \E m \in 1 .. n - 1 :
        /\ Offered(return_to, query, allow[m]) /\ ps[k] = PairOf(query, allow[m])
        /\ NameOf(ps[k]) = <<allow[m]>>
  BY <1>4, <1>6, <1>7 DEF Chosen
<1>10. Chosen(ps, n, return_to, query, allow)
  BY <1>7, <1>9 DEF Chosen
<1>11. \A m \in 1 .. n : m # n => m \in 1 .. n - 1
  BY <1>1
<1>12. CASE ~Offered(return_to, query, name)
  <2>1. Fair(ps, n, return_to, query, allow)
    BY <1>4, <1>11, <1>12 DEF Fair
  <2>2. QED
    BY <1>4, <1>8, <1>10, <1>12, <2>1 DEF Packed, after
<1>13. CASE Offered(return_to, query, name) /\ Bytes(Join(a, pair)) > budget
  <2>1. pair \in Seq(Tokens)
    BY <1>6, <1>13
  <2>2. \A k \in 1 .. Len(ps) : NameOf(ps[k]) \in Earlier(allow, n)
    BY <1>9 DEF Earlier
  <2> HIDE DEF pair
  <2>3. Spent(ps, Earlier(allow, n)) = IF a = <<>> THEN 0 ELSE Bytes(a) + 1
    BY <1>4, <2>2 DEF Weighs
  <2>4. Bytes(Join(a, pair)) = Spent(ps, Earlier(allow, n)) + Bytes(pair)
    BY <1>5, <2>1, <2>3, JoinBytes
  <2>5. Served(ps, n, query, allow)
    BY <1>13, <2>4 DEF Served, pair, budget
  <2>6. Fair(ps, n, return_to, query, allow)
    BY <1>4, <1>11, <2>5 DEF Fair
  <2>7. QED
    BY <1>4, <1>8, <1>10, <1>13, <2>6 DEF Packed, after
<1>14. CASE Offered(return_to, query, name) /\ ~(Bytes(Join(a, pair)) > budget)
  <2> DEFINE qs == Append(ps, pair)
             l == Len(ps)
  <2>1. pair \in Seq(Tokens) /\ pair # <<>> /\ ~Holds(pair, "&") /\ NameOf(pair) = <<name>>
    BY <1>6, <1>14
  <2>2. after = Join(a, pair)
    BY <1>8, <1>14
  <2> HIDE DEF pair, name
  <2>3. Assembled(Join(a, pair), qs)
    BY <1>4, <2>1, AssembledNext
  <2>4. /\ l \in Nat /\ Len(qs) = l + 1 /\ qs[l + 1] = pair
        /\ \A i \in 1 .. l : qs[i] = ps[i]
    BY <1>5, <2>1, AppendProperties
  <2>5. \A k \in 1 .. Len(qs) : k \in 1 .. l \/ k = l + 1
    BY <2>4
  <2>6. Weighs(Join(a, pair), qs)
    <3>1. Join(a, pair) # <<>>
      <4>1. qs # <<>>
        <5> HIDE DEF qs
        <5>1. QED
          BY <2>4, EmptySeq
      <4>2. QED
        BY <2>3, <4>1 DEF Assembled
    <3>2. QED
      BY <1>4, <1>5, <2>1, <3>1, WeighsNext
  <2>7. Chosen(qs, n, return_to, query, allow)
    <3>1. \A k \in 1 .. l : \E m \in 1 .. n :
            Offered(return_to, query, allow[m]) /\ qs[k] = PairOf(query, allow[m])
      BY <1>10, <2>4 DEF Chosen
    <3>2. n \in 1 .. n /\ Offered(return_to, query, allow[n]) /\ qs[l + 1] = PairOf(query, allow[n])
      BY <1>1, <1>14, <2>4 DEF pair, name
    <3> HIDE DEF qs, l
    <3>3. QED
      BY <2>5, <3>1, <3>2 DEF Chosen
  <2>8. Apart(qs)
    <3>1. \A k \in 1 .. l : NameOf(qs[k]) # NameOf(qs[l + 1])
      <4>1. \A m \in 1 .. n - 1 : allow[m] # name
        BY <1>3, <1>7 DEF name
      <4>2. QED
        BY <1>9, <2>1, <2>4, <4>1
    <3>2. \A k \in 1 .. l : \A j \in 1 .. k - 1 : NameOf(qs[k]) # NameOf(qs[j])
      <4>1. \A k \in 1 .. l : \A j \in 1 .. k - 1 : j \in 1 .. l
        BY <2>4
      <4> HIDE DEF qs
      <4>2. QED
        BY <1>4, <2>4, <4>1 DEF Apart
    <3>3. \A j \in 1 .. (l + 1) - 1 : j \in 1 .. l
      BY <2>4
    <3> HIDE DEF qs, l
    <3>4. QED
      BY <2>5, <3>1, <3>2, <3>3 DEF Apart
  <2>9. Fair(qs, n, return_to, query, allow)
    <3>1. ASSUME NEW m \in 1 .. n - 1, Offered(return_to, query, allow[m]),
                 Served(ps, m, query, allow)
          PROVE  Served(qs, m, query, allow)
      <4>1. CASE \E k \in 1 .. Len(ps) : NameOf(ps[k]) = <<allow[m]>>
        <5>1. PICK k \in 1 .. l : NameOf(ps[k]) = <<allow[m]>>
          BY <4>1
        <5>2. k \in 1 .. Len(qs) /\ qs[k] = ps[k]
          BY <2>4
        <5> HIDE DEF qs
        <5>3. QED
          BY <5>1, <5>2 DEF Served
      <4>2. CASE Spent(ps, Earlier(allow, m)) + Bytes(PairOf(query, allow[m])) > budget
        <5>1. PairOf(query, allow[m]) \in Seq(Tokens)
          BY <1>6, <1>7, <3>1
        <5>2. PICK b \in Nat : b = Bytes(PairOf(query, allow[m]))
          BY <5>1, BytesJoin
        <5>3. PICK E : E = Earlier(allow, m)
          OBVIOUS
        <5>4. /\ Spent(ps, E) \in Nat
              /\ Spent(qs, E) = Spent(ps, E) + Cost(pair, E)
          BY <1>5, <2>1, SpentNext
        <5>5. Cost(pair, E) \in Nat
          <6>1. Bytes(pair) \in Nat
            BY <2>1, BytesJoin
          <6>2. QED
            BY <6>1 DEF Cost
        <5> HIDE DEF qs
        <5>6. Spent(qs, E) + b > budget
          BY <1>1, <4>2, <5>2, <5>3, <5>4, <5>5
        <5>7. QED
          BY <5>2, <5>3, <5>6 DEF Served, budget
      <4>3. QED
        BY <3>1, <4>1, <4>2 DEF Served, budget
    <3>2. Served(qs, n, query, allow)
      <4>1. l + 1 \in 1 .. Len(qs) /\ NameOf(qs[l + 1]) = <<allow[n]>>
        BY <2>1, <2>4 DEF name
      <4> HIDE DEF qs
      <4>2. QED
        BY <4>1 DEF Served
    <3> HIDE DEF qs
    <3>3. QED
      BY <1>4, <1>11, <3>1, <3>2 DEF Fair
  <2>10. Packed(after, qs, n, return_to, query, allow)
    <3> HIDE DEF qs
    <3>1. QED
      BY <2>2, <2>3, <2>6, <2>7, <2>8, <2>9 DEF Packed
  <2>11. QED
    BY <2>10 DEF after, name
<1>15. QED
  BY <1>12, <1>13, <1>14

LEMMA LoopPacks ==
  ASSUME NEW query, NEW allow, Requested(query, allow), NEW return_to
  PROVE  \E ps : Packed(Appended(return_to, query, allow), ps, Len(allow), return_to, query, allow)
<1>1. /\ query \in Seq(STRING \X Seq(Tokens)) /\ query \in Seq(STRING \X Seq(DecodedTokens))
      /\ Len(allow) \in Nat /\ \A n \in 1 .. Len(allow) : Plain(allow[n])
  <2>1. STRING \X Seq(DecodedTokens) \subseteq STRING \X Seq(Tokens)
    <3>1. DecodedTokens \subseteq Tokens
      BY DEF DecodedTokens
    <3>2. \A v \in Seq(DecodedTokens) : v \in Seq(Tokens)
      BY <3>1, SeqMonotonic
    <3>3. QED
      BY <3>2
  <2>2. query \in Seq(STRING \X Seq(DecodedTokens))
    BY DEF Requested
  <2>3. query \in Seq(STRING \X Seq(Tokens))
    BY <2>1, <2>2, SeqMonotonic
  <2>4. QED
    BY <2>2, <2>3 DEF Requested, IsAllowlist
<1>2. PICK f : Appended(return_to, query, allow) = f[Len(allow)] /\ Runs(f, return_to, query, allow)
  BY <1>1, LoopRunsPassably
<1> DEFINE m == Len(allow)
           G == {n \in Nat : n <= m => \E ps : Packed(f[n], ps, n, return_to, query, allow)}
<1>3. 0 \in G
  <2>1. f[0] = <<>>
    BY <1>2 DEF Runs
  <2>2. Assembled(<<>>, <<>>)
    BY EmptySeq DEF Assembled
  <2>3. Len(<<>>) = 0
    OBVIOUS
  <2>4. Weighs(<<>>, <<>>)
    <3>1. <<>> \in Seq(Seq(Tokens)) /\ <<>> \in Seq(Tokens)
      BY EmptySeq
    <3>2. \A names : Spent(<<>>, names) = 0
      BY <3>1, SpentNext
    <3>3. QED
      BY <3>2 DEF Weighs
  <2>5. Chosen(<<>>, 0, return_to, query, allow) /\ Apart(<<>>) /\ Fair(<<>>, 0, return_to, query, allow)
    BY <2>3 DEF Chosen, Apart, Fair
  <2>6. Packed(<<>>, <<>>, 0, return_to, query, allow)
    BY <2>2, <2>4, <2>5 DEF Packed
  <2>7. QED
    BY <2>1, <2>6
<1>4. ASSUME NEW n \in Nat, n \in G PROVE n + 1 \in G
  <2> SUFFICES ASSUME n + 1 <= m
               PROVE  \E ps : Packed(f[n + 1], ps, n + 1, return_to, query, allow)
    OBVIOUS
  <2>1. PICK k \in Nat : k = n + 1
    OBVIOUS
  <2>2. k \in 1 .. Len(allow) /\ k - 1 = n /\ n <= m
    BY <1>1, <2>1
  <2>3. PICK ps : Packed(f[n], ps, n, return_to, query, allow)
    BY <1>4, <2>2
  <2>4. PICK a : a = f[n]
    OBVIOUS
  <2>5. Packed(a, ps, k - 1, return_to, query, allow)
    BY <2>2, <2>3, <2>4
  <2>6. \E qs : Packed(AppendPair(a, return_to, query, allow[k]), qs, k, return_to, query, allow)
    BY <2>2, <2>5, PackedNext
  <2>7. f[k] = AppendPair(a, return_to, query, allow[k])
    BY <1>2, <2>2, <2>4 DEF Runs
  <2>8. QED
    BY <2>1, <2>6, <2>7
<1> HIDE DEF G
<1>5. G = Nat
  <2>1. G \in SUBSET Nat
    BY DEF G
  <2>2. QED
    BY <1>3, <1>4, <2>1, SetInduction
<1>6. m \in Nat /\ m \in G
  BY <1>1, <1>5
<1>7. QED
  BY <1>2, <1>6 DEF G

\* Where the pairs end up: path and fragment of a target stay, and its query
\* is what it was with the pairs behind it.
Composed(s, a) ==
  IF a = <<>> THEN s
  ELSE ((Until(s, "#") \o (IF HasQuery(s) THEN <<"&">> ELSE <<"?">>)) \o a) \o Rest(s, "#")
Landed(t, s, ps) ==
  /\ Until(Until(t, "#"), "?") = Until(Until(s, "#"), "?")
  /\ Rest(t, "#") = Rest(s, "#")
  /\ PairsOf(s) \in Seq(Seq(Tokens)) /\ PairsOf(t) = PairsOf(s) \o ps

LEMMA PairsTyped ==
  ASSUME NEW s \in Seq(Tokens)
  PROVE  /\ Until(s, "#") \in Seq(Tokens) /\ ~Holds(Until(s, "#"), "#")
         /\ Rest(s, "#") \in Seq(Tokens) /\ (Rest(s, "#") # <<>> => Rest(s, "#")[1] = "#")
         /\ Until(Until(s, "#"), "?") \in Seq(Tokens) /\ ~Holds(Until(Until(s, "#"), "?"), "?")
         /\ Rest(Until(s, "#"), "?") \in Seq(Tokens)
         /\ Until(s, "#") = Until(Until(s, "#"), "?") \o Rest(Until(s, "#"), "?")
         /\ HasQuery(s) => /\ Rest(Until(s, "#"), "?") # <<>> /\ Rest(Until(s, "#"), "?")[1] = "?"
                           /\ QueryOf(s) \in Seq(Tokens)
         /\ ~HasQuery(s) => Rest(Until(s, "#"), "?") = <<>>
         /\ PairsOf(s) \in Seq(Seq(Tokens))
<1> DEFINE u == Until(s, "#")
           v == Until(u, "?")
           w == Rest(u, "?")
<1>1. /\ u \in Seq(Tokens) /\ Rest(s, "#") \in Seq(Tokens) /\ ~Holds(u, "#")
      /\ Rest(s, "#") # <<>> => Rest(s, "#")[1] = "#"
  BY UntilCuts
<1> HIDE DEF u
<1>2. /\ v \in Seq(Tokens) /\ w \in Seq(Tokens) /\ v \o w = u /\ ~Holds(v, "?")
      /\ w # <<>> => w[1] = "?"
  BY <1>1, UntilCuts
<1> HIDE DEF v, w
<1>3. HasQuery(s) => w # <<>>
  <2>1. w = <<>> => u = v
    BY <1>2, ConcatEmptySeq
  <2>2. QED
    BY <1>2, <2>1 DEF HasQuery, u
<1>4. ~HasQuery(s) => w = <<>>
  <2> SUFFICES ASSUME w # <<>> PROVE HasQuery(s)
    OBVIOUS
  <2>1. Len(w) \in Nat /\ Len(w) # 0
    BY <1>2, EmptySeq, LenProperties
  <2>2. 1 \in 1 .. Len(w) /\ w[1] = "?"
    BY <1>2, <2>1
  <2>3. Holds(w, "?")
    BY <1>2, <2>2, HoldsIs
  <2>4. Holds(v \o w, "?")
    BY <1>2, <2>3, HoldsJoined
  <2>5. QED
    BY <1>2, <2>4 DEF HasQuery, u
<1>5. HasQuery(s) => QueryOf(s) \in Seq(Tokens)
  <2>1. HasQuery(s) => Tail(w) \in Seq(Tokens)
    BY <1>2, <1>3, HeadTailProperties
  <2>2. QED
    BY <2>1 DEF QueryOf, w, u
<1>6. PairsOf(s) \in Seq(Seq(Tokens))
  <2>1. "&" \in Tokens /\ <<>> \in Seq(Tokens) /\ ~Holds(<<>>, "&")
    BY TokenAssumption, EmptySeq DEF Delimiters, Holds, ToSet
  <2>2. \A q \in Seq(Tokens) : Split(q, "&") \in Rows
    BY <2>1, SplitNext
  <2>3. QED
    BY <1>5, <2>2, EmptySeq DEF PairsOf, Rows
<1>7. QED
  BY <1>1, <1>2, <1>3, <1>4, <1>5, <1>6 DEF u, v, w

\* A target by its parts: v the path, w the query with its "?", r the fragment.
PartsOf(t, v, w, r) ==
  /\ Until(Until(t, "#"), "?") = v /\ Rest(t, "#") = r
  /\ PairsOf(t) = Split(Tail(w), "&")
IsQuery(w) == w # <<>> /\ w[1] = "?"
IsFragment(r) == r # <<>> => r[1] = "#"

LEMMA PartsAre ==
  ASSUME NEW v \in Seq(Tokens), NEW w \in Seq(Tokens), NEW r \in Seq(Tokens),
         ~Holds(v, "?"), ~Holds(v \o w, "#"), IsQuery(w), IsFragment(r)
  PROVE  PartsOf((v \o w) \o r, v, w, r)
<1> USE DEF IsQuery, IsFragment
<1> DEFINE u == v \o w
           t == u \o r
<1>1. u \in Seq(Tokens) /\ ~Holds(u, "#")
  BY ConcatProperties
<1>2. Until(u, "?") = v /\ Rest(u, "?") = w
  BY CutIs
<1>3. Holds(u, "?")
  <2>1. Len(w) \in Nat /\ Len(w) # 0
    BY EmptySeq, LenProperties
  <2>2. 1 \in 1 .. Len(w)
    BY <2>1
  <2>3. Holds(w, "?")
    BY <2>2, HoldsIs
  <2>4. QED
    BY <2>3, HoldsJoined
<1> HIDE DEF u
<1>4. Until(t, "#") = u /\ Rest(t, "#") = r
  BY <1>1, CutIs
<1> HIDE DEF t
<1>5. PairsOf(t) = Split(Tail(w), "&")
  BY <1>2, <1>3, <1>4 DEF PairsOf, HasQuery, QueryOf
<1>6. Until(Until(t, "#"), "?") = v
  BY <1>2, <1>4
<1>7. QED
  BY <1>4, <1>5, <1>6 DEF t, u, PartsOf

\* Strings without "#", joined.
LEMMA NoFragment ==
  ASSUME NEW a \in Seq(Tokens), NEW b \in Seq(Tokens), ~Holds(a, "#"), ~Holds(b, "#")
  PROVE  a \o b \in Seq(Tokens) /\ ~Holds(a \o b, "#")
BY HoldsJoined, ConcatProperties

Regroups(v, w, j, a) == ((v \o w) \o j) \o a = v \o (w \o (j \o a))

LEMMA FourAssociate ==
  ASSUME NEW v \in Seq(Tokens), NEW w \in Seq(Tokens), NEW j \in Seq(Tokens), NEW a \in Seq(Tokens)
  PROVE  Regroups(v, w, j, a)
<1>1. PICK u \in Seq(Tokens) : u = v \o w
  BY ConcatProperties
<1>2. (u \o j) \o a = u \o (j \o a)
  BY JoinsAssociate
<1>3. PICK m \in Seq(Tokens) : m = j \o a
  BY ConcatProperties
<1>4. Associates(v, w, m)
  BY ThreeAssociate
<1>5. QED
  BY <1>1, <1>2, <1>3, <1>4, Zenon DEF Regroups, Associates

\* What is put behind a string v \o w extends w.
Extends(v, w, j, a, x) ==
  /\ x = w \o (j \o a) /\ x = (w \o j) \o a
  /\ ((v \o w) \o j) \o a = v \o x /\ ~Holds(v \o x, "#")

LEMMA Longer ==
  ASSUME NEW v \in Seq(Tokens), NEW w \in Seq(Tokens), NEW j \in Seq(Tokens), NEW a \in Seq(Tokens),
         ~Holds(v \o w, "#"), ~Holds(j, "#"), ~Holds(a, "#")
  PROVE  \E x : Extends(v, w, j, a, x)
<1>1. PICK x : x = w \o (j \o a)
  OBVIOUS
<1>2. x = (w \o j) \o a
  <2>1. Associates(w, j, a)
    BY ThreeAssociate
  <2>2. QED
    BY <1>1, <2>1, Zenon DEF Associates
<1>3. ((v \o w) \o j) \o a = v \o x
  <2>1. ((v \o w) \o j) \o a = v \o (w \o (j \o a))
    <3>1. Regroups(v, w, j, a)
      BY FourAssociate
    <3>2. QED
      BY <3>1 DEF Regroups
  <2>2. QED
    BY <1>1, <2>1, Zenon
<1>4. ~Holds(v \o x, "#")
  <2>1. PICK u \in Seq(Tokens) : u = v \o w
    BY ConcatProperties
  <2>2. PICK b \in Seq(Tokens) : b = u \o j
    BY ConcatProperties
  <2>3. ~Holds(u, "#")
    BY <2>1
  <2>4. ~Holds(u \o j, "#")
    BY <2>3, NoFragment, Zenon
  <2>5. ~Holds(b, "#")
    BY <2>2, <2>4
  <2>6. ~Holds(b \o a, "#")
    BY <2>5, NoFragment, Zenon
  <2>7. b \o a = v \o x
    BY <1>3, <2>1, <2>2, Zenon
  <2>8. QED
    BY <2>6, <2>7, Zenon
<1>5. QED
  BY <1>1, <1>2, <1>3, <1>4, Zenon DEF Extends

LEMMA ComposedLands ==
  ASSUME NEW s \in Seq(Tokens), NEW a, NEW ps, Assembled(a, ps), ~Holds(a, "#")
  PROVE  Landed(Composed(s, a), s, ps)
<1> DEFINE u == Until(s, "#")
           r == Rest(s, "#")
           v == Until(u, "?")
           w == Rest(u, "?")
<1>1. a \in Seq(Tokens) /\ ps \in Seq(Seq(Tokens)) /\ (a = <<>> <=> ps = <<>>)
  BY DEF Assembled
<1>2. /\ u \in Seq(Tokens) /\ ~Holds(u, "#") /\ r \in Seq(Tokens) /\ (r # <<>> => r[1] = "#")
      /\ v \in Seq(Tokens) /\ ~Holds(v, "?") /\ w \in Seq(Tokens) /\ u = v \o w
      /\ HasQuery(s) => w # <<>> /\ w[1] = "?" /\ QueryOf(s) \in Seq(Tokens)
      /\ ~HasQuery(s) => w = <<>>
      /\ PairsOf(s) \in Seq(Seq(Tokens))
  BY PairsTyped
<1>3. HasQuery(s) => PairsOf(s) = Split(Tail(w), "&") /\ Tail(w) \in Seq(Tokens)
  BY <1>2 DEF PairsOf, QueryOf
<1>4. ~HasQuery(s) => PairsOf(s) = <<>>
  BY DEF PairsOf
<1> HIDE DEF v, w
<1>5. "&" \in Tokens /\ "?" \in Tokens /\ <<"&">> \in Seq(Tokens) /\ <<"?">> \in Seq(Tokens)
  BY TokenAssumption DEF Delimiters
<1>6. ~Holds(<<"&">>, "#") /\ ~Holds(<<"?">>, "#")
  BY DEF Holds, ToSet
<1>7. CASE a = <<>>
  <2>1. Composed(s, a) = s /\ ps = <<>>
    BY <1>1, <1>7 DEF Composed
  <2>2. PairsOf(s) = PairsOf(s) \o <<>>
    BY <1>2, ConcatEmptySeq
  <2>3. QED
    BY <1>2, <2>1, <2>2 DEF Landed
<1> HIDE DEF u, r
<1>8. CASE a # <<>> /\ HasQuery(s)
  <2>1. ~Holds(v \o w, "#") /\ ~Holds(<<"&">>, "#") /\ <<"&">> \in Seq(Tokens)
    BY <1>2, <1>5, <1>6
  <2>2. PICK x : Extends(v, w, <<"&">>, a, x)
    BY <1>1, <1>2, <2>1, Longer, Zenon
  <2>3. x = w \o (<<"&">> \o a) /\ x = (w \o <<"&">>) \o a
        /\ ((v \o w) \o <<"&">>) \o a = v \o x /\ ~Holds(v \o x, "#")
    BY <2>2, Zenon DEF Extends
  <2>4. x \in Seq(Tokens) /\ x # <<>> /\ x[1] = "?" /\ Tail(x) = Tail(w) \o (<<"&">> \o a)
    <3>1. PICK more \in Seq(Tokens) : more = <<"&">> \o a
      BY <1>1, <1>5, ConcatProperties
    <3>2. PICK y \in Seq(Tokens) : y = w /\ y # <<>> /\ y[1] = "?"
      BY <1>2, <1>8
    <3>3. /\ y \o more \in Seq(Tokens) /\ y \o more # <<>> /\ (y \o more)[1] = y[1]
          /\ Tail(y \o more) = Tail(y) \o more
      BY <3>2, TailJoined
    <3>4. x = y \o more
      BY <2>3, <3>1, <3>2, Zenon
    <3>5. QED
      BY <3>1, <3>2, <3>3, <3>4, Zenon
  <2>5. Split(Tail(x), "&") = PairsOf(s) \o ps
    <3>1. PICK q \in Seq(Tokens) : q = Tail(w)
      BY <1>3, <1>8
    <3>2. (q \o <<"&">>) \o a = q \o (<<"&">> \o a)
      BY <1>1, <1>5, JoinsAssociate, Zenon
    <3>3. Split((q \o <<"&">>) \o a, "&") = Split(q, "&") \o ps
      BY <1>8 DEF Assembled
    <3>4. Tail(x) = (q \o <<"&">>) \o a
      BY <2>4, <3>1, <3>2, Zenon
    <3>5. QED
      BY <1>3, <1>8, <3>1, <3>3, <3>4, Zenon
  <2>6. PICK t : t = (v \o x) \o r
    OBVIOUS
  <2>7. PartsOf(t, v, x, r)
    <3>1. IsQuery(x) /\ IsFragment(r) /\ ~Holds(v \o x, "#")
      BY <1>2, <2>3, <2>4 DEF IsQuery, IsFragment
    <3>2. PartsOf((v \o x) \o r, v, x, r)
      BY <1>2, <2>4, <3>1, PartsAre
    <3>3. QED
      BY <2>6, <3>2
  <2>8. Landed(t, s, ps)
    BY <1>2, <2>5, <2>7 DEF Landed, PartsOf, u, v, r
  <2>9. Composed(s, a) = t
    BY <1>2, <1>8, <2>3, <2>6 DEF Composed, u, r
  <2>10. QED
    BY <2>8, <2>9
<1>9. CASE a # <<>> /\ ~HasQuery(s)
  <2>1. PICK x : x = <<"?">> \o a
    OBVIOUS
  <2>2. x \in Seq(Tokens) /\ x # <<>> /\ x[1] = "?" /\ Tail(x) = a
    <3>1. <<"?">> # <<>> /\ <<"?">>[1] = "?" /\ Tail(<<"?">>) = <<>>
      OBVIOUS
    <3>2. x \in Seq(Tokens) /\ x # <<>> /\ x[1] = <<"?">>[1] /\ Tail(x) = Tail(<<"?">>) \o a
      BY <1>1, <1>5, <2>1, <3>1, TailJoined
    <3>3. QED
      BY <1>1, <3>1, <3>2, ConcatEmptySeq
  <2>3. u = v
    BY <1>2, <1>9, ConcatEmptySeq
  <2>4. (u \o <<"?">>) \o a = v \o x
    <3>1. PICK j \in Seq(Tokens) : j = <<"?">>
      BY <1>5
    <3>2. Associates(u, j, a)
      BY <1>1, <1>2, ThreeAssociate
    <3>3. QED
      BY <2>1, <2>3, <3>1, <3>2, Zenon DEF Associates
  <2>5. ~Holds(v \o x, "#")
    <3>1. PICK j \in Seq(Tokens) : j = <<"?">> /\ ~Holds(j, "#")
      BY <1>5, <1>6
    <3>2. ~Holds(j \o a, "#")
      BY <1>1, <3>1, NoFragment, Zenon
    <3>3. ~Holds(x, "#")
      BY <2>1, <3>1, <3>2, Zenon
    <3>4. ~Holds(u \o x, "#")
      BY <1>2, <2>2, <3>3, NoFragment, Zenon
    <3>5. QED
      BY <2>3, <3>4
  <2>6. Split(Tail(x), "&") = PairsOf(s) \o ps
    <3>1. Split(a, "&") = ps
      BY <1>9 DEF Assembled
    <3>2. <<>> \o ps = ps
      BY <1>1, ConcatEmptySeq
    <3>3. QED
      BY <1>4, <1>9, <2>2, <3>1, <3>2
  <2>7. PICK t : t = (v \o x) \o r
    OBVIOUS
  <2>8. PartsOf(t, v, x, r)
    <3>1. IsQuery(x) /\ IsFragment(r) /\ ~Holds(v \o x, "#")
      BY <1>2, <2>2, <2>5 DEF IsQuery, IsFragment
    <3>2. PartsOf((v \o x) \o r, v, x, r)
      BY <1>2, <2>2, <3>1, PartsAre
    <3>3. QED
      BY <2>7, <3>2
  <2>9. Landed(t, s, ps)
    BY <1>2, <2>6, <2>8 DEF Landed, PartsOf, u, v, r
  <2>10. Composed(s, a) = t
    BY <1>9, <2>4, <2>7 DEF Composed, u, r
  <2>11. QED
    BY <2>9, <2>10
<1>10. QED
  BY <1>7, <1>8, <1>9

\* What LocationKeepsReturnTo and NoParamStarved say of a target t composed from s.
AddedTo(t, s) == SubSeq(PairsOf(t), Len(PairsOf(s)) + 1, Len(PairsOf(t)))
Keeps(t, s, query, allow) ==
  /\ Until(Until(t, "#"), "?") = Until(Until(s, "#"), "?")
  /\ Rest(t, "#") = Rest(s, "#")
  /\ IsPrefix(PairsOf(s), PairsOf(t))
  /\ \A i \in DOMAIN AddedTo(t, s) :
       /\ NameOf(AddedTo(t, s)[i]) \notin NamesOf(s)
       /\ \A j \in 1 .. i - 1 : NameOf(AddedTo(t, s)[i]) # NameOf(AddedTo(t, s)[j])
       /\ \E n \in ToSet(allow) :
            /\ NameOf(AddedTo(t, s)[i]) = <<n>>
            /\ ValueOf(AddedTo(t, s)[i]) = query[First(query, n)][2]
Starves(t, s, query, allow, i) ==
  /\ Offered(s, query, allow[i])
  /\ ~ \E n \in DOMAIN AddedTo(t, s) : NameOf(AddedTo(t, s)[n]) = <<allow[i]>>
  /\ ~(Spent(AddedTo(t, s), Earlier(allow, i)) + Bytes(PairOf(query, allow[i]))
         > MAX_PASSTHROUGH_TOTAL_LEN)

LEMMA ComposedKeeps ==
  ASSUME NEW query, NEW allow, Requested(query, allow), NEW s \in Seq(Tokens)
  PROVE  /\ Keeps(AppendPassthrough(s, query, allow), s, query, allow)
         /\ \A i \in DOMAIN allow : ~Starves(AppendPassthrough(s, query, allow), s, query, allow, i)
<1> DEFINE t == AppendPassthrough(s, query, allow)
<1>1. PICK a : a = Appended(s, query, allow)
  OBVIOUS
<1>2. PICK ps : Packed(a, ps, Len(allow), s, query, allow)
  BY <1>1, LoopPacks
<1>3. /\ Assembled(a, ps) /\ Chosen(ps, Len(allow), s, query, allow)
      /\ Apart(ps) /\ Fair(ps, Len(allow), s, query, allow)
  BY <1>2 DEF Packed
<1>4. t = Composed(s, a)
  BY <1>1 DEF AppendPassthrough, Appended, IsLoop, Composed
<1> HIDE DEF t
<1>5. /\ Len(allow) \in Nat /\ DOMAIN allow = 1 .. Len(allow)
      /\ query \in Seq(STRING \X Seq(DecodedTokens))
      /\ \A n \in 1 .. Len(allow) : Plain(allow[n]) /\ Decode[allow[n]] = allow[n]
  BY DEF Requested, IsAllowlist
<1>6. ~Holds(a, "#")
  <2>1. query \in Seq(STRING \X Seq(Tokens))
    <3>1. \A v \in Seq(DecodedTokens) : v \in Seq(Tokens)
      <4>1. DecodedTokens \subseteq Tokens
        BY DEF DecodedTokens
      <4>2. QED
        BY <4>1, SeqMonotonic
    <3>2. STRING \X Seq(DecodedTokens) \subseteq STRING \X Seq(Tokens)
      BY <3>1
    <3>3. QED
      BY <1>5, <3>2, SeqMonotonic
  <2>2. a \in Seq(UrlTokens)
    BY <1>1, <1>5, <2>1, AppendedIsPassable DEF Passable
  <2>3. "#" \notin UrlTokens
    BY DEF UrlTokens, Delimiters
  <2>4. \A i \in 1 .. Len(a) : a[i] \in UrlTokens
    BY <2>2, ElementOfSeq
  <2>5. QED
    BY <2>2, <2>3, <2>4, HoldsIs
<1>7. Landed(t, s, ps)
  BY <1>3, <1>4, <1>6, ComposedLands
<1>8. /\ Until(Until(t, "#"), "?") = Until(Until(s, "#"), "?") /\ Rest(t, "#") = Rest(s, "#")
      /\ PairsOf(s) \in Seq(Seq(Tokens)) /\ PairsOf(t) = PairsOf(s) \o ps
      /\ ps \in Seq(Seq(Tokens))
  BY <1>3, <1>7 DEF Landed, Assembled
<1>9. AddedTo(t, s) = ps /\ SubSeq(PairsOf(t), 1, Len(PairsOf(s))) = PairsOf(s)
  BY <1>8, ComesApart DEF AddedTo
<1>10. IsPrefix(PairsOf(s), PairsOf(t))
  <2>1. PICK b \in Seq(Seq(Tokens)) : b = PairsOf(s)
    BY <1>8
  <2>2. PICK c : c = PairsOf(t)
    OBVIOUS
  <2>3. Len(b) <= Len(c)
    <3>1. Len(c) = Len(b) + Len(ps) /\ Len(b) \in Nat /\ Len(ps) \in Nat
      BY <1>8, <2>1, <2>2, ConcatProperties, LenProperties
    <3>2. QED
      BY <3>1
  <2>4. SubSeq(c, 1, Len(b)) = SubSeq(b, 1, Len(b))
    BY <1>9, <2>1, <2>2, SubSeqFull
  <2>5. QED
    BY <2>1, <2>2, <2>3, <2>4 DEF IsPrefix
<1>11. DOMAIN ps = 1 .. Len(ps) /\ Len(ps) \in Nat
  BY <1>8, LenProperties
<1>12. ASSUME NEW i \in 1 .. Len(ps)
       PROVE  /\ NameOf(ps[i]) \notin NamesOf(s)
              /\ \A j \in 1 .. i - 1 : NameOf(ps[i]) # NameOf(ps[j])
              /\ \E n \in ToSet(allow) : /\ NameOf(ps[i]) = <<n>>
                                         /\ ValueOf(ps[i]) = query[First(query, n)][2]
  <2>1. PICK m \in 1 .. Len(allow) : Offered(s, query, allow[m]) /\ ps[i] = PairOf(query, allow[m])
    BY <1>3 DEF Chosen
  <2>2. NameOf(ps[i]) = <<allow[m]>> /\ ValueOf(ps[i]) = query[First(query, allow[m])][2]
    <3>1. PICK name : name = allow[m] /\ Plain(name) /\ Decode[name] = name /\ Offered(s, query, name)
      BY <1>5, <2>1
    <3>2. /\ NameOf(PairOf(query, name)) = <<name>>
          /\ ValueOf(PairOf(query, name)) = query[First(query, name)][2]
      BY <1>5, <3>1, OfferIsRead
    <3>3. QED
      BY <2>1, <3>1, <3>2
  <2>3. allow[m] \in ToSet(allow)
    BY <1>5 DEF ToSet
  <2>4. NameOf(ps[i]) \notin NamesOf(s)
    BY <2>1, <2>2 DEF Offered
  <2>5. \A j \in 1 .. i - 1 : NameOf(ps[i]) # NameOf(ps[j])
    BY <1>3 DEF Apart
  <2>6. QED
    BY <2>2, <2>3, <2>4, <2>5
<1>13. Keeps(t, s, query, allow)
  BY <1>8, <1>9, <1>10, <1>11, <1>12 DEF Keeps
<1>14. ASSUME NEW i \in DOMAIN allow PROVE ~Starves(t, s, query, allow, i)
  <2>1. Offered(s, query, allow[i]) => Served(ps, i, query, allow)
    BY <1>3, <1>5 DEF Fair
  <2>2. QED
    BY <1>9, <1>11, <2>1 DEF Starves, Served
<1>15. QED
  BY <1>13, <1>14 DEF t

\* What the callback composes is safe, so the browser is sent there.
LEMMA CallbackLocation ==
  ASSUME ServiceSafe, NEW query \in Queries, Callback(query)
  PROVE  Location(slot[1].return_to, query, Allowlist, config[1].return_to_prefix)
           = AppendPassthrough(slot[1].return_to, query, Allowlist)
<1> DEFINE names == config[1].callback_passthrough_params
           return_to == slot[1].return_to
<1>1. Serving /\ slot # None
  BY DEF Callback
<1>2. AsBuilt(config[1])
  BY <1>1, ServingIsBuilt
<1>3. return_to \in Seq(Tokens)
  BY <1>1 DEF ServiceSafe, SessionIsTyped, Slot
<1>4. PathLike(return_to) /\ Bytes(return_to) <= MAX_RETURN_TO_LEN
  BY <1>1 DEF ServiceSafe, SlotSafe, ValidateReturnTo
<1>5. names \in Seq(TrimmedTexts) /\ IsAllowlist(Allowlist)
  BY <1>2 DEF AsBuilt, OidcBffConfig, Allowlist
<1>6. Len(names) \in Nat /\ DOMAIN names = 1 .. Len(names)
  BY <1>5, LenProperties
<1>7. DOMAIN Allowlist = 1 .. Len(names) /\ \A n \in 1 .. Len(names) : Allowlist[n] = names[n].word
  BY <1>6 DEF Allowlist, WordsOf
<1>8. Len(Allowlist) = Len(names)
  BY <1>6, <1>7 DEF Allowlist, WordsOf
<1>9. \A n \in 1 .. Len(Allowlist) : Plain(Allowlist[n])
  BY <1>5, <1>7, <1>8 DEF IsAllowlist
<1>10. query \in Seq(STRING \X Seq(Tokens))
  BY QueryTyped
<1> HIDE DEF names, return_to
<1>11. IsSafeComposedRedirect(AppendPassthrough(return_to, query, Allowlist))
  BY <1>3, <1>4, <1>6, <1>8, <1>9, <1>10, ComposedIsSafe
<1>12. QED
  BY <1>11, Zenon DEF Location, return_to

LEMMA CallbackSafe ==
  ASSUME ServiceSafe, NEW query \in Queries, Callback(query)
  PROVE  ServiceSafe'
<1>1. Serving /\ UNCHANGED startup /\ slot' = None /\ signedIn' = TRUE
  BY DEF Callback
<1>2. answer'.to = "callback" /\ answer'.status = 302
  BY DEF Callback, NoAnswer
<1>3. PICK location :
        location = Location(slot[1].return_to, query, Allowlist, config[1].return_to_prefix)
  OBVIOUS
<1>4. answer' = [NoAnswer EXCEPT !.to = "callback", !.status = 302, !.return_to = slot[1].return_to,
                                 !.query = query, !.location = location]
  BY <1>3 DEF Callback
<1>5. /\ answer'.return_to = slot[1].return_to /\ answer'.query = query
      /\ answer'.location = location
  BY <1>4 DEF NoAnswer
<1>6. Allowlist' = Allowlist
  BY <1>1 DEF startup, Allowlist
<1>7. location = AppendPassthrough(slot[1].return_to, query, Allowlist)
  BY <1>3, CallbackLocation
<1>8. GuardNeverTrips'
  BY <1>5, <1>6, <1>7 DEF GuardNeverTrips
<1>9. PICK s \in Seq(Tokens) : s = slot[1].return_to
  <2>1. slot # None
    BY DEF Callback
  <2>2. QED
    BY <2>1 DEF ServiceSafe, SessionIsTyped, Slot
<1>10. PICK allow : allow = Allowlist
  OBVIOUS
<1>11. Requested(query, allow)
  <2>1. AsBuilt(config[1])
    BY <1>1, ServingIsBuilt
  <2>2. config[1].callback_passthrough_params \in Seq(TrimmedTexts) /\ IsAllowlist(allow)
    BY <1>10, <2>1 DEF AsBuilt, OidcBffConfig, Allowlist
  <2>3. Len(allow) \in Nat /\ DOMAIN allow = 1 .. Len(allow)
    <3>1. PICK names \in Seq(TrimmedTexts) : names = config[1].callback_passthrough_params
      BY <2>2
    <3>2. Len(names) \in Nat /\ DOMAIN names = 1 .. Len(names)
      BY LenProperties
    <3>3. allow = [i \in 1 .. Len(names) |-> names[i].word]
      BY <1>10, <3>1, <3>2 DEF Allowlist, WordsOf
    <3>4. QED
      BY <3>2, <3>3
  <2>4. QED
    BY <2>2, <2>3, QueryTyped DEF Requested
<1>12. location = AppendPassthrough(s, query, allow)
  BY <1>7, <1>9, <1>10
<1>13. /\ Keeps(location, s, query, allow)
       /\ \A i \in DOMAIN allow : ~Starves(location, s, query, allow, i)
  BY <1>11, <1>12, ComposedKeeps
<1>14. answer'.location = location /\ answer'.return_to = s /\ answer'.query = query
       /\ Allowlist' = allow
  BY <1>5, <1>6, <1>9, <1>10
<1>15. Added' = AddedTo(location, s)
  BY <1>14 DEF Added, AddedTo
<1>16. LocationKeepsReturnTo'
  BY <1>13, <1>14, <1>15 DEF LocationKeepsReturnTo, Keeps
<1>17. NoParamStarved'
  <2>1. \A i \in DOMAIN allow :
          Offered(s, query, allow[i]) =>
            \/ \E n \in DOMAIN AddedTo(location, s) : NameOf(AddedTo(location, s)[n]) = <<allow[i]>>
            \/ Spent(AddedTo(location, s), Earlier(allow, i)) + Bytes(PairOf(query, allow[i]))
                 > MAX_PASSTHROUGH_TOTAL_LEN
    BY <1>13 DEF Starves
  <2>2. QED
    BY <1>14, <1>15, <2>1 DEF NoParamStarved, Offered, Earlier, PairOf
<1>18. QED
  BY <1>1, <1>2, <1>8, <1>16, <1>17, OtherAnswerSafe DEF RedirectSafe

LEMMA MeSafe ==
  ASSUME ServiceSafe, Me
  PROVE  ServiceSafe'
<1>1. Serving /\ UNCHANGED startup /\ slot' = slot /\ signedIn' = signedIn
  BY DEF Me
<1>2. answer'.to = "me" /\ answer'.status \in {200, 401}
  BY DEF Me, NoAnswer, Refused, StatusOf
<1>3. RedirectSafe'
  BY <1>2 DEF RedirectSafe, GuardNeverTrips, LocationKeepsReturnTo, NoParamStarved
<1>4. QED
  BY <1>1, <1>2, <1>3, OtherAnswerSafe DEF ServiceSafe, SessionIsTyped

\* What the answer of the logout route is, in the words of the property.
LEMMA LogoutAnswers ==
  ASSUME NEW page, NEW agent, NEW method, AskLogout(page, agent, method)
  PROVE  /\ answer'.status \in {200, 204, 400, 405}
         /\ answer'.status = 405 <=> <<method, "/auth/logout">> \notin Routes
         /\ answer'.status = 400 <=>
              /\ <<method, "/auth/logout">> \in Routes
              /\ ~EnsureSameOriginAgainst(HeadersOf(page, agent), config[1].allowed_origin)
<1> DEFINE ours == EnsureSameOriginAgainst(HeadersOf(page, agent), config[1].allowed_origin)
           routed == <<method, "/auth/logout">> \in Routes
           hint == signedIn /\ SendsCookie(page, method)
           By(reply) == [reply EXCEPT !.from = page, !.agent = agent]
           notRouted == [NoAnswer EXCEPT !.to = "logout", !.status = 405]
           refused == Refused("logout", "BadRequest")
<1>1. answer' = IF ~routed THEN By(notRouted) ELSE IF ~ours THEN By(refused) ELSE By(LogoutAnswer(hint))
  BY Zenon DEF AskLogout
<1> HIDE DEF ours, routed, hint
<1>2. ASSUME NEW reply, reply \in {notRouted, refused, LogoutAnswer(hint)}
      PROVE  By(reply).status = reply.status
  <2>1. CASE reply = notRouted
    BY <2>1 DEF NoAnswer
  <2>2. CASE reply = refused
    BY <2>2 DEF Refused, NoAnswer
  <2>3. CASE reply = LogoutAnswer(hint)
    BY <2>3 DEF LogoutAnswer, NoAnswer
  <2>4. QED
    BY <1>2, <2>1, <2>2, <2>3
<1>3. notRouted.status = 405 /\ refused.status = 400 /\ LogoutAnswer(hint).status \in {200, 204}
  BY DEF Refused, NoAnswer, StatusOf, LogoutAnswer
<1> HIDE DEF notRouted, refused, By
<1>4. QED
  <2>1. CASE ~routed
    BY <1>1, <1>2, <1>3, <2>1 DEF routed
  <2>2. CASE routed /\ ~ours
    BY <1>1, <1>2, <1>3, <2>2 DEF routed, ours
  <2>3. CASE routed /\ ours
    BY <1>1, <1>2, <1>3, <2>3 DEF routed, ours
  <2>4. QED
    BY <2>1, <2>2, <2>3

\* What the answer of the logout route is a reply to.
LEMMA LogoutIsAnswered ==
  ASSUME NEW page, NEW agent, NEW method, AskLogout(page, agent, method)
  PROVE  answer'.to = "logout" /\ answer'.from = page /\ answer'.agent = agent
<1> DEFINE By(reply) == [reply EXCEPT !.from = page, !.agent = agent]
           notRouted == [NoAnswer EXCEPT !.to = "logout", !.status = 405]
           refused == Refused("logout", "BadRequest")
           accepted == LogoutAnswer(signedIn /\ SendsCookie(page, method))
<1>1. \/ answer' = By(notRouted)
      \/ answer' = By(refused)
      \/ answer' = By(accepted)
  BY Zenon DEF AskLogout
<1>2. CASE answer' = By(notRouted)
  BY <1>2 DEF NoAnswer
<1>3. CASE answer' = By(refused)
  BY <1>3 DEF NoAnswer, Refused
<1>4. CASE answer' = By(accepted)
  BY <1>4 DEF NoAnswer, LogoutAnswer
<1> HIDE DEF By, notRouted, refused, accepted
<1>5. QED
  BY <1>1, <1>2, <1>3, <1>4

LEMMA AskLogoutSafe ==
  ASSUME ServiceSafe, NEW page, NEW agent, NEW method, AskLogout(page, agent, method)
  PROVE  ServiceSafe'
<1>1. Serving /\ UNCHANGED startup
  BY DEF AskLogout
<1>2. answer'.to = "logout" /\ answer'.status \in {200, 204, 400, 405}
  <2>1. AskLogout(page, agent, method)
    OBVIOUS
  <2>2. answer'.status \in {200, 204, 400, 405}
    BY <2>1, LogoutAnswers
  <2>3. answer'.to = "logout"
    BY <2>1, LogoutIsAnswered
  <2>4. QED
    BY <2>2, <2>3
<1>3. \/ slot' = None /\ signedIn' = FALSE
      \/ slot' = slot /\ signedIn' = signedIn
  BY DEF AskLogout
<1>4. slot' \in {slot, None} /\ signedIn' \in BOOLEAN
  BY <1>3 DEF ServiceSafe, SessionIsTyped
<1>5. answer'.to # "login" /\ answer'.status \in {0, 200, 204, 302, 400, 401, 405}
  BY <1>2
<1>6. RedirectSafe'
  BY <1>2 DEF RedirectSafe, GuardNeverTrips, LocationKeepsReturnTo, NoParamStarved
<1>7. QED
  BY <1>1, <1>4, <1>5, <1>6, OtherAnswerSafe

LEMMA StepSafe == ServiceSafe /\ [Next]_vars => ServiceSafe'
<1> SUFFICES ASSUME ServiceSafe, [Next]_vars PROVE ServiceSafe'
  OBVIOUS
<1>1. ASSUME NEW call \in SetterCalls, CallSetter(call) PROVE ServiceSafe'
  BY <1>1, CallSetterSafe
<1>2. CASE Build
  BY <1>2, BuildSafe
<1>3. ASSUME NEW provider \in Providers, Discover(provider) PROVE ServiceSafe'
  BY <1>3, DiscoverSafe
<1>4. ASSUME NEW extra \in LoginRoutes, Login(extra, <<>>) PROVE ServiceSafe'
  <2>1. <<>> \in Seq(Tokens)
    BY EmptySeq
  <2>2. QED
    BY <1>4, <2>1, LoginSafe
<1>5. ASSUME NEW return_to \in ReturnTos, Login(NoExtra, return_to) PROVE ServiceSafe'
  <2>1. return_to \in Seq(Tokens) /\ NoExtra \in LoginRoutes
    BY ServiceAssumption DEF LoginRoutes
  <2>2. QED
    BY <1>5, <2>1, LoginSafe
<1>6. ASSUME NEW query \in Queries, Callback(query) PROVE ServiceSafe'
  BY <1>6, CallbackSafe
<1>7. CASE Me
  BY <1>7, MeSafe
<1>8. ASSUME NEW page \in Pages, NEW agent \in Agents, NEW method \in {"GET", "POST"},
             AskLogout(page, agent, method)
      PROVE  ServiceSafe'
  BY <1>8, AskLogoutSafe
<1>9. CASE UNCHANGED vars
  <2>1. InOrder' /\ BuilderSafe' /\ ConfigSafe' /\ SessionIsTyped' /\ SlotSafe'
        /\ AuthRequestUnambiguous' /\ MaxAgeAgrees'
    BY <1>9 DEF vars, ServiceSafe, InOrder, BuilderSafe, ConfigSafe, SessionIsTyped, SlotSafe,
                AuthRequestUnambiguous, MaxAgeAgrees
  <2>2. Allowlist' = Allowlist /\ answer' = answer /\ Added' = Added
    BY <1>9 DEF vars, Allowlist, Added
  <2>3. GuardNeverTrips' /\ LocationKeepsReturnTo'
    BY <2>2 DEF ServiceSafe, RedirectSafe, GuardNeverTrips, LocationKeepsReturnTo
  <2>4. NoParamStarved'
    BY <2>2 DEF ServiceSafe, RedirectSafe, NoParamStarved
  <2>5. QED
    BY <2>1, <2>3, <2>4 DEF ServiceSafe, RedirectSafe
<1>10. QED
  BY <1>1, <1>2, <1>3, <1>4, <1>5, <1>6, <1>7, <1>8, <1>9 DEF Next

LEMMA AlwaysSafe == Spec => []ServiceSafe
<1>1. Init => ServiceSafe
  BY StartSafe
<1>2. ServiceSafe /\ [Next]_vars => ServiceSafe'
  BY StepSafe
<1>3. QED
  BY <1>1, <1>2, PTL DEF Spec

-----------------------------------------------------------------------------
(* The properties. *)

\* Startup and the requests keep every part of the state in its type: what
\* build returns is complete, nothing is served without it and a discovered
\* provider, and the status codes are those of the handlers (config.rs, oidc.rs).
THEOREM ServiceTyped == Spec => []TypeOK
<1>1. ServiceSafe => TypeOK
  <2> SUFFICES ASSUME ServiceSafe PROVE TypeOK
    OBVIOUS
  <2>1. Len(config) <= 1 /\ Len(rp) <= 1 /\ Len(slot) <= 1
    <3>1. Len(None) <= 1 /\ \A v : Len(Some(v)) <= 1
      BY DEF None, Some
    <3>2. /\ config = None \/ config = Some(config[1])
          /\ rp = None \/ rp = Some(rp[1])
          /\ slot = None \/ slot = Some(slot[1])
      BY DEF ServiceSafe, InOrder, ConfigSafe, SessionIsTyped
    <3>3. QED
      BY <3>1, <3>2
  <2>2. QED
    BY <2>1 DEF ServiceSafe, InOrder, BuilderSafe, ConfigSafe, SessionIsTyped, AsBuilt, TypeOK
<1>2. QED
  BY <1>1, AlwaysSafe, PTL

\* For every configuration build accepts, the store that takes its limits from
\* the configuration is the one the with_ setters make of them, clamps and all,
\* and a login's own TTL is never beyond the absolute lifetime (store.rs).
THEOREM ServiceWiringsAgree == Spec => []StoreWiringsAgree
<1>1. ServiceSafe => StoreWiringsAgree
  <2> SUFFICES ASSUME ServiceSafe, config # None PROVE StoreWiringsAgree
    BY DEF StoreWiringsAgree
  <2>1. PICK c : c = config[1]
    OBVIOUS
  <2>2. c \in OidcBffConfig /\ c.post_auth_ttl_secs <= c.max_session_lifetime_secs
    BY <2>1 DEF ServiceSafe, ConfigSafe, AsBuilt
  <2>3. StoreFromConfig(c).max_lifetime_secs = c.max_session_lifetime_secs
    BY DEF StoreFromConfig
  <2>4. QED
    BY <2>1, <2>2, <2>3, WiringsAgree, Zenon DEF StoreWiringsAgree
<1>2. QED
  BY <1>1, AlwaysSafe, PTL

\* Whatever a variant of the login route adds, no parameter stands twice on the
\* authorization URL and openid is asked for once (login.rs).
THEOREM ServiceRequestUnambiguous == Spec => []AuthRequestUnambiguous
<1>1. ServiceSafe => AuthRequestUnambiguous
  BY DEF ServiceSafe
<1>2. QED
  BY <1>1, AlwaysSafe, PTL

\* The age of authentication in the URL is the age the callback enforces (login.rs).
THEOREM ServiceMaxAgeAgrees == Spec => []MaxAgeAgrees
<1>1. ServiceSafe => MaxAgeAgrees
  BY DEF ServiceSafe
<1>2. QED
  BY <1>1, AlwaysSafe, PTL

\* A target that login validated, with whatever the callback's query brings to
\* the names build validated, passes the check in front of the Location header:
\* the browser is never sent to the prefix instead (callback.rs).
THEOREM ServiceGuardNeverTrips == Spec => []GuardNeverTrips
<1>1. ServiceSafe => GuardNeverTrips
  BY DEF ServiceSafe, RedirectSafe
<1>2. QED
  BY <1>1, AlwaysSafe, PTL

\* Whatever the query of the callback is: path and fragment of return_to and the
\* parameters it had are where they were, and behind them stand allowed names
\* it did not have, each once, with the request's first value of the name
\* (append_passthrough in callback.rs).
THEOREM ServiceLocationKeepsReturnTo == Spec => []LocationKeepsReturnTo
<1>1. ServiceSafe => LocationKeepsReturnTo
  BY DEF ServiceSafe, RedirectSafe
<1>2. QED
  BY <1>1, AlwaysSafe, PTL

\* For every allowlist and budget: a parameter on offer that is not passed does
\* not fit in what those before it in the allowlist left (append_passthrough).
THEOREM ServiceNoParamStarved == Spec => []NoParamStarved
<1>1. ServiceSafe => NoParamStarved
  BY DEF ServiceSafe, RedirectSafe
<1>2. QED
  BY <1>1, AlwaysSafe, PTL

\* For each agent, what the check of the logout route decides.
LEMMA CheckDecides ==
  ASSUME NEW page, NEW agent \in {"fetch", "origin", "referer", "bare"},
         page.parses, config[1].allowed_origin[1] \in {"http", "https"}
  PROVE  EnsureSameOriginAgainst(HeadersOf(page, agent), config[1].allowed_origin)
           <=> agent # "bare" /\ OwnPage(page)
<1> DEFINE expected == config[1].allowed_origin
<1>1. tuple_origin(page) = Some(expected) <=> Origin(page) = expected
  <2>1. tuple_origin(page) \in {None, Some(Origin(page))}
    BY DEF tuple_origin
  <2>2. Origin(page) = expected => page.scheme \in TupleSchemes
    <3>1. Origin(page)[1] = page.scheme
      BY DEF Origin
    <3>2. QED
      BY <3>1 DEF TupleSchemes
  <2>3. \A x, y : Some(x) = Some(y) <=> x = y
    BY DEF Some
  <2>4. \A x : Some(x) # None
    BY DEF Some, None
  <2>5. QED
    BY <2>1, <2>2, <2>3, <2>4 DEF tuple_origin
<1>2. \A x : Some(x) # None /\ Some(x)[1] = x
  BY DEF Some, None
<1> HIDE DEF expected
<1>3. CASE agent = "fetch"
  <2>1. HeadersOf(page, agent) = Headers(Some(FetchSite(page)), Some(page), Some(page))
    BY <1>3 DEF HeadersOf
  <2>2. EnsureSameOriginAgainst(HeadersOf(page, agent), expected) <=> FetchSite(page) = "same-origin"
    BY <1>2, <2>1 DEF EnsureSameOriginAgainst, Headers
  <2>3. FetchSite(page) = "same-origin" <=> OwnPage(page)
    BY DEF FetchSite
  <2>4. QED
    BY <1>3, <2>2, <2>3 DEF expected
<1>4. CASE agent = "origin"
  <2>1. HeadersOf(page, agent) = Headers(None, Some(page), Some(page))
    BY <1>4 DEF HeadersOf
  <2>2. EnsureSameOriginAgainst(HeadersOf(page, agent), expected) <=> tuple_origin(page) = Some(expected)
    BY <1>2, <2>1 DEF EnsureSameOriginAgainst, Headers
  <2>3. QED
    BY <1>1, <1>4, <2>2 DEF expected, OwnPage
<1>5. CASE agent = "referer"
  <2>1. HeadersOf(page, agent) = Headers(None, None, Some(page))
    BY <1>5 DEF HeadersOf
  <2>2. EnsureSameOriginAgainst(HeadersOf(page, agent), expected) <=> tuple_origin(page) = Some(expected)
    BY <1>2, <2>1 DEF EnsureSameOriginAgainst, Headers
  <2>3. QED
    BY <1>1, <1>5, <2>2 DEF expected, OwnPage
<1>6. CASE agent = "bare"
  <2>1. HeadersOf(page, agent) = Headers(None, None, None)
    BY <1>6 DEF HeadersOf
  <2>2. ~EnsureSameOriginAgainst(HeadersOf(page, agent), expected)
    BY <2>1 DEF EnsureSameOriginAgainst, Headers
  <2>3. QED
    BY <1>6, <2>2 DEF expected
<1>7. QED
  BY <1>3, <1>4, <1>5, <1>6

\* One step keeps to the property.
LEMMA LogoutStep ==
  ASSUME ServiceSafe, NEW page \in Pages, NEW agent \in Agents, NEW method, AskLogout(page, agent, method)
  PROVE  /\ ~signedIn' /\ signedIn => OwnPage(page)
         /\ OwnPage(page) /\ answer'.status = 400 => agent = "bare"
         /\ answer'.status # 405 =>
              (answer'.status = 400) =
                (EnsureSameOrigin(HeadersOf(page, agent), config[1].redirect_url) = "BadRequest")
<1> DEFINE ours == EnsureSameOriginAgainst(HeadersOf(page, agent), config[1].allowed_origin)
           theirs == EnsureSameOrigin(HeadersOf(page, agent), config[1].redirect_url)
<1>1. AsBuilt(config[1])
  BY ServingIsBuilt DEF AskLogout
<1>2. page.parses /\ agent \in {"fetch", "origin", "referer", "bare"}
  BY ServiceAssumption
<1>3. config[1].allowed_origin = Origin(config[1].redirect_url)
  BY <1>1 DEF AsBuilt
<1>4. config[1].allowed_origin[1] \in {"http", "https"}
  BY <1>1, <1>3 DEF AsBuilt, Origin
<1>5. ours <=> agent # "bare" /\ OwnPage(page)
  BY <1>2, <1>4, CheckDecides
<1>6. theirs = Check(~ours, "BadRequest")
  <2>1. tuple_origin(config[1].redirect_url) = Some(config[1].allowed_origin)
    BY <1>1, <1>3 DEF AsBuilt, tuple_origin, TupleSchemes
  <2>2. \A x : Some(x) # None /\ Some(x)[1] = x
    BY DEF Some, None
  <2>3. QED
    BY <2>1, <2>2 DEF EnsureSameOrigin
<1> HIDE DEF ours, theirs
<1>7. theirs = "BadRequest" <=> ~ours
  BY <1>6 DEF Check, NoError
<1>8. /\ answer'.status \in {200, 204, 400, 405}
      /\ answer'.status = 405 <=> <<method, "/auth/logout">> \notin Routes
      /\ answer'.status = 400 <=> <<method, "/auth/logout">> \in Routes /\ ~ours
  BY LogoutAnswers DEF ours
<1>9. ~signedIn' /\ signedIn => answer'.status \in {200, 204}
  BY DEF AskLogout
<1>10. QED
  BY <1>5, <1>7, <1>8, <1>9 DEF theirs

LogoutOwnStep ==
  /\ signedIn =>
       /\ ~signedIn' => answer'.to = "logout" /\ OwnPage(answer'.from)
       /\ answer'.to = "logout" /\ OwnPage(answer'.from) /\ answer'.status = 400 =>
            answer'.agent = "bare"
  /\ answer'.to = "logout" /\ answer'.status # 405 =>
       (answer'.status = 400) =
         (EnsureSameOrigin(HeadersOf(answer'.from, answer'.agent), config[1].redirect_url) = "BadRequest")

\* Nobody is signed out but by a page of the application's own origin, such a
\* page is refused only when its browser says nothing of it, and the check an
\* application uses for its routes decides as the one of the logout route, for
\* every configuration build accepts and every page there is (csrf.rs, logout.rs).
THEOREM ServiceLogoutIsOwn == Spec => LogoutIsOwn
<1>1. ServiceSafe /\ [Next]_vars => [LogoutOwnStep]_vars
  <2> SUFFICES ASSUME ServiceSafe, Next, vars' # vars PROVE LogoutOwnStep
    OBVIOUS
  <2>1. ASSUME rp = None, UNCHANGED <<signedIn, answer>> PROVE LogoutOwnStep
    <3>1. ~signedIn /\ answer'.to = "nothing"
      BY <2>1, NothingAnswered DEF ServiceSafe, InOrder
    <3>2. QED
      BY <3>1 DEF LogoutOwnStep
  <2>2. ASSUME answer'.to # "logout", signedIn => signedIn' PROVE LogoutOwnStep
    BY <2>2 DEF LogoutOwnStep
  <2>3. ASSUME NEW call \in SetterCalls, CallSetter(call) PROVE LogoutOwnStep
    BY <2>1, <2>3 DEF CallSetter, ServiceSafe, InOrder
  <2>4. CASE Build
    BY <2>1, <2>4 DEF Build, ServiceSafe, InOrder
  <2>5. ASSUME NEW provider \in Providers, Discover(provider) PROVE LogoutOwnStep
    BY <2>1, <2>5 DEF Discover
  <2>6. ASSUME NEW extra, NEW asked, Login(extra, asked) PROVE LogoutOwnStep
    <3>1. answer'.to = "login"
      BY <2>6 DEF Login, NoAnswer, Refused
    <3>2. QED
      BY <2>2, <2>6, <3>1 DEF Login
  <2>7. ASSUME NEW query, Callback(query) PROVE LogoutOwnStep
    <3>1. answer'.to = "callback"
      BY <2>7 DEF Callback, NoAnswer
    <3>2. QED
      BY <2>2, <2>7, <3>1 DEF Callback
  <2>8. CASE Me
    <3>1. answer'.to = "me"
      BY <2>8 DEF Me, NoAnswer, Refused
    <3>2. QED
      BY <2>2, <2>8, <3>1 DEF Me
  <2>9. ASSUME NEW page \in Pages, NEW agent \in Agents, NEW method \in {"GET", "POST"},
               AskLogout(page, agent, method)
        PROVE  LogoutOwnStep
    <3>1. AskLogout(page, agent, method)
      BY <2>9
    <3>2. answer'.to = "logout" /\ answer'.from = page /\ answer'.agent = agent
      BY <3>1, LogoutIsAnswered
    <3>3. QED
      BY <3>1, <3>2, LogoutStep DEF LogoutOwnStep
  <2>10. QED
    BY <2>3, <2>4, <2>5, <2>6, <2>7, <2>8, <2>9 DEF Next
<1>2. QED
  BY <1>1, AlwaysSafe, PTL DEF Spec, LogoutIsOwn, LogoutOwnStep
=============================================================================
