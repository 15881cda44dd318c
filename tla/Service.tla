------------------------------- MODULE Service -------------------------------
(***************************************************************************)
(* One start of an application with this crate: it calls setters of the    *)
(* configuration builder, builds, discovers the provider, and serves a     *)
(* browser: the login routes, the successful callback, logout and me.      *)
(*                                                                         *)
(* What a session goes through in time and between requests that overlap   *)
(* is the subject of BffSession and Deployment.  Here it is at most one    *)
(* slot and whether somebody is signed in; the subject is what goes in and *)
(* out: values given at startup, and the contents of requests and answers. *)
(***************************************************************************)
EXTENDS BffConfig, FiniteSets

CONSTANTS
  SetterCalls,   \* <<setter, raw value>>: calls the application may make
  MaxCalls,      \* bound: calls after those of the minimal builder
  Providers,     \* [found, algs, end_session]: discovery documents
  Variants,      \* [params, age]: the sets of parameters of login routes
  ReturnTos,     \* return_to of login requests; empty when it is absent
  Queries,       \* queries of callbacks
  Pages,         \* URLs of pages that make the browser send a request
  SiteOf,        \* SiteOf[host]: the site of a host
  Agents         \* the headers browsers add: "fetch", "origin", "referer", "bare"

\* A name whose alphabet is [A-Za-z0-9_.-] is one token, the same encoded and
\* decoded; and its spelling decides everything validation sees of it.
WrittenAsToken(names) ==
  /\ \A i \in DOMAIN names :
       Trim(names[i]) # EmptyText /\ names[i].plain =>
         Plain(names[i].word) /\ Decode[names[i].word] = names[i].word
  /\ \A i, j \in DOMAIN names :
       names[i].word = names[j].word => Trim(names[i]) = Trim(names[j])

\* What the setters, the constructors of login routes and requests are given.
ASSUME ServiceAssumption ==
  /\ \A call \in SetterCalls :
       \/ call[1] = "session_key" /\ call[2] \in STRING
       \/ call[1] = "session_key_base64" /\ call[2] \in [valid : BOOLEAN, bytes : Nat, key : STRING]
       \/ call[1] \in {"issuer_url", "redirect_url", "post_logout_redirect_url"} /\ call[2] \in Urls
       \/ call[1] \in {"client_id", "client_secret"} /\ call[2] \in Texts
       \/ call[1] \in {"scopes", "persist_claims", "callback_passthrough_params"} /\ call[2] \in Seq(Texts)
       \/ call[1] = "return_to_prefix" /\ call[2] \in Seq(Tokens)
       \/ call[1] \in {"pre_auth_ttl", "post_auth_ttl", "max_session_lifetime"} /\ call[2] \in Durations
       \/ call[1] = "session_expiry" /\ call[2] \in {"Fixed", "Sliding"}
  /\ \A call \in SetterCalls : call[1] = "callback_passthrough_params" => WrittenAsToken(call[2])
  /\ MaxCalls \in Nat
  /\ \A v \in Variants :
       v.params \in Seq([name : Texts, value : Seq(Tokens)]) /\ IsOption(v.age, Durations)
  /\ ReturnTos \subseteq Seq(Tokens)
  /\ Queries \subseteq Seq(STRING \X Seq(DecodedTokens))
  /\ \A page \in Pages : page \in Urls /\ page.parses
  /\ Agents \subseteq {"fetch", "origin", "referer", "bare"}

VARIABLES
  builder, calls,   \* the builder, and the calls made
  verdict,          \* the error startup ended with, or NoError
  config,           \* the configuration, once it is built
  rp,               \* the provider's document, once it is discovered
  slot,             \* the login under way, in the session
  signedIn,         \* is there a subject and its tokens in the session?
  answer            \* the last answer, with what was asked (history)

vars == <<builder, calls, verdict, config, rp, slot, signedIn, answer>>
startup == <<builder, calls, verdict, config, rp>>

NoAnswer ==
  [to |-> "nothing", status |-> 0, from |-> NotAUrl, agent |-> "bare", return_to |-> <<>>, query |-> <<>>,
   location |-> <<>>, names |-> <<>>, scopes |-> <<>>, max_age |-> None]

\* The status codes of BffError; the error path of a handler leaves the session alone.
StatusOf == [BadRequest |-> 400, Unauthorized |-> 401, Internal |-> 500]
Refused(to, error) == [NoAnswer EXCEPT !.to = to, !.status = StatusOf[error]]

Slot == [return_to : Seq(Tokens), max_age_secs : Seq(Nat)]

TypeOK ==
  /\ DOMAIN builder = DOMAIN NewBuilder
  /\ calls \in 0 .. MaxCalls
  /\ \A option \in {config, rp, slot} : Len(option) <= 1
  /\ rp # None => config # None
  /\ config # None =>
       config[1] \in OidcBffConfig /\ \A f \in RequiredFields : config[1][f].len > 0
  /\ verdict # NoError => rp = None
  /\ slot # None => rp # None /\ slot[1] \in Slot
  /\ signedIn \in BOOLEAN
  /\ answer.status \in {0, 200, 204, 302, 400, 401, 405}

Init ==
  /\ builder = TestConfigBuilder
  /\ calls = 0
  /\ verdict = NoError
  /\ config = None
  /\ rp = None
  /\ slot = None
  /\ signedIn = FALSE
  /\ answer = NoAnswer

-----------------------------------------------------------------------------
(* Startup. *)

AfterCall(b, call) ==
  CASE call[1] = "session_key"        -> SessionKey(b, call[2])
    [] call[1] = "session_key_base64" -> SessionKeyBase64(b, call[2])
    [] call[1] \in RequiredFields     -> SetRequired(b, call[1], call[2])
    [] call[1] \in OptionalFields     -> SetOption(b, call[1], call[2])

CallSetter(call) ==
  /\ config = None /\ verdict = NoError
  /\ calls < MaxCalls
  /\ calls' = calls + 1
  /\ builder' = AfterCall(builder, call)
  /\ UNCHANGED <<verdict, config, rp, slot, signedIn, answer>>

\* build consumes the builder.
Build ==
  /\ config = None /\ verdict = NoError
  /\ builder' = NewBuilder /\ calls' = 0
  /\ verdict' = BuildError(builder)
  /\ config' = IF verdict' = NoError THEN Some(Built(builder, "drawn")) ELSE None
  /\ UNCHANGED <<rp, slot, signedIn, answer>>

\* OidcRp::allowed_algs
ALLOWED_ALGS ==
  {"RS256", "RS384", "RS512", "PS256", "PS384", "PS512", "ES256", "ES384", "ES512"}

DiscoveryError(c, provider) ==
  FirstError(<<
    Check(~c.issuer_url.parses, "InvalidIssuerUrl"),
    Check(~provider.found, "Discovery"),
    Check(provider.algs \cap ALLOWED_ALGS = {}, "NoAsymmetricAlg"),
    Check(~c.redirect_url.parses, "InvalidRedirectUrl")>>)

\* OidcRp::discover; the application logs an error and exits.
Discover(provider) ==
  /\ config # None /\ rp = None /\ verdict = NoError
  /\ verdict' = DiscoveryError(config[1], provider)
  /\ rp' = IF verdict' = NoError THEN Some(provider) ELSE None
  /\ UNCHANGED <<builder, calls, config, slot, signedIn, answer>>

\* A login route is there when the construction of its parameters succeeds.
VariantError(v) ==
  FirstError(<<ExtraError(v.params)>> \o [i \in DOMAIN v.age |-> AgeError(v.age[i])])
ExtraOf(v) ==
  LET extra == ExtraAuthParams(v.params)
  IN  IF v.age = None THEN extra ELSE RequireAuthWithin(extra, v.age[1])
LoginRoutes == {NoExtra} \cup {ExtraOf(v) : v \in {w \in Variants : VariantError(w) = NoError}}

\* configure: what else is asked of these paths is answered by actix-web, 405.
Routes ==
  {<<"GET", "/auth/login">>, <<"GET", "/auth/callback">>, <<"POST", "/auth/logout">>,
   <<"GET", "/auth/me">>}

-----------------------------------------------------------------------------
(* Requests. *)

Serving == rp # None

\* login_impl, with extra of the route it was registered for.
Login(extra, asked) ==
  LET return_to == IF asked = <<>> THEN config[1].return_to_prefix ELSE asked
  IN
  /\ Serving
  /\ IF ValidateReturnTo(return_to, config[1].return_to_prefix)
     THEN /\ slot' = Some([return_to |-> return_to, max_age_secs |-> SlotMaxAge(extra)])
          /\ answer' = [NoAnswer EXCEPT !.to = "login", !.status = 302,
                                        !.names = UrlNames(extra),
                                        !.scopes = ScopeParam(config[1].scopes),
                                        !.max_age = UrlMaxAge(extra)]
     ELSE /\ answer' = Refused("login", "BadRequest")
          /\ UNCHANGED slot
  /\ UNCHANGED <<startup, signedIn>>

WordsOf(names) == [i \in DOMAIN names |-> names[i].word]
Allowlist == WordsOf(config[1].callback_passthrough_params)

\* callback, when the code is exchanged and the token is valid.
Callback(query) ==
  /\ Serving /\ slot # None
  /\ slot' = None
  /\ signedIn' = TRUE
  /\ answer' = [NoAnswer EXCEPT
                  !.to = "callback", !.status = 302,
                  !.return_to = slot[1].return_to, !.query = query,
                  !.location = Location(slot[1].return_to, query, Allowlist,
                                        config[1].return_to_prefix)]
  /\ UNCHANGED startup

Me ==
  /\ Serving
  /\ answer' = IF signedIn THEN [NoAnswer EXCEPT !.to = "me", !.status = 200]
               ELSE Refused("me", "Unauthorized")
  /\ UNCHANGED <<startup, slot, signedIn>>

\* What the browser says of the page a request comes from, and whether it adds
\* the session cookie: SameSite=Lax, so not to a POST from another site.
SameSite(page) == SiteOf[page.host] = SiteOf[config[1].redirect_url.host]
                    /\ page.scheme = config[1].redirect_url.scheme
OwnPage(page) == Origin(page) = config[1].allowed_origin
FetchSite(page) ==
  IF OwnPage(page) THEN "same-origin" ELSE IF SameSite(page) THEN "same-site" ELSE "cross-site"
HeadersOf(page, agent) ==
  CASE agent = "fetch"   -> Headers(Some(FetchSite(page)), Some(page), Some(page))
    [] agent = "origin"  -> Headers(None, Some(page), Some(page))
    [] agent = "referer" -> Headers(None, None, Some(page))
    [] agent = "bare"    -> Headers(None, None, None)
SendsCookie(page, method) == SameSite(page) \/ method = "GET"

\* build_end_session_url: the parameters added to the provider's endpoint.
EndSessionNames(hint) ==
  (IF hint THEN <<Text("id_token_hint")>> ELSE <<>>) \o <<Text("client_id")>>
    \o [i \in DOMAIN config[1].post_logout_redirect_url |-> Text("post_logout_redirect_uri")]

LogoutAnswer(hint) ==
  IF rp[1].end_session # None /\ rp[1].end_session[1].parses
  THEN [NoAnswer EXCEPT !.to = "logout", !.status = 200, !.names = EndSessionNames(hint)]
  ELSE [NoAnswer EXCEPT !.to = "logout", !.status = 204]

\* A page makes the browser send a request to the logout path.
AskLogout(page, agent, method) ==
  LET headers == HeadersOf(page, agent)
      cookie  == SendsCookie(page, method)
      By(reply) == [reply EXCEPT !.from = page, !.agent = agent]
  IN
  /\ Serving
  /\ IF <<method, "/auth/logout">> \notin Routes
     THEN answer' = By([NoAnswer EXCEPT !.to = "logout", !.status = 405])
     ELSE IF ~EnsureSameOriginAgainst(headers, config[1].allowed_origin)
     THEN answer' = By(Refused("logout", "BadRequest"))
     ELSE answer' = By(LogoutAnswer(signedIn /\ cookie))
  /\ IF answer'.status \in {200, 204} /\ cookie
     THEN slot' = None /\ signedIn' = FALSE
     ELSE UNCHANGED <<slot, signedIn>>
  /\ UNCHANGED startup

Next ==
  \/ \E call \in SetterCalls : CallSetter(call)
  \/ Build
  \/ \E provider \in Providers : Discover(provider)
  \/ \E extra \in LoginRoutes : Login(extra, <<>>)
  \/ \E return_to \in ReturnTos : Login(NoExtra, return_to)
  \/ \E query \in Queries : Callback(query)
  \/ Me
  \/ \E page \in Pages, agent \in Agents, method \in {"GET", "POST"} :
       AskLogout(page, agent, method)

Spec == Init /\ [][Next]_vars

-----------------------------------------------------------------------------
(* Properties. *)

\* from_config takes the configuration's limits as they are, with_* clamps what
\* it is given (store.rs): for whatever build accepts the two wirings are one,
\* and the absolute lifetime never cuts a session shorter than its TTL at once.
StoreWiringsAgree ==
  config # None =>
    LET c == config[1] IN
    /\ StoreFromConfig(c)
         = WithMaxLifetime(WithPreAuthTtl(NewStore, c.pre_auth_ttl_secs),
                           c.max_session_lifetime_secs)
    /\ c.post_auth_ttl_secs <= StoreFromConfig(c).max_lifetime_secs

Repeats(names) ==
  \E i, j \in DOMAIN names : i # j /\ EqIgnoreCase(names[i], names[j])

\* No parameter stands twice on an authorization URL, in any letter case,
\* whatever a variant adds: the provider and the crate cannot disagree about
\* which of two values counts.  openid, which openidconnect adds by itself, is
\* asked for once however often it is configured (login.rs); other scopes are
\* asked for as often as they are configured, normalize_scopes drops no repeats.
AuthRequestUnambiguous ==
  answer.to = "login" /\ answer.status = 302 =>
    /\ ~Repeats(answer.names)
    /\ Cardinality({i \in DOMAIN answer.scopes : answer.scopes[i].word = "openid"}) = 1

\* The age of authentication the provider is asked for and the one the callback
\* will enforce, from the slot, are the same or both absent (login.rs).
MaxAgeAgrees ==
  answer.to = "login" /\ answer.status = 302 => answer.max_age = slot[1].max_age_secs

\* The guard in front of the Location header never has to fall back: what
\* /auth/login accepted and append_passthrough adds is always safe (callback.rs).
GuardNeverTrips ==
  answer.to = "callback" =>
    answer.location = AppendPassthrough(answer.return_to, answer.query, Allowlist)

\* The pairs the callback added to the query of return_to.
Added == LET pairs == PairsOf(answer.location)
         IN  SubSeq(pairs, Len(PairsOf(answer.return_to)) + 1, Len(pairs))
ValueOf(pair) == Translate(Tail(Rest(pair, "=")), Decode)

\* The browser arrives where login was asked to send it: path, fragment and the
\* parameters of return_to are as they were, and what follows them are allowed
\* names the query did not have, once each, with the provider's first value of
\* that name (append_passthrough in callback.rs).
LocationKeepsReturnTo ==
  answer.to = "callback" =>
    LET target == answer.location
        asked  == answer.return_to
    IN
    /\ Until(Until(target, "#"), "?") = Until(Until(asked, "#"), "?")
    /\ Rest(target, "#") = Rest(asked, "#")
    /\ IsPrefix(PairsOf(asked), PairsOf(target))
    /\ \A i \in DOMAIN Added :
         /\ NameOf(Added[i]) \notin NamesOf(asked)
         /\ \A j \in 1 .. i - 1 : NameOf(Added[i]) # NameOf(Added[j])
         /\ \E n \in ToSet(Allowlist) :
              /\ NameOf(Added[i]) = <<n>>
              /\ ValueOf(Added[i]) = answer.query[First(answer.query, n)][2]

\* What the pairs with these names take of the budget, each with its joiner.
Spent(pairs, names) ==
  LET upTo[n \in 0 .. Len(pairs)] ==
        IF n = 0 THEN 0
        ELSE upTo[n - 1] + IF NameOf(pairs[n]) \in names THEN Bytes(pairs[n]) + 1 ELSE 0
  IN  upTo[Len(pairs)]

\* A parameter that can be passed and is not, does not fit in what the ones
\* before it left of the budget: none is dropped for the sake of one that is
\* itself dropped, nor when it would have fitted exactly (callback.rs).
NoParamStarved ==
  answer.to = "callback" =>
    \A i \in DOMAIN Allowlist :
      LET name   == Allowlist[i]
          before == {<<Allowlist[j]>> : j \in 1 .. i - 1}
      IN  IsSelected(answer.query, name) /\ <<name>> \notin NamesOf(answer.return_to) =>
            \/ \E n \in DOMAIN Added : NameOf(Added[n]) = <<name>>
            \/ Spent(Added, before)
                 + Bytes(EncodedPair(name, answer.query[First(answer.query, name)][2]))
                 > MAX_PASSTHROUGH_TOTAL_LEN

\* Nobody is signed out but by a page of the application's own origin; and such
\* a page succeeds when its browser says anything about it (csrf.rs, logout.rs,
\* the SameSite attribute of middleware.rs and the methods of routes.rs).  The
\* check an application uses for its own routes, which takes redirect_url, decides
\* as the one of the logout route, which takes the origin build computed from it.
LogoutIsOwn ==
  [][/\ signedIn =>
          /\ ~signedIn' => answer'.to = "logout" /\ OwnPage(answer'.from)
          /\ answer'.to = "logout" /\ OwnPage(answer'.from) /\ answer'.status = 400 =>
               answer'.agent = "bare"
     /\ answer'.to = "logout" /\ answer'.status # 405 =>
          (answer'.status = 400) =
            (EnsureSameOrigin(HeadersOf(answer'.from, answer'.agent),
                              config[1].redirect_url) = "BadRequest")]_vars

-----------------------------------------------------------------------------
(* The inductive invariant behind these properties. *)

\* Names as they stand in a URL, each once.
IsAllowlist(allow) ==
  /\ \A i \in DOMAIN allow : Plain(allow[i]) /\ Decode[allow[i]] = allow[i]
  /\ \A i, j \in DOMAIN allow : allow[i] = allow[j] => i = j

\* What is known of a configuration besides the types of its fields.
AsBuilt(c) ==
  /\ c \in OidcBffConfig /\ \A f \in RequiredFields : c[f].len > 0
  /\ c.post_auth_ttl_secs <= c.max_session_lifetime_secs
  /\ c.redirect_url.parses /\ c.redirect_url.scheme \in {"http", "https"}
  /\ c.allowed_origin = Origin(c.redirect_url)
  /\ IsAllowlist(WordsOf(c.callback_passthrough_params))

\* Startup goes one way, and nothing is served before it is over.
InOrder ==
  /\ calls \in 0 .. MaxCalls
  /\ verdict # NoError => rp = None
  /\ rp # None => config # None /\ rp = Some(rp[1])
  /\ rp = None => ~signedIn /\ slot = None /\ answer = NoAnswer

NamesSafe(b) ==
  b["callback_passthrough_params"] # None => WrittenAsToken(b["callback_passthrough_params"][1])
BuilderSafe == DOMAIN builder = DOMAIN NewBuilder /\ IsBuilder(builder) /\ NamesSafe(builder)
ConfigSafe == config # None => config = Some(config[1]) /\ AsBuilt(config[1])

\* A slot holds a target that login validated.
SlotSafe == slot # None => ValidateReturnTo(slot[1].return_to, config[1].return_to_prefix)

SessionIsTyped ==
  /\ slot # None => slot = Some(slot[1]) /\ slot[1] \in Slot
  /\ signedIn \in BOOLEAN
  /\ answer.status \in {0, 200, 204, 302, 400, 401, 405}

\* What holds of the redirect a callback is answered with.
RedirectSafe == GuardNeverTrips /\ LocationKeepsReturnTo /\ NoParamStarved

ServiceSafe ==
  /\ InOrder /\ BuilderSafe /\ ConfigSafe
  /\ SessionIsTyped /\ SlotSafe
  /\ AuthRequestUnambiguous /\ MaxAgeAgrees /\ RedirectSafe
=============================================================================
