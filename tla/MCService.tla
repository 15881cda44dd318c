------------------------------ MODULE MCService ------------------------------
(***************************************************************************)
(* Instances of Service for TLC: setter calls that build accepts and ones  *)
(* it refuses, of every setter.                                            *)
(***************************************************************************)
EXTENDS Service, SmallUrls

Groups == Text("groups")
Blank == Padded(EmptyText)

RequiredCalls ==
  {<<"issuer_url", NotAUrl>>,
   <<"client_id", Blank>>,
   <<"redirect_url", Padded(Url("http", "app", 80))>>,
   <<"redirect_url", Url("data", "", 0)>>,
   <<"session_key", "k">>,
   <<"session_key_base64", [valid |-> TRUE, bytes |-> 64, key |-> "k"]>>,
   <<"session_key_base64", [valid |-> TRUE, bytes |-> 63, key |-> "k"]>>}

NameCalls ==
  {<<"scopes", <<Text("profile"), Blank>>>>,
   <<"scopes", <<Text("email"), Text("email"), Padded(Text("openid")), Text("openid")>>>>,
   <<"persist_claims", <<Padded(Groups), Blank>>>>,
   <<"persist_claims", <<Text("sub")>>>>,
   <<"callback_passthrough_params", <<Text("kc"), Text("foo"), Text("tab")>>>>,
   <<"callback_passthrough_params", <<Text("tab"), Padded(Text("kc"))>>>>,
   <<"callback_passthrough_params", <<Spelled("Code", "code")>>>>,
   <<"callback_passthrough_params", <<Text("kc"), Text("kc")>>>>}

TargetCalls ==
  {<<"return_to_prefix", <<"/", "a">>>>,
   <<"return_to_prefix", <<"a">>>>,
   <<"post_logout_redirect_url", Padded(Url("https", "app", 443))>>,
   <<"post_logout_redirect_url", Url("http", "app", 80)>>}

TtlCalls ==
  {<<"pre_auth_ttl", Fractional(0)>>,
   <<"post_auth_ttl", Duration(3)>>,
   <<"post_auth_ttl", Duration(7)>>,
   <<"max_session_lifetime", Duration(7)>>,
   <<"max_session_lifetime", Duration(9)>>,
   <<"session_expiry", ParseExpiry(Padded(Spelled("Sliding", "sliding")))[1]>>}

AllCalls == RequiredCalls \cup NameCalls \cup TargetCalls \cup TtlCalls

Doc(algs, end_session) == [found |-> TRUE, algs |-> algs, end_session |-> end_session]
SmallProviders ==
  {Doc({"RS256", "HS256"}, Some(Url("https", "idp", 443))),
   Doc({"HS256"}, None),
   Doc({"ES256"}, Some(NotAUrl)),
   [Doc({"RS256"}, None) EXCEPT !.found = FALSE]}

Param(name, value) == [name |-> name, value |-> value]
Prompt == Param(Padded(Text("prompt")), <<"ok">>)
Variant(params, age) == [params |-> params, age |-> age]
SmallVariants ==
  {Variant(<<Prompt>>, None),
   Variant(<<>>, Some(Duration(0))),
   Variant(<<Prompt, Param(Text("ui"), <<"ok">>)>>, Some(Duration(3))),
   Variant(<<Prompt>>, Some(Fractional(0))),
   Variant(<<Param(Spelled("Max_Age", "max_age"), <<"ok">>)>>, Some(Duration(3))),
   Variant(<<Prompt, Param(Spelled("Prompt", "prompt"), <<"b">>)>>, None),
   Variant(<<Param(Text("ui"), <<"a", "b", "a", "b", "a">>)>>, None),
   Variant(<<Param(Text("ui"), <<"LF">>)>>, None)}

\* Accepted with prefix "/", most of them with "/a" too, and refused.
SmallReturnTos ==
  {<<"/", "a">>,
   <<"/", "a", "/", "b">>,
   <<"/", "a", "?", "tab", "=", "b">>,
   <<"/", "a", "?", "%tab", "=", "b">>,
   <<"/", "a", "/", "?", "#", "b", "?">>,
   <<"/", "a", "#", "b">>,
   <<"/", "a", ":", "?", "b">>,
   <<"/", "ok">>,
   <<"/", "a", "/", "/", "b">>,
   <<"/", "a", "?", ":", "/">>,
   <<"/", "\\", "b">>,
   <<"/", "a", "LF">>,
   <<"/", "a", "/", "b", "/", "b", "/", "a", "b">>}

Ok(name) == <<name, <<"ok">>>>
SmallQueries ==
  {<<Ok("code"), Ok("state")>>,
   <<Ok("kc"), Ok("code")>>,
   <<Ok("kc"), Ok("foo"), Ok("tab")>>,
   <<<<"kc", <<"e'", "b">>>>, Ok("foo")>>,
   <<<<"kc", <<"e'">>>>, Ok("foo"), Ok("tab")>>,
   <<<<"kc", <<"LF">>>>, Ok("kc")>>,
   <<<<"kc", <<"U+FFFD">>>>, Ok("tab")>>,
   <<<<"kc", <<"a", "b", "a", "b", "a">>>>, Ok("foo")>>,
   <<<<"tab", <<"/", "/">>>>, <<"kc", <<":", "/">>>>>>,
   <<<<"kc", <<"b">>>>, Ok("kc"), <<"foo", <<"#">>>>>>}

App == Url("https", "app", 443)
SmallPages == {App, Url("http", "app", 80), Url("https", "api.app", 443), Url("https", "evil", 443)}
SmallSites ==
  [h \in {"app", "api.app", "evil", "idp"} |-> IF h = "api.app" THEN "app" ELSE h]
=============================================================================
