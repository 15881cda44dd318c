----------------------------- MODULE AuthRequest -----------------------------
(***************************************************************************)
(* The authorization request: the extra parameters a login variant adds to *)
(* it, the re-authentication age it asks for, and the parameters of the    *)
(* URL the browser is sent to.  An extra parameter is a pair of a Text     *)
(* (module ParamNames) and a value, a sequence of tokens; a Duration is a  *)
(* number of whole seconds and whether a fraction is left.                 *)
(***************************************************************************)
EXTENDS ParamNames, RedirectTarget

CONSTANTS MAX_EXTRA_AUTH_VALUE_LEN, MAX_AUTH_AGE_SECS

MAX_EXTRA_AUTH_PARAMS == 8

Duration(secs) == [secs |-> secs, frac |-> FALSE]
Fractional(secs) == [secs |-> secs, frac |-> TRUE]

\* login: no extra parameters, no required age.
NoExtra == [params |-> <<>>, max_age_secs |-> None]

\* The verdict on the i-th pair, the earlier ones having passed.
PairError(raw, i) ==
  LET name  == Trim(raw[i].name)
      value == raw[i].value
      verdict == validate_param_name(name, DENIED_AUTH_PARAMS)
  IN  FirstError(<<
        Check(verdict = "Denied", "ReservedName"),
        Check(verdict # NoError, "InvalidName"),
        Check(\E j \in 1 .. i - 1 : EqIgnoreCase(Trim(raw[j].name), name), "DuplicateName"),
        Check(Bytes(value) > MAX_EXTRA_AUTH_VALUE_LEN, "ValueTooLong"),
        Check(has_control_chars(value), "InvalidValue")>>)

\* ExtraAuthParams::new: the error, and the set when there is none.
ExtraError(raw) ==
  IF Len(raw) > MAX_EXTRA_AUTH_PARAMS
  THEN "TooMany"
  ELSE FirstError([i \in DOMAIN raw |-> PairError(raw, i)])
ExtraAuthParams(raw) ==
  [NoExtra EXCEPT !.params = [i \in DOMAIN raw |-> [raw[i] EXCEPT !.name = Trim(@)]]]

\* require_auth_within: a zero age is meaningful, a fraction of a second is not.
AgeError(max_age) ==
  Check(max_age.frac \/ max_age.secs > MAX_AUTH_AGE_SECS, "InvalidMaxAge")
RequireAuthWithin(extra, max_age) == [extra EXCEPT !.max_age_secs = Some(max_age.secs)]

\* The accessors: "empty" and "len" do not look at the required age.
IsEmptyExtra(extra) == extra.params = <<>>
SlotMaxAge(extra) == extra.max_age_secs

\* What openidconnect puts on every authorization URL of this flow.
LibraryParams ==
  <<Text("response_type"), Text("client_id"), Text("state"), Text("code_challenge"),
    Text("code_challenge_method"), Text("redirect_uri"), Text("scope"), Text("nonce")>>

\* The scope parameter: openidconnect adds openid itself, so login_impl leaves
\* it out of the scopes it passes.
ScopeParam(scopes) ==
  <<Text("openid")>> \o Retain(scopes, {s \in ToSet(scopes) : s.word # "openid"})

\* Mutant: a variant without parameters is not worth looking at.
UrlMaxAge_IfNotEmpty(extra) == IF IsEmptyExtra(extra) THEN None ELSE extra.max_age_secs

\* max_age on the URL: whatever require_auth_within recorded.
UrlMaxAge(extra) == extra.max_age_secs

\* The names on the authorization URL, in the order login_impl adds them.
UrlNames(extra) ==
  LibraryParams
    \o [i \in DOMAIN extra.params |-> extra.params[i].name]
    \o [i \in DOMAIN UrlMaxAge(extra) |-> Text("max_age")]
=============================================================================
