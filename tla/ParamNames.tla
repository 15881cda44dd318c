------------------------------ MODULE ParamNames ------------------------------
(***************************************************************************)
(* The rules for parameter names shared by the two surfaces an application *)
(* configures: extra authorization-request parameters and parameters that  *)
(* the callback passes through.                                            *)
(*                                                                         *)
(* A text the application supplies is abstracted to what validation tells  *)
(* apart: its spelling without surrounding white space (word) and the same *)
(* in lower case (lower), whether white space surrounds it (pad), its      *)
(* length in bytes without that white space (len), and whether every       *)
(* character is in [A-Za-z0-9_.-] (plain).                                 *)
(***************************************************************************)
EXTENDS Selection

Spelled(w, l) == [word |-> w, lower |-> l, pad |-> FALSE, len |-> 6, plain |-> TRUE]
Text(w) == Spelled(w, w)
Padded(t) == [t EXCEPT !.pad = TRUE]
EmptyText == [Text("") EXCEPT !.len = 0]

\* str::trim
Trim(t) == [t EXCEPT !.pad = FALSE]

EqIgnoreCase(s, t) == s.lower = t.lower

NoError == "no error"

\* A check is the error it reports, or NoError; the first error is the one reported.
Check(fails, error) == IF fails THEN error ELSE NoError
FirstError(checks) ==
  LET failed == {i \in DOMAIN checks : checks[i] # NoError}
  IN  IF failed = {} THEN NoError
      ELSE checks[CHOOSE i \in failed : \A j \in failed : i <= j]

(***************************************************************************)
(* Option<T> is a sequence of at most one element.                         *)
(***************************************************************************)
None == <<>>
Some(v) == <<v>>
OrElse(option, default) == IF option = None THEN default ELSE option[1]

MAX_PARAM_NAME_LEN == 64

\* Never an extra parameter of the authorization request.
DENIED_AUTH_PARAMS ==
  {"client_assertion", "client_assertion_type", "client_id", "client_secret",
   "code_challenge", "code_challenge_method", "code_verifier", "max_age", "nonce",
   "redirect_uri", "request", "request_uri", "response_mode", "response_type",
   "scope", "state"}

\* Never passed from the callback into the URL the user lands on.
DENIED_PASSTHROUGH_PARAMS ==
  {"access_token", "client_assertion", "client_assertion_type", "client_secret",
   "code", "code_verifier", "error", "error_description", "error_uri", "id_token",
   "id_token_hint", "iss", "refresh_token", "response", "session_state", "sid",
   "state", "token"}

\* Mutant: the deny-list is compared with the name as it is written.
validate_param_name_CaseSensitive(name, denied) ==
  FirstError(<<Check(name = EmptyText, "Empty"),
               Check(name.len > MAX_PARAM_NAME_LEN, "TooLong"),
               Check(~name.plain \/ name.pad, "InvalidCharset"),
               Check(name.word \in denied, "Denied")>>)

\* The deny-list matches in any letter case.
validate_param_name(name, denied) ==
  FirstError(<<Check(name = EmptyText, "Empty"),
               Check(name.len > MAX_PARAM_NAME_LEN, "TooLong"),
               Check(~name.plain \/ name.pad, "InvalidCharset"),
               Check(name.lower \in denied, "Denied")>>)
=============================================================================
