---------------------------- MODULE SessionState ----------------------------
(***************************************************************************)
(* The session state the crate keeps for one browser: the part of the      *)
(* HashMap<String, String> behind a session key that the store, the        *)
(* middleware and the handlers read or write.                              *)
(*                                                                         *)
(*   sub      "sub", the authenticated subject, or NoSub;                  *)
(*   loginAt  "__bff_login_at": an instant, Missing when the key is        *)
(*            absent, Garbled when it is present but neither encoding of   *)
(*            login_at_from_json (or an instant chrono cannot represent);  *)
(*   tok      the tokens of one login ("access_token", "refresh_token" and *)
(*            "id_token" are written and scrubbed together), or NoTok;     *)
(*   rest     every other entry, as one opaque value (the pre-auth slots   *)
(*            are the entry the crate itself keeps there); NoRest when     *)
(*            there is none.                                               *)
(***************************************************************************)
EXTENDS Integers

CONSTANTS
  Subjects,   \* subjects an identity provider can assert
  NoSub,      \* "sub" is absent
  Tokens,     \* one value per completed login: the tokens it obtained
  NoTok,      \* no token key is present
  Missing,    \* "__bff_login_at" is absent
  Garbled,    \* "__bff_login_at" does not parse
  Rests,      \* contents of the other entries
  NoRest      \* no other entry

ASSUME StateAssumption ==
  /\ NoSub \notin Subjects
  /\ NoTok \notin Tokens
  /\ Missing \notin Int /\ Garbled \notin Int /\ Missing # Garbled
  /\ NoRest \in Rests

Instants == Nat

State ==
  [sub     : Subjects \cup {NoSub},
   loginAt : Instants \cup {Missing, Garbled},
   tok     : Tokens \cup {NoTok},
   rest    : Rests]

\* The state of a request that presented no usable key.
EmptyState == [sub |-> NoSub, loginAt |-> Missing, tok |-> NoTok, rest |-> NoRest]

HasSub(s) == s.sub # NoSub

\* DbSessionStore::state_has_tokens.
HasTokens(s) == s.tok # NoTok

\* What a new login leaves in the session: its own time, subject and tokens
\* over whatever else the session held (POST_AUTH_SCRUB_KEYS removes the keys
\* of the previous login; the other entries stay).
LoggedIn(s, u, t, at) == [s EXCEPT !.sub = u, !.loginAt = at, !.tok = t]

(***************************************************************************)
(* What an application sharing the session may do to it: the keys are      *)
(* plain strings, so it can write its own entries and remove or overwrite  *)
(* the crate's, but it does not forge a login.  The operations are named,  *)
(* so that a model can choose the ones it allows.                          *)
(***************************************************************************)
AppOpNames == {"rest", "dropTokens", "dropLoginAt", "garbleLoginAt", "dropSub", "clear"}

AppResults(s, op) ==
  CASE op = "rest"          -> {[s EXCEPT !.rest = r] : r \in Rests}
    [] op = "dropTokens"    -> {[s EXCEPT !.tok = NoTok]}
    [] op = "dropLoginAt"   -> {[s EXCEPT !.loginAt = Missing]}
    [] op = "garbleLoginAt" -> {[s EXCEPT !.loginAt = Garbled]}
    [] op = "dropSub"       -> {[s EXCEPT !.sub = NoSub]}
    [] op = "clear"         -> {EmptyState}
=============================================================================
