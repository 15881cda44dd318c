-------------------------- MODULE RevocableSessions -------------------------
(***************************************************************************)
(* What "persistent, revocable session storage" promises, without keys,    *)
(* rows or repository calls: a login is granted once, is live until it     *)
(* ends, and never comes back; a request gets to use a login only if the   *)
(* login was live while the request was in flight and has not reached its  *)
(* absolute lifetime at the moment the request is let in.                  *)
(***************************************************************************)
EXTENDS Integers

CONSTANTS Requests, Tokens, NoTok, None, MaxLifetime

VARIABLES
  clock,    \* the time
  since,    \* since[t]: when login t was granted, or None
  status,   \* status[t]: "pending", "live" or "ended"
  view,     \* view[r]: the login request r has fetched and not yet checked
  using     \* using[r]: the login request r has been let in with

vars == <<clock, since, status, view, using>>

Init ==
  /\ clock = 0
  /\ since = [t \in Tokens |-> None]
  /\ status = [t \in Tokens |-> "pending"]
  /\ view = [r \in Requests |-> NoTok]
  /\ using = [r \in Requests |-> NoTok]

Advance ==
  /\ clock' = clock + 1
  /\ UNCHANGED <<since, status, view, using>>

\* Request r completes a login: it stops using what it used before.
Grant(r, t) ==
  /\ since[t] = None
  /\ since' = [since EXCEPT ![t] = clock]
  /\ using' = [using EXCEPT ![r] = NoTok]
  /\ UNCHANGED <<clock, status, view>>

\* A granted login becomes usable.
Establish(t) ==
  /\ since[t] # None
  /\ status[t] = "pending"
  /\ status' = [status EXCEPT ![t] = "live"]
  /\ UNCHANGED <<clock, since, view, using>>

\* Logout, renewal, expiry or clean-up: the login is over.
End(t) ==
  /\ status[t] = "live"
  /\ status' = [status EXCEPT ![t] = "ended"]
  /\ UNCHANGED <<clock, since, view, using>>

\* Request r fetches a login.
Fetch(r, t) ==
  /\ status[t] = "live"
  /\ view' = [view EXCEPT ![r] = t]
  /\ UNCHANGED <<clock, since, status, using>>

\* Request r is let in with the login it fetched.
Admit(r, t) ==
  /\ view[r] = t
  /\ clock < since[t] + MaxLifetime
  /\ using' = [using EXCEPT ![r] = t]
  /\ view' = [view EXCEPT ![r] = NoTok]
  /\ UNCHANGED <<clock, since, status>>

\* Request r drops what it fetched or used.
Leave(r) ==
  /\ view' = [view EXCEPT ![r] = NoTok]
  /\ using' = [using EXCEPT ![r] = NoTok]
  /\ UNCHANGED <<clock, since, status>>

Next ==
  \/ Advance
  \/ \E r \in Requests : Leave(r)
  \/ \E t \in Tokens : Establish(t) \/ End(t)
  \/ \E r \in Requests, t \in Tokens : Grant(r, t) \/ Fetch(r, t) \/ Admit(r, t)

Spec == Init /\ [][Next]_vars
=============================================================================
