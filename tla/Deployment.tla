----------------------------- MODULE Deployment -----------------------------
(***************************************************************************)
(* An application over its deployments.  Sessions outlive the process: the *)
(* row is in the database, the cookie in the browser, and each start brings*)
(* the configuration, the session store and the key of that release.       *)
(*                                                                         *)
(* One browser, whose requests do not overlap (BffSession has those that   *)
(* do) and which has one cookie: the releases share the cookie's name.     *)
(* Instants are whole ticks.  An identity entry of the session is the      *)
(* number of the login whose token it was taken from.                      *)
(***************************************************************************)
EXTENDS BffConfig

CONSTANTS
  Releases,         \* [builder, wiring, app_data]: what may be deployed
  Grants,           \* sets of entries: what the tokens of a login may carry
  FreshKeys,        \* the keys starts draw, in order; as many as there are starts
  MaxNow,           \* bound of the clock
  MaxLogins,        \* bound of the logins
  Missing, Garbled, \* of SessionState
  Dead              \* of SessionExpiry: its None

VARIABLES
  now,
  starts,    \* how often the application was started
  app,       \* what is running: its configuration, wiring, the store's limits and
             \* where configure_app_data was called
  row,       \* the session the cookie stands for: a row, or in the cookie itself
  jar,       \* the session cookie
  logins,    \* the logins completed
  story,     \* of the last login: its time, when it was last used, the lifetime
             \* it was promised, whether it was used in every tick (history)
  answer     \* the last answer, until time passes (history)

vars == <<now, starts, app, row, jar, logins, story, answer>>

\* How the application wires a store: by from_config, by new, from_config without
\* coalescing, or CookieSessionStore of actix-session, which has no limits.
Wirings == {"from_config", "new", "uncoalesced", "cookie"}
Limits(wiring, c) ==
  CASE wiring = "new"         -> NewStore
    [] wiring = "uncoalesced" -> WithTouchCoalesce(StoreFromConfig(c), 0)
    [] OTHER                  -> StoreFromConfig(c)

\* Routes that take Auth: those that have the configuration in reach, and those
\* registered outside of the scope it was registered in.
Visits == {"visit", "visit_outside"}

\* Where configure_app_data was called, and the routes that there are then: at the
\* App, in the scope of the crate's routes, or nowhere.
Reaches == {"app", "scope", "nowhere"}
VisitsOf(app_data) ==
  CASE app_data = "app"   -> {"visit"}
    [] app_data = "scope" -> Visits
    [] OTHER              -> {"visit_outside"}

ASSUME ReleaseAssumption ==
  /\ \A release \in Releases :
       /\ IsBuilder(release.builder) /\ release.wiring \in Wirings
       /\ release.app_data \in Reaches
  /\ \A grant \in Grants : grant \subseteq STRING
  /\ FreshKeys \in Seq(STRING)
  /\ MaxNow \in Nat /\ MaxLogins \in Nat
  /\ Missing \notin Int /\ Garbled \notin Int /\ Dead \notin Int

\* The entries of one login, the names in CLAIM_KEYS, LOGIN_AT, and when the slot
\* of the login under way was made.
EmptySession == [vals |-> <<>>, claim_keys |-> {}, loginAt |-> Missing, started |-> None]
HasSubject(s) == "sub" \in DOMAIN s.vals

NoAnswer == [to |-> "nothing", status |-> 0]
Answers(to, status) == answer' = [to |-> to, status |-> status]
NoStory == [at |-> 0, seen |-> 0, life |-> 0, active |-> FALSE]

AsState(s) ==
  [sub |-> IF HasSubject(s) THEN s.vals["sub"] ELSE 0, loginAt |-> s.loginAt, tok |-> 0, rest |-> 0]

TypeOK ==
  /\ now \in 0 .. MaxNow /\ starts \in 0 .. Len(FreshKeys) /\ logins \in 0 .. MaxLogins
  /\ \A option \in {app, row, jar} : Len(option) <= 1
  /\ app # None =>
       app[1].config \in OidcBffConfig /\ app[1].wiring \in Wirings /\ app[1].app_data \in Reaches
  /\ jar # None => jar[1].kind \in {"row", "cookie"} /\ jar[1].until \in 0 .. MaxNow + MAX_TTL_SECS
  /\ row # None =>
       /\ row[1].s.claim_keys \subseteq DOMAIN row[1].s.vals
       /\ \A k \in DOMAIN row[1].s.vals : row[1].s.vals[k] \in 1 .. logins
       /\ row[1].expiresAt \in 0 .. MaxNow + MAX_TTL_SECS

Init ==
  /\ now = 0 /\ starts = 0 /\ logins = 0
  /\ app = None /\ row = None /\ jar = None
  /\ story = NoStory
  /\ answer = NoAnswer

-----------------------------------------------------------------------------
(* The session of a request, and what becomes of it. *)

Cfg == app[1].config
Kind == IF app[1].wiring = "cookie" THEN "cookie" ELSE "row"

\* The expiry rules, with the middleware's TTL and the limits of the store.
Expiry ==
  INSTANCE SessionExpiry WITH
    PostAuthTtl <- Cfg.post_auth_ttl_secs, PreAuthTtl <- app[1].limits.pre_auth_ttl_secs,
    MaxLifetime <- app[1].limits.max_lifetime_secs,
    TouchCoalesce <- app[1].limits.touch_coalesce_secs,
    FutureSkew <- 0, None <- Dead,
    Subjects <- 1 .. MaxLogins, NoSub <- 0, Tokens <- {}, NoTok <- 0, Rests <- {0}, NoRest <- 0

\* The browser sends a cookie until its Max-Age; the middleware reads one that is
\* signed with its key and was made by its kind of store.
Presented ==
  /\ jar # None /\ now < jar[1].until
  /\ jar[1].key = Cfg.session_key
  /\ jar[1].kind = Kind
  /\ row # None

\* DbSessionStore::load; CookieSessionStore takes what it is given.
Accepts == Kind = "cookie" \/ Expiry!LoadAccepts(AsState(row[1].s), row[1].expiresAt, now)
Loaded == IF Presented /\ Accepts THEN Some(row[1].s) ELSE None

SetsCookie ==
  jar' = Some([key |-> Cfg.session_key, kind |-> Kind, until |-> now + Cfg.post_auth_ttl_secs])

\* save or update: the session was changed, or got a new key.
Write(s) ==
  LET expiresAt == Expiry!EffectiveExpiry(AsState(s), now) IN
  /\ SetsCookie
  /\ row' = IF Kind = "cookie" THEN Some([s |-> s, expiresAt |-> 0])
            ELSE IF expiresAt = Dead THEN None
            ELSE Some([s |-> s, expiresAt |-> expiresAt])

\* update_ttl of a session that was not changed.
Renewal(s) ==
  LET old == row[1].expiresAt
      new == Expiry!EffectiveExpiry(AsState(s), now)
  IN  IF Kind = "cookie" \/ ~HasSubject(s) THEN row
      ELSE IF new = Dead THEN None
      ELSE IF Expiry!TouchNeeded(new, old) THEN Some([row[1] EXCEPT !.expiresAt = new])
      ELSE row

\* Mutant: the cookie is not set again.
Keep_RowOnly(s) ==
  /\ row' = IF Cfg.session_expiry = "Sliding" THEN Renewal(s) ELSE row
  /\ UNCHANGED jar

\* An unchanged session, under either TtlExtensionPolicy.
Keep(s) ==
  IF Cfg.session_expiry = "Sliding"
  THEN row' = Renewal(s) /\ SetsCookie
  ELSE UNCHANGED <<row, jar>>

\* No session came of it: load deletes a row it does not accept.
Forget ==
  /\ row' = IF Presented /\ ~Accepts THEN None ELSE row
  /\ UNCHANGED jar

Purge == row' = None /\ jar' = None

-----------------------------------------------------------------------------
(* Deployments and time. *)

\* Does the user's session go on with what is deployed next?
GoesOn(next) ==
  /\ app # None
  /\ next.config.session_key = Cfg.session_key
  /\ (next.wiring = "cookie") = (app[1].wiring = "cookie")
  /\ next.config.session_expiry = "Sliding"

Least(a, b) == IF a <= b THEN a ELSE b

\* The absolute lifetime of a session that is always used.  A row may end before
\* it, because a last renewal that is shorter than the coalescing window is not
\* written.
Lifetime(running) ==
  LET limits == running.limits
      unwritten == IF limits.touch_coalesce_secs = 0 THEN 0 ELSE limits.touch_coalesce_secs - 1
  IN  IF running.wiring = "cookie"
      THEN running.config.max_session_lifetime_secs
      ELSE Least(running.config.max_session_lifetime_secs, limits.max_lifetime_secs - unwritten)

\* What runs when a release starts and draws a key.
Running(release, key) ==
  LET config == Built(release.builder, key)
  IN  [config |-> config, wiring |-> release.wiring, limits |-> Limits(release.wiring, config),
       app_data |-> release.app_data]

\* The process ends, by a crash or for a new release, and another starts.
Deploy(release) ==
  LET next == Running(release, FreshKeys[starts + 1]) IN
  /\ starts < Len(FreshKeys)
  /\ BuildError(release.builder) = NoError
  /\ starts' = starts + 1
  /\ app' = Some(next)
  /\ story' = [story EXCEPT !.active = @ /\ GoesOn(next), !.life = Least(@, Lifetime(next))]
  /\ answer' = NoAnswer
  /\ UNCHANGED <<now, row, jar, logins>>

Tick ==
  /\ now < MaxNow
  /\ now' = now + 1
  /\ story' = [story EXCEPT !.active = @ /\ story.seen = now]
  /\ answer' = NoAnswer
  /\ UNCHANGED <<starts, app, row, jar, logins>>

-----------------------------------------------------------------------------
(* Requests. *)

\* Mutant: the absolute lifetime is left to the store.
LifetimeOver_StoreOnly(to, s) == to = "visit" /\ s.loginAt = Missing

\* Auth::extract: the lifetime of the configuration, whatever the store's is.  The
\* check is skipped where the configuration is out of reach.
LifetimeOver(to, s) ==
  /\ to = "visit"
  /\ s.loginAt = Missing \/ Cfg.max_session_lifetime_secs + s.loginAt <= now

\* A route that takes Auth, /auth/me for instance.
Visit(to) ==
  /\ app # None /\ to \in VisitsOf(app[1].app_data)
  /\ IF Loaded = None
     THEN Answers(to, 401) /\ Forget /\ UNCHANGED story
     ELSE IF ~HasSubject(Loaded[1])
     THEN Answers(to, 401) /\ Keep(Loaded[1]) /\ UNCHANGED story
     ELSE IF LifetimeOver(to, Loaded[1])
     THEN Answers(to, 401) /\ Purge /\ UNCHANGED story
     ELSE Answers(to, 200) /\ Keep(Loaded[1]) /\ story' = [story EXCEPT !.seen = now]
  /\ UNCHANGED <<now, starts, app, logins>>

\* Login and callback take the configuration and the provider as web::Data: where
\* nobody registered them, actix-web answers for the handler.
Serves == app # None /\ app[1].app_data # "nowhere"

Unserved ==
  /\ app # None /\ ~Serves
  /\ IF Loaded = None THEN Forget ELSE Keep(Loaded[1])
  /\ Answers("unserved", 500)
  /\ UNCHANGED <<now, starts, app, logins, story>>

SessionOrEmpty == OrElse(Loaded, EmptySession)

Login ==
  /\ Serves
  /\ Write([SessionOrEmpty EXCEPT !.started = Some(now)])
  /\ Answers("login", 302)
  /\ UNCHANGED <<now, starts, app, logins, story>>

SlotLives(s) == s.started # None /\ now - s.started[1] <= Cfg.pre_auth_ttl_secs

\* A callback without a slot: what is left of the slots is written back.
CallbackRefused ==
  /\ Serves /\ ~SlotLives(SessionOrEmpty)
  /\ Write([SessionOrEmpty EXCEPT !.started = None])
  /\ Answers("callback", 400)
  /\ UNCHANGED <<now, starts, app, logins, story>>

POST_AUTH_SCRUB_KEYS == {"email", "name", "access_token", "refresh_token", "id_token"}

\* select_claims: the configured claims that the token has.
Claims(grant) == {c.word : c \in ToSet(Cfg.persist_claims)} \cap grant

\* What login number n writes.
Written(grant) ==
  {"sub", "iss", "access_token", "id_token"}
    \cup ({"email", "name", "refresh_token"} \cap grant)
    \cup Claims(grant)

\* Mutant: the claims to scrub are the ones configured now.
AfterLogin_ScrubsConfigured(s, n, grant) ==
  LET old  == {c.word : c \in ToSet(Cfg.persist_claims)}
      kept == DOMAIN s.vals \ (POST_AUTH_SCRUB_KEYS \cup old)
  IN  [vals       |-> [k \in kept \cup Written(grant) |->
                         IF k \in Written(grant) THEN n ELSE s.vals[k]],
       claim_keys |-> Claims(grant),
       loginAt    |-> now,
       started    |-> None]

\* Mutant: the names recorded are the configured ones.
AfterLogin_RecordsConfigured(s, n, grant) ==
  LET kept == DOMAIN s.vals \ (POST_AUTH_SCRUB_KEYS \cup s.claim_keys)
  IN  [vals       |-> [k \in kept \cup Written(grant) |->
                         IF k \in Written(grant) THEN n ELSE s.vals[k]],
       claim_keys |-> {c.word : c \in ToSet(Cfg.persist_claims)},
       loginAt    |-> now,
       started    |-> None]

\* Steps (10) to (14) of the callback.
AfterLogin(s, n, grant) ==
  LET kept == DOMAIN s.vals \ (POST_AUTH_SCRUB_KEYS \cup s.claim_keys)
  IN  [vals       |-> [k \in kept \cup Written(grant) |->
                         IF k \in Written(grant) THEN n ELSE s.vals[k]],
       claim_keys |-> Claims(grant),
       loginAt    |-> now,
       started    |-> None]

\* The session gets a new key: the old row goes, a new one is saved.
Callback(grant) ==
  /\ Serves /\ SlotLives(SessionOrEmpty)
  /\ logins < MaxLogins
  /\ logins' = logins + 1
  /\ Write(AfterLogin(SessionOrEmpty, logins + 1, grant))
  /\ Answers("callback", 302)
  /\ story' = [at |-> now, seen |-> now, life |-> Lifetime(app[1]),
               active |-> Cfg.session_expiry = "Sliding"]
  /\ UNCHANGED <<now, starts, app>>

Next ==
  \/ \E release \in Releases : Deploy(release)
  \/ Tick
  \/ \E to \in Visits : Visit(to)
  \/ Unserved
  \/ Login
  \/ CallbackRefused
  \/ \E grant \in Grants : Callback(grant)

Spec == Init /\ [][Next]_vars

-----------------------------------------------------------------------------
(* Properties. *)

\* Everything the crate keeps about a user was taken from one login: no claim,
\* address, name or token of an earlier one is left, also when the releases in
\* between persist other claims (steps (11) to (14) in callback.rs).
IdentityOfThisLogin ==
  row # None =>
    \A k \in DOMAIN row[1].s.vals :
      HasSubject(row[1].s) /\ row[1].s.vals[k] = row[1].s.vals["sub"]

\* Where Auth has the configuration in reach, nobody is admitted past the absolute
\* lifetime that is configured now, whatever store the application wired and
\* whatever was configured at the login.  Where it has not, it admits whom the
\* store loads, and DbSessionStore loads nobody past the lifetime of its own; with
\* CookieSessionStore nothing bounds the session then (extractor.rs, load in
\* store.rs).
SessionsWithinLifetime ==
  answer.to \in Visits /\ answer.status = 200 =>
    /\ answer.to = "visit" => now < story.at + Cfg.max_session_lifetime_secs
    /\ Kind = "row" => now < story.at + app[1].limits.max_lifetime_secs

\* Under sliding expiry a user who is there in every tick is not refused before
\* the absolute lifetime is over, across deployments that keep the key and the
\* kind of store; where several were in force, before the shortest (Lifetime).
\* SessionExpiry::Sliding in config.rs, update_ttl in store.rs, and the Max-Age
\* of the cookie.
ActiveUserStays ==
  answer.to \in Visits /\ answer.status = 401 /\ story.active => now >= story.at + story.life

\* The module documentation of store.rs: lowering the TTLs at a deployment does
\* not affect the rows there are, which lapse on their own schedule.
RowsLapseOnOwnSchedule ==
  [][row # None /\ jar # None /\ jar[1].kind = "row" /\ now < row[1].expiresAt
       => row' # None]_vars

-----------------------------------------------------------------------------
(* The inductive invariant behind these properties. *)

\* What is in a session: the names of its entries are the fixed ones and those
\* it records, and all entries are of one login.
OfOneLogin(s) ==
  /\ s = [vals |-> s.vals, claim_keys |-> s.claim_keys, loginAt |-> s.loginAt, started |-> s.started]
  /\ DOMAIN s.vals \subseteq {"sub", "iss"} \cup POST_AUTH_SCRUB_KEYS \cup s.claim_keys
  /\ \A k \in DOMAIN s.vals : HasSubject(s) /\ s.vals[k] = s.vals["sub"]

\* Row, cookie and process have their fields.
Shapes ==
  /\ row = None \/ row = Some([s |-> row[1].s, expiresAt |-> row[1].expiresAt])
  /\ jar = None \/ jar = Some([key |-> jar[1].key, kind |-> jar[1].kind, until |-> jar[1].until])
  /\ app = None \/ app = Some([config |-> app[1].config, wiring |-> app[1].wiring,
                               limits |-> Limits(app[1].wiring, app[1].config),
                               app_data |-> app[1].app_data])
  /\ story = [at |-> story.at, seen |-> story.seen, life |-> story.life, active |-> story.active]
  /\ story.at \in 0 .. now /\ story.seen \in 0 .. now
  /\ story.life \in Int /\ story.active \in BOOLEAN

\* A session that is signed in was signed in by the last login, when that was.
SignedInThen ==
  row # None =>
    /\ OfOneLogin(row[1].s)
    /\ row[1].s.loginAt \in 0 .. now \cup {Missing}
    /\ HasSubject(row[1].s) => row[1].s.loginAt = story.at

DeploySafe == TypeOK /\ Shapes /\ SignedInThen /\ SessionsWithinLifetime

\* The session of a user who is there in every tick can be used until a tick after
\* that, or to the end of its lifetime.
StaysIn ==
  story.active /\ now < story.at + story.life =>
    /\ app # None /\ Cfg.session_expiry = "Sliding"
    /\ story.life <= Lifetime(app[1])
    /\ now <= story.seen + 1
    /\ jar # None /\ jar[1].key = Cfg.session_key /\ jar[1].kind = Kind
    /\ story.seen + 2 <= jar[1].until
    /\ row # None /\ HasSubject(row[1].s)
    /\ Kind = "row" => Least(story.seen + 2, story.at + story.life) <= row[1].expiresAt

\* Renewals reach the next tick: the TTL is two ticks at least, and longer than
\* the time for which a renewal may go unwritten.
RenewsInTime(running) ==
  /\ 2 <= running.config.post_auth_ttl_secs
  /\ running.wiring # "cookie" =>
       running.limits.touch_coalesce_secs < running.config.post_auth_ttl_secs

InTime ==
  \A release \in Releases : \A key \in ToSet(FreshKeys) :
    BuildError(release.builder) = NoError => RenewsInTime(Running(release, key))

=============================================================================
