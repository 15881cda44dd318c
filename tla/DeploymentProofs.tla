--------------------------- MODULE DeploymentProofs ---------------------------
(***************************************************************************)
(* What an application may rely on over its deployments, for all releases. *)
(***************************************************************************)
EXTENDS Deployment, ConfigProofs

-----------------------------------------------------------------------------
(* The invariant, part by part. *)

\* What is in a session, of the login at instant at, after n logins, at instant t.
SessionFits(s, at, n, t) ==
  /\ OfOneLogin(s)
  /\ s.claim_keys \subseteq DOMAIN s.vals
  /\ \A k \in DOMAIN s.vals : s.vals[k] \in 1 .. n
  /\ s.loginAt \in 0 .. t \cup {Missing}
  /\ HasSubject(s) => s.loginAt = at

RowFits(r, at, n, t) ==
  /\ r = [s |-> r.s, expiresAt |-> r.expiresAt]
  /\ SessionFits(r.s, at, n, t)
  /\ r.expiresAt \in 0 .. MaxNow + MAX_TTL_SECS

RowSafe == row = None \/ \E r : row = Some(r) /\ RowFits(r, story.at, logins, now)

\* A cookie, and a process.
JarFits(j) ==
  /\ j = [key |-> j.key, kind |-> j.kind, until |-> j.until]
  /\ j.kind \in {"row", "cookie"} /\ j.until \in 0 .. MaxNow + MAX_TTL_SECS

AppFits(a) ==
  /\ a = [config |-> a.config, wiring |-> a.wiring, limits |-> Limits(a.wiring, a.config),
          app_data |-> a.app_data]
  /\ a.config \in OidcBffConfig /\ a.wiring \in Wirings /\ a.app_data \in Reaches

JarSafe == jar = None \/ \E j : jar = Some(j) /\ JarFits(j)
AppSafe == app = None \/ \E a : app = Some(a) /\ AppFits(a)

StorySafe ==
  \E at \in 0 .. now, seen \in 0 .. now, life \in Int, active \in BOOLEAN :
    story = [at |-> at, seen |-> seen, life |-> life, active |-> active]

CountersSafe ==
  now \in 0 .. MaxNow /\ starts \in 0 .. Len(FreshKeys) /\ logins \in 0 .. MaxLogins

LEMMA SomeFacts ==
  \A v : Some(v)[1] = v /\ Some(v) # None /\ Len(Some(v)) = 1
BY DEF Some, None

LEMMA NoneFacts == Len(None) = 0
BY DEF None

DeployInv ==
  CountersSafe /\ AppSafe /\ JarSafe /\ RowSafe /\ StorySafe /\ SessionsWithinLifetime

\* The form TLC evaluates follows.
LEMMA PartsAreSafe ==
  ASSUME DeployInv
  PROVE  DeploySafe
<1>1. /\ row = None \/ (row = Some(row[1]) /\ RowFits(row[1], story.at, logins, now))
      /\ Len(row) <= 1
  <2>1. CASE row = None
    BY <2>1, NoneFacts
  <2>2. CASE row # None
    <3>1. PICK r : row = Some(r) /\ RowFits(r, story.at, logins, now)
      BY <2>2 DEF DeployInv, RowSafe
    <3>2. row[1] = r /\ Len(row) = 1
      BY <3>1, SomeFacts
    <3>3. QED
      BY <3>1, <3>2
  <2>3. QED
    BY <2>1, <2>2
<1>2. /\ jar = None \/ (jar = Some(jar[1]) /\ JarFits(jar[1]))
      /\ Len(jar) <= 1
  <2>1. CASE jar = None
    BY <2>1, NoneFacts
  <2>2. CASE jar # None
    BY <2>2, SomeFacts DEF DeployInv, JarSafe
  <2>3. QED
    BY <2>1, <2>2
<1>3. /\ app = None \/ (app = Some(app[1]) /\ AppFits(app[1]))
      /\ Len(app) <= 1
  <2>1. CASE app = None
    BY <2>1, NoneFacts
  <2>2. CASE app # None
    BY <2>2, SomeFacts DEF DeployInv, AppSafe
  <2>3. QED
    BY <2>1, <2>2
<1>4. /\ story = [at |-> story.at, seen |-> story.seen, life |-> story.life, active |-> story.active]
      /\ story.at \in 0 .. now /\ story.seen \in 0 .. now
      /\ story.life \in Int /\ story.active \in BOOLEAN
  BY DEF DeployInv, StorySafe
<1>5. row # None => RowFits(row[1], story.at, logins, now)
  BY <1>1
<1>6. Shapes
  <2>1. row = None \/ row = Some([s |-> row[1].s, expiresAt |-> row[1].expiresAt])
    BY <1>1, Zenon DEF RowFits
  <2>2. jar = None \/ jar = Some([key |-> jar[1].key, kind |-> jar[1].kind, until |-> jar[1].until])
    BY <1>2, Zenon DEF JarFits
  <2>3. app = None \/ app = Some([config |-> app[1].config, wiring |-> app[1].wiring,
                                  limits |-> Limits(app[1].wiring, app[1].config),
                                  app_data |-> app[1].app_data])
    BY <1>3, Zenon DEF AppFits
  <2>4. QED
    BY <1>4, <2>1, <2>2, <2>3, Zenon DEF Shapes
<1>7. SignedInThen
  BY <1>5 DEF SignedInThen, RowFits, SessionFits
<1>8. TypeOK
  <2>1. row # None =>
          /\ row[1].s.claim_keys \subseteq DOMAIN row[1].s.vals
          /\ \A k \in DOMAIN row[1].s.vals : row[1].s.vals[k] \in 1 .. logins
          /\ row[1].expiresAt \in 0 .. MaxNow + MAX_TTL_SECS
    BY <1>5 DEF RowFits, SessionFits
  <2>2. \A option \in {app, row, jar} : Len(option) <= 1
    BY <1>1, <1>2, <1>3
  <2>3. QED
    BY <1>2, <1>3, <2>1, <2>2, Zenon DEF TypeOK, DeployInv, CountersSafe, JarFits, AppFits
<1>9. QED
  BY <1>6, <1>7, <1>8 DEF DeploySafe, DeployInv

-----------------------------------------------------------------------------
(* The parts of a step. *)

LEMMA LimitsTyped ==
  ASSUME NEW c \in OidcBffConfig, NEW wiring \in Wirings
  PROVE  /\ Limits(wiring, c).pre_auth_ttl_secs \in 1 .. MAX_TTL_SECS
         /\ Limits(wiring, c).max_lifetime_secs \in 1 .. MAX_TTL_SECS
         /\ Limits(wiring, c).touch_coalesce_secs \in 0 .. MAX_TTL_SECS
<1>1. /\ c.pre_auth_ttl_secs \in 1 .. MAX_TTL_SECS
      /\ c.max_session_lifetime_secs \in 1 .. MAX_TTL_SECS
  BY DEF OidcBffConfig
<1>2. Limits(wiring, c) \in {NewStore, StoreFromConfig(c), WithTouchCoalesce(StoreFromConfig(c), 0)}
  BY DEF Limits
<1>3. CASE Limits(wiring, c) = NewStore
  BY <1>3, DefaultsAssumption DEF NewStore
<1>4. CASE Limits(wiring, c) = StoreFromConfig(c)
  BY <1>1, <1>4, DefaultsAssumption DEF StoreFromConfig
<1>5. CASE Limits(wiring, c) = WithTouchCoalesce(StoreFromConfig(c), 0)
  BY <1>1, <1>5, DefaultsAssumption DEF WithTouchCoalesce, StoreFromConfig, ClampTouchCoalesce
<1>6. QED
  BY <1>2, <1>3, <1>4, <1>5

\* Whatever was released: what runs is a documented configuration.
LEMMA RunningFits ==
  ASSUME NEW release \in Releases, NEW key \in STRING, BuildError(release.builder) = NoError
  PROVE  AppFits(Running(release, key))
<1>1. IsBuilder(release.builder) /\ release.wiring \in Wirings /\ release.app_data \in Reaches
  BY ReleaseAssumption
<1>2. Built(release.builder, key) \in OidcBffConfig
  BY <1>1, BuildIsDocumented
<1>3. QED
  BY <1>1, <1>2 DEF AppFits, Running

\* What runs, and the session that is there.
LEMMA WhatRuns ==
  ASSUME DeployInv, app # None
  PROVE  /\ app[1].config \in OidcBffConfig /\ app[1].wiring \in Wirings
         /\ app[1].limits = Limits(app[1].wiring, app[1].config)
         /\ Cfg.post_auth_ttl_secs \in 1 .. MAX_TTL_SECS
         /\ Cfg.max_session_lifetime_secs \in 1 .. MAX_TTL_SECS
         /\ app[1].limits.pre_auth_ttl_secs \in 1 .. MAX_TTL_SECS
         /\ app[1].limits.max_lifetime_secs \in 1 .. MAX_TTL_SECS
         /\ app[1].limits.touch_coalesce_secs \in 0 .. MAX_TTL_SECS
<1>1. PICK a : app = Some(a) /\ AppFits(a)
  BY DEF DeployInv, AppSafe
<1>2. app[1] = a
  BY <1>1, SomeFacts
<1>3. /\ app[1].config \in OidcBffConfig /\ app[1].wiring \in Wirings
      /\ app[1].limits = Limits(app[1].wiring, app[1].config)
  <2>1. a.limits = Limits(a.wiring, a.config)
    BY <1>1 DEF AppFits
  <2>2. QED
    BY <1>1, <1>2, <2>1 DEF AppFits
<1>4. /\ app[1].config.post_auth_ttl_secs \in 1 .. MAX_TTL_SECS
      /\ app[1].config.max_session_lifetime_secs \in 1 .. MAX_TTL_SECS
  BY <1>3 DEF OidcBffConfig
<1>5. QED
  BY <1>3, <1>4, LimitsTyped DEF Cfg

LEMMA WhatIsThere ==
  ASSUME DeployInv, row # None
  PROVE  row = Some(row[1]) /\ RowFits(row[1], story.at, logins, now)
BY SomeFacts DEF DeployInv, RowSafe

\* An expiry is none, or within a TTL from now.
LEMMA ExpiryFacts ==
  ASSUME DeployInv, app # None,
         NEW s, NEW n \in Nat, NEW at, SessionFits(s, at, n, now),
         NEW e, e = Expiry!EffectiveExpiry(AsState(s), now)
  PROVE  e = Dead \/ e \in 0 .. MaxNow + MAX_TTL_SECS
<1>1. now \in 0 .. MaxNow /\ MAX_TTL_SECS \in Nat /\ MaxNow \in Nat
  BY DefaultsAssumption, ReleaseAssumption DEF DeployInv, CountersSafe
<1>2. s.loginAt \in Int \/ s.loginAt = Missing
  BY <1>1 DEF SessionFits
<1>3. AsState(s).loginAt = s.loginAt
  BY DEF AsState
<1>4. Expiry!HardCapExpiry(AsState(s), now) = Dead \/
        /\ Expiry!HardCapExpiry(AsState(s), now) \in Int
        /\ Expiry!HardCapExpiry(AsState(s), now) > now
  <2>1. app[1].limits.max_lifetime_secs \in Nat
    BY WhatRuns
  <2>2. QED
    BY <1>1, <1>2, <1>3, <2>1, ReleaseAssumption DEF Expiry!HardCapExpiry
<1>5. \/ e = Dead
      \/ e = now + Expiry!AtMost(Cfg.post_auth_ttl_secs, app[1].limits.pre_auth_ttl_secs)
      \/ /\ Expiry!HardCapExpiry(AsState(s), now) # Dead
         /\ e = Expiry!AtMost(now + Cfg.post_auth_ttl_secs, Expiry!HardCapExpiry(AsState(s), now))
  BY DEF Expiry!EffectiveExpiry
<1>6. QED
  BY <1>1, <1>4, <1>5, WhatRuns DEF Expiry!AtMost

LEMMA LoadedIs ==
  ASSUME DeployInv
  PROVE  Loaded = None \/ (/\ Loaded = Some(row[1].s) /\ Loaded[1] = row[1].s
                           /\ Presented /\ Accepts
                           /\ row # None /\ RowFits(row[1], story.at, logins, now))
BY WhatIsThere, SomeFacts DEF Loaded, Presented

\* The session a login or a callback starts from.
LEMMA StartsFrom ==
  ASSUME DeployInv
  PROVE  SessionFits(SessionOrEmpty, story.at, logins, now)
<1>1. CASE Loaded = None
  <2>1. SessionOrEmpty = EmptySession
    BY <1>1 DEF SessionOrEmpty, OrElse
  <2>2. DOMAIN EmptySession.vals = {}
    BY EmptySeq DEF EmptySession
  <2>3. /\ EmptySession.claim_keys = {} /\ EmptySession.loginAt = Missing
        /\ EmptySession = [vals |-> EmptySession.vals, claim_keys |-> EmptySession.claim_keys,
                           loginAt |-> EmptySession.loginAt, started |-> EmptySession.started]
    BY DEF EmptySession
  <2>4. OfOneLogin(EmptySession)
    BY <2>2, <2>3, Zenon DEF OfOneLogin
  <2>5. QED
    BY <2>1, <2>2, <2>3, <2>4 DEF SessionFits, HasSubject
<1>2. CASE Loaded # None
  BY <1>2, LoadedIs DEF SessionOrEmpty, OrElse, RowFits
<1>3. QED
  BY <1>1, <1>2

LEMMA CookieFits ==
  ASSUME DeployInv, app # None, SetsCookie
  PROVE  \E j : jar' = Some(j) /\ JarFits(j)
<1> DEFINE j == [key |-> Cfg.session_key, kind |-> Kind, until |-> now + Cfg.post_auth_ttl_secs]
<1>1. jar' = Some(j)
  BY DEF SetsCookie
<1>2. Kind \in {"row", "cookie"}
  BY DEF Kind
<1>3. now + Cfg.post_auth_ttl_secs \in 0 .. MaxNow + MAX_TTL_SECS
  BY WhatRuns, DefaultsAssumption, ReleaseAssumption DEF DeployInv, CountersSafe
<1>4. JarFits(j)
  BY <1>2, <1>3 DEF JarFits
<1>5. QED
  BY <1>1, <1>4

\* A written session is the row, or dead; the cookie is set again.
LEMMA WriteMoves ==
  ASSUME DeployInv, app # None,
         NEW s, NEW n \in Nat, NEW at, SessionFits(s, at, n, now), Write(s)
  PROVE  /\ row' = None \/ \E r : row' = Some(r) /\ RowFits(r, at, n, now)
         /\ \E j : jar' = Some(j) /\ JarFits(j)
<1>1. PICK e : e = Expiry!EffectiveExpiry(AsState(s), now)
  OBVIOUS
<1>2. e = Dead \/ e \in 0 .. MaxNow + MAX_TTL_SECS
  BY <1>1, ExpiryFacts
<1>3. \/ row' = None
      \/ row' = Some([s |-> s, expiresAt |-> 0])
      \/ e # Dead /\ row' = Some([s |-> s, expiresAt |-> e])
  BY <1>1 DEF Write
<1>4. ASSUME NEW x \in 0 .. MaxNow + MAX_TTL_SECS
      PROVE  RowFits([s |-> s, expiresAt |-> x], at, n, now)
  <2>1. [s |-> s, expiresAt |-> x].s = s /\ [s |-> s, expiresAt |-> x].expiresAt = x
    OBVIOUS
  <2>2. QED
    BY <2>1, Zenon DEF RowFits
<1>5. 0 \in 0 .. MaxNow + MAX_TTL_SECS
  BY DefaultsAssumption, ReleaseAssumption
<1>6. row' = None \/ \E r : row' = Some(r) /\ RowFits(r, at, n, now)
  BY <1>2, <1>3, <1>4, <1>5, Zenon
<1>7. \E j : jar' = Some(j) /\ JarFits(j)
  <2>1. SetsCookie
    BY DEF Write
  <2>2. QED
    BY <2>1, CookieFits
<1>8. QED
  BY <1>6, <1>7

\* An unchanged session stays, is renewed, or is dead.
LEMMA KeepMoves ==
  ASSUME DeployInv, app # None, row # None, Keep(row[1].s)
  PROVE  /\ row' = None \/ \E r : row' = Some(r) /\ RowFits(r, story.at, logins, now)
         /\ jar' = jar \/ \E j : jar' = Some(j) /\ JarFits(j)
<1>1. row = Some(row[1]) /\ RowFits(row[1], story.at, logins, now)
  BY WhatIsThere
<1>2. PICK e : e = Expiry!EffectiveExpiry(AsState(row[1].s), now)
  OBVIOUS
<1>3. e = Dead \/ e \in 0 .. MaxNow + MAX_TTL_SECS
  <2>1. SessionFits(row[1].s, story.at, logins, now) /\ logins \in Nat
    BY <1>1 DEF RowFits, DeployInv, CountersSafe
  <2>2. QED
    BY <1>2, <2>1, ExpiryFacts
<1>4. \/ row' = row /\ jar' = jar
      \/ row' = Renewal(row[1].s) /\ SetsCookie
  BY DEF Keep
<1>5. \/ row' = row \/ row' = None
      \/ e # Dead /\ row' = Some([row[1] EXCEPT !.expiresAt = e])
  BY <1>2, <1>4, Zenon DEF Renewal
<1>6. ASSUME NEW x \in 0 .. MaxNow + MAX_TTL_SECS
      PROVE  RowFits([row[1] EXCEPT !.expiresAt = x], story.at, logins, now)
  <2>1. [row[1] EXCEPT !.expiresAt = x] = [s |-> row[1].s, expiresAt |-> x]
    BY <1>1 DEF RowFits
  <2>2. [s |-> row[1].s, expiresAt |-> x].s = row[1].s /\ [s |-> row[1].s, expiresAt |-> x].expiresAt = x
    OBVIOUS
  <2>3. QED
    BY <1>1, <2>1, <2>2, Zenon DEF RowFits
<1>7. row' = None \/ \E r : row' = Some(r) /\ RowFits(r, story.at, logins, now)
  BY <1>1, <1>3, <1>5, <1>6, Zenon
<1>8. jar' = jar \/ \E j : jar' = Some(j) /\ JarFits(j)
  BY <1>4, CookieFits
<1>9. QED
  BY <1>7, <1>8

\* A login under way changes nothing of the identity.
LEMMA StartedFits ==
  ASSUME NEW s, NEW at, NEW n, NEW t, SessionFits(s, at, n, t), NEW x
  PROVE  SessionFits([s EXCEPT !.started = x], at, n, t)
<1> DEFINE u == [s EXCEPT !.started = x]
<1>1. s = [vals |-> s.vals, claim_keys |-> s.claim_keys, loginAt |-> s.loginAt, started |-> s.started]
  BY DEF SessionFits, OfOneLogin
<1>2. u = [vals |-> s.vals, claim_keys |-> s.claim_keys, loginAt |-> s.loginAt, started |-> x]
  BY <1>1
<1>3. u.vals = s.vals /\ u.claim_keys = s.claim_keys /\ u.loginAt = s.loginAt /\ u.started = x
  BY <1>2
<1> HIDE DEF u
<1>4. OfOneLogin(u)
  BY <1>2, <1>3 DEF SessionFits, OfOneLogin, HasSubject
<1>5. SessionFits(u, at, n, t)
  BY <1>3, <1>4 DEF SessionFits, HasSubject
<1>6. QED
  BY <1>5 DEF u

\* What fits goes on to fit while time passes.
LEMMA FitsLater ==
  ASSUME NEW s, NEW at, NEW n, NEW t \in Int, SessionFits(s, at, n, t), NEW later \in Int, t <= later
  PROVE  SessionFits(s, at, n, later)
BY DEF SessionFits

\* After a callback all entries are of its login: what it leaves of the earlier
\* entries are those it writes itself.
LEMMA AfterLoginFits ==
  ASSUME DeployInv, NEW s, OfOneLogin(s), NEW n \in Nat \ {0}, NEW grant
  PROVE  SessionFits(AfterLogin(s, n, grant), now, n, now)
<1> DEFINE r == AfterLogin(s, n, grant)
           kept == DOMAIN s.vals \ (POST_AUTH_SCRUB_KEYS \cup s.claim_keys)
<1>1. kept \subseteq {"sub", "iss"}
  BY DEF OfOneLogin
<1>2. {"sub", "iss"} \subseteq Written(grant) /\ Claims(grant) \subseteq Written(grant)
  BY DEF Written
<1>3. Written(grant) \subseteq {"sub", "iss"} \cup POST_AUTH_SCRUB_KEYS \cup Claims(grant)
  BY DEF Written, POST_AUTH_SCRUB_KEYS
<1>4. r = [vals |-> [k \in kept \cup Written(grant) |-> IF k \in Written(grant) THEN n ELSE s.vals[k]],
           claim_keys |-> Claims(grant), loginAt |-> now, started |-> None]
  BY DEF AfterLogin
<1> HIDE DEF kept
<1>5. /\ r.vals = [k \in kept \cup Written(grant) |-> IF k \in Written(grant) THEN n ELSE s.vals[k]]
      /\ r.claim_keys = Claims(grant) /\ r.loginAt = now /\ r.started = None
  BY <1>4
<1> HIDE DEF r
<1>6. DOMAIN r.vals = Written(grant) /\ \A k \in Written(grant) : r.vals[k] = n
  BY <1>1, <1>2, <1>5
<1>7. OfOneLogin(r)
  <2>1. r = [vals |-> r.vals, claim_keys |-> r.claim_keys, loginAt |-> r.loginAt, started |-> r.started]
    BY <1>4, <1>5
  <2>2. "sub" \in DOMAIN r.vals
    BY <1>2, <1>6
  <2>3. QED
    BY <1>3, <1>5, <1>6, <2>1, <2>2 DEF OfOneLogin, HasSubject
<1>8. now \in 0 .. now
  BY ReleaseAssumption DEF DeployInv, CountersSafe
<1>9. SessionFits(r, now, n, now)
  BY <1>2, <1>5, <1>6, <1>7, <1>8 DEF SessionFits
<1>10. QED
  BY <1>9 DEF r

-----------------------------------------------------------------------------
(* The invariant and the actions. *)

LEMMA InitSafe == Init => DeployInv
<1> SUFFICES ASSUME Init PROVE DeployInv
  OBVIOUS
<1>1. CountersSafe
  <2>1. Len(FreshKeys) \in Nat
    BY ReleaseAssumption, LenProperties
  <2>2. QED
    BY <2>1, ReleaseAssumption DEF Init, CountersSafe
<1>2. StorySafe
  <2>1. /\ story = [at |-> 0, seen |-> 0, life |-> 0, active |-> FALSE]
        /\ 0 \in 0 .. now /\ 0 \in Int /\ FALSE \in BOOLEAN
    BY DEF Init, NoStory
  <2>2. QED
    BY <2>1, Zenon DEF StorySafe
<1>3. SessionsWithinLifetime
  BY DEF Init, SessionsWithinLifetime, NoAnswer
<1>4. AppSafe /\ JarSafe /\ RowSafe
  BY DEF Init, AppSafe, JarSafe, RowSafe
<1>5. QED
  BY <1>1, <1>2, <1>3, <1>4 DEF DeployInv

\* Only an admitted visit is subject to the lifetime.
LEMMA OtherAnswers ==
  ASSUME NEW to, NEW status, to \notin Visits \/ status # 200, Answers(to, status)
  PROVE  SessionsWithinLifetime'
BY DEF Answers, SessionsWithinLifetime

LEMMA LifetimeTyped ==
  ASSUME NEW a, AppFits(a)
  PROVE  Lifetime(a) \in Int
<1>1. /\ a.config \in OidcBffConfig /\ a.wiring \in Wirings
      /\ a.limits = Limits(a.wiring, a.config)
  <2>1. a = [config |-> a.config, wiring |-> a.wiring, limits |-> Limits(a.wiring, a.config),
             app_data |-> a.app_data]
    BY DEF AppFits
  <2>2. QED
    BY <2>1 DEF AppFits
<1>2. /\ a.limits.max_lifetime_secs \in Int /\ a.limits.touch_coalesce_secs \in Int
      /\ a.config.max_session_lifetime_secs \in Int
  <2>1. a.config.max_session_lifetime_secs \in 1 .. MAX_TTL_SECS
    BY <1>1 DEF OidcBffConfig
  <2>2. /\ Limits(a.wiring, a.config).max_lifetime_secs \in Int
        /\ Limits(a.wiring, a.config).touch_coalesce_secs \in Int
    BY <1>1, LimitsTyped
  <2>3. QED
    BY <1>1, <2>1, <2>2
<1>3. QED
  BY <1>2 DEF Lifetime, Least

LEMMA DeployKeeps ==
  ASSUME DeployInv, NEW release \in Releases, Deploy(release)
  PROVE  DeployInv'
<1>1. FreshKeys \in Seq(STRING) /\ starts < Len(FreshKeys) /\ BuildError(release.builder) = NoError
  BY ReleaseAssumption DEF Deploy
<1>2. Len(FreshKeys) \in Nat /\ starts \in 0 .. Len(FreshKeys)
  BY <1>1, LenProperties DEF DeployInv, CountersSafe
<1>3. FreshKeys[starts + 1] \in STRING
  <2>1. starts + 1 \in 1 .. Len(FreshKeys)
    BY <1>1, <1>2
  <2>2. QED
    BY <1>1, <2>1, ElementOfSeq
<1> DEFINE next == Running(release, FreshKeys[starts + 1])
<1>4. AppFits(next) /\ app' = Some(next)
  BY <1>1, <1>3, RunningFits DEF Deploy
<1>5. story' = [story EXCEPT !.active = @ /\ GoesOn(next), !.life = Least(@, Lifetime(next))]
  BY DEF Deploy
<1> HIDE DEF next
<1>6. Lifetime(next) \in Int
  BY <1>4, LifetimeTyped
<1>7. StorySafe'
  <2>1. PICK at \in 0 .. now, seen \in 0 .. now, life \in Int, active \in BOOLEAN :
          story = [at |-> at, seen |-> seen, life |-> life, active |-> active]
    BY DEF DeployInv, StorySafe
  <2>2. PICK goesOn : goesOn = (active /\ GoesOn(next)) /\ goesOn \in BOOLEAN
    BY Zenon
  <2>3. PICK least : least = Least(life, Lifetime(next)) /\ least \in Int
    BY <1>6 DEF Least
  <2>4. story' = [at |-> at, seen |-> seen, life |-> least, active |-> goesOn]
    BY <1>5, <2>1, <2>2, <2>3
  <2>5. now' = now
    BY DEF Deploy
  <2>6. QED
    BY <2>2, <2>3, <2>4, <2>5, Zenon DEF StorySafe
<1>8. CountersSafe'
  BY <1>1, <1>2 DEF DeployInv, CountersSafe, Deploy
<1>9. JarSafe'
  BY DEF DeployInv, JarSafe, Deploy
<1>10. RowSafe'
  <2>1. story'.at = story.at
    BY <1>5 DEF DeployInv, StorySafe
  <2>2. row' = row /\ logins' = logins /\ now' = now
    BY DEF Deploy
  <2>3. QED
    BY <2>1, <2>2 DEF DeployInv, RowSafe
<1>11. SessionsWithinLifetime'
  BY DEF Deploy, SessionsWithinLifetime, NoAnswer
<1>12. AppSafe'
  BY <1>4 DEF AppSafe
<1>13. QED
  BY <1>7, <1>8, <1>9, <1>10, <1>11, <1>12 DEF DeployInv

LEMMA TickKeeps ==
  ASSUME DeployInv, Tick
  PROVE  DeployInv'
<1>1. now \in 0 .. MaxNow /\ MaxNow \in Nat /\ now < MaxNow /\ now' = now + 1
  BY ReleaseAssumption DEF DeployInv, CountersSafe, Tick
<1>2. CountersSafe' /\ AppSafe' /\ JarSafe'
  BY <1>1 DEF DeployInv, CountersSafe, AppSafe, JarSafe, Tick
<1>3. StorySafe' /\ story'.at = story.at
  <2>1. PICK at \in 0 .. now, seen \in 0 .. now, life \in Int, active \in BOOLEAN :
          story = [at |-> at, seen |-> seen, life |-> life, active |-> active]
    BY DEF DeployInv, StorySafe
  <2>2. PICK still : still = (active /\ story.seen = now) /\ still \in BOOLEAN
    BY Zenon
  <2>3. story' = [at |-> at, seen |-> seen, life |-> life, active |-> still]
    BY <2>1, <2>2 DEF Tick
  <2>4. at \in 0 .. now' /\ seen \in 0 .. now'
    BY <1>1
  <2>5. StorySafe'
    BY <2>2, <2>3, <2>4, Zenon DEF StorySafe
  <2>6. QED
    BY <2>1, <2>3, <2>5
<1>4. RowSafe'
  <2>1. row' = row /\ logins' = logins
    BY DEF Tick
  <2>2. CASE row = None
    BY <2>1, <2>2 DEF RowSafe
  <2>3. CASE row # None
    <3>1. PICK r : row = Some(r) /\ RowFits(r, story.at, logins, now)
      BY <2>3 DEF DeployInv, RowSafe
    <3>2. RowFits(r, story.at, logins, now')
      BY <1>1, <3>1, FitsLater DEF RowFits
    <3>3. QED
      BY <1>3, <2>1, <3>1, <3>2 DEF RowSafe
  <2>4. QED
    BY <2>2, <2>3
<1>5. SessionsWithinLifetime'
  BY DEF Tick, SessionsWithinLifetime, NoAnswer
<1>6. QED
  BY <1>2, <1>3, <1>4, <1>5 DEF DeployInv

\* A step that leaves the counters, the process and the story alone and moves row
\* and cookie as a store does.
LEMMA StoreMoves ==
  ASSUME DeployInv, UNCHANGED <<now, starts, app, logins>>, StorySafe', story'.at = story.at,
         row' = row \/ row' = None \/ \E r : row' = Some(r) /\ RowFits(r, story.at, logins, now),
         jar' = jar \/ jar' = None \/ \E j : jar' = Some(j) /\ JarFits(j),
         SessionsWithinLifetime'
  PROVE  DeployInv'
<1>1. CountersSafe' /\ AppSafe'
  BY DEF DeployInv, CountersSafe, AppSafe
<1>2. JarSafe'
  BY DEF DeployInv, JarSafe
<1>3. RowSafe'
  BY DEF DeployInv, RowSafe
<1>4. QED
  BY <1>1, <1>2, <1>3 DEF DeployInv

LEMMA StoryStays ==
  ASSUME DeployInv, UNCHANGED <<now, story>>
  PROVE  StorySafe' /\ story'.at = story.at
BY DEF DeployInv, StorySafe

\* load hands out nobody past the lifetime of the store.
LEMMA AcceptedWithinStore ==
  ASSUME DeployInv, app # None, RowFits(row[1], story.at, logins, now),
         HasSubject(row[1].s), Accepts, Kind = "row"
  PROVE  now < story.at + app[1].limits.max_lifetime_secs
<1>1. row[1].s.loginAt = story.at /\ row[1].s.vals["sub"] # 0
  BY DEF RowFits, SessionFits, HasSubject, DeployInv, CountersSafe
<1>2. AsState(row[1].s).loginAt = story.at /\ Expiry!HasSub(AsState(row[1].s))
  BY <1>1 DEF AsState, Expiry!HasSub
<1>3. Expiry!HardCapExpiry(AsState(row[1].s), now) # Dead
  BY <1>2 DEF Accepts, Expiry!LoadAccepts
<1>4. ~(story.at + app[1].limits.max_lifetime_secs <= now)
  BY <1>2, <1>3 DEF Expiry!HardCapExpiry
<1>5. story.at \in Int /\ now \in Int
  BY DEF DeployInv, StorySafe, CountersSafe
<1>6. app[1].limits.max_lifetime_secs \in Int
  BY WhatRuns
<1>7. QED
  BY <1>4, <1>5, <1>6

LEMMA VisitKeeps ==
  ASSUME DeployInv, NEW to, Visit(to)
  PROVE  DeployInv'
<1> DEFINE rowMoves == row' = row \/ row' = None \/ \E r : row' = Some(r) /\ RowFits(r, story.at, logins, now)
           jarMoves == jar' = jar \/ jar' = None \/ \E j : jar' = Some(j) /\ JarFits(j)
<1>1. app # None /\ UNCHANGED <<now, starts, app, logins>>
  BY DEF Visit
<1>2. ASSUME Loaded # None, Keep(Loaded[1])
      PROVE  rowMoves /\ jarMoves
  BY <1>1, <1>2, LoadedIs, KeepMoves, Zenon
<1>3. ASSUME Answers(to, 401), rowMoves, jarMoves, UNCHANGED story
      PROVE  DeployInv'
  <2>1. StorySafe' /\ story'.at = story.at
    BY <1>1, <1>3, StoryStays
  <2>2. SessionsWithinLifetime'
    BY <1>3, OtherAnswers
  <2>3. QED
    BY <1>1, <1>3, <2>1, <2>2, StoreMoves
<1>4. CASE Loaded = None
  BY <1>3, <1>4 DEF Visit, Forget
<1>5. CASE Loaded # None /\ ~HasSubject(Loaded[1])
  BY <1>2, <1>3, <1>5 DEF Visit
<1>6. CASE Loaded # None /\ HasSubject(Loaded[1]) /\ LifetimeOver(to, Loaded[1])
  BY <1>3, <1>6 DEF Visit, Purge
<1>7. CASE Loaded # None /\ HasSubject(Loaded[1]) /\ ~LifetimeOver(to, Loaded[1])
  <2>1. Answers(to, 200) /\ Keep(Loaded[1]) /\ story' = [story EXCEPT !.seen = now]
    BY <1>7 DEF Visit
  <2>2. StorySafe' /\ story'.at = story.at
    <3>1. PICK at \in 0 .. now, seen \in 0 .. now, life \in Int, active \in BOOLEAN :
            story = [at |-> at, seen |-> seen, life |-> life, active |-> active]
      BY DEF DeployInv, StorySafe
    <3>2. story' = [at |-> at, seen |-> now, life |-> life, active |-> active]
      BY <2>1, <3>1
    <3>3. now' = now /\ now \in 0 .. now
      BY <1>1, ReleaseAssumption DEF DeployInv, CountersSafe
    <3>4. StorySafe'
      BY <3>2, <3>3, Zenon DEF StorySafe
    <3>5. QED
      BY <3>1, <3>2, <3>4
  <2>3. SessionsWithinLifetime'
    <3>1. /\ Loaded[1] = row[1].s /\ RowFits(row[1], story.at, logins, now)
          /\ HasSubject(row[1].s) /\ Accepts
      BY <1>7, LoadedIs
    <3>2. Loaded[1].loginAt = story.at
      BY <3>1 DEF RowFits, SessionFits
    <3>3. story.at \in Int /\ now \in Int
      BY DEF DeployInv, StorySafe, CountersSafe
    <3>4. to = "visit" => now < story.at + Cfg.max_session_lifetime_secs
      <4>1. Cfg.max_session_lifetime_secs \in Int
        BY <1>1, WhatRuns
      <4>2. to = "visit" => ~(Cfg.max_session_lifetime_secs + story.at <= now)
        BY <1>7, <3>2 DEF LifetimeOver
      <4>3. QED
        BY <3>3, <4>1, <4>2
    <3>5. Kind = "row" => now < story.at + app[1].limits.max_lifetime_secs
      BY <1>1, <3>1, AcceptedWithinStore
    <3>6. Cfg' = Cfg /\ Kind' = Kind /\ app' = app /\ now' = now /\ story'.at = story.at
      BY <1>1, <2>2 DEF Cfg, Kind
    <3>7. answer'.to = to
      BY <2>1 DEF Answers
    <3>8. QED
      BY <3>4, <3>5, <3>6, <3>7 DEF SessionsWithinLifetime
  <2>4. QED
    BY <1>1, <1>2, <1>7, <2>1, <2>2, <2>3, StoreMoves
<1>8. QED
  BY <1>4, <1>5, <1>6, <1>7

LEMMA UnservedKeeps ==
  ASSUME DeployInv, Unserved
  PROVE  DeployInv'
<1>1. app # None /\ UNCHANGED <<now, starts, app, logins, story>> /\ Answers("unserved", 500)
  BY DEF Unserved
<1>2. SessionsWithinLifetime'
  BY <1>1, OtherAnswers
<1>3. StorySafe' /\ story'.at = story.at
  BY <1>1, StoryStays
<1>4. CASE Loaded = None
  BY <1>1, <1>2, <1>3, <1>4, StoreMoves DEF Unserved, Forget
<1>5. CASE Loaded # None
  <2>1. row # None /\ Keep(row[1].s)
    BY <1>5, LoadedIs DEF Unserved
  <2>2. /\ row' = None \/ \E r : row' = Some(r) /\ RowFits(r, story.at, logins, now)
        /\ jar' = jar \/ \E j : jar' = Some(j) /\ JarFits(j)
    BY <1>1, <2>1, KeepMoves
  <2>3. QED
    BY <1>1, <1>2, <1>3, <2>2, StoreMoves
<1>6. QED
  BY <1>4, <1>5

\* Login, and a callback without a slot.
LEMMA StartedKeeps ==
  ASSUME DeployInv, app # None, UNCHANGED <<now, starts, app, logins, story>>,
         NEW x, Write([SessionOrEmpty EXCEPT !.started = x]), SessionsWithinLifetime'
  PROVE  DeployInv'
<1>1. PICK s : s = [SessionOrEmpty EXCEPT !.started = x]
  OBVIOUS
<1>2. SessionFits(s, story.at, logins, now)
  BY <1>1, StartsFrom, StartedFits
<1>3. logins \in Nat
  BY DEF DeployInv, CountersSafe
<1>4. /\ row' = None \/ \E r : row' = Some(r) /\ RowFits(r, story.at, logins, now)
      /\ \E j : jar' = Some(j) /\ JarFits(j)
  BY <1>1, <1>2, <1>3, WriteMoves
<1>5. StorySafe' /\ story'.at = story.at
  BY StoryStays
<1>6. QED
  BY <1>4, <1>5, StoreMoves

LEMMA CallbackKeeps ==
  ASSUME DeployInv, NEW grant \in Grants, Callback(grant)
  PROVE  DeployInv'
<1>1. /\ app # None /\ logins < MaxLogins /\ logins' = logins + 1
      /\ now' = now /\ starts' = starts /\ app' = app
  BY DEF Callback, Serves
<1>2. /\ logins \in 0 .. MaxLogins /\ MaxLogins \in Nat /\ now \in 0 .. now
      /\ now \in 0 .. MaxNow
  BY ReleaseAssumption DEF DeployInv, CountersSafe
<1>3. CountersSafe' /\ AppSafe'
  BY <1>1, <1>2 DEF DeployInv, CountersSafe, AppSafe
<1>4. PICK s : s = AfterLogin(SessionOrEmpty, logins + 1, grant)
  OBVIOUS
<1>5. SessionFits(s, now, logins + 1, now)
  BY <1>2, <1>4, StartsFrom, AfterLoginFits DEF SessionFits
<1>6. Write(s)
  BY <1>4 DEF Callback
<1>7. /\ row' = None \/ \E r : row' = Some(r) /\ RowFits(r, now, logins + 1, now)
      /\ \E j : jar' = Some(j) /\ JarFits(j)
  <2>1. logins + 1 \in Nat
    BY <1>2
  <2>2. QED
    BY <1>1, <1>5, <1>6, <2>1, WriteMoves
<1>8. story' = [at |-> now, seen |-> now, life |-> Lifetime(app[1]),
                active |-> Cfg.session_expiry = "Sliding"]
  BY DEF Callback
<1>9. StorySafe' /\ story'.at = now
  <2>1. Lifetime(app[1]) \in Int
    BY <1>1, WhatRuns DEF Lifetime, Least, Cfg
  <2>2. (Cfg.session_expiry = "Sliding") \in BOOLEAN
    OBVIOUS
  <2>3. StorySafe'
    BY <1>1, <1>2, <1>8, <2>1, <2>2, Zenon DEF StorySafe
  <2>4. QED
    BY <1>8, <2>3
<1>10. RowSafe' /\ JarSafe'
  BY <1>1, <1>7, <1>9, Zenon DEF RowSafe, JarSafe
<1>11. SessionsWithinLifetime'
  BY OtherAnswers DEF Callback, Visits
<1>12. QED
  BY <1>3, <1>9, <1>10, <1>11 DEF DeployInv

LEMMA NextSafe == DeployInv /\ [Next]_vars => DeployInv'
<1> SUFFICES ASSUME DeployInv, [Next]_vars
             PROVE  DeployInv'
  OBVIOUS
<1>1. ASSUME NEW release \in Releases, Deploy(release)
      PROVE  DeployInv'
  BY <1>1, DeployKeeps
<1>2. CASE Tick
  BY <1>2, TickKeeps
<1>3. ASSUME NEW to \in Visits, Visit(to)
      PROVE  DeployInv'
  BY <1>3, VisitKeeps
<1>4. CASE Login
  <2>1. SessionsWithinLifetime'
    BY <1>4, OtherAnswers DEF Login, Visits
  <2>2. QED
    BY <1>4, <2>1, StartedKeeps DEF Login, Serves
<1>5. CASE CallbackRefused
  <2>1. SessionsWithinLifetime'
    BY <1>5, OtherAnswers DEF CallbackRefused, Visits
  <2>2. QED
    BY <1>5, <2>1, StartedKeeps DEF CallbackRefused, Serves
<1>6. ASSUME NEW grant \in Grants, Callback(grant)
      PROVE  DeployInv'
  BY <1>6, CallbackKeeps
<1>7. CASE UNCHANGED vars
  BY <1>7 DEF vars, DeployInv, CountersSafe, AppSafe, JarSafe, RowSafe, StorySafe,
              SessionsWithinLifetime, Cfg, Kind
<1>8. CASE Unserved
  BY <1>8, UnservedKeeps
<1>9. QED
  BY <1>1, <1>2, <1>3, <1>4, <1>5, <1>6, <1>7, <1>8 DEF Next

LEMMA AlwaysDeployInv == Spec => []DeployInv
<1>1. QED
  BY InitSafe, NextSafe, PTL DEF Spec

\* The types of this module, for all releases and any number of them.
THEOREM DeploymentTyped == Spec => []TypeOK
<1>1. DeployInv => TypeOK
  BY PartsAreSafe DEF DeploySafe
<1>2. QED
  BY <1>1, AlwaysDeployInv, PTL

\* Whatever the releases in between persist, all that is kept about a user was
\* taken from one login (steps (11) to (14) in callback.rs).
THEOREM DeploymentIdentity == Spec => []IdentityOfThisLogin
<1>1. DeployInv => IdentityOfThisLogin
  BY PartsAreSafe DEF DeploySafe, SignedInThen, OfOneLogin, IdentityOfThisLogin
<1>2. QED
  BY <1>1, AlwaysDeployInv, PTL

\* Where Auth has the configuration in reach, nobody is admitted past the lifetime
\* configured now, whatever the stores wired and the lifetimes configured before
\* (extractor.rs).  Where it has not, nobody is past the lifetime of a
\* DbSessionStore (load in store.rs); of CookieSessionStore nothing is claimed.
THEOREM DeploymentWithinLifetime == Spec => []SessionsWithinLifetime
<1>1. DeployInv => SessionsWithinLifetime
  BY DEF DeployInv
<1>2. QED
  BY <1>1, AlwaysDeployInv, PTL

-----------------------------------------------------------------------------
(* Who is always there stays in. *)

StayInv ==
  /\ DeployInv
  /\ app # None => RenewsInTime(app[1])
  /\ StaysIn /\ ActiveUserStays

Promised == story.active /\ now < story.at + story.life

\* The numbers in the story.
LEMMA StoryTyped ==
  ASSUME DeployInv
  PROVE  /\ now \in Nat /\ story.at \in 0 .. now /\ story.seen \in 0 .. now
         /\ story.life \in Int /\ story.active \in BOOLEAN
<1>1. now \in Nat
  BY ReleaseAssumption DEF DeployInv, CountersSafe
<1>2. /\ story.at \in 0 .. now /\ story.seen \in 0 .. now
      /\ story.life \in Int /\ story.active \in BOOLEAN
  BY DEF DeployInv, StorySafe
<1>3. QED
  BY <1>1, <1>2

\* A lifetime is within the configured one, and in a row within the store's, with
\* room for a renewal that is not written.
LEMMA LifetimeIs ==
  ASSUME DeployInv, app # None
  PROVE  /\ Lifetime(app[1]) \in Int
         /\ Lifetime(app[1]) <= Cfg.max_session_lifetime_secs
         /\ Kind = "row" =>
              /\ Lifetime(app[1]) <= app[1].limits.max_lifetime_secs
              /\ app[1].limits.touch_coalesce_secs # 0 =>
                   Lifetime(app[1]) <= app[1].limits.max_lifetime_secs
                                         - (app[1].limits.touch_coalesce_secs - 1)
<1>1. /\ Cfg.max_session_lifetime_secs \in Int
      /\ app[1].limits.max_lifetime_secs \in Int /\ app[1].limits.touch_coalesce_secs \in Nat
  BY WhatRuns
<1>2. QED
  BY <1>1 DEF Lifetime, Least, Kind, Cfg

\* The expiry of a session that is signed in and not over.
LEMMA ExpiryOfSignedIn ==
  ASSUME DeployInv, app # None,
         NEW s, HasSubject(s), s.vals["sub"] \in Nat \ {0},
         s.loginAt \in 0 .. now, now < s.loginAt + app[1].limits.max_lifetime_secs
  PROVE  /\ Expiry!HardCapExpiry(AsState(s), now) = s.loginAt + app[1].limits.max_lifetime_secs
         /\ Expiry!HardCapExpiry(AsState(s), now) # Dead
         /\ Expiry!EffectiveExpiry(AsState(s), now)
              = Expiry!AtMost(now + Cfg.post_auth_ttl_secs,
                              s.loginAt + app[1].limits.max_lifetime_secs)
         /\ Expiry!EffectiveExpiry(AsState(s), now) # Dead
<1>1. now \in Nat
  BY StoryTyped
<1>2. AsState(s).loginAt = s.loginAt /\ AsState(s).sub = s.vals["sub"]
  BY DEF AsState
<1>3. s.loginAt # Missing /\ s.loginAt # Garbled
  BY <1>1, ReleaseAssumption
<1>4. app[1].limits.max_lifetime_secs \in Nat /\ Cfg.post_auth_ttl_secs \in Nat
  BY WhatRuns
<1>5. Expiry!HardCapExpiry(AsState(s), now) = s.loginAt + app[1].limits.max_lifetime_secs
  BY <1>1, <1>2, <1>3, <1>4 DEF Expiry!HardCapExpiry
<1>6. Expiry!HardCapExpiry(AsState(s), now) # Dead
  BY <1>1, <1>4, <1>5, ReleaseAssumption
<1>7. Expiry!HasSub(AsState(s))
  BY <1>2 DEF Expiry!HasSub
<1>8. Expiry!EffectiveExpiry(AsState(s), now)
        = Expiry!AtMost(now + Cfg.post_auth_ttl_secs,
                        s.loginAt + app[1].limits.max_lifetime_secs)
  BY <1>5, <1>6, <1>7 DEF Expiry!EffectiveExpiry
<1>9. Expiry!EffectiveExpiry(AsState(s), now) # Dead
  BY <1>1, <1>4, <1>8, ReleaseAssumption DEF Expiry!AtMost
<1>10. QED
  BY <1>5, <1>6, <1>8, <1>9

\* Its cookie and its row are still there, and neither the store nor the extractor
\* refuses it.
LEMMA PromisedIsAdmitted ==
  ASSUME StayInv, Promised
  PROVE  /\ app # None /\ row # None /\ RowFits(row[1], story.at, logins, now)
         /\ Cfg.session_expiry = "Sliding"
         /\ HasSubject(row[1].s) /\ row[1].s.loginAt = story.at
         /\ row[1].s.vals["sub"] \in Nat \ {0}
         /\ story.life <= Lifetime(app[1])
         /\ Kind = "row" => now < story.at + app[1].limits.max_lifetime_secs
         /\ Loaded = Some(row[1].s) /\ Loaded[1] = row[1].s
         /\ \A to : ~LifetimeOver(to, row[1].s)
<1>1. /\ app # None /\ Cfg.session_expiry = "Sliding"
      /\ story.life <= Lifetime(app[1])
      /\ now <= story.seen + 1
      /\ jar # None /\ jar[1].key = Cfg.session_key /\ jar[1].kind = Kind
      /\ story.seen + 2 <= jar[1].until
      /\ row # None /\ HasSubject(row[1].s)
      /\ Kind = "row" => Least(story.seen + 2, story.at + story.life) <= row[1].expiresAt
  BY DEF StayInv, Promised, StaysIn
<1>2. RowFits(row[1], story.at, logins, now)
  BY <1>1, WhatIsThere DEF StayInv
<1>3. row[1].s.loginAt = story.at
  BY <1>1, <1>2 DEF RowFits, SessionFits
<1>4. row[1].s.vals["sub"] \in Nat \ {0}
  BY <1>1, <1>2 DEF RowFits, SessionFits, HasSubject, StayInv, DeployInv, CountersSafe
<1>5. /\ now \in Nat /\ story.at \in 0 .. now /\ story.seen \in 0 .. now /\ story.life \in Int
  BY StoryTyped DEF StayInv
<1>6. /\ Lifetime(app[1]) \in Int
      /\ Lifetime(app[1]) <= Cfg.max_session_lifetime_secs
      /\ Kind = "row" => Lifetime(app[1]) <= app[1].limits.max_lifetime_secs
  BY <1>1, LifetimeIs DEF StayInv
<1>7. /\ Cfg.max_session_lifetime_secs \in Int /\ app[1].limits.max_lifetime_secs \in Int
  BY <1>1, WhatRuns DEF StayInv
<1>8. Kind = "row" => now < story.at + app[1].limits.max_lifetime_secs
  BY <1>1, <1>5, <1>6, <1>7 DEF Promised
<1>9. Presented
  <2>1. PICK j : jar = Some(j) /\ JarFits(j)
    BY <1>1 DEF StayInv, DeployInv, JarSafe
  <2>2. jar[1].until \in Int
    BY <2>1, SomeFacts DEF JarFits
  <2>3. now < jar[1].until
    BY <1>1, <1>5, <2>2
  <2>4. QED
    BY <1>1, <2>3 DEF Presented
<1>10. Accepts
  <2> SUFFICES ASSUME Kind = "row"
               PROVE  Expiry!LoadAccepts(AsState(row[1].s), row[1].expiresAt, now)
    BY DEF Accepts, Kind
  <2>1. row[1].expiresAt \in Int
    BY <1>2 DEF RowFits
  <2>2. row[1].expiresAt > now
    BY <1>1, <1>5, <2>1 DEF Promised, Least
  <2>3. Expiry!HardCapExpiry(AsState(row[1].s), now) # Dead
    <3>1. now < row[1].s.loginAt + app[1].limits.max_lifetime_secs /\ row[1].s.loginAt \in 0 .. now
      BY <1>3, <1>5, <1>8
    <3>2. DeployInv
      BY DEF StayInv
    <3>3. QED
      BY <1>1, <1>4, <3>1, <3>2, ExpiryOfSignedIn
  <2>4. QED
    BY <2>2, <2>3 DEF Expiry!LoadAccepts
<1>11. Loaded = Some(row[1].s) /\ Loaded[1] = row[1].s
  BY <1>9, <1>10, SomeFacts DEF Loaded
<1>12. \A to : ~LifetimeOver(to, row[1].s)
  <2>1. row[1].s.loginAt # Missing
    BY <1>3, <1>5, ReleaseAssumption
  <2>2. ~(Cfg.max_session_lifetime_secs + story.at <= now)
    BY <1>1, <1>5, <1>6, <1>7 DEF Promised
  <2>3. QED
    BY <1>3, <2>1, <2>2 DEF LifetimeOver
<1>13. QED
  BY <1>1, <1>2, <1>3, <1>4, <1>8, <1>11, <1>12

\* What a store call of a used session leaves of it.
LEMMA StaysAfter ==
  ASSUME StayInv, app # None, UNCHANGED <<now, app>>, SetsCookie,
         Cfg.session_expiry = "Sliding",
         story'.seen \in 0 .. now, now <= story'.seen + 1,
         story'.at \in Int, story'.life \in Int, story'.life <= Lifetime(app[1]),
         NEW r, row' = Some(r), HasSubject(r.s),
         Kind = "row" => /\ r.expiresAt \in Int
                         /\ Least(now + 2, story'.at + story'.life) <= r.expiresAt
  PROVE  StaysIn'
<1>1. now \in Nat /\ Cfg.post_auth_ttl_secs \in Int
  BY StoryTyped, WhatRuns DEF StayInv
<1>2. 2 <= Cfg.post_auth_ttl_secs
  BY DEF StayInv, RenewsInTime, Cfg
<1>3. Cfg' = Cfg /\ Kind' = Kind /\ app' = app /\ now' = now
  BY DEF Cfg, Kind
<1>4. /\ jar' # None /\ jar'[1].key = Cfg.session_key /\ jar'[1].kind = Kind
      /\ jar'[1].until = now + Cfg.post_auth_ttl_secs
  BY SomeFacts DEF SetsCookie
<1>5. story'.seen + 2 <= jar'[1].until
  BY <1>1, <1>2, <1>4
<1>6. row' # None /\ row'[1] = r
  BY SomeFacts
<1>7. Kind = "row" => Least(story'.seen + 2, story'.at + story'.life) <= r.expiresAt
  BY <1>1 DEF Least
<1>8. QED
  BY <1>3, <1>4, <1>5, <1>6, <1>7 DEF StaysIn

\* An expiry that is written now reaches as far as is promised.
LEMMA WrittenReaches ==
  ASSUME DeployInv, app # None, RenewsInTime(app[1]), Kind = "row",
         NEW s, HasSubject(s), s.vals["sub"] \in Nat \ {0},
         s.loginAt \in 0 .. now, now < s.loginAt + app[1].limits.max_lifetime_secs,
         NEW life \in Int, life <= Lifetime(app[1]),
         NEW e, e = Expiry!EffectiveExpiry(AsState(s), now)
  PROVE  /\ e # Dead /\ e \in Int
         /\ Least(now + 2, s.loginAt + life) <= e
         /\ app[1].limits.touch_coalesce_secs # 0 =>
              Least(now + 2, s.loginAt + life) <= e - (app[1].limits.touch_coalesce_secs - 1)
<1>1. now \in Nat /\ s.loginAt \in Nat
  BY StoryTyped
<1>2. /\ Cfg.post_auth_ttl_secs \in Int
      /\ app[1].limits.max_lifetime_secs \in Int /\ app[1].limits.touch_coalesce_secs \in Nat
  BY WhatRuns
<1>3. /\ 2 <= Cfg.post_auth_ttl_secs
      /\ app[1].limits.touch_coalesce_secs < Cfg.post_auth_ttl_secs
  BY DEF RenewsInTime, Cfg, Kind
<1>4. /\ life <= app[1].limits.max_lifetime_secs
      /\ app[1].limits.touch_coalesce_secs # 0 =>
           life <= app[1].limits.max_lifetime_secs - (app[1].limits.touch_coalesce_secs - 1)
  BY <1>2, LifetimeIs
<1>5. e # Dead /\ e = Expiry!AtMost(now + Cfg.post_auth_ttl_secs,
                                    s.loginAt + app[1].limits.max_lifetime_secs)
  BY ExpiryOfSignedIn
<1>6. QED
  BY <1>1, <1>2, <1>3, <1>4, <1>5 DEF Least, Expiry!AtMost

\* A promised session that is kept goes on to be promised.
LEMMA KeepStays ==
  ASSUME StayInv, Promised, UNCHANGED <<now, app>>, Keep(row[1].s),
         story'.at = story.at, story'.life = story.life,
         story'.seen \in 0 .. now, now <= story'.seen + 1
  PROVE  StaysIn'
<1>1. /\ app # None /\ row # None /\ RowFits(row[1], story.at, logins, now)
      /\ Cfg.session_expiry = "Sliding"
      /\ HasSubject(row[1].s) /\ row[1].s.loginAt = story.at
      /\ row[1].s.vals["sub"] \in Nat \ {0}
      /\ story.life <= Lifetime(app[1])
      /\ Kind = "row" => now < story.at + app[1].limits.max_lifetime_secs
  BY PromisedIsAdmitted
<1>2. row' = Renewal(row[1].s) /\ SetsCookie
  BY <1>1 DEF Keep
<1>3. now \in Nat /\ story.at \in 0 .. now /\ story.life \in Int
  BY StoryTyped DEF StayInv
<1>4. PICK r : /\ row' = Some(r) /\ HasSubject(r.s)
               /\ Kind = "row" => /\ r.expiresAt \in Int
                                  /\ Least(now + 2, story.at + story.life) <= r.expiresAt
  <2>1. row = Some(row[1])
    BY <1>1, WhatIsThere DEF StayInv
  <2>2. CASE Kind = "cookie"
    <3>1. row' = row
      BY <1>2, <2>2 DEF Renewal
    <3>2. QED
      BY <1>1, <2>1, <2>2, <3>1
  <2>3. CASE Kind # "cookie"
    <3>0. Kind = "row"
      BY <2>3 DEF Kind
    <3>1. PICK e : e = Expiry!EffectiveExpiry(AsState(row[1].s), now)
      OBVIOUS
    <3>2. /\ e # Dead /\ e \in Int
          /\ Least(now + 2, story.at + story.life) <= e
          /\ app[1].limits.touch_coalesce_secs # 0 =>
               Least(now + 2, story.at + story.life)
                 <= e - (app[1].limits.touch_coalesce_secs - 1)
      <4>1. DeployInv /\ RenewsInTime(app[1])
        BY <1>1 DEF StayInv
      <4>2. /\ row[1].s.loginAt \in 0 .. now
            /\ now < row[1].s.loginAt + app[1].limits.max_lifetime_secs
        BY <1>1, <1>3, <3>0
      <4>3. \A life \in Int : life <= Lifetime(app[1]) =>
              /\ e # Dead /\ e \in Int
              /\ Least(now + 2, row[1].s.loginAt + life) <= e
              /\ app[1].limits.touch_coalesce_secs # 0 =>
                   Least(now + 2, row[1].s.loginAt + life)
                     <= e - (app[1].limits.touch_coalesce_secs - 1)
        BY <1>1, <3>0, <3>1, <4>1, <4>2, WrittenReaches
      <4>4. QED
        BY <1>1, <1>3, <4>3
    <3>3. row[1].expiresAt \in Int
      BY <1>1 DEF RowFits
    <3>4. CASE Expiry!TouchNeeded(e, row[1].expiresAt)
      <4>1. row' = Some([row[1] EXCEPT !.expiresAt = e])
        BY <1>1, <1>2, <2>3, <3>1, <3>2, <3>4 DEF Renewal
      <4>2. row[1] = [s |-> row[1].s, expiresAt |-> row[1].expiresAt]
        BY <1>1 DEF RowFits
      <4>3. [row[1] EXCEPT !.expiresAt = e] = [s |-> row[1].s, expiresAt |-> e]
        BY <4>2
      <4>4. [s |-> row[1].s, expiresAt |-> e].s = row[1].s /\ [s |-> row[1].s, expiresAt |-> e].expiresAt = e
        OBVIOUS
      <4>5. QED
        BY <1>1, <3>2, <4>1, <4>3, <4>4
    <3>5. CASE ~Expiry!TouchNeeded(e, row[1].expiresAt)
      <4>1. row' = row
        BY <1>1, <1>2, <3>1, <3>2, <3>5 DEF Renewal
      <4>2. app[1].limits.touch_coalesce_secs \in Nat
        BY <1>1, WhatRuns DEF StayInv
      <4>3. \/ e <= row[1].expiresAt
            \/ e - row[1].expiresAt < app[1].limits.touch_coalesce_secs
        BY <3>2, <3>3, <3>5, <4>2 DEF Expiry!TouchNeeded
      <4>4. PICK least \in Int : least = Least(now + 2, story.at + story.life)
        BY <1>3 DEF Least
      <4>5. least <= row[1].expiresAt
        BY <3>2, <3>3, <4>3, <4>2, <4>4
      <4>6. QED
        BY <1>1, <2>1, <3>3, <4>1, <4>4, <4>5
    <3>6. QED
      BY <3>4, <3>5
  <2>4. QED
    BY <2>2, <2>3
<1>5. QED
  BY <1>1, <1>2, <1>3, <1>4, StaysAfter

LEMMA VisitStays ==
  ASSUME StayInv, NEW to, Visit(to)
  PROVE  StaysIn' /\ ActiveUserStays'
<1>1. app # None /\ UNCHANGED <<now, starts, app, logins>>
  BY DEF Visit
<1>2. /\ story'.active = story.active /\ story'.at = story.at /\ story'.life = story.life
  <2>1. story' = story \/ story' = [story EXCEPT !.seen = now]
    BY DEF Visit
  <2>2. PICK at, seen, life, active :
          story = [at |-> at, seen |-> seen, life |-> life, active |-> active]
    BY DEF StayInv, DeployInv, StorySafe
  <2>3. QED
    BY <2>1, <2>2
<1>3. CASE ~Promised
  <2>1. ~(story'.active /\ now' < story'.at + story'.life)
    BY <1>1, <1>2, <1>3 DEF Promised
  <2>2. story'.active => now' >= story'.at + story'.life
    <3>1. now \in Int /\ story.at \in Int /\ story.life \in Int
      BY StoryTyped DEF StayInv
    <3>2. QED
      BY <1>1, <1>2, <1>3, <3>1 DEF Promised
  <2>3. QED
    BY <2>1, <2>2 DEF StaysIn, ActiveUserStays
<1>4. CASE Promised
  <2>1. Loaded # None /\ Loaded[1] = row[1].s /\ HasSubject(row[1].s) /\ ~LifetimeOver(to, row[1].s)
    BY <1>4, PromisedIsAdmitted, SomeFacts
  <2>2. Answers(to, 200) /\ Keep(row[1].s) /\ story' = [story EXCEPT !.seen = now]
    BY <2>1 DEF Visit
  <2>3. story'.seen = now /\ now \in Nat
    BY <2>2, StoryTyped DEF StayInv, DeployInv, StorySafe
  <2>4. StaysIn'
    BY <1>1, <1>2, <1>4, <2>2, <2>3, KeepStays
  <2>5. ActiveUserStays'
    BY <2>2 DEF Answers, ActiveUserStays
  <2>6. QED
    BY <2>4, <2>5
<1>5. QED
  BY <1>3, <1>4

LEMMA UnservedStays ==
  ASSUME StayInv, Unserved
  PROVE  StaysIn'
<1>1. app # None /\ UNCHANGED <<now, starts, app, logins, story>>
  BY DEF Unserved
<1>2. CASE ~Promised
  BY <1>1, <1>2 DEF Promised, StaysIn
<1>3. CASE Promised
  <2>1. Loaded # None /\ Loaded[1] = row[1].s
    BY <1>3, PromisedIsAdmitted, SomeFacts
  <2>2. Keep(row[1].s)
    BY <2>1 DEF Unserved
  <2>3. story.seen \in 0 .. now /\ now <= story.seen + 1
    BY <1>3, StoryTyped DEF StayInv, StaysIn, Promised
  <2>4. QED
    BY <1>1, <1>3, <2>2, <2>3, KeepStays
<1>4. QED
  BY <1>2, <1>3

\* The row a signed-in session is written to.
LEMMA WrittenRow ==
  ASSUME DeployInv, app # None, RenewsInTime(app[1]),
         NEW s, Write(s), HasSubject(s), s.vals["sub"] \in Nat \ {0}, s.loginAt \in 0 .. now,
         Kind = "row" => now < s.loginAt + app[1].limits.max_lifetime_secs,
         NEW life \in Int, life <= Lifetime(app[1])
  PROVE  \E r : /\ row' = Some(r) /\ HasSubject(r.s)
                /\ Kind = "row" => /\ r.expiresAt \in Int
                                   /\ Least(now + 2, s.loginAt + life) <= r.expiresAt
<1>1. ASSUME NEW x
      PROVE  [s |-> s, expiresAt |-> x].s = s /\ [s |-> s, expiresAt |-> x].expiresAt = x
  OBVIOUS
<1>2. CASE Kind = "cookie"
  <2>1. row' = Some([s |-> s, expiresAt |-> 0])
    BY <1>2 DEF Write
  <2>2. QED
    BY <1>1, <1>2, <2>1
<1>3. CASE Kind # "cookie"
  <2>1. Kind = "row"
    BY <1>3 DEF Kind
  <2>2. PICK e : e = Expiry!EffectiveExpiry(AsState(s), now)
    OBVIOUS
  <2>3. e # Dead /\ e \in Int /\ Least(now + 2, s.loginAt + life) <= e
    BY <2>1, <2>2, WrittenReaches
  <2>4. row' = Some([s |-> s, expiresAt |-> e])
    BY <1>3, <2>2, <2>3 DEF Write
  <2>5. QED
    BY <1>1, <2>3, <2>4
<1>4. QED
  BY <1>2, <1>3

\* Login, and a callback without a slot.
LEMMA StartedStays ==
  ASSUME StayInv, app # None, UNCHANGED <<now, starts, app, logins, story>>,
         NEW x, Write([SessionOrEmpty EXCEPT !.started = x])
  PROVE  StaysIn'
<1>1. CASE ~Promised
  BY <1>1 DEF Promised, StaysIn
<1>2. CASE Promised
  <2>1. /\ row # None /\ RowFits(row[1], story.at, logins, now)
        /\ Cfg.session_expiry = "Sliding"
        /\ HasSubject(row[1].s) /\ row[1].s.loginAt = story.at
        /\ row[1].s.vals["sub"] \in Nat \ {0}
        /\ story.life <= Lifetime(app[1])
        /\ Kind = "row" => now < story.at + app[1].limits.max_lifetime_secs
        /\ Loaded = Some(row[1].s) /\ Loaded[1] = row[1].s
    BY <1>2, PromisedIsAdmitted
  <2>2. SessionOrEmpty = row[1].s
    BY <2>1, SomeFacts DEF SessionOrEmpty, OrElse
  <2>3. PICK s : s = [row[1].s EXCEPT !.started = x]
    OBVIOUS
  <2>4. HasSubject(s) /\ s.vals["sub"] \in Nat \ {0} /\ s.loginAt = story.at
    <3>1. row[1].s = [vals |-> row[1].s.vals, claim_keys |-> row[1].s.claim_keys,
                      loginAt |-> row[1].s.loginAt, started |-> row[1].s.started]
      BY <2>1 DEF RowFits, SessionFits, OfOneLogin
    <3>2. s.vals = row[1].s.vals /\ s.loginAt = row[1].s.loginAt
      BY <2>3, <3>1
    <3>3. QED
      BY <2>1, <3>2 DEF HasSubject
  <2>5. Write(s)
    BY <2>2, <2>3
  <2>6. now \in Nat /\ story.at \in 0 .. now /\ story.life \in Int /\ story.seen \in 0 .. now
    BY StoryTyped DEF StayInv
  <2>7. DeployInv /\ RenewsInTime(app[1]) /\ now <= story.seen + 1
    BY <1>2 DEF StayInv, StaysIn, Promised
  <2>8. PICK r : /\ row' = Some(r) /\ HasSubject(r.s)
                 /\ Kind = "row" => /\ r.expiresAt \in Int
                                    /\ Least(now + 2, story.at + story.life) <= r.expiresAt
    BY <2>1, <2>4, <2>5, <2>6, <2>7, WrittenRow
  <2>9. SetsCookie
    BY <2>5 DEF Write
  <2>10. story'.seen = story.seen /\ story'.at = story.at /\ story'.life = story.life
    OBVIOUS
  <2>11. QED
    BY <2>1, <2>6, <2>7, <2>8, <2>9, <2>10, StaysAfter
<1>3. QED
  BY <1>1, <1>2

LEMMA CallbackStays ==
  ASSUME StayInv, NEW grant \in Grants, Callback(grant)
  PROVE  StaysIn'
<1>1. /\ app # None /\ UNCHANGED <<now, starts, app>>
      /\ story' = [at |-> now, seen |-> now, life |-> Lifetime(app[1]),
                   active |-> Cfg.session_expiry = "Sliding"]
  BY DEF Callback, Serves
<1>2. PICK s : s = AfterLogin(SessionOrEmpty, logins + 1, grant)
  OBVIOUS
<1>3. Write(s)
  BY <1>2 DEF Callback
<1>4. now \in Nat /\ logins \in Nat /\ DeployInv /\ RenewsInTime(app[1])
  BY <1>1, StoryTyped DEF StayInv, DeployInv, CountersSafe
<1>5. HasSubject(s) /\ s.vals["sub"] \in Nat \ {0} /\ s.loginAt = now
  <2>1. "sub" \in Written(grant)
    BY DEF Written
  <2>2. "sub" \in DOMAIN s.vals /\ s.vals["sub"] = logins + 1 /\ s.loginAt = now
    BY <1>2, <2>1 DEF AfterLogin
  <2>3. QED
    BY <1>4, <2>2 DEF HasSubject
<1>6. CASE Cfg.session_expiry # "Sliding"
  BY <1>1, <1>6 DEF StaysIn
<1>7. CASE Cfg.session_expiry = "Sliding"
  <2>1. Lifetime(app[1]) \in Int /\ Lifetime(app[1]) <= Lifetime(app[1])
    BY <1>1, <1>4, LifetimeIs
  <2>2. now < now + app[1].limits.max_lifetime_secs /\ now \in 0 .. now
    BY <1>1, <1>4, WhatRuns
  <2>3. \A life \in Int : life <= Lifetime(app[1]) =>
          \E r : /\ row' = Some(r) /\ HasSubject(r.s)
                 /\ Kind = "row" => /\ r.expiresAt \in Int
                                    /\ Least(now + 2, now + life) <= r.expiresAt
    BY <1>1, <1>3, <1>4, <1>5, <2>2, WrittenRow
  <2>4. PICK r : /\ row' = Some(r) /\ HasSubject(r.s)
                 /\ Kind = "row" => /\ r.expiresAt \in Int
                                    /\ Least(now + 2, now + Lifetime(app[1])) <= r.expiresAt
    BY <2>1, <2>3
  <2>5. SetsCookie
    BY <1>3 DEF Write
  <2>6. story'.seen = now /\ story'.at = now /\ story'.life = Lifetime(app[1])
    BY <1>1
  <2>7. now <= now + 1 /\ now \in Int
    BY <1>4
  <2>8. QED
    BY <1>1, <1>7, <2>1, <2>2, <2>4, <2>5, <2>6, <2>7, StaysAfter
<1>8. QED
  BY <1>6, <1>7

\* A release that goes on renews in time, too, and promises no more than it keeps.
LEMMA DeployStays ==
  ASSUME InTime, StayInv, NEW release \in Releases, Deploy(release)
  PROVE  StaysIn' /\ RenewsInTime(app[1])'
<1>1. /\ starts < Len(FreshKeys) /\ BuildError(release.builder) = NoError
      /\ UNCHANGED <<now, row, jar, logins>>
  BY DEF Deploy
<1>2. FreshKeys[starts + 1] \in STRING /\ FreshKeys[starts + 1] \in ToSet(FreshKeys)
  <2>1. FreshKeys \in Seq(STRING) /\ Len(FreshKeys) \in Nat /\ starts \in 0 .. Len(FreshKeys)
    BY ReleaseAssumption, LenProperties DEF StayInv, DeployInv, CountersSafe
  <2>2. starts + 1 \in 1 .. Len(FreshKeys)
    BY <1>1, <2>1
  <2>3. QED
    <3>1. DOMAIN FreshKeys = 1 .. Len(FreshKeys)
      BY <2>1, LenProperties
    <3>2. QED
      BY <2>1, <2>2, <3>1, ElementOfSeq DEF ToSet
<1> DEFINE next == Running(release, FreshKeys[starts + 1])
<1>3. /\ app' = Some(next) /\ RenewsInTime(next) /\ AppFits(next)
      /\ story' = [story EXCEPT !.active = @ /\ GoesOn(next), !.life = Least(@, Lifetime(next))]
  BY <1>1, <1>2, RunningFits DEF Deploy, InTime
<1> HIDE DEF next
<1>4. app'[1] = next /\ app' # None
  BY <1>3, SomeFacts
<1>5. RenewsInTime(app[1])'
  BY <1>3, <1>4 DEF RenewsInTime
<1>6. PICK at \in 0 .. now, seen \in 0 .. now, life \in Int, active \in BOOLEAN :
        story = [at |-> at, seen |-> seen, life |-> life, active |-> active]
  BY DEF StayInv, DeployInv, StorySafe
<1>7. /\ story'.at = at /\ story'.seen = seen
      /\ story'.active = (active /\ GoesOn(next)) /\ story'.life = Least(life, Lifetime(next))
  BY <1>3, <1>6
<1>8. now \in Nat
  BY StoryTyped DEF StayInv
<1>9. Lifetime(next) \in Int
  BY <1>3, LifetimeTyped
<1>10. StaysIn'
  <2> SUFFICES ASSUME story'.active, now' < story'.at + story'.life
               PROVE  /\ app' # None /\ Cfg'.session_expiry = "Sliding"
                      /\ story'.life <= Lifetime(app'[1])
                      /\ now' <= story'.seen + 1
                      /\ jar' # None /\ jar'[1].key = Cfg'.session_key /\ jar'[1].kind = Kind'
                      /\ story'.seen + 2 <= jar'[1].until
                      /\ row' # None /\ HasSubject(row'[1].s)
                      /\ Kind' = "row" => Least(story'.seen + 2, story'.at + story'.life) <= row'[1].expiresAt
    BY DEF StaysIn
  <2>1. active /\ GoesOn(next) /\ now < at + life /\ story'.life <= life /\ story'.life <= Lifetime(next)
        /\ story'.life \in Int
    <3>1. active /\ GoesOn(next)
      BY <1>7, Zenon
    <3>2. PICK least : story'.life = least /\ least = Least(life, Lifetime(next))
      BY <1>7
    <3>3. least \in Int /\ least <= life /\ least <= Lifetime(next)
      BY <1>9, <3>2 DEF Least
    <3>4. now < at + least
      BY <1>1, <1>7, <3>2
    <3>5. now < at + life
      BY <1>8, <3>3, <3>4
    <3>6. QED
      BY <3>1, <3>2, <3>3, <3>5
  <2>2. Promised
    BY <1>6, <2>1 DEF Promised
  <2>3. /\ app # None /\ now <= story.seen + 1
        /\ jar # None /\ jar[1].key = Cfg.session_key /\ jar[1].kind = Kind
        /\ story.seen + 2 <= jar[1].until
        /\ row # None /\ HasSubject(row[1].s)
        /\ Kind = "row" => Least(story.seen + 2, story.at + story.life) <= row[1].expiresAt
    BY <2>2 DEF StayInv, StaysIn, Promised
  <2>4. Cfg' = next.config /\ Cfg'.session_key = Cfg.session_key /\ Cfg'.session_expiry = "Sliding"
    BY <1>4, <2>1 DEF GoesOn, Cfg
  <2>5. Kind' = Kind
    BY <1>4, <2>1 DEF GoesOn, Kind
  <2>6. Kind = "row" => Least(seen + 2, at + story'.life) <= row[1].expiresAt
    <3> SUFFICES ASSUME Kind = "row"
                 PROVE  Least(seen + 2, at + story'.life) <= row[1].expiresAt
      OBVIOUS
    <3>1. row[1].expiresAt \in Int
      BY <2>3, WhatIsThere DEF StayInv, RowFits
    <3>2. Least(seen + 2, at + life) <= row[1].expiresAt
      BY <1>6, <2>3
    <3>3. QED
      BY <1>6, <2>1, <3>1, <3>2 DEF Least
  <2>7. QED
    BY <1>1, <1>4, <1>6, <1>7, <2>1, <2>3, <2>4, <2>5, <2>6
<1>11. QED
  BY <1>5, <1>10

LEMMA TickStays ==
  ASSUME StayInv, Tick
  PROVE  StaysIn'
<1>1. now' = now + 1 /\ UNCHANGED <<starts, app, row, jar, logins>>
  BY DEF Tick
<1>2. PICK at \in 0 .. now, seen \in 0 .. now, life \in Int, active \in BOOLEAN :
        story = [at |-> at, seen |-> seen, life |-> life, active |-> active]
  BY DEF StayInv, DeployInv, StorySafe
<1>3. story' = [at |-> at, seen |-> seen, life |-> life, active |-> active /\ seen = now]
  BY <1>2 DEF Tick
<1>4. now \in Nat
  BY StoryTyped DEF StayInv
<1>5. CASE active /\ seen = now /\ now + 1 < at + life
  <2>1. Promised
    BY <1>2, <1>4, <1>5 DEF Promised
  <2>2. /\ app # None /\ Cfg.session_expiry = "Sliding"
        /\ story.life <= Lifetime(app[1])
        /\ jar # None /\ jar[1].key = Cfg.session_key /\ jar[1].kind = Kind
        /\ story.seen + 2 <= jar[1].until
        /\ row # None /\ HasSubject(row[1].s)
        /\ Kind = "row" => Least(story.seen + 2, story.at + story.life) <= row[1].expiresAt
    BY <2>1 DEF StayInv, StaysIn, Promised
  <2>3. Cfg' = Cfg /\ Kind' = Kind
    BY <1>1 DEF Cfg, Kind
  <2>4. now' <= story'.seen + 1
    BY <1>1, <1>3, <1>4, <1>5
  <2>5. story'.seen = story.seen /\ story'.at = story.at /\ story'.life = story.life
    BY <1>2, <1>3
  <2>6. QED
    BY <1>1, <2>2, <2>3, <2>4, <2>5 DEF StaysIn
<1>6. CASE ~(active /\ seen = now /\ now + 1 < at + life)
  <2>1. /\ story'.at = at /\ story'.life = life /\ story'.active = (active /\ seen = now)
    BY <1>3
  <2>2. ~(story'.active /\ now' < story'.at + story'.life)
    BY <1>1, <1>6, <2>1
  <2>3. QED
    BY <2>2 DEF StaysIn
<1>7. QED
  BY <1>5, <1>6

LEMMA InitStays == InTime /\ Init => StayInv
<1> SUFFICES ASSUME Init PROVE StayInv
  OBVIOUS
<1>1. app = None /\ story.active = FALSE
  BY DEF Init, NoStory
<1>2. StaysIn
  BY <1>1 DEF StaysIn
<1>3. ActiveUserStays
  BY DEF Init, NoAnswer, ActiveUserStays
<1>4. QED
  BY <1>1, <1>2, <1>3, InitSafe DEF StayInv

LEMMA NextStays == InTime /\ StayInv /\ [Next]_vars => StayInv'
<1> SUFFICES ASSUME InTime, StayInv, [Next]_vars
             PROVE  StayInv'
  OBVIOUS
<1>1. DeployInv'
  BY NextSafe DEF StayInv
<1>2. ASSUME NEW release \in Releases, Deploy(release)
      PROVE  StayInv'
  <2>1. ActiveUserStays'
    BY <1>2 DEF Deploy, NoAnswer, ActiveUserStays
  <2>2. QED
    BY <1>1, <1>2, <2>1, DeployStays DEF StayInv
<1>3. ASSUME app' = app
      PROVE  (app # None => RenewsInTime(app[1]))'
  BY <1>3 DEF StayInv, RenewsInTime
<1>4. CASE Tick
  <2>1. ActiveUserStays' /\ app' = app
    BY <1>4 DEF Tick, NoAnswer, ActiveUserStays
  <2>2. QED
    BY <1>1, <1>3, <1>4, <2>1, TickStays DEF StayInv
<1>5. ASSUME NEW to \in Visits, Visit(to)
      PROVE  StayInv'
  <2>1. app' = app
    BY <1>5 DEF Visit
  <2>2. QED
    BY <1>1, <1>3, <1>5, <2>1, VisitStays DEF StayInv
<1>6. CASE Login
  <2>1. ActiveUserStays' /\ app' = app
    BY <1>6 DEF Login, Answers, Visits, ActiveUserStays
  <2>2. StaysIn'
    BY <1>6, StartedStays DEF Login, Serves
  <2>3. QED
    BY <1>1, <1>3, <2>1, <2>2 DEF StayInv
<1>7. CASE CallbackRefused
  <2>1. ActiveUserStays' /\ app' = app
    BY <1>7 DEF CallbackRefused, Answers, Visits, ActiveUserStays
  <2>2. StaysIn'
    BY <1>7, StartedStays DEF CallbackRefused, Serves
  <2>3. QED
    BY <1>1, <1>3, <2>1, <2>2 DEF StayInv
<1>8. ASSUME NEW grant \in Grants, Callback(grant)
      PROVE  StayInv'
  <2>1. ActiveUserStays' /\ app' = app
    BY <1>8 DEF Callback, Answers, Visits, ActiveUserStays
  <2>2. StaysIn'
    BY <1>8, CallbackStays
  <2>3. QED
    BY <1>1, <1>3, <2>1, <2>2 DEF StayInv
<1>9. CASE UNCHANGED vars
  <2>1. UNCHANGED <<now, app, row, jar, story, answer>>
    BY <1>9 DEF vars
  <2>2. StaysIn' /\ ActiveUserStays'
    BY <2>1 DEF StayInv, StaysIn, ActiveUserStays, Cfg, Kind, HasSubject
  <2>3. QED
    BY <1>1, <1>3, <2>1, <2>2 DEF StayInv
<1>10. CASE Unserved
  <2>1. ActiveUserStays' /\ app' = app
    BY <1>10 DEF Unserved, Answers, Visits, ActiveUserStays
  <2>2. StaysIn'
    BY <1>10, UnservedStays
  <2>3. QED
    BY <1>1, <1>3, <2>1, <2>2 DEF StayInv
<1>11. QED
  BY <1>2, <1>4, <1>5, <1>6, <1>7, <1>8, <1>9, <1>10 DEF Next

\* Releases that renew in time never lose a user who is always there, under sliding
\* expiry and before the absolute lifetime is over (update_ttl, and the Max-Age of
\* the cookie).
THEOREM DeploymentKeepsActiveUsers ==
  ASSUME InTime
  PROVE  Spec => []ActiveUserStays
<1>1. Init => StayInv
  BY InitStays
<1>2. StayInv /\ [Next]_vars => StayInv'
  BY NextStays
<1>3. StayInv => ActiveUserStays
  BY DEF StayInv
<1>4. QED
  BY <1>1, <1>2, <1>3, PTL DEF Spec
=============================================================================
