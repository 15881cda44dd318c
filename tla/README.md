# Verification of actix-web-oidc-bff

The crate lets an actix-web application sign its users in with an OpenID
provider. The browser holds one opaque session cookie; identity and tokens stay
in a row of a session table, which the crate reads and writes through
actix-session. This directory models the crate in TLA+, checks small instances
with TLC and proves the most important properties for all instances with TLAPS.
Paths are relative to the root of the repository, which is `src/` in
`PROJECT.json`; `PROJECT.json` maps every definition to the lines it models.

## The system

| Component | State it keeps | Operations |
|---|---|---|
| `src/store.rs` `DbSessionStore` | none of its own; TTLs fixed at construction | `load`, `save`, `update`, `update_ttl`, `delete`; the expiry rules |
| `SessionRepository` (trait in `src/store.rs`) | the rows: key, state, `expires_at` | `get`, `insert`, `update`, `touch`, `delete`; written by the application |
| `src/middleware.rs` and actix-session | the session of one request: key, entries, status | loads before the handler, writes after it, as the status says |
| `src/session_state.rs` | the entry `oidc_pre_auth`: slots of the attempts under way | `push_pre_auth`, `prune_expired`, `take_matching` |
| `src/handlers/login.rs` | validated variants (start-up) | `login`, `login_route`: begin an attempt |
| `src/handlers/callback.rs` | none | `callback`: match, exchange, validate, step-up checks, new session |
| `src/handlers/logout.rs` | none | `logout`: revoke, purge |
| `src/extractor.rs`, `src/handlers/me.rs` | none | `Auth::extract`, `me`: the lifetime check |
| `src/oidc.rs` `OidcRp` | cached metadata and keys, two clocks behind locks | `client`, `refresh_if_stale`, `refresh_metadata`, `force_refresh_for_retry` |
| `src/config.rs` `OidcBffConfigBuilder` | raw values, until `build` | the setters; `build` validates all of them in one order and derives cookie name, origin and TTLs |
| `src/param_names.rs` | none | which parameter names are reserved, on the way out and on the way back |
| `ExtraAuthParams` in `src/handlers/login.rs` | the parameters of one login route | `new`, `require_auth_within` |
| `validate_return_to`, `append_passthrough` in `src/handlers/` | none | where the browser goes after a login |
| `src/csrf.rs` | none | a decision over three request headers |
| `src/routes.rs`, `src/error.rs` | none | the four routes and their methods; status codes |
| the application | which store it wires and how, its key, its release | `from_config`, `new`, `with_*`, or the cookie store of actix-session |

A request meets them in this order: the middleware loads the session (`get`, and
a delete when the row is dead), the handler works on its own copy of the
entries, possibly awaiting the provider or `OidcRp` in the middle, and the
middleware makes the store calls for the status the handler left: nothing or
`update_ttl` (unchanged), `save` or `update` (changed), `delete` then `save`
(renewed), `delete` (purged). Nothing locks a session: requests of one browser
share a row and overlap at every await.

What is hard about it:

- **Read-modify-write of whole sessions.** A handler writes back the entries it
  loaded, however many requests changed the row in between. This concerns
  identity and tokens (`update` after a logout or a new login), the slots of
  login attempts in several tabs, and expiries, computed before an await and
  written after it.
- **Two rules per row.** Anonymous rows are capped at the pre-auth TTL, signed-in
  ones at login + maximal lifetime; `update_ttl` decides between them from a
  record read earlier.
- **Renewal is two calls**, delete and save, and each may fail or be the last
  one the request makes.
- **Several clocks.** A login's age is judged by the store and by the extractor,
  a step-up's by the request and the callback, a slot's by `prune_expired`.
- **Long awaits.** The callback awaits the code exchange and the key refresh,
  logout the revocation, with a session in hand that others go on using.
- **Answers overtake each other**, and the last Set-Cookie to arrive decides which
  session a browser has.
- **A cache refreshed by its users.** Any request may find the metadata stale, any
  callback may force a refresh, clients hang up in the middle and the provider
  rotates its keys meanwhile.
- **Sessions outlive releases.** A row written under one configuration is read
  under the next: other claims, other lifetimes, another way to wire the store.
- **Every limit exists twice**: in the configuration and in the store built from it,
  in the request that asks for a recent authentication and in the slot that
  enforces it, at the login that accepts a `return_to` and in the guard in front of
  the Location header.

What makes each component correct is stated in the modules, above each property;
`PROJECT.json` lists the hazards at their lines with the properties that cover
them.

## The modules

    Selection               sequences: what is retained, where something stands first
    SessionState            one session's entries, what an application may do to them
      SessionExpiry         the expiry rules
        DbSessionStore      store x middleware x repository, several requests
          BffSession        routes x browsers x provider, over DbSessionStore
    RevocableSessions       abstract: logins that begin, end and stay ended
    OidcRp                  the metadata cache and the handlers that use it
    ParamNames              names and the rules for them
      RedirectTarget        return_to, passthrough parameters, Location
      AuthRequest           the extra parameters of a login, the authorization URL
      Csrf                  origins and the same-origin check
        BffConfig           the builder, build, and the limits of a store
          Service           one start: setters, build, discovery, requests
          Deployment        several starts, with SessionExpiry and one session
    SelectionProofs         lemmas: induction over numbers, selections of any length
    DbSessionStoreProofs    theorems: Safe, the caps, implements RevocableSessions
    BffSessionProofs        theorems: the routes implement DbSessionStore
      RouteProofs           theorems: what the routes promise browsers
    OidcRpProofs            theorems: the metadata cache
    ConfigProofs            theorems: what build promises, what a redirect is composed of
      ServiceProofs         theorems: one start of an application
      DeploymentProofs      theorems: an application over its deployments
    MCDbSessionStore, MCBffSession, MCOidcRp,
    MCService, MCDeployment, SmallUrls           instances for TLC

**SessionState, SessionExpiry.** A session is a record: subject, login time
(`__bff_login_at`, possibly missing or unparsable), tokens, and the remaining
entries as one value. The three token entries are one value because the crate
writes and scrubs them together; one member of `Tokens` is one login. The expiry
rules are operators named after the functions of `store.rs`; `None` is the
code's "treat as dead". Time is a number of ticks.

**DbSessionStore.** `rows` is the table; `call[r]` is where request `r` is
suspended and what it carries across the await. There is one action per await:
the code between two awaits runs with the step that ends the first. The handler
is a nondeterministic choice of what any handler may leave (unchanged, changed,
a new login, purged). `birth` and `minted` are history: the state a key was
first inserted with, and when a login was granted. Repository calls follow the
trait's documentation: `get` may or may not hide expired rows, `touch` writes only
to a live row, `update` reports a missing row. Failures: a request may end at
any point (`Abort`: client gone, process gone, repository error; a call that took
effect and reported an error is the step followed by `Abort`), a delete whose
result the code ignores may fail, and a clean-up may remove expired rows.

**RevocableSessions.** Without keys, rows or calls: a login is granted once, is
live until it ends and never comes back; a request uses a login only if it
fetched it while it was live, and is let in before its lifetime is over.
`DbSessionStore` implements it under the mapping at its end (`RevocableSpec`): a
login is live while the row it was born in exists.

**BffSession.** Replaces the nondeterministic handler by the four routes and adds
browsers with a cookie jar and answers on their way, and the provider. The other
entries of the session become the vector of pre-auth slots. A handler is
suspended at `flow[r]`: in the callback before or after the code exchange, in
logout before or after the revocation. `opened` and `closed` are history. An
attempt's state, nonce, PKCE secret and tokens are fresh random values in the
code and one model value here; that a code belongs to another attempt is then
`Bound`. The route properties are at the end, the refinement of `DbSessionStore`
among them (`StoreSpec`).

**OidcRp.** The metadata cache with `last_refresh` and `last_forced_refresh` as
ages, the write guard of the latter as `holder`, and callers that use the client,
validate, force a refresh, retry, and may be cancelled at any await. The provider's
keys are generations. `refresh_if_stale` uses `try_write`, which fails while
anybody holds the lock: `Contended`.

**ParamNames, RedirectTarget, AuthRequest, Csrf, BffConfig** are the pure
algorithms, one operator per function, with the function's name where there is
one. The order of the checks is kept: a list of checks is evaluated by
`FirstError`, the code's chain of early returns. A string is a sequence of
tokens, which are the delimiters of a URL, percent-encoded characters and words;
`Encode`, `Decode` and `Width` say what `form_urlencoded` makes of a token and how
many bytes it has, so the byte budgets of `append_passthrough` are counted as in
the code: encoded, with a joiner between pairs, per value and in total. A name an
application configures is what its validation tells apart: spelling, lower case,
surrounding white space, length, alphabet. A `Duration` is its seconds and whether
there is a fraction. `BffConfig` also has the constructors of `DbSessionStore`,
which turn a configuration into the limits of a store.

**Service.** One start of an application: it begins with the builder of the
crate's own tests (`TestConfigBuilder`), calls setters, good and bad, builds,
discovers, and then its browser logs in by any variant, comes back with any
query, asks `me`, and visits pages of other sites that make it send a logout.
The session is at most one slot and whether somebody is signed in; the answer is
a variable. The properties compare what went in with what comes out: the
parameters of the authorization URL, the slot, the Location, the logout.

**Deployment.** An application over several starts. `app` is what runs: the built
configuration, the wiring, the limits of its store. `row` and `jar` outlive it.
`app_data` says where the application called `configure_app_data`: at the App, in a
scope, or not at all. Routes that take `Auth` have the configuration in reach
(`visit`) or not (`visit_outside`); there `LifetimeOver` is never true, as in
`Auth::extract`, and where it was not called at all, login and callback are
answered with 500 before the crate runs (`Unserved`).
`Presented` is the middleware (key, kind of store, Max-Age), `Accepts` is `load`,
`Write` and `Keep` are the store calls for a changed and an unchanged session; the
expiry rules are `SessionExpiry`, instantiated with the running limits. An
identity entry of the session is the number of the login it was taken from, so
"nothing of an earlier login is left" is an equation. `story` is history: when the
login was, whether the user came in every tick, and the lifetime promised by
every release since.

Some definitions have a variant just before them marked *Mutant*: a plausible
mistake in the code modelled. Substituting it for the definition makes TLC find
the corresponding property violated (`PROJECT.json`, "mutants"), which shows that
the property and the run can see the mistake.

## The runs

| Run | Instance | What it shows |
|---|---|---|
| `store_sliding` | 2 requests, 2 keys, 1 login, sliding, all faults, legacy rows, applications that write their own entries and drop the login time, clock 0..3 | the caps hold at every write; the fallback never inserts a signed-in row; a key stands for one session and one login, dead keys stay dead; `Safe` holds; `RevocableSpec` |
| `bff_serial` | 1 browser, one request at a time, 3 attempts, 2 slots, 3 keys, clock 0..2 | no slot is lost before its time; slots are in order and distinct; a state is matched once |
| `bff_tabs` | 1 browser, 2 overlapping requests, 1 attempt, 3 keys, sliding, clock 0..1 | two callbacks that both match a slot make one login; revoked tokens leave the store; extractor and store agree; `StoreSpec` |
| `bff_browsers` | 2 browsers with a request each, 2 attempts, 3 keys, aborted requests | a login is made in the browser that began it; a code makes one login |
| `bff_fresh` | plain and step-up attempts of one browser, one request at a time, `auth_time` absent, early or late, clock 0..3 | a completed step-up had fresh evidence; no attempt is completed after `pre_auth_ttl` |
| `rp_cache` | 2 handlers, 1 rotation, TTL 3, interval 3, timeout 1, with fairness | no stampede, no leaked guard, bounded age, and new keys arrive |
| `service` | up to 2 of 25 setter calls after the minimal builder, 4 providers, 8 login variants, 13 `return_to`, 10 queries, 4 pages x 4 kinds of headers x 2 methods | what leaves the service is what its configuration allows: one `max_age` on the URL and in the slot, no parameter twice, `return_to` intact in the Location, the guard never trips, no parameter starved of its budget, logout from the own origin only, both wirings of a store agree |
| `deploy` | 3 starts of 7 releases, 2 logins, clock 0..6 | the session holds one login's identity, also across releases that persist other claims; where `Auth` finds the configuration nobody is let in past its lifetime, whatever store is wired, and elsewhere nobody past the lifetime of a `DbSessionStore`; an active user stays in |
| `store_clear_race` | violation | see below |
| `bff_lost_slot` | violation | see below |
| `bff_step_up` | violation | see below |
| `deploy_lowered` | violation | see below |

The passing runs have between 0.1 and 3 million distinct states and take up to
two minutes each on two cores.

**Why the bounds are enough.** What can go wrong with a row is a write of one
request falling between the read and the write of another, so two requests show
it; a third adds nobody who reads or writes differently. A login needs a key
before it, a key after it and, for the fallback of `update`, one more: two keys
in `store_sliding`, which has every fault and a clock, three in the Bff runs; that a
key stands for one session whatever their number, the proofs show. The TTLs are the
smallest that keep the cases apart: pre-auth 1 < session 2 < lifetime 3, with a
clock that reaches each of them, so that every comparison is taken both ways and
at equality. `bff_serial` has one attempt more than slots, so that eviction
happens, and a lifetime of 2 that its clock reaches, so that a login may end while
other attempts are open; in `bff_fresh` the clock passes the time a slot may live, so that slots
in a session that was renewed meanwhile are pruned. Where the handlers'
interleavings are the question (`bff_tabs`), there is one attempt and every TTL
is one tick; where the clock is (`bff_fresh`, `bff_serial`), there is one request.
So `bff_serial` shows the order of the slots without overlapping writes; with them it
is proved (`RoutesSlotsWellFormed`).
`rp_cache` respects the inequalities of the constants in `oidc.rs` (timeout 10 s
twice below the interval 60 s, interval below the TTL 900 s, assumption
`RpAssumption`); ages stop growing where every comparison is settled. In `service` the setters are
called with values that `build` accepts and values that it refuses, and two calls
suffice because a check relates at most two fields (`post_auth_ttl` and `max_session_lifetime`, prefix
and default target). The budgets are small enough for queries that fit exactly,
fit by one byte less and do not fit: a `return_to` of 8 bytes, a value of 4, 9 in
total, 18 composed. These keep the relation of the code's constants the guard
depends on: the composed limit holds the longest `return_to`, a separator and the
total (assumption of `RedirectTarget`). In `deploy` one start is the login's, and
two later ones show a change and the change back; the releases differ in claims,
lifetime, expiry policy, key, wiring and where `configure_app_data` is called; the
session TTL is 3, the lifetime 5 or 4,
the coalescing window 2, so that a touch is skipped, written and capped. Symmetry is
used for keys, tokens and interchangeable requests, never in the liveness run.
What TLC cannot show beyond these bounds, the proofs do, for the properties
listed there.

The Bff runs do not check for deadlock: keys, attempts and clock run out there.
Neither do `service` and the deploy runs, where a startup fails or starts and
clock run out. The others do.

**Fairness** is assumed in `rp_cache` only, for `KeysArrive`: the cached document
catches up with the provider again and again. Time passes and every handler that
can take a step of its own takes it (weak fairness: the executor polls ready
tasks). A stale document is in the end refreshed by somebody, a fetch is in the end
served and installed (strong fairness over all handlers together): `try_write`
fails for one handler only because another one is inside the lock, clients hang up
but not all of them, and the provider is not down forever. Nothing is assumed of
cancellation, failures or rotation.

## Where code and documentation differ

Four runs end in a violation: the property is what a document or comment says,
and the counterexample is what the code does.

- `store_clear_race` / `AnonymousCapped`: an application clears the session while
  `update_ttl` of another request, which read the signed-in record, is about to
  `touch`; the anonymous row gets the authenticated expiry.
- `bff_lost_slot` / `SlotsSurvive`: two tabs log in at once, each writes the vector
  it read, one attempt loses its slot.
- `bff_step_up` / `StepUpKeepsSubject`: the subject is compared with the session at
  the callback; a plain login of somebody else in between lets the step-up
  complete as that other user.
- `deploy_lowered` / `RowsLapseOnOwnSchedule`: `load` measures every signed-in row
  against the lifetime of the running configuration; a release that lowers
  `max_session_lifetime` ends sessions whose rows were to last longer.

The quotations are in `PROJECT.json`, "findings".

Three more were met while modelling and have no run of their own.

- The slot is consumed in the request's copy of the session, so two callbacks with one
  state that overlap both match (`src/handlers/callback.rs:383`; `README.md:15` calls
  the login state single-use). What remains is the provider's refusal of a second
  exchange: `OneLoginPerCode`, in `bff_tabs` with such callbacks.
- A scheduled refresh served before a rotation may be installed after the forced one,
  so that the retry fails although the forced refresh succeeded (`src/oidc.rs:331` and
  `339`).
- Where `configure_app_data` is called in a scope, `Auth` skips the lifetime check on routes
  outside of it. That it fails open is deliberate, documented (`README.md:141`) and
  tested (`missing_config_skips_lifetime_check`), and the model does the same. The
  comment at `src/extractor.rs:92` counts on the store, though, which is right of
  `DbSessionStore` only: with `CookieSessionStore` a user is admitted there past the
  lifetime, for as long as the cookie is renewed.

Four observations that contradict no text. A `post_auth_ttl` no longer than the
touch coalescing window (60 s) is never extended by sliding renewals, because
each moves the expiry by less than the window; `build` does not relate the two.
For the same reason a last renewal before the absolute cap may go unwritten and
a session of an active user ends up to a window before its lifetime (`Lifetime` in
`Deployment` says how much). And the absolute lifetime holds for every store only
through `Auth`: `CookieSessionStore` keeps a session for as long as its cookie is
renewed. Finally, scopes configured twice are asked for twice: `normalize_scopes`
drops no repeats, and only `openid`, which is taken out and added by
openidconnect, stands on the URL once whatever is configured.

## What is proved

For every value of the constants that satisfies the named assumptions
(`StateAssumption`, `ExpiryAssumption`, `StoreAssumption`, `FlowAssumption`,
`RpAssumption`, `TokenAssumption`, `BudgetAssumption`, `DefaultsAssumption`,
`LiteralsAssumption`, `EmptyLiteralAssumption`, `ServiceAssumption`,
`ReleaseAssumption`): any number of requests, keys, logins, browsers, slots,
handlers and releases, any TTLs, both expiry policies, any faults, any values an
application gives the builder, any URLs. The assumptions say what type a
constant has and how the constants of the source relate; TLC evaluates each of
them. `LiteralsAssumption` tells the provers what TLC knows, that literals are
strings.

**The store** (`DbSessionStoreProofs`). `StoreSafe`: `Spec => []Safe`. From it
`StoreTypeOK`, `StoreKeyKeepsItsSession`, `StoreOneKeyPerLogin`,
`StoreLifetimeCapped`, and the action property `StoreDeadKeysStayDead`.

None of these is inductive by itself, because what is written to a row was
decided earlier. `Safe` therefore says the same of what is under way: a
request's copy of a row descends from the birth of the key it works for
(`CopyDescends`), tokens about to be saved are those of a login just granted and
are under no key yet (`PendingLogin`, `PendingDistinct`), an expiry about to be
written respects the lifetime of the state it was computed from
(`PendingCapped`). `touch` is the subtle case: it writes an expiry computed from one
record into a row that may hold another; both descend from one birth, so a login
time in either is the same, and the cap carries over. The proof splits `Safe` into
what it says of keys and of calls (`KeysSafe`, `CallsSafe`): steps that only move
a request keep the first, deletions keep both, and `Insert` and the rewrites
(`UpdateRow`, `Touch`) have lemmas of their own.

**What it takes from the application.** Two promises of the store hold only for
applications that leave the entries of the crate alone, and the theorems have
the exact condition as a hypothesis:

- `StoreAnonymousCapped`, for `SubIsKept`: under sliding expiry nobody removes
  `sub` without purging. `RenewalKnowsWhom` is what makes it inductive: the row and
  the copy a renewal is computed from are as signed in as the session was born,
  so the expiry `touch` writes was computed by the right one of the two rules.
  Without the condition the property fails (`store_clear_race`).
- `StoreFallbackIsAnonymous`, for `TokensGoWithTheLogin`: nobody removes the tokens
  and keeps the rest. The code recognises a login by its tokens when it decides
  whether a vanished row may be inserted again; a session that has `sub` and no
  tokens would be.

**The refinement of `RevocableSessions`.** `StoreIsRevocable`: under `Safe` every step
of the store ends logins, serves a request that fetched a live login within its
lifetime, or changes nothing of what the abstract specification sees. The steps
that delete (middleware, renewal, sweep) map to the end of a login, the end of a
`load` to a use, and every late write to a stutter, which is `DeadKeysStayDead` and
`KeyKeepsItsSession` put to work. `RoutesAreRevocable` carries it to the crate.

**The routes** (`BffSessionProofs`). `BffImplementsStore`: `BffSpec => StoreSpec`,
every step of routes, browsers and provider is a step of the store's model or a
stutter. So the theorems about the store are theorems about the crate with its
handlers, and a refused callback leaves identity, login time and tokens alone.
With it `BffOneLoginPerCode` and `BffTyped` (no vector exceeds `MaxSlots`).
The invariant is `Safe`, the types and `OneLoginPerCode`: the end of a callback is
a login the store knows only if its tokens were never granted before, and this
holds because the exchange is redeemed once and nobody else is past it with the
same code. That slot vectors stay within their limit needs what `prune_expired`
and `take_matching` return for vectors of any length; the induction is done by
hand (`SetInduction` in `SelectionProofs`, from the well-foundedness of `<`), because
the provers cannot instantiate the library's induction over predicates.

**What the routes promise browsers** (`RouteProofs`).

- `RoutesExtractorAgrees` follows from types alone; the two lifetime checks are
  written differently and are the same for every instant, also a garbled one.
- `RoutesLoginInOwnBrowser`, `RoutesStepUpFresh` and `RoutesAttemptsExpire` share the
  invariant `OwnSafe`: a key is in one browser only, wherever it is (jar, answer,
  request), and every slot, in a row, in a request's copy or matched, is as that
  browser began it. A slot travels through rows and renewals written by other
  requests, so nothing weaker is inductive.
- `RoutesSlotsWellFormed`, for `LegacyHasNoSlots` (rows of an earlier version, which
  had no slots): vectors stay in the order in which their attempts were begun, so that
  eviction takes the oldest. The invariant adds that no attempt lies in the future.
- `RoutesRevokedTokensGo`, for `NoAborts`: from the revocation on, a request is there
  that will delete the row of those tokens and no other (`LogoutSafe`), and dead
  keys stay dead. A request cut off in between leaves revoked tokens in the
  row (last section but one).
- `RoutesStateSingleUse`, for `OneAtATime` (a browser's requests do not overlap),
  `NoAborts` and `DeletesSucceed`. The invariant is `SerialSafe`: each request runs with
  the cookie in the jar, and no closed attempt is in its hands or in a row its browser
  holds a key of, except a row it is about to overwrite or delete. Each hypothesis is
  needed: two overlapping callbacks both match the slot they read, and a request that
  is cut off, or whose delete fails, leaves the row with the slot it has consumed.
- `RoutesSlotsSurvive`, for `OneAtATime`, `NoFaults` and `LegacyHasNoSlots`. It needs two
  invariants. `SignedSafe`: whoever is signed in, in a row or a request's copy, is so by
  a login of that browser, with the time it was minted, so that a row which is cut
  short by the absolute lifetime is excused by a login that ended (`LifetimeEnded`).
  `KeptSafe`: the row of a handler that may still write it is there (`RowHeld`), and the
  slot of an awaited attempt is where the browser's request is (`SlotKept`): in the row
  of the key in the jar or in the answer, in the request's copy, or in the state about
  to be saved, each with an expiry that leaves the attempt its time or reaches the end
  of the login (`Lasting`). Pruning and matches for other attempts keep it
  (`RetainLosesNothing`). Eviction does not, and is where counting comes in: by
  `SlotsWellFormed` every slot behind it in a full vector is of a later attempt of the
  same browser, no two of the same one, so `MaxSlots` newer attempts have been begun
  (`PushKeepsAwaited`). Without the hypotheses it fails: an overlapping request writes a
  vector it read before (`bff_lost_slot`), a lost answer leaves the browser with the key
  of a deleted row, and a sweep that removes a row which expires while its handler
  runs makes `update` drop the write. `LifetimeEnded` looks at every earlier login of the
  browser: nothing is claimed for a browser once one of its logins has lasted
  `MaxLifetime`.

**The metadata cache** (`OidcRpProofs`). `RpSafety`: `Spec => []RpSafe`, and from it
`RpGuardIsGivenBack`, `RpAtMostTwoFetches`, `RpCacheAgeBounded`. That only one
scheduled refresh is on the network is a matter of time, because nothing is
locked during it: the clock is restarted before the fetch, and a fetch ends
before the TTL is over again. So the invariant bounds the age of every fetch
(`FetchesAreYoung`) and relates it to the clock; the bound is twice the
limit, one for the time until the provider has served the document and one for
the time until it is installed.

**The configuration** (`ConfigProofs`). `BuildIsDocumented`: for every builder, not
only those a run makes, a configuration that `build` returns has in every field
what its documentation says. Lemmas about `FirstError` (nothing is reported exactly
when every check passes) and about trimmed and filtered lists are shared with the
two modules below.

**One start** (`ServiceProofs`). `ServiceTyped`, `ServiceWiringsAgree`,
`ServiceRequestUnambiguous`, `ServiceMaxAgeAgrees`, `ServiceGuardNeverTrips`,
`ServiceLocationKeepsReturnTo`, `ServiceNoParamStarved`, `ServiceLogoutIsOwn`, for all
setter calls, login variants, targets, queries,
browsers and pages. The invariant `ServiceSafe` has what `build` left in the
configuration (`AsBuilt`), that nothing is served before startup is over, and that
the target in the slot is one login validated (`SlotSafe`). The request is unambiguous because the registered variants were
validated: their names are distinct in lower case and not reserved.
`ServiceLogoutIsOwn` compares two computations of an origin, by `build` and by the
check an application uses, and both with the page. `ServiceGuardNeverTrips` rests
on `ComposedIsSafe` in `ConfigProofs`, about `append_passthrough` for a target, a query
and an allowlist of any length: the bytes of strings put together add up
(`BytesJoin`), what the loop appends is within its budget and consists of tokens
that need no encoding (`AppendedIsPassable`), and inserting such tokens behind the
first character, in front of the fragment, makes no new `//`, `:/` or backslash
(`InsertKeepsPath`). The loops are recursive functions, and the induction is over
their argument (`Stepwise` in `SelectionProofs`). That the names on the allowlist are
such tokens is an assumption about the data (`WrittenAsToken` in
`ServiceAssumption`): a name of `[A-Za-z0-9_.-]+`, which is what `validate_param_name`
accepts, is one token without a delimiter, the same encoded and decoded, and two
names written alike are to `build` the same name.

`ServiceLocationKeepsReturnTo` and `ServiceNoParamStarved` read the composed target back:
its query is split into pairs, and the pairs are compared with those of `return_to`.
Both follow from `ComposedKeeps`, by an invariant of the loop over the allowlist that
has the pairs appended so far beside the string (`Packed` in `ServiceProofs`):

- the string, split at every `&`, is these pairs, and so it is behind any query and
  its `&` (`Assembled`; `SplitOfOne` and `SplitNext` say what one more pair does to a
  split, by induction over the length of the pair);
- each pair is of a name on offer at or before this place in the allowlist, and the
  names differ (`Chosen`, `Apart`; here `build` must have refused duplicates, which
  `AsBuilt` keeps);
- the bytes of the string and one joiner are what its pairs spend (`Weighs`), so a pair
  the budget refused did not fit in what earlier names had left (`Fair`). This is
  where a joiner counted once too often would show.

`PairIsRead` says that an encoded pair is read back as its name and value. It needs
that values of a decoded query consist of tokens which encoding and decoding give
back (`DecodedTokens` in `ServiceAssumption`), which is what `form_urlencoded` promises
of any string. `ComposedLands` puts the string where `append_passthrough` does, in front
of the fragment, behind `?` or `&`: the path ends at the same `?`, the fragment begins
at the same `#`, because no name and no encoded value has a `#`.

**Deployments** (`DeploymentProofs`). `DeploymentTyped`, `DeploymentIdentity` and
`DeploymentWithinLifetime` from `DeployInv`, for any releases `build` accepts, any
claims and any order of deployments: identity needs that a session records the
names of the claims it holds, so that a later release can scrub names it does
not know. The bound on the lifetime has two halves. Where the configuration is in
reach it is the configured one, by `Auth`, for every store. On other routes it is
that of the store, and claimed for `DbSessionStore` only: whoever is admitted was
loaded (`AcceptedWithinStore`). With `CookieSessionStore` nothing bounds the session
there, and nothing is claimed.
`DeploymentKeepsActiveUsers`, for `InTime`: in every release the post-auth
TTL is two ticks at least and longer than the coalescing window. `build` does not
check the second (see the observations above), so it is a hypothesis; the
instance of `deploy` satisfies it, which TLC evaluates. `StaysIn` is the invariant:
the row and the cookie of a user who came in every tick reach over the next one,
or to the shortest lifetime promised. A renewal that is not written leaves a row
that lasts longer than the window, which is where `InTime` is used.

**Only model-checked.**

- `KeysArrive`: liveness under fairness, which the prover does not reach.
- The four runs that end in a violation. `bff_lost_slot` shows `SlotsSurvive` violated
  by overlapping requests, that is without `OneAtATime`.

## What is not modelled

- Cryptography, token contents beyond subject, `auth_time`, key and claims;
  HttpOnly, Path and Secure of the cookie; response bodies, logging.
- A row the store cannot deserialize: rows are written by this crate only.
- The browser dropping a cookie by its Max-Age, in `BffSession`: it is the
  post-auth TTL counted from the answer, so the cookie outlives the row it names.
  (In `DbSessionStore` a request may come without a cookie at any time, and
  `Deployment` has the Max-Age.)
- In `Service`: time, overlapping requests, several slots, failed exchanges. These
  are the subject of `BffSession`; a request's contents do not depend on them.
- In `BffSession` and `Service`: an application that does not call `configure_app_data`
  at the App, as `README.md` asks for. `Deployment` has the others.
- In `Deployment`: overlapping requests, rows no cookie names, logout, and releases
  that change the cookie's name (from http to https), which begin every session
  anew. Instances of two releases that run side by side are not modelled either.
- Errors of the environment that no input provokes: the construction of the HTTP
  client in `OidcRp::discover`, a system clock before 1970.
- Concurrent use of one process's `OidcRp` and its sessions: they share no state,
  so `BffSession` lets a validation fail at will and `OidcRp` says when it does.
- The order in which two writes to one live row land: either may move the expiry back
  to the one computed first. Nothing is promised about it; the caps hold for both.
- A revocation that succeeds in a logout whose row is not deleted: the tokens
  stay in the row and are dead at the provider, which nothing in the crate notices.

## Plan

1. Done: store, routes, metadata cache; the store's invariant and the refinement
   of the store by the routes.
2. Done: the pure modules, `Service` over them, and `Deployment`: configuration,
   redirect targets, parameters, the same-origin check, releases that change
   claims, lifetimes and stores.
3. Done: proofs of the store's invariant, its caps and its refinement of
   `RevocableSessions`; the routes' promises; the metadata cache; `build`; one start with
   its redirect; deployments.
4. Done: what the redirect keeps and passes on, by lemmas about the pairs that `Split`
   finds in a query and in the same query with pairs appended.
5. Done: a state is good for one callback, and an awaited attempt keeps its slot, for
   browsers whose requests do not overlap.
