--------------------------- MODULE DbSessionStore ---------------------------
(***************************************************************************)
(* DbSessionStore over a SessionRepository, driven by the actix-session    *)
(* middleware for several concurrent requests.                             *)
(*                                                                         *)
(* Every await on the repository is a step of its own, so that requests    *)
(* sharing a key interleave wherever the code can be suspended; the code   *)
(* between two awaits runs with the step that ends the first.  The clock   *)
(* moves between any two steps: an expiry computed before an await is      *)
(* written after it.                                                       *)
(***************************************************************************)
EXTENDS SessionExpiry

CONSTANTS
  Requests,    \* slots for requests in flight, each a request at a time
  Keys,        \* session keys generate_session_key can return
  NoKey,       \* the request carries no usable session cookie
  NoRow,       \* the repository holds no row under a key
  Sliding,     \* session_expiry: TRUE for Sliding, FALSE for Fixed
  AppOps,      \* what applications do to the session besides the handlers
  Faults,      \* which of FaultNames can happen
  LegacyRows,  \* rows an earlier version of the crate may have left behind
  MaxNow       \* bound on the clock

FaultNames == {"abort", "deleteFails", "sweep"}

ASSUME StoreAssumption ==
  /\ NoKey \notin Keys
  /\ NoRow \notin [state : State, expiresAt : Instants]
  /\ None \notin State
  /\ Sliding \in BOOLEAN
  /\ AppOps \subseteq AppOpNames
  /\ Faults \subseteq FaultNames
  /\ MaxNow \in Nat
  /\ LegacyRows \subseteq
       {r \in [state : State, expiresAt : Instants] :
          HasSub(r.state) /\ r.state.loginAt = Missing /\ r.state.tok = NoTok}

VARIABLES
  now,      \* Utc::now() in ticks
  rows,     \* rows[k]: the SessionRecord stored under k, or NoRow
  birth,    \* birth[k]: the state k was first inserted with, or None (history)
  minted,   \* minted[t]: when the login that obtained t completed, or None (history)
  call      \* call[r]: what request r is doing

vars == <<now, rows, birth, minted, call>>

Row == [state : State, expiresAt : Instants]

\* Where a request can be suspended: at an await of the store ("get" ...
\* "touch"), between a record's arrival and its check, or in the handler.
Pcs == {"idle", "get", "check", "loadDelete", "handling", "save", "update",
        "deadDelete", "fallback", "renewDelete", "purgeDelete",
        "ttlGet", "ttlCheck", "ttlDelete", "touch"}

Call == [pc : Pcs, key : Keys \cup {NoKey}, state : State, exp : Instants \cup {None}]

Idle == [pc |-> "idle", key |-> NoKey, state |-> EmptyState, exp |-> None]

TypeOK ==
  /\ now \in Instants
  /\ rows \in [Keys -> Row \cup {NoRow}]
  /\ birth \in [Keys -> State \cup {None}]
  /\ minted \in [Tokens -> Instants \cup {None}]
  /\ call \in [Requests -> Call]

Issued(k) == birth[k] # None
FreshKeys == {k \in Keys : ~Issued(k)}

Init ==
  /\ now = 0
  /\ rows \in [Keys -> LegacyRows \cup {NoRow}]
  /\ birth = [k \in Keys |-> IF rows[k] = NoRow THEN None ELSE rows[k].state]
  /\ minted = [t \in Tokens |-> None]
  /\ call = [r \in Requests |-> Idle]

-----------------------------------------------------------------------------
(* Helpers of the actions. *)

Goto(r, pc, key, state, exp) ==
  call' = [call EXCEPT ![r] = [pc |-> pc, key |-> key, state |-> state, exp |-> exp]]

\* The store call returns (or fails): the middleware answers the request.
Return(r) == call' = [call EXCEPT ![r] = Idle]

\* load() gave the middleware no session: the key is discarded.
NoSession(r) == Goto(r, "handling", NoKey, EmptyState, None)

Delete(k) == rows' = [rows EXCEPT ![k] = NoRow]

\* A delete whose failure is only logged: the code carries on either way.
BestEffortDelete(k) ==
  \/ Delete(k)
  \/ "deleteFails" \in Faults /\ UNCHANGED rows

\* SessionRepository::get: a row whose expiry has passed may or may not be
\* filtered by the repository.
MayBeAbsent(k) == rows[k] # NoRow => rows[k].expiresAt <= now

\* save(): the marker is injected and the expiry computed before any I/O; the
\* insert follows.
StartSave(r, s) ==
  LET healed == InjectLoginAtIfMissing(s, now)
  IN  Goto(r, "save", NoKey, healed, EffectiveExpiry(healed, now))

\* Mutant: update() without the dead-session branch.
StartUpdate_NoDeadCheck(r, k, s) == Goto(r, "update", k, s, EffectiveExpiry(s, now))

\* Mutant: update() heals a missing login time as save() does.
StartUpdate_Heals(r, k, s) ==
  LET healed == InjectLoginAtIfMissing(s, now)
  IN  Goto(r, IF EffectiveExpiry(healed, now) = None THEN "deadDelete" ELSE "update",
           k, healed, EffectiveExpiry(healed, now))

\* update(): the expiry is computed before any I/O; a dead session is deleted
\* and never reaches repo.update().
StartUpdate(r, k, s) ==
  Goto(r, IF EffectiveExpiry(s, now) = None THEN "deadDelete" ELSE "update",
       k, s, EffectiveExpiry(s, now))

\* Mutant: the do-not-resurrect guard is gone.
MayReinsert_Always(s) == TRUE

\* Does a row that went missing under update() get re-inserted?  Not when the
\* state carries a token: logout is authoritative.
MayReinsert(s) == ~HasTokens(s)

-----------------------------------------------------------------------------
(* The middleware's load, before the handler. *)

\* A request arrives with a cookie naming a key the store once issued, or with
\* none.
Begin(r, k) ==
  /\ call[r].pc = "idle"
  /\ k = NoKey \/ (k \in Keys /\ Issued(k))
  /\ IF k = NoKey THEN NoSession(r) ELSE Goto(r, "get", k, EmptyState, None)
  /\ UNCHANGED <<now, rows, birth, minted>>

\* load(): repo.get.
LoadGet(r) ==
  LET k == call[r].key IN
  /\ call[r].pc = "get"
  /\ \/ MayBeAbsent(k) /\ NoSession(r)
     \/ rows[k] # NoRow /\ Goto(r, "check", k, rows[k].state, rows[k].expiresAt)
  /\ UNCHANGED <<now, rows, birth, minted>>

\* load(): expiry and absolute lifetime, against the clock of this moment.
LoadCheck(r) ==
  LET c == call[r] IN
  /\ c.pc = "check"
  /\ IF LoadAccepts(c.state, c.exp, now)
     THEN Goto(r, "handling", c.key, c.state, None)
     ELSE Goto(r, "loadDelete", c.key, EmptyState, None)
  /\ UNCHANGED <<now, rows, birth, minted>>

\* load(): best-effort delete of the dead row.
LoadDelete(r) ==
  /\ call[r].pc = "loadDelete"
  /\ BestEffortDelete(call[r].key)
  /\ NoSession(r)
  /\ UNCHANGED <<now, birth, minted>>

-----------------------------------------------------------------------------
(* The handler, seen from the store: what state and status it leaves.  The   *)
(* middleware then makes the store call that the status stands for.          *)

\* SessionStatus::Unchanged: nothing, or update_ttl under sliding expiry.
FinishUnchanged(r) ==
  IF call[r].key # NoKey /\ Sliding
  THEN Goto(r, "ttlGet", call[r].key, EmptyState, None)
  ELSE Return(r)

\* SessionStatus::Changed: save without a key (unless there is nothing to
\* save), update with one.
FinishChanged(r, s) ==
  IF call[r].key # NoKey
  THEN StartUpdate(r, call[r].key, s)
  ELSE IF s = EmptyState THEN Return(r) ELSE StartSave(r, s)

\* SessionStatus::Renewed: delete the old key, then save under a new one.
FinishRenewed(r, s) ==
  IF call[r].key # NoKey
  THEN Goto(r, "renewDelete", call[r].key, s, None)
  ELSE StartSave(r, s)

\* SessionStatus::Purged: delete the key.
FinishPurged(r) ==
  IF call[r].key # NoKey
  THEN Goto(r, "purgeDelete", call[r].key, EmptyState, None)
  ELSE Return(r)

HandleUnchanged(r) ==
  /\ call[r].pc = "handling"
  /\ FinishUnchanged(r)
  /\ UNCHANGED <<now, rows, birth, minted>>

\* An application handler, or the crate's bookkeeping in the other entries.
HandleChanged(r) ==
  /\ call[r].pc = "handling"
  /\ \E op \in AppOps : \E s \in AppResults(call[r].state, op) : FinishChanged(r, s)
  /\ UNCHANGED <<now, rows, birth, minted>>

\* Mutant: the key is not rotated at login.
HandleLogin_NoRenew(r) ==
  /\ call[r].pc = "handling"
  /\ \E t \in Tokens, u \in Subjects, x \in Rests :
       /\ minted[t] = None
       /\ minted' = [minted EXCEPT ![t] = now]
       /\ FinishChanged(r, LoggedIn([call[r].state EXCEPT !.rest = x], u, t, now))
  /\ UNCHANGED <<now, rows, birth>>

\* The end of a successful callback: tokens nobody has seen before, the time
\* of now, a new key (the other entries lose the pre-auth slot it consumed).
HandleLogin(r) ==
  /\ call[r].pc = "handling"
  /\ \E t \in Tokens, u \in Subjects, x \in Rests :
       /\ minted[t] = None
       /\ minted' = [minted EXCEPT ![t] = now]
       /\ FinishRenewed(r, LoggedIn([call[r].state EXCEPT !.rest = x], u, t, now))
  /\ UNCHANGED <<now, rows, birth>>

\* logout, and Auth::extract on a session past its lifetime.
HandlePurge(r) ==
  /\ call[r].pc = "handling"
  /\ FinishPurged(r)
  /\ UNCHANGED <<now, rows, birth, minted>>

-----------------------------------------------------------------------------
(* The middleware's write, after the handler. *)

\* repo.insert of save() and of update()'s fallback, under a key that was
\* never used.
Insert(r) ==
  LET c == call[r] IN
  /\ c.pc \in {"save", "fallback"}
  /\ c.exp # None
  /\ \E k \in FreshKeys :
       /\ rows' = [rows EXCEPT ![k] = [state |-> c.state, expiresAt |-> c.exp]]
       /\ birth' = [birth EXCEPT ![k] = c.state]
  /\ Return(r)
  /\ UNCHANGED <<now, minted>>

\* save() of a session that is already dead: an error, before any I/O.
SaveRefused(r) ==
  /\ call[r].pc = "save" /\ call[r].exp = None
  /\ Return(r)
  /\ UNCHANGED <<now, rows, birth, minted>>

\* Mutant: repo.update is an upsert.
UpdateRow_Upsert(r) ==
  /\ call[r].pc = "update"
  /\ rows' = [rows EXCEPT ![call[r].key] =
                [state |-> call[r].state, expiresAt |-> call[r].exp]]
  /\ Return(r)
  /\ UNCHANGED <<now, birth, minted>>

\* update(): repo.update, and the missing-row branches.
UpdateRow(r) ==
  LET c == call[r] IN
  /\ c.pc = "update"
  /\ IF rows[c.key] # NoRow
     THEN /\ rows' = [rows EXCEPT ![c.key] = [state |-> c.state, expiresAt |-> c.exp]]
          /\ Return(r)
     ELSE /\ UNCHANGED rows
          /\ IF MayReinsert(c.state)
             THEN Goto(r, "fallback", NoKey, c.state, FallbackExpiry(now))
             ELSE Return(r)
  /\ UNCHANGED <<now, birth, minted>>

\* update() of a dead session: best-effort delete, the stale key is returned.
DeadDelete(r) ==
  /\ call[r].pc = "deadDelete"
  /\ BestEffortDelete(call[r].key)
  /\ Return(r)
  /\ UNCHANGED <<now, birth, minted>>

\* A renewed session: delete() of the old key, then save().
RenewDelete(r) ==
  /\ call[r].pc = "renewDelete"
  /\ Delete(call[r].key)
  /\ StartSave(r, call[r].state)
  /\ UNCHANGED <<now, birth, minted>>

\* A purged session: delete().
PurgeDelete(r) ==
  /\ call[r].pc = "purgeDelete"
  /\ Delete(call[r].key)
  /\ Return(r)
  /\ UNCHANGED <<now, birth, minted>>

\* update_ttl(): repo.get; a missing row is never inserted.
TtlGet(r) ==
  LET k == call[r].key IN
  /\ call[r].pc = "ttlGet"
  /\ \/ MayBeAbsent(k) /\ Return(r)
     \/ rows[k] # NoRow /\ Goto(r, "ttlCheck", k, rows[k].state, rows[k].expiresAt)
  /\ UNCHANGED <<now, rows, birth, minted>>

\* update_ttl() steps (2) to (5).
TtlCheck(r) ==
  LET c == call[r]
      new == EffectiveExpiry(c.state, now)
  IN
  /\ c.pc = "ttlCheck"
  /\ IF c.exp <= now
     THEN Goto(r, "ttlDelete", c.key, EmptyState, None)
     ELSE IF ~HasSub(c.state) THEN Return(r)
     ELSE IF new = None THEN Goto(r, "ttlDelete", c.key, EmptyState, None)
     ELSE IF TouchNeeded(new, c.exp) THEN Goto(r, "touch", c.key, c.state, new)
     ELSE Return(r)
  /\ UNCHANGED <<now, rows, birth, minted>>

\* update_ttl(): best-effort delete of a dead row.
TtlDelete(r) ==
  /\ call[r].pc = "ttlDelete"
  /\ BestEffortDelete(call[r].key)
  /\ Return(r)
  /\ UNCHANGED <<now, birth, minted>>

\* Mutant: repo.touch is an upsert.
Touch_Upsert(r) ==
  /\ call[r].pc = "touch"
  /\ rows' = [rows EXCEPT ![call[r].key] =
                [state |-> call[r].state, expiresAt |-> call[r].exp]]
  /\ Return(r)
  /\ UNCHANGED <<now, birth, minted>>

\* update_ttl() step (6), repo.touch: UPDATE ... WHERE session_key = k AND
\* expires_at > NOW().
Touch(r) ==
  LET c == call[r] IN
  /\ c.pc = "touch"
  /\ rows' = IF rows[c.key] # NoRow /\ rows[c.key].expiresAt > now
             THEN [rows EXCEPT ![c.key].expiresAt = c.exp]
             ELSE rows
  /\ Return(r)
  /\ UNCHANGED <<now, birth, minted>>

-----------------------------------------------------------------------------
(* The environment. *)

\* A repository call fails, the client goes away and the future is dropped,
\* or the process dies: the request ends where it stands.  (A call that took
\* effect and then reported an error is the successful step followed by this
\* one.)
Abort(r) ==
  /\ "abort" \in Faults
  /\ call[r].pc # "idle"
  /\ Return(r)
  /\ UNCHANGED <<now, rows, birth, minted>>

\* The deployment's periodic clean-up of expired rows.
Sweep(k) ==
  /\ "sweep" \in Faults
  /\ rows[k] # NoRow /\ rows[k].expiresAt <= now
  /\ Delete(k)
  /\ UNCHANGED <<now, birth, minted, call>>

Tick ==
  /\ now < MaxNow
  /\ now' = now + 1
  /\ UNCHANGED <<rows, birth, minted, call>>

\* The steps a request takes by itself once the handler has decided.
StoreStep(r) ==
  \/ LoadGet(r)     \/ LoadCheck(r)  \/ LoadDelete(r)
  \/ Insert(r)      \/ SaveRefused(r)
  \/ UpdateRow(r)   \/ DeadDelete(r)
  \/ RenewDelete(r) \/ PurgeDelete(r)
  \/ TtlGet(r)      \/ TtlCheck(r)   \/ TtlDelete(r) \/ Touch(r)

HandlerStep(r) ==
  HandleUnchanged(r) \/ HandleChanged(r) \/ HandleLogin(r) \/ HandlePurge(r)

Next ==
  \/ \E r \in Requests :
       \/ \E k \in Keys \cup {NoKey} : Begin(r, k)
       \/ StoreStep(r) \/ HandlerStep(r) \/ Abort(r)
  \/ \E k \in Keys : Sweep(k)
  \/ Tick

Spec == Init /\ [][Next]_vars

-----------------------------------------------------------------------------
(* What the store promises. *)

\* s is what is left of a session that was born as b: nobody's identity but
\* b's, no login time but b's, no tokens but b's.
Descends(s, b) ==
  /\ s.sub \in {b.sub, NoSub}
  /\ s.loginAt \in {b.loginAt, Missing, Garbled}
  /\ s.tok \in {b.tok, NoTok}

\* A session key stands for one session for as long as it exists: a row born
\* anonymous is never authenticated in place (fixation), and no interleaving of
\* stale writes puts one login's identity, login time or tokens under another
\* login's key.  update(), update_ttl() and the renew path of the middleware.
KeyKeepsItsSession ==
  \A k \in Keys : rows[k] # NoRow => Issued(k) /\ Descends(rows[k].state, birth[k])

\* One login has one key: its tokens are never inserted a second time, so
\* deleting that key's row revokes the login.  The do-not-resurrect guard of
\* update()'s missing-row fallback (state_has_tokens).
OneKeyPerLogin ==
  \A j, k \in Keys :
    Issued(j) /\ Issued(k) /\ HasTokens(birth[j]) /\ birth[j].tok = birth[k].tok => j = k

\* The absolute lifetime: whatever requests race, no row that is signed in and
\* holds tokens is stored with an expiry past login + MaxLifetime, although the
\* expiry is computed before the await and written after it, and touch() writes
\* an expiry computed from a record read two awaits earlier.
LifetimeCapped ==
  \A k \in Keys :
    rows[k] # NoRow /\ HasSub(rows[k].state) /\ HasTokens(rows[k].state) =>
      /\ rows[k].state.loginAt \in Instants
      /\ rows[k].expiresAt <= rows[k].state.loginAt + MaxLifetime

\* The pre-auth cap: no anonymous row outlives the pre-auth TTL counted from
\* now, however it was written (save, update, the fallback) and although renewal
\* runs for every unchanged request under sliding expiry.
AnonymousCapped ==
  \A k \in Keys :
    rows[k] # NoRow /\ ~HasSub(rows[k].state) =>
      rows[k].expiresAt <= now + AtMost(PostAuthTtl, PreAuthTtl)

\* Logout is authoritative for the key: once the row of a used key is gone, by
\* purge, renewal, expiry or clean-up, nothing in flight brings it back.  In
\* particular update() of a missing row inserts under a new key only, and
\* touch() inserts nothing.
DeadKeysStayDead ==
  [][\A k \in Keys : Issued(k) /\ rows[k] = NoRow => rows'[k] = NoRow]_vars

\* A login that was purged stays signed out: what the missing-row fallback of
\* update() inserts under a new key is never signed in.  (Token-free is what the
\* guard tests; anonymous is what its comment says.)
FallbackIsAnonymous ==
  \A r \in Requests : call[r].pc = "fallback" => ~HasSub(call[r].state)

-----------------------------------------------------------------------------
(* The abstract specification, and the mapping onto it: a login is the set   *)
(* of tokens it obtained, it is live while the row it was born in exists.    *)

HomeOf(t) == {k \in Keys : Issued(k) /\ birth[k].tok = t}

LoginStatus ==
  [t \in Tokens |->
     IF HomeOf(t) = {} THEN "pending"
     ELSE IF \E k \in HomeOf(t) : rows[k] # NoRow THEN "live" ELSE "ended"]

\* What a request has fetched with load() and what its handler runs with.
Fetched ==
  [r \in Requests |->
     IF call[r].pc = "check" /\ HasSub(call[r].state) THEN call[r].state.tok ELSE NoTok]
InUse ==
  [r \in Requests |->
     IF call[r].pc = "handling" /\ HasSub(call[r].state) THEN call[r].state.tok ELSE NoTok]

Revocable == INSTANCE RevocableSessions WITH
  clock <- now, since <- minted, status <- LoginStatus, view <- Fetched, using <- InUse

\* The store implements revocable sessions: no interleaving of requests, no
\* failure and no late write revives a login that ended, and no handler runs
\* with a login that was over, or past its lifetime, before it was let in.
RevocableSpec == Revocable!Spec

-----------------------------------------------------------------------------
(* The inductive invariant behind the safety properties. *)

\* Where a request works for a key, and where it works with what the row of
\* that key held when it was read.
KeyPcs == {"get", "check", "loadDelete", "update", "deadDelete", "renewDelete",
           "purgeDelete", "ttlGet", "ttlCheck", "ttlDelete", "touch"}
CopyPcs == {"check", "handling", "update", "deadDelete", "ttlCheck", "touch"}

\* A key in use was issued, and a copy of its row descends from the same birth.
CopyDescends(c) ==
  /\ c.pc \in KeyPcs => c.key \in Keys
  /\ c.key # NoKey => Issued(c.key)
  /\ c.key # NoKey /\ c.pc \in CopyPcs => Descends(c.state, birth[c.key])
  /\ c.key = NoKey /\ c.pc = "handling" => c.state = EmptyState

\* Tokens about to be saved are those of a login just granted: signed in at the
\* time it was granted, and under no key yet.
Unsaved(c) == c.pc \in {"renewDelete", "save"} /\ HasTokens(c.state)

PendingLogin(c) ==
  /\ Unsaved(c) =>
       /\ HasSub(c.state)
       /\ minted[c.state.tok] # None
       /\ c.state.loginAt = minted[c.state.tok]
       /\ \A k \in Keys : Issued(k) => birth[k].tok # c.state.tok
  /\ c.pc = "fallback" => ~HasTokens(c.state)

\* An expiry on its way to the repository respects the lifetime of the state it
\* was computed from.
PendingCapped(c) ==
  /\ c.pc \in {"save", "update", "touch"} /\ c.exp # None /\ HasSub(c.state) =>
       /\ c.state.loginAt \in Instants
       /\ c.exp <= c.state.loginAt + MaxLifetime
  /\ c.pc \in {"update", "touch", "fallback", "check", "ttlCheck"} => c.exp # None
  /\ c.pc = "touch" => HasSub(c.state)

CallSafe(c) == CopyDescends(c) /\ PendingLogin(c) /\ PendingCapped(c)

\* No two requests are about to save the same login.
PendingDistinct ==
  \A q, r \in Requests :
    Unsaved(call[q]) /\ Unsaved(call[r]) /\ call[q].state.tok = call[r].state.tok => q = r

\* A key born with tokens was born signed in, at the time its login was granted.
BirthsAreLogins ==
  \A k \in Keys :
    Issued(k) /\ HasTokens(birth[k]) =>
      /\ HasSub(birth[k])
      /\ minted[birth[k].tok] # None
      /\ birth[k].loginAt = minted[birth[k].tok]

Safe ==
  /\ TypeOK
  /\ KeyKeepsItsSession
  /\ OneKeyPerLogin
  /\ LifetimeCapped
  /\ BirthsAreLogins
  /\ PendingDistinct
  /\ \A r \in Requests : CallSafe(call[r])

(* Two more, which depend on what applications do to their sessions.         *)

\* An expiry on its way to an anonymous row respects the cap on such rows.
PendingAnonymous ==
  \A r \in Requests :
    LET c == call[r] IN
    c.pc \in {"save", "update", "fallback"} /\ c.exp # None /\ ~HasSub(c.state) =>
      c.exp <= now + AtMost(PostAuthTtl, PreAuthTtl)

\* Renewal computes an expiry from a copy of the row: there is no renewal, or the
\* copy and the row are as signed in as the session was born.
RenewalKnowsWhom ==
  IF Sliding
  THEN /\ \A k \in Keys : rows[k] # NoRow => rows[k].state.sub = birth[k].sub
       /\ \A r \in Requests :
            call[r].key # NoKey /\ call[r].pc \in CopyPcs =>
              call[r].state.sub = birth[call[r].key].sub
  ELSE \A r \in Requests : call[r].pc \notin {"ttlGet", "ttlCheck", "touch"}

CapSafe == AnonymousCapped /\ PendingAnonymous /\ RenewalKnowsWhom

\* Who is signed in without tokens has no login time either: a row of an earlier
\* version of the crate, which is dead.
Whole(s) == HasSub(s) /\ ~HasTokens(s) => s.loginAt \notin Instants

WholeSafe ==
  /\ \A k \in Keys : rows[k] # NoRow => Whole(rows[k].state)
  /\ \A r \in Requests :
       /\ Whole(call[r].state)
       /\ call[r].pc = "renewDelete" => HasTokens(call[r].state)
  /\ FallbackIsAnonymous
=============================================================================
