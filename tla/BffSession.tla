----------------------------- MODULE BffSession -----------------------------
(***************************************************************************)
(* The four routes (login and its variants, callback, logout, me) over     *)
(* DbSessionStore, with the browsers that hold the session cookies and the *)
(* identity provider the handlers await.                                   *)
(*                                                                         *)
(* An attempt is one trip to the provider.  Its `state`, nonce and PKCE    *)
(* secret are fresh random values, and so are the tokens it may obtain:    *)
(* one member of Tokens stands for them all.  The entry "oidc_pre_auth" of *)
(* the session, its other entries in DbSessionStore, is the vector of slots*)
(* of the attempts under way.  A handler works on the state load() gave it *)
(* and writes it back when it ends, however long its awaits took.          *)
(***************************************************************************)
EXTENDS DbSessionStore, Selection, FiniteSets

CONSTANTS
  Browsers,    \* user agents, each with one cookie jar
  Owner,       \* Owner[r]: the browser that uses request slot r
  StepUps,     \* the login routes there are: FALSE plain, TRUE require_auth_within
  MaxSlots,    \* PRE_AUTH_MAX_SLOTS
  MaxAge,      \* require_auth_within of the step-up login route
  AuthSkew,    \* AUTH_TIME_SKEW_SECS
  AuthTimes,   \* auth_time claims the provider may make; None: no such claim
  Nothing      \* no answer under way, or an answer that sets no cookie

Slot == [attempt : Tokens, started : 0..MaxNow, stepUp : StepUps]
SlotVectors == UNION {[1..n -> Slot] : n \in 0..MaxSlots}

ASSUME FlowAssumption ==
  /\ Owner \in [Requests -> Browsers]
  /\ StepUps \subseteq BOOLEAN
  /\ MaxSlots \in Nat \ {0}
  /\ MaxAge \in Nat /\ AuthSkew \in Nat
  /\ AuthTimes \subseteq Instants \cup {None}
  /\ None \notin [sub : Subjects, authAt : AuthTimes]
  /\ Nothing \notin Keys \cup {NoKey}
  /\ NoRest \notin SlotVectors
  /\ Rests = {NoRest} \cup SlotVectors
  /\ "rest" \in AppOps  \* the handlers write their slots

VARIABLES
  jar,        \* jar[b]: the session cookie of browser b
  reply,      \* reply[r]: the Set-Cookie on its way back: a key, or NoKey to delete it
  flow,       \* flow[r]: where its handler is suspended
  opened,     \* the attempts begun so far, in order (history)
  closed,     \* attempts a callback has closed or a purge thrown away (history)
  answer,     \* answer[a]: whom the provider authenticated, or None
  redeemed,   \* attempts whose authorization code was exchanged
  revoked     \* tokens revoked at the provider

storeVars == <<now, rows, birth, minted>>
idpVars == <<answer, redeemed, revoked>>
bffVars == <<vars, jar, reply, flow, opened, closed, idpVars>>

\* A handler is suspended in the callback at the code exchange, or past it until
\* the token is validated; in logout, before or after revocation.
FlowPcs == {"none", "exchange", "verify", "revoke", "revoked"}
NoFlow == [at |-> "none", slot |-> None, rest |-> NoRest, code |-> NoTok]
Flow ==
  [at : FlowPcs, slot : Slot \cup {None}, rest : Rests, code : Tokens \cup {NoTok}]

BffTypeOK ==
  /\ TypeOK
  /\ jar \in [Browsers -> Keys \cup {NoKey}]
  /\ reply \in [Requests -> Keys \cup {NoKey, Nothing}]
  /\ flow \in [Requests -> Flow]
  /\ opened \in Seq([attempt : Tokens, by : Browsers, at : Instants, stepUp : BOOLEAN,
                      as : Subjects \cup {NoSub}])
  /\ closed \subseteq Tokens /\ redeemed \subseteq Tokens /\ revoked \subseteq Tokens
  /\ answer \in [Tokens -> [sub : Subjects, authAt : AuthTimes] \cup {None}]

BffInit ==
  /\ Init
  /\ jar = [b \in Browsers |-> NoKey]
  /\ reply = [r \in Requests |-> Nothing]
  /\ flow = [r \in Requests |-> NoFlow]
  /\ opened = << >>
  /\ closed = {}
  /\ answer = [a \in Tokens |-> None]
  /\ redeemed = {} /\ revoked = {}

-----------------------------------------------------------------------------
(* The slots of session_state.rs. *)

SlotsOf(s) == IF s.rest = NoRest THEN << >> ELSE s.rest

\* Mutant: nothing is pruned.
LiveSlots_All(s) == SlotsOf(s)

\* prune_expired, of the entries the handler removed from the session.
LiveSlots(s) ==
  Retain(SlotsOf(s), {e \in Slot : now - e.started \in 0..PreAuthTtl})

\* Mutant: the new slot goes to the front, where eviction takes place.
PushPreAuth_Front(v, slot) ==
  <<slot>> \o SubSeq(v, IF Len(v) < MaxSlots THEN 1 ELSE Len(v) - MaxSlots + 2, Len(v))

\* Mutant: no slot is evicted.
PushPreAuth_NoEviction(v, slot) == Append(v, slot)

\* push_pre_auth: the oldest slots make room.
PushPreAuth(v, slot) ==
  Append(SubSeq(v, IF Len(v) < MaxSlots THEN 1 ELSE Len(v) - MaxSlots + 2, Len(v)), slot)

\* take_matching: the slots of attempt a in v, and the vector without them
\* (fresh states make the first match the only one).
Matching(v, a) == {v[i] : i \in {j \in DOMAIN v : v[j].attempt = a}}
Without(v, a) == Retain(v, {e \in Slot : e.attempt # a})

WithSlots(s, v) == [s EXCEPT !.rest = v]

\* Purging the session throws its slots away.
AttemptsIn(v) == {v[i].attempt : i \in DOMAIN v}
Discard(r) == closed' = closed \cup AttemptsIn(SlotsOf(call[r].state))

-----------------------------------------------------------------------------
(* Browsers. *)

Attempts == {opened[i].attempt : i \in 1..Len(opened)}

\* Set-Cookie of the answer to request r, if this step of the store ends it.
SetCookie(r) ==
  IF call'[r].pc # "idle" THEN Nothing
  ELSE IF birth' # birth THEN CHOOSE k \in Keys : birth'[k] # birth[k]
  ELSE IF call[r].pc = "purgeDelete" THEN NoKey
  ELSE IF call[r].pc \in {"update", "deadDelete", "ttlGet", "ttlCheck", "ttlDelete", "touch"}
       THEN call[r].key
  ELSE Nothing

\* A browser sends a request with the cookie it has; the request slot is taken
\* until the answer arrived.
Send(r) ==
  /\ reply[r] = Nothing
  /\ Begin(r, jar[Owner[r]])
  /\ UNCHANGED <<jar, reply, flow, opened, closed, idpVars>>

\* The answer arrives; answers to one browser may overtake each other.
Deliver(r) ==
  /\ reply[r] # Nothing
  /\ jar' = [jar EXCEPT ![Owner[r]] = reply[r]]
  /\ reply' = [reply EXCEPT ![r] = Nothing]
  /\ UNCHANGED <<vars, flow, opened, closed, idpVars>>

\* The provider authenticates somebody for an attempt, now or in an SSO session
\* that began earlier.
Authenticate(a) ==
  /\ a \in Attempts /\ answer[a] = None
  /\ \E u \in Subjects, t \in AuthTimes :
       answer' = [answer EXCEPT ![a] = [sub |-> u, authAt |-> t]]
  /\ UNCHANGED <<vars, jar, reply, flow, opened, closed, redeemed, revoked>>
-----------------------------------------------------------------------------
(* The handlers.  Each ends with the session status that the store model     *)
(* knows: unchanged, changed, renewed or purged.                             *)

Ready(r) == call[r].pc = "handling" /\ flow[r] = NoFlow

\* The handler returns; the middleware goes on from here.
Ends(r) == flow' = [flow EXCEPT ![r] = NoFlow] /\ UNCHANGED reply

Suspend(r, at, slot, rest, code) ==
  flow' = [flow EXCEPT ![r] = [at |-> at, slot |-> slot, rest |-> rest, code |-> code]]

\* login_impl, for the plain route and for a step-up variant: a slot for a new
\* attempt goes into the session, with nothing of the session it belongs to.
Login(r, a, stepUp) ==
  LET slot == [attempt |-> a, started |-> now, stepUp |-> stepUp]
      s == call[r].state
  IN
  /\ Ready(r)
  /\ a \notin Attempts
  /\ FinishChanged(r, WithSlots(s, PushPreAuth(LiveSlots(s), slot)))
  /\ opened' =
       Append(opened, [attempt |-> a, by |-> Owner[r], at |-> now, stepUp |-> stepUp,
                      as |-> s.sub])
  /\ Ends(r)
  /\ UNCHANGED <<storeVars, jar, closed, idpVars>>

\* Mutant: a callback without code or state does not write the slots back.
CallbackStray_Drops(r) ==
  /\ Ready(r)
  /\ FinishChanged(r, WithSlots(call[r].state, << >>))
  /\ Ends(r)
  /\ UNCHANGED <<storeVars, jar, opened, closed, idpVars>>

\* callback: an error without state, no code or state, or a state that matches
\* no slot.  The slots are written back and the request is refused.
CallbackStray(r) ==
  /\ Ready(r)
  /\ FinishChanged(r, WithSlots(call[r].state, LiveSlots(call[r].state)))
  /\ Ends(r)
  /\ UNCHANGED <<storeVars, jar, opened, closed, idpVars>>

\* callback: the provider signalled an error for attempt a.
CallbackError(r, a) ==
  LET v == LiveSlots(call[r].state) IN
  /\ Ready(r)
  /\ Matching(v, a) # {}
  /\ FinishChanged(r, WithSlots(call[r].state, Without(v, a)))
  /\ closed' = closed \cup {a}
  /\ Ends(r)
  /\ UNCHANGED <<storeVars, jar, opened, idpVars>>

\* callback: code and state, with a slot that matches; on to the exchange.
CallbackStart(r, a, code) ==
  LET v == LiveSlots(call[r].state) IN
  /\ Ready(r)
  /\ \E slot \in Matching(v, a) : Suspend(r, "exchange", slot, Without(v, a), code)
  /\ closed' = closed \cup {a}
  /\ UNCHANGED <<vars, jar, reply, opened, idpVars>>

\* Mutant: the verifier and the nonce of the slot are not used.
Bound_Not(slot, code) == TRUE

\* Is the code that of the slot's own attempt?  The provider compares the PKCE
\* verifier, the callback the nonce.
Bound(slot, code) == slot.attempt = code

\* Mutant: the callback goes on although the exchange failed.
Exchange_Unchecked(r) ==
  LET f == flow[r] IN
  /\ f.at = "exchange"
  /\ answer[f.code] # None
  /\ Suspend(r, "verify", f.slot, f.rest, f.code)
  /\ UNCHANGED <<vars, jar, reply, opened, closed, idpVars>>

\* The provider exchanges a code once, for whoever proves to have asked for it.
Exchange(r) ==
  LET f == flow[r] IN
  /\ f.at = "exchange"
  /\ answer[f.code] # None /\ f.code \notin redeemed
  /\ Bound(f.slot, f.code)
  /\ redeemed' = redeemed \cup {f.code}
  /\ Suspend(r, "verify", f.slot, f.rest, f.code)
  /\ UNCHANGED <<vars, jar, reply, opened, closed, answer, revoked>>

\* Mutant: a token that does not say when the user authenticated is accepted.
AuthFresh_FailsOpen(authAt, started) ==
  authAt # None => started - authAt <= MaxAge + AuthSkew /\ authAt - now <= AuthSkew

\* verify_auth_freshness: the age is measured at the authorization request.
AuthFresh(authAt, started) ==
  /\ authAt # None
  /\ started - authAt <= MaxAge + AuthSkew
  /\ authAt - now <= AuthSkew

\* Step (8): a step-up is fresh, and of the subject the session holds.
StepUpHolds(slot, who, s) ==
  slot.stepUp => AuthFresh(who.authAt, slot.started) /\ s.sub \in {NoSub, who.sub}

\* Mutant: a callback that fails after the match keeps its slot.
CallbackFail_KeepsSlot(r) ==
  /\ flow[r].at \in {"exchange", "verify"}
  /\ FinishChanged(r, WithSlots(call[r].state, LiveSlots(call[r].state)))
  /\ Ends(r)
  /\ UNCHANGED <<storeVars, jar, opened, closed, idpVars>>

\* callback: the exchange, the validation (also after the forced refresh of the
\* keys) or the step-up check fails.  The session keeps all but the slot.
CallbackFail(r) ==
  /\ flow[r].at \in {"exchange", "verify"}
  /\ FinishChanged(r, WithSlots(call[r].state, flow[r].rest))
  /\ Ends(r)
  /\ UNCHANGED <<storeVars, jar, opened, closed, idpVars>>

\* Mutant: the login time is not stamped, the one of the previous login stays.
CallbackFinish_KeepsLoginAt(r) ==
  LET f == flow[r]
      s == WithSlots(call[r].state, f.rest)
  IN
  /\ f.at = "verify"
  /\ StepUpHolds(f.slot, answer[f.code], call[r].state)
  /\ minted' = [minted EXCEPT ![f.code] = now]
  /\ FinishRenewed(r, LoggedIn(s, answer[f.code].sub, f.code, s.loginAt))
  /\ Ends(r)
  /\ UNCHANGED <<now, rows, birth, jar, opened, closed, idpVars>>

\* callback: the token is valid; the session gets a new key and a new login.
CallbackFinish(r) ==
  LET f == flow[r]
      s == WithSlots(call[r].state, f.rest)
  IN
  /\ f.at = "verify"
  /\ StepUpHolds(f.slot, answer[f.code], call[r].state)
  /\ minted' = [minted EXCEPT ![f.code] = now]
  /\ FinishRenewed(r, LoggedIn(s, answer[f.code].sub, f.code, now))
  /\ Ends(r)
  /\ UNCHANGED <<now, rows, birth, jar, opened, closed, idpVars>>

\* logout: the tokens are read, then the provider is awaited.
LogoutStart(r) ==
  /\ Ready(r)
  /\ Suspend(r, "revoke", None, NoRest, call[r].state.tok)
  /\ UNCHANGED <<vars, jar, reply, opened, closed, idpVars>>

\* revoke_best_effort, when there is an endpoint, a token and an answer.
Revoke(r) ==
  /\ flow[r].at = "revoke" /\ flow[r].code # NoTok
  /\ revoked' = revoked \cup {flow[r].code}
  /\ Suspend(r, "revoked", None, NoRest, flow[r].code)
  /\ UNCHANGED <<vars, jar, reply, opened, closed, answer, redeemed>>

\* logout: revoked or not, the session is purged.
LogoutFinish(r) ==
  /\ flow[r].at \in {"revoke", "revoked"}
  /\ FinishPurged(r)
  /\ Discard(r)
  /\ Ends(r)
  /\ UNCHANGED <<storeVars, jar, opened, idpVars>>

\* Mutant: the extractor accepts a session in its last instant.
LifetimeOver_Late(s) ==
  \/ s.loginAt \in {Missing, Garbled}
  \/ s.loginAt > now + FutureSkew
  \/ MaxLifetime + s.loginAt < now

\* Auth::extract: is the session past its absolute lifetime?
LifetimeOver(s) ==
  \/ s.loginAt \in {Missing, Garbled}
  \/ s.loginAt > now + FutureSkew
  \/ MaxLifetime + s.loginAt <= now

\* me, or any handler that takes the Auth extractor: a session past its
\* lifetime is purged, every other one left alone.
Me(r) ==
  /\ Ready(r)
  /\ IF HasSub(call[r].state) /\ LifetimeOver(call[r].state)
     THEN FinishPurged(r) /\ Discard(r)
     ELSE FinishUnchanged(r) /\ UNCHANGED closed
  /\ Ends(r)
  /\ UNCHANGED <<storeVars, jar, opened, idpVars>>

-----------------------------------------------------------------------------
(* The rest of the system. *)

\* The steps of the store; the last one sends the answer.
Serve(r) ==
  /\ StoreStep(r)
  /\ reply' = [reply EXCEPT ![r] = SetCookie(r)]
  /\ UNCHANGED <<jar, flow, opened, closed, idpVars>>

\* The request ends where it stands, or its answer is lost.
CutOff(r) ==
  /\ \/ Abort(r) /\ UNCHANGED reply
     \/ "abort" \in Faults /\ reply[r] # Nothing
        /\ reply' = [reply EXCEPT ![r] = Nothing] /\ UNCHANGED vars
  /\ flow' = [flow EXCEPT ![r] = NoFlow]
  /\ UNCHANGED <<jar, opened, closed, idpVars>>

Environment ==
  /\ Tick \/ \E k \in Keys : Sweep(k)
  /\ UNCHANGED <<jar, reply, flow, opened, closed, idpVars>>

Handler(r) ==
  \/ \E a \in Tokens :
       \/ \E up \in StepUps : Login(r, a, up)
       \/ CallbackError(r, a)
       \/ \E code \in Attempts : CallbackStart(r, a, code)
  \/ CallbackStray(r) \/ Exchange(r) \/ CallbackFail(r) \/ CallbackFinish(r)
  \/ LogoutStart(r) \/ Revoke(r) \/ LogoutFinish(r)
  \/ Me(r)

BffNext ==
  \/ \E r \in Requests : Send(r) \/ Handler(r) \/ Serve(r) \/ Deliver(r) \/ CutOff(r)
  \/ \E a \in Tokens : Authenticate(a)
  \/ Environment

BffSpec == BffInit /\ [][BffNext]_bffVars

-----------------------------------------------------------------------------
(* What the routes promise. *)

\* The routes do to a session only what the store was verified against: with
\* all their awaits, every handler ends as unchanged, as a change of the slots
\* alone, as a purge, or as one new login under a new key.  In particular a
\* callback that is refused (provider error, failed exchange, failed validation,
\* failed step-up) leaves identity, login time and tokens as they were.
StoreSpec == Spec

\* Attempt a was begun before attempt b.
BegunBefore(a, b) ==
  \E m, n \in 1..Len(opened) : m < n /\ opened[m].attempt = a /\ opened[n].attempt = b

\* The slot vectors of every row and of every handler: a slot tells when and how
\* its attempt was begun, an attempt has one slot, and the oldest comes first, so
\* that FIFO eviction drops the oldest although handlers write whole vectors that
\* they read before other handlers wrote theirs.
VectorOK(v) ==
  /\ \A i, j \in 1..Len(v) :
       i < j => /\ v[i].started <= v[j].started /\ v[i].attempt # v[j].attempt
                /\ BegunBefore(v[i].attempt, v[j].attempt)
  /\ \A i \in 1..Len(v) : \E n \in 1..Len(opened) :
       opened[n].attempt = v[i].attempt /\ opened[n].stepUp = v[i].stepUp

SlotsWellFormed ==
  /\ \A k \in Keys : rows[k] # NoRow => VectorOK(SlotsOf(rows[k].state))
  /\ \A r \in Requests : VectorOK(SlotsOf(call[r].state)) /\ VectorOK(SlotsOf(flow[r]))

\* A code makes one login: from the exchange to the end of the callback only one
\* handler works with it, for whom the provider named, and no login has come of it
\* yet.  With what a suspended handler and a cookie may refer to, this is what
\* makes every end of a callback a login the store model knows.
FlowOK(r) ==
  LET f == flow[r] IN
  /\ f.at # "none" => call[r].pc = "handling"
  /\ f.at \in {"exchange", "verify"} => f.code \in Tokens
  /\ f.at = "verify" =>
       /\ f.code \in redeemed /\ answer[f.code] # None
       /\ minted[f.code] = None
       /\ \A q \in Requests : flow[q].at = "verify" /\ flow[q].code = f.code => q = r

OneLoginPerCode ==
  /\ now <= MaxNow
  /\ \A b \in Browsers : jar[b] # NoKey => Issued(jar[b])
  /\ \A r \in Requests : reply[r] \in Keys => Issued(reply[r])
  /\ \A r \in Requests : FlowOK(r)
  /\ \A t \in Tokens : minted[t] # None => t \in redeemed

\* Nobody is signed in by an attempt somebody else began: the key of a login is
\* held by, or on its way to, the browser that began the attempt, whatever codes
\* and states are presented to the callback.  The slot in the session, the PKCE
\* verifier and the nonce bind the code to it.
BeganBy(a, b) == \E i \in 1..Len(opened) : opened[i].attempt = a /\ opened[i].by = b

LoginInOwnBrowser ==
  \A k \in Keys : Issued(k) /\ HasTokens(birth[k]) =>
    /\ \A b \in Browsers : jar[b] = k => BeganBy(birth[k].tok, b)
    /\ \A r \in Requests : reply[r] = k => BeganBy(birth[k].tok, Owner[r])

\* While logout revokes the tokens it still needs the session; afterwards no
\* session holds them, although requests that loaded it before the logout write
\* theirs back later.
RevokedTokensGo ==
  \A k \in Keys :
    rows[k] # NoRow /\ rows[k].state.tok \in revoked =>
      \E r \in Requests :
        call[r].key = k /\ (flow[r].at = "revoked" \/ call[r].pc = "purgeDelete")

\* The extractor and the store agree on which sessions are over, in every state
\* a handler can see (LOGIN_AT_FUTURE_SKEW_SECS: "they must agree on the edge
\* cases").
ExtractorAgrees ==
  \A r \in Requests :
    HasSub(call[r].state) =>
      (LifetimeOver(call[r].state) <=> HardCapExpiry(call[r].state, now) = None)

\* Nothing is under way between browser b and the server.
Quiet(b) == \A r \in Requests : Owner[r] = b => call[r] = Idle /\ reply[r] = Nothing

\* The number of attempts browser b began after the i-th attempt.
Later(i, b) == Cardinality({j \in (i + 1)..Len(opened) : opened[j].by = b})

\* A login of browser b has come to the end of its absolute lifetime.
LifetimeEnded(b) ==
  \E t \in Tokens : BeganBy(t, b) /\ minted[t] # None /\ minted[t] + MaxLifetime <= now

\* Nothing has ended the i-th attempt yet: no callback or logout, no MaxSlots newer
\* ones, neither its time nor the lifetime of the session it would be in.
Awaited(i) ==
  LET o == opened[i] IN
  /\ o.attempt \notin closed /\ Later(i, o.by) < MaxSlots
  /\ now - o.at < AtMost(PostAuthTtl, PreAuthTtl) /\ ~LifetimeEnded(o.by)

\* A login attempt can be completed for as long as it may take (pre_auth_ttl): until
\* its callback arrives, MaxSlots newer attempts push it out, the browser logs out or
\* its login is over, its slot is in the session of its browser, across failed
\* callbacks, stray ones, logins by other tabs and renewals of the row it is in.
SlotsSurvive ==
  \A i \in 1..Len(opened) :
    LET o == opened[i] IN
    Quiet(o.by) /\ Awaited(i) =>
      /\ jar[o.by] \in Keys /\ rows[jar[o.by]] # NoRow
      /\ o.attempt \in AttemptsIn(SlotsOf(rows[jar[o.by]].state))

\* `state` is single-use: a callback never finds the slot of an attempt that an
\* earlier callback matched, or that was thrown away with its session.
StateSingleUse ==
  [][\A r \in Requests :
       flow'[r].at = "exchange" /\ flow[r].at # "exchange" =>
         flow'[r].slot.attempt \notin closed]_bffVars

\* An attempt can be completed only for so long: the callback goes on with a slot
\* at most PreAuthTtl after the login route was called, whatever rows and renewals
\* have carried the slot since.
AttemptsExpire ==
  [][\A r \in Requests :
       flow'[r].at = "exchange" /\ flow[r].at # "exchange" =>
         \E i \in 1..Len(opened) :
           /\ opened[i].attempt = flow'[r].slot.attempt
           /\ now - opened[i].at <= PreAuthTtl]_bffVars

\* A completed step-up had its evidence: the provider said when the user
\* authenticated, which was recent when the attempt was begun (whatever requests
\* carried its slot from there to the callback), and not in the future.
StepUpFresh ==
  \A k \in Keys, i \in 1..Len(opened) :
    (Issued(k) /\ birth[k].tok = opened[i].attempt /\ opened[i].stepUp) =>
      LET at == answer[opened[i].attempt].authAt IN
      at # None /\ opened[i].at - at <= MaxAge + AuthSkew /\ at - birth[k].loginAt <= AuthSkew

\* A step-up completes as the subject of the session it was begun in.
StepUpKeepsSubject ==
  \A k \in Keys, i \in 1..Len(opened) :
    (/\ Issued(k) /\ HasTokens(birth[k]) /\ birth[k].tok = opened[i].attempt
     /\ opened[i].stepUp /\ opened[i].as # NoSub)
      => birth[k].sub = opened[i].as

-----------------------------------------------------------------------------
(* The inductive invariants behind these properties.                         *)

\* The slots of the attempts browser b began, as it began them.
SlotsBegunBy(b) ==
  {e \in Slot : \E i \in 1..Len(opened) :
     /\ opened[i].attempt = e.attempt /\ opened[i].by = b
     /\ opened[i].at = e.started /\ opened[i].stepUp = e.stepUp}

\* Browser b has key k in its jar, on its way there, or in a request of its own.
Holds(b, k) ==
  \/ jar[b] = k
  \/ \E r \in Requests : Owner[r] = b /\ (reply[r] = k \/ call[r].key = k)

\* The tokens of s are those of an attempt somebody began; if it was a step-up,
\* the login at s.loginAt had its evidence.
Accounted(s) ==
  HasTokens(s) =>
    \E i \in 1..Len(opened) :
      /\ opened[i].attempt = s.tok
      /\ opened[i].stepUp =>
           /\ answer[s.tok] # None /\ answer[s.tok].authAt # None
           /\ opened[i].at - answer[s.tok].authAt <= MaxAge + AuthSkew
           /\ answer[s.tok].authAt - s.loginAt <= AuthSkew

\* A request works with slots of its own browser, and saves its logins only.
OwnWork(r) ==
  /\ SlotsOf(call[r].state) \in Seq(SlotsBegunBy(Owner[r]))
  /\ SlotsOf(flow[r]) \in Seq(SlotsBegunBy(Owner[r]))
  /\ flow[r].at \in {"exchange", "verify"} => flow[r].slot \in SlotsBegunBy(Owner[r])
  /\ flow[r].at = "verify" => flow[r].slot.attempt = flow[r].code
  /\ Unsaved(call[r]) => BeganBy(call[r].state.tok, Owner[r]) /\ Accounted(call[r].state)

\* A key belongs to one browser, with its row and the login it stands for.
OwnKey(k, b) ==
  Holds(b, k) =>
    /\ \A c \in Browsers : Holds(c, k) => b = c
    /\ Issued(k) /\ (HasTokens(birth[k]) => BeganBy(birth[k].tok, b))
    /\ rows[k] # NoRow => SlotsOf(rows[k].state) \in Seq(SlotsBegunBy(b))

OwnSafe ==
  /\ \A i, j \in 1..Len(opened) : opened[i].attempt = opened[j].attempt => i = j
  /\ \A k \in Keys, b \in Browsers : OwnKey(k, b)
  /\ \A k \in Keys : Issued(k) => Accounted(birth[k])
  /\ \A r \in Requests : OwnWork(r)

\* Logout revokes the tokens of the key it will delete, and of no other.
LogoutSafe ==
  /\ \A r \in Requests :
       flow[r].at \in {"revoke", "revoked"} /\ flow[r].code # NoTok =>
         call[r].key \in Keys /\ birth[call[r].key].tok = flow[r].code
  /\ \A t \in revoked : \E k \in Keys :
       /\ Issued(k) /\ birth[k].tok = t
       /\ \/ rows[k] = NoRow
          \/ \E r \in Requests :
               call[r].key = k /\ (flow[r].at = "revoked" \/ call[r].pc = "purgeDelete")

\* Slots are in the order of their attempts, and no attempt lies in the future.
VectorsSafe ==
  /\ SlotsWellFormed
  /\ \A i \in 1..Len(opened) : opened[i].at <= now

\* The slots request r goes on with, or writes back.
InHand(r) ==
  IF flow[r].at \in {"exchange", "verify"} THEN SlotsOf(flow[r]) ELSE SlotsOf(call[r].state)

\* Request r read the row of key k, and what it writes next replaces or deletes it.
Overwrites(r, k) ==
  /\ call[r].key = k
  /\ \/ flow[r].at \in {"exchange", "verify"}
     \/ call[r].pc \in {"update", "deadDelete", "renewDelete", "purgeDelete"}

\* While the requests of a browser do not overlap, each runs with the cookie in the
\* jar; no closed attempt is in its hands, nor in the row of a key its browser
\* holds, but for the row it is about to overwrite.
SerialSafe ==
  /\ closed \subseteq Attempts
  /\ \A r \in Requests : AttemptsIn(InHand(r)) \cap closed = {}
  /\ \A r \in Requests : call[r].pc # "idle" =>
       reply[r] = Nothing /\ call[r].key \in {jar[Owner[r]], NoKey}
  /\ \A k \in Keys, b \in Browsers :
       Holds(b, k) /\ rows[k] # NoRow =>
         \/ AttemptsIn(SlotsOf(rows[k].state)) \cap closed = {}
         \/ \E r \in Requests : Overwrites(r, k)

\* An expiry late enough for the i-th attempt: it leaves the attempt its time, or a
\* login of its browser ends earlier.
Lasting(exp, i) ==
  /\ exp # None
  /\ \/ exp >= opened[i].at + AtMost(PostAuthTtl, PreAuthTtl)
     \/ \E t \in Tokens : /\ BeganBy(t, opened[i].by) /\ minted[t] # None
                          /\ exp >= minted[t] + MaxLifetime

\* The slot of the i-th attempt is among those of v, or in the row of key k.
SlotIn(v, i) == opened[i].attempt \in AttemptsIn(v)

KeptIn(k, i) ==
  /\ k \in Keys /\ rows[k] # NoRow
  /\ SlotIn(SlotsOf(rows[k].state), i) /\ Lasting(rows[k].expiresAt, i)

\* Where the slot is while request r, the one of its browser, is under way.
Kept(r, i) ==
  LET c == call[r] IN
  \/ c.pc = "idle" /\ KeptIn(IF reply[r] = Nothing THEN jar[Owner[r]] ELSE reply[r], i)
  \/ c.pc \in {"get", "ttlGet"} /\ KeptIn(c.key, i)
  \/ /\ c.pc \in {"check", "ttlCheck", "touch"}
     /\ KeptIn(c.key, i) /\ SlotIn(SlotsOf(c.state), i) /\ Lasting(c.exp, i)
  \/ c.pc = "handling" /\ KeptIn(c.key, i) /\ SlotIn(InHand(r), i)
  \/ c.pc \in {"update", "save"} /\ SlotIn(SlotsOf(c.state), i) /\ Lasting(c.exp, i)
  \/ c.pc = "renewDelete" /\ SlotIn(SlotsOf(c.state), i)

\* Whoever is signed in in a session of browser b is so by a login b began.
SignedInBy(s, b) ==
  HasSub(s) => /\ HasTokens(s) /\ BeganBy(s.tok, b)
               /\ minted[s.tok] # None /\ s.loginAt = minted[s.tok]

CallSigned(r) == SignedInBy(call[r].state, Owner[r])
RowSigned(k, b) == Holds(b, k) /\ rows[k] # NoRow => SignedInBy(rows[k].state, b)

\* No login lies in the future.
MintedPast == \A t \in Tokens : minted[t] # None => minted[t] <= now

SignedSafe ==
  /\ MintedPast
  /\ \A k \in Keys, b \in Browsers : RowSigned(k, b)
  /\ \A r \in Requests : CallSigned(r)

\* Nobody deletes the row of a request of which the handler may still write it.
RowHeld(r) ==
  call[r].key # NoKey /\ call[r].pc \in {"check", "handling", "update"} =>
    rows[call[r].key] # NoRow

\* While the requests of a browser do not overlap and nothing fails, the slot of an
\* awaited attempt is where the request of its browser is.
SlotKept(i) == \E r \in Requests : Owner[r] = opened[i].by /\ (Awaited(i) => Kept(r, i))

KeptSafe ==
  /\ \A r \in Requests : RowHeld(r)
  /\ \A i \in 1..Len(opened) : SlotKept(i)
=============================================================================
