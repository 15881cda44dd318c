------------------------ MODULE DbSessionStoreProofs ------------------------
(***************************************************************************)
(* Proofs about DbSessionStore, for all values of its constants: the       *)
(* invariant Safe and what follows from it; what the store promises of     *)
(* anonymous rows, and the conditions on the application this takes        *)
(* (nobody removes "sub" from a session that sliding renewal may touch,    *)
(* nobody removes the tokens of a login alone); and that the store         *)
(* implements RevocableSessions: initial states map to initial states, and *)
(* under Safe every step maps to a step of a login or of a request, or to  *)
(* a stutter.                                                              *)
(***************************************************************************)
EXTENDS DbSessionStore, TLAPS

\* EmptyState, what login leaves, and what an application leaves of a state are
\* states; an application only removes, so the result descends from whatever the
\* state it started from descended from.
LEMMA StateFacts ==
  /\ EmptyState \in State
  /\ None \notin State /\ NoRow \notin Row
BY StateAssumption, StoreAssumption DEF EmptyState, State, Row

LEMMA LoggedInFacts ==
  ASSUME NEW s \in State, NEW u \in Subjects, NEW t \in Tokens, NEW at \in Instants
  PROVE  /\ LoggedIn(s, u, t, at) \in State
         /\ LoggedIn(s, u, t, at).sub = u
         /\ LoggedIn(s, u, t, at).tok = t
         /\ LoggedIn(s, u, t, at).loginAt = at
BY DEF LoggedIn, State

LEMMA AppResultsFacts ==
  ASSUME NEW s \in State, NEW op \in AppOpNames, NEW a \in AppResults(s, op)
  PROVE  /\ a \in State
         /\ a.sub \in {s.sub, NoSub}
         /\ a.loginAt \in {s.loginAt, Missing, Garbled}
         /\ a.tok \in {s.tok, NoTok}
<1>1. CASE op = "rest"
  BY <1>1 DEF AppResults, State
<1>2. CASE op = "dropTokens"
  BY <1>2 DEF AppResults, State
<1>3. CASE op = "dropLoginAt"
  BY <1>3 DEF AppResults, State
<1>4. CASE op = "garbleLoginAt"
  BY <1>4 DEF AppResults, State
<1>5. CASE op = "dropSub"
  BY <1>5 DEF AppResults, State
<1>6. CASE op = "clear"
  BY <1>6, StateFacts DEF AppResults, EmptyState
<1>7. QED
  BY <1>1, <1>2, <1>3, <1>4, <1>5, <1>6 DEF AppOpNames

\* An expiry is an instant or None, and one computed for a signed-in state is
\* within the lifetime counted from its login.
LEMMA ExpiryFacts ==
  ASSUME NEW s \in State, NEW t \in Instants
  PROVE  /\ EffectiveExpiry(s, t) \in Instants \cup {None}
         /\ FallbackExpiry(t) \in Instants
         /\ ~HasSub(s) => EffectiveExpiry(s, t) = FallbackExpiry(t)
         /\ HasSub(s) /\ EffectiveExpiry(s, t) # None =>
              /\ s.loginAt \in Instants
              /\ EffectiveExpiry(s, t) <= s.loginAt + MaxLifetime
              /\ t < s.loginAt + MaxLifetime
BY StateAssumption, ExpiryAssumption
DEF EffectiveExpiry, FallbackExpiry, HardCapExpiry, AtMost, HasSub, State, Instants

\* save()'s healing adds a login time and touches nothing else.
LEMMA InjectFacts ==
  ASSUME NEW s \in State, NEW t \in Instants
  PROVE  /\ InjectLoginAtIfMissing(s, t) \in State
         /\ InjectLoginAtIfMissing(s, t).sub = s.sub
         /\ InjectLoginAtIfMissing(s, t).tok = s.tok
         /\ s.loginAt \in Instants => InjectLoginAtIfMissing(s, t) = s
BY StateAssumption DEF InjectLoginAtIfMissing, State, Instants

-----------------------------------------------------------------------------
(* The invariant, in two parts: what it says of the keys, which calls do not *)
(* disturb by moving on, and what it says of the calls, which do not depend  *)
(* on the rows.                                                              *)

KeysSafe ==
  /\ now \in Instants
  /\ rows \in [Keys -> Row \cup {NoRow}]
  /\ birth \in [Keys -> State \cup {None}]
  /\ minted \in [Tokens -> Instants \cup {None}]
  /\ KeyKeepsItsSession
  /\ OneKeyPerLogin
  /\ LifetimeCapped
  /\ BirthsAreLogins

CallsSafe ==
  /\ call \in [Requests -> Call]
  /\ PendingDistinct
  /\ \A r \in Requests : CallSafe(call[r])

LEMMA SafeParts == Safe <=> KeysSafe /\ CallsSafe
BY DEF Safe, KeysSafe, CallsSafe, TypeOK

LEMMA SafePartsPrime == Safe' <=> KeysSafe' /\ CallsSafe'
BY DEF Safe, KeysSafe, CallsSafe, TypeOK

LEMMA SafeInit == Init => Safe
<1> SUFFICES ASSUME Init PROVE Safe
  OBVIOUS
<1> USE StateFacts, StateAssumption, ExpiryAssumption, StoreAssumption
<1>1. rows \in [Keys -> Row \cup {NoRow}] /\ \A k \in Keys : rows[k] # NoRow =>
        /\ rows[k].state \in State /\ HasSub(rows[k].state)
        /\ rows[k].state.tok = NoTok
  BY DEF Init, Row
<1>2. birth \in [Keys -> State \cup {None}] /\ \A k \in Keys :
        /\ birth[k] = None \/ birth[k].tok = NoTok
        /\ rows[k] # NoRow => birth[k] = rows[k].state
  BY <1>1 DEF Init, Row
<1>3. KeysSafe
  BY <1>1, <1>2 DEF KeysSafe, Init, Instants, KeyKeepsItsSession, OneKeyPerLogin,
       LifetimeCapped, BirthsAreLogins, Issued, HasTokens, Descends
<1>4. Idle \in Call /\ Idle.pc = "idle" /\ Idle.key = NoKey
  BY DEF Idle, Call, Pcs
<1>5. CallsSafe
  BY <1>4 DEF CallsSafe, Init, CallSafe, CopyDescends, PendingLogin, PendingCapped,
       PendingDistinct, Unsaved, KeyPcs, CopyPcs
<1>6. QED
  BY <1>3, <1>5, SafeParts

\* A row that disappears disturbs nothing the invariant says of the keys.
LEMMA DeletionKeepsKeys ==
  ASSUME KeysSafe, NEW k \in Keys, Delete(k) \/ UNCHANGED rows,
         UNCHANGED <<birth, minted>>, now' \in Instants
  PROVE  KeysSafe'
BY DEF KeysSafe, Delete, KeyKeepsItsSession, OneKeyPerLogin, LifetimeCapped,
       BirthsAreLogins, Issued, Descends

\* A call that moves on to a safe record, with no login to save that it did not
\* already have, leaves the calls safe.
LEMMA CallMoves ==
  ASSUME CallsSafe, NEW r \in Requests, NEW c \in Call,
         call' = [call EXCEPT ![r] = c],
         UNCHANGED <<birth, minted>>,
         CallSafe(c),
         Unsaved(c) => Unsaved(call[r]) /\ c.state.tok = call[r].state.tok
  PROVE  CallsSafe'
<1>1. call' \in [Requests -> Call] /\ call'[r] = c
        /\ \A q \in Requests \ {r} : call'[q] = call[q]
  BY DEF CallsSafe
<1>2. \A q \in Requests : CallSafe(call[q])'
  BY <1>1, SMTT(30) DEF CallsSafe, CallSafe, CopyDescends, PendingLogin, PendingCapped, Unsaved,
       Issued, Descends
<1>3. PendingDistinct'
  BY <1>1 DEF CallsSafe, PendingDistinct, Unsaved
<1>4. QED
  BY <1>1, <1>2, <1>3 DEF CallsSafe

LEMMA IdleSafe == Idle \in Call /\ CallSafe(Idle) /\ ~Unsaved(Idle)
BY StateFacts, StoreAssumption
DEF Idle, Call, Pcs, CallSafe, CopyDescends, PendingLogin, PendingCapped, Unsaved, KeyPcs, CopyPcs

LEMMA ReturnKeepsCalls ==
  ASSUME CallsSafe, NEW r \in Requests, Return(r), UNCHANGED <<birth, minted>>
  PROVE  CallsSafe'
BY CallMoves, IdleSafe DEF Return

\* save() of a state that holds no tokens, or the tokens this request already
\* had to save.
LEMMA StartSaveKeepsCalls ==
  ASSUME CallsSafe, now \in Instants, minted \in [Tokens -> Instants \cup {None}],
         NEW r \in Requests, NEW s \in State,
         StartSave(r, s), UNCHANGED <<birth, minted>>,
         HasTokens(s) => call[r].pc = "renewDelete" /\ call[r].state = s
  PROVE  CallsSafe'
<1> DEFINE h == InjectLoginAtIfMissing(s, now)
           c == [pc |-> "save", key |-> NoKey, state |-> h, exp |-> EffectiveExpiry(h, now)]
<1>1. h \in State /\ h.sub = s.sub /\ h.tok = s.tok /\ (s.loginAt \in Instants => h = s)
  BY InjectFacts
<1>2. /\ EffectiveExpiry(h, now) \in Instants \cup {None}
      /\ HasSub(h) /\ EffectiveExpiry(h, now) # None =>
           /\ h.loginAt \in Instants
           /\ EffectiveExpiry(h, now) <= h.loginAt + MaxLifetime
  BY <1>1, ExpiryFacts
<1> HIDE DEF h
<1>3. c \in Call
  BY <1>1, <1>2, StoreAssumption DEF Call, Pcs
<1>4. ASSUME HasTokens(s)
      PROVE  /\ Unsaved(call[r]) /\ call[r].state = s
             /\ PendingLogin(call[r]) /\ CopyDescends(call[r])
             /\ call[r].state.tok \in Tokens
  BY <1>4 DEF Unsaved, CallsSafe, CallSafe, Call, State, HasTokens
<1>5. HasTokens(s) => s.loginAt \in Instants
  <2> SUFFICES ASSUME HasTokens(s) PROVE s.loginAt \in Instants
    OBVIOUS
  <2>1. s.loginAt = minted[s.tok] /\ minted[s.tok] # None /\ HasSub(s)
    BY <1>4 DEF PendingLogin
  <2> QED
    BY <2>1, <1>4
<1>6. CallSafe(c)
  BY <1>1, <1>2, <1>4, <1>5 DEF CallSafe, CopyDescends, PendingLogin, PendingCapped, Unsaved,
     KeyPcs, CopyPcs, HasTokens, HasSub
<1>7. Unsaved(c) => Unsaved(call[r]) /\ c.state.tok = call[r].state.tok
  BY <1>1, <1>4 DEF Unsaved, HasTokens
<1>8. call' = [call EXCEPT ![r] = c]
  BY DEF StartSave, Goto, h
<1>9. QED
  BY <1>3, <1>6, <1>7, <1>8, CallMoves

\* update() of what is left of the session the key stands for.
LEMMA StartUpdateKeepsCalls ==
  ASSUME CallsSafe, now \in Instants, NEW r \in Requests, NEW k \in Keys, NEW s \in State,
         StartUpdate(r, k, s), UNCHANGED <<birth, minted>>,
         Issued(k), Descends(s, birth[k])
  PROVE  CallsSafe'
<1> DEFINE e == EffectiveExpiry(s, now)
           c == [pc |-> IF e = None THEN "deadDelete" ELSE "update",
                 key |-> k, state |-> s, exp |-> e]
<1>1. /\ e \in Instants \cup {None}
      /\ HasSub(s) /\ e # None => s.loginAt \in Instants /\ e <= s.loginAt + MaxLifetime
  BY ExpiryFacts
<1>2. call' = [call EXCEPT ![r] = c]
  BY DEF StartUpdate, Goto
<1> HIDE DEF e
<1>3. c \in Call /\ ~Unsaved(c)
  BY <1>1 DEF Call, Pcs, Unsaved
<1>4. CallSafe(c)
  BY <1>1, StoreAssumption DEF CallSafe, CopyDescends, PendingLogin, PendingCapped, Unsaved,
     KeyPcs, CopyPcs
<1>5. QED
  BY <1>2, <1>3, <1>4, CallMoves

\* The completed login: tokens no state, row or birth has mentioned.
LEMMA LoginKeepsSafe ==
  ASSUME KeysSafe, CallsSafe, NEW r \in Requests, NEW t \in Tokens, NEW c \in Call,
         minted[t] = None, minted' = [minted EXCEPT ![t] = now],
         UNCHANGED <<now, rows, birth>>,
         call' = [call EXCEPT ![r] = c],
         CopyDescends(c), PendingCapped(c),
         Unsaved(c), c.state.tok = t, HasSub(c.state), c.state.loginAt = now
  PROVE  KeysSafe' /\ CallsSafe'
<1>1. minted' \in [Tokens -> Instants \cup {None}] /\ minted'[t] = now /\ now # None
        /\ \A u \in Tokens : minted[u] # None => u # t /\ minted'[u] = minted[u]
  BY ExpiryAssumption DEF KeysSafe, Instants
<1>2. \A k \in Keys : Issued(k) /\ HasTokens(birth[k]) =>
        birth[k].tok \in Tokens /\ birth[k].tok # t
  BY <1>1 DEF KeysSafe, BirthsAreLogins, Issued, HasTokens, State
<1>3. BirthsAreLogins'
  BY <1>1, <1>2 DEF KeysSafe, BirthsAreLogins, Issued
<1>4. KeysSafe'
  BY <1>1, <1>3 DEF KeysSafe, KeyKeepsItsSession, OneKeyPerLogin, LifetimeCapped, Issued,
     Descends
<1>5. call' \in [Requests -> Call] /\ call'[r] = c
        /\ \A q \in Requests \ {r} : call'[q] = call[q]
  BY DEF CallsSafe
<1>6. \A q \in Requests : Unsaved(call[q]) =>
        call[q].state.tok \in Tokens /\ call[q].state.tok # t
  BY <1>1 DEF CallsSafe, CallSafe, PendingLogin, Call, State, Unsaved, HasTokens
<1>7. \A q \in Requests \ {r} : CallSafe(call[q])'
  BY <1>1, <1>5, <1>6, SMTT(30) DEF CallsSafe, CallSafe, CopyDescends, PendingLogin, PendingCapped,
     Unsaved, Issued, Descends
<1>8. \A k \in Keys : Issued(k) => birth[k].tok # t
  BY <1>2, StateAssumption DEF HasTokens
<1>9. CallSafe(c)'
  BY <1>1, <1>8 DEF CallSafe, CopyDescends, PendingLogin, PendingCapped, Unsaved, Issued, Descends
<1>10. PendingDistinct'
  BY <1>5, <1>6 DEF CallsSafe, PendingDistinct, Unsaved
<1>11. QED
  BY <1>4, <1>5, <1>7, <1>9, <1>10 DEF CallsSafe

-----------------------------------------------------------------------------
(* One lemma per group of actions. *)

\* What the invariant says of request r alone.
LEMMA OfRequest ==
  ASSUME Safe, NEW r \in Requests
  PROVE  /\ KeysSafe /\ CallsSafe /\ now \in Instants
         /\ minted \in [Tokens -> Instants \cup {None}]
         /\ call[r] \in Call /\ CallSafe(call[r])
         /\ call[r].state \in State
         /\ call[r].key # NoKey => call[r].key \in Keys /\ Issued(call[r].key)
BY SafeParts DEF KeysSafe, CallsSafe, CallSafe, CopyDescends, Call

\* A row is a session of its key, and its expiry respects the lifetime.
LEMMA OfKey ==
  ASSUME Safe, NEW k \in Keys, rows[k] # NoRow
  PROVE  /\ rows[k] \in Row /\ rows[k].state \in State /\ rows[k].expiresAt \in Instants
         /\ Issued(k) /\ Descends(rows[k].state, birth[k])
BY DEF Safe, TypeOK, KeyKeepsItsSession, Row

\* Steps of load() and update_ttl() that move the call and touch no row.
LEMMA ReadsKeepSafe ==
  ASSUME Safe, NEW r \in Requests,
         (\E k \in Keys \cup {NoKey} : Begin(r, k)) \/ LoadGet(r) \/ LoadCheck(r)
           \/ TtlGet(r) \/ TtlCheck(r)
  PROVE  Safe'
<1>0. UNCHANGED <<now, rows, birth, minted>>
  BY DEF Begin, LoadGet, LoadCheck, TtlGet, TtlCheck
<1>1. KeysSafe'
  BY <1>0, OfRequest DEF KeysSafe, KeyKeepsItsSession, OneKeyPerLogin, LifetimeCapped,
     BirthsAreLogins, Issued, Descends
<1>2. SUFFICES CallsSafe'
  BY <1>1, SafePartsPrime
<1> DEFINE Rec(pc, k, s, e) == [pc |-> pc, key |-> k, state |-> s, exp |-> e]
<1>3. ASSUME Return(r) PROVE CallsSafe'
  BY <1>0, <1>3, OfRequest, ReturnKeepsCalls
<1>4. ASSUME NoSession(r) PROVE CallsSafe'
  <2> DEFINE c == Rec("handling", NoKey, EmptyState, None)
  <2>1. c \in Call /\ ~Unsaved(c) /\ CallSafe(c)
    BY StateFacts, StoreAssumption DEF Call, Pcs, Unsaved, CallSafe, CopyDescends,
       PendingLogin, PendingCapped, KeyPcs, CopyPcs
  <2>2. QED
    BY <1>0, <1>4, <2>1, OfRequest, CallMoves DEF NoSession, Goto
<1>5. ASSUME NEW k \in Keys, Issued(k), NEW p \in {"get", "loadDelete", "ttlDelete", "ttlGet"},
             Goto(r, p, k, EmptyState, None)
      PROVE  CallsSafe'
  <2> DEFINE c == Rec(p, k, EmptyState, None)
  <2>1. c \in Call /\ ~Unsaved(c) /\ CallSafe(c)
    BY <1>5, StateFacts, StoreAssumption DEF Call, Pcs, Unsaved, CallSafe, CopyDescends,
       PendingLogin, PendingCapped, KeyPcs, CopyPcs
  <2>2. QED
    BY <1>0, <1>5, <2>1, OfRequest, CallMoves DEF Goto
<1>6. ASSUME NEW k \in Keys, rows[k] # NoRow, NEW p \in {"check", "ttlCheck"},
             Goto(r, p, k, rows[k].state, rows[k].expiresAt)
      PROVE  CallsSafe'
  <2> DEFINE c == Rec(p, k, rows[k].state, rows[k].expiresAt)
  <2>1. c \in Call /\ ~Unsaved(c) /\ CallSafe(c)
    BY <1>6, OfKey, StoreAssumption, ExpiryAssumption DEF Call, Pcs, Unsaved, CallSafe,
       CopyDescends, PendingLogin, PendingCapped, KeyPcs, CopyPcs, Instants
  <2>2. QED
    BY <1>0, <1>6, <2>1, OfRequest, CallMoves DEF Goto
<1>7. CASE \E k \in Keys \cup {NoKey} : Begin(r, k)
  BY <1>7, <1>4, <1>5 DEF Begin
<1>8. CASE LoadGet(r)
  <2>1. call[r].key \in Keys
    BY <1>8, OfRequest DEF LoadGet, CallSafe, CopyDescends, KeyPcs
  <2>2. QED
    BY <1>8, <2>1, <1>4, <1>6 DEF LoadGet
<1>9. CASE LoadCheck(r)
  <2>1. call[r].key \in Keys /\ Issued(call[r].key) /\ Descends(call[r].state, birth[call[r].key])
    BY <1>9, OfRequest, StoreAssumption DEF LoadCheck, CallSafe, CopyDescends, KeyPcs, CopyPcs
  <2>2. CASE Goto(r, "handling", call[r].key, call[r].state, None)
    <3> DEFINE c == Rec("handling", call[r].key, call[r].state, None)
    <3>1. c \in Call /\ ~Unsaved(c) /\ CallSafe(c)
      BY <2>1, OfRequest, StoreAssumption DEF Call, Pcs, Unsaved, CallSafe, CopyDescends,
         PendingLogin, PendingCapped, KeyPcs, CopyPcs
    <3>2. QED
      BY <1>0, <2>2, <3>1, OfRequest, CallMoves DEF Goto
  <2>3. CASE Goto(r, "loadDelete", call[r].key, EmptyState, None)
    BY <2>1, <2>3, <1>5
  <2>4. QED
    BY <1>9, <2>2, <2>3 DEF LoadCheck
<1>10. CASE TtlGet(r)
  <2>1. call[r].key \in Keys
    BY <1>10, OfRequest DEF TtlGet, CallSafe, CopyDescends, KeyPcs
  <2>2. QED
    BY <1>10, <2>1, <1>3, <1>6 DEF TtlGet
<1>11. CASE TtlCheck(r)
  <2> DEFINE e == EffectiveExpiry(call[r].state, now)
  <2>1. call[r].key \in Keys /\ Issued(call[r].key) /\ Descends(call[r].state, birth[call[r].key])
    BY <1>11, OfRequest, StoreAssumption DEF TtlCheck, CallSafe, CopyDescends, KeyPcs, CopyPcs
  <2>2. e \in Instants \cup {None}
        /\ (HasSub(call[r].state) /\ e # None =>
              call[r].state.loginAt \in Instants /\ e <= call[r].state.loginAt + MaxLifetime)
    BY OfRequest, ExpiryFacts
  <2> HIDE DEF e
  <2>3. CASE Goto(r, "touch", call[r].key, call[r].state, e) /\ HasSub(call[r].state) /\ e # None
    <3> DEFINE c == Rec("touch", call[r].key, call[r].state, e)
    <3>1. c \in Call /\ ~Unsaved(c) /\ CallSafe(c)
      BY <2>1, <2>2, <2>3, OfRequest, StoreAssumption DEF Call, Pcs, Unsaved, CallSafe,
         CopyDescends, PendingLogin, PendingCapped, KeyPcs, CopyPcs
    <3>2. QED
      BY <1>0, <2>3, <3>1, OfRequest, CallMoves DEF Goto
  <2>4. CASE Goto(r, "ttlDelete", call[r].key, EmptyState, None)
    BY <2>1, <2>4, <1>5
  <2>5. QED
    BY <1>11, <2>3, <2>4, <1>3 DEF TtlCheck, e
<1>12. QED
  BY <1>7, <1>8, <1>9, <1>10, <1>11

\* The handler's outcomes.
LEMMA HandlersKeepSafe ==
  ASSUME Safe, NEW r \in Requests, HandlerStep(r)
  PROVE  Safe'
<1> DEFINE Rec(pc, k, s, e) == [pc |-> pc, key |-> k, state |-> s, exp |-> e]
<1>1. call[r].pc = "handling" /\ UNCHANGED <<now, rows, birth>>
  BY DEF HandlerStep, HandleUnchanged, HandleChanged, HandleLogin, HandlePurge
<1>2. /\ call[r].key # NoKey => Descends(call[r].state, birth[call[r].key])
      /\ call[r].key = NoKey => call[r].state = EmptyState
  BY <1>1, OfRequest DEF CallSafe, CopyDescends, CopyPcs
<1>3. ASSUME UNCHANGED minted, CallsSafe' PROVE Safe'
  BY <1>1, <1>3, OfRequest, SafePartsPrime DEF KeysSafe, KeyKeepsItsSession, OneKeyPerLogin,
     LifetimeCapped, BirthsAreLogins, Issued, Descends
<1>4. ASSUME NEW p \in {"ttlGet", "purgeDelete"}, call[r].key # NoKey, UNCHANGED minted,
             Goto(r, p, call[r].key, EmptyState, None)
      PROVE  Safe'
  <2> DEFINE c == Rec(p, call[r].key, EmptyState, None)
  <2>1. c \in Call /\ ~Unsaved(c) /\ CallSafe(c)
    BY <1>4, OfRequest, StateFacts, StoreAssumption DEF Call, Pcs, Unsaved, CallSafe, CopyDescends,
       PendingLogin, PendingCapped, KeyPcs, CopyPcs
  <2>2. QED
    BY <1>1, <1>3, <1>4, <2>1, OfRequest, CallMoves DEF Goto
<1>5. ASSUME Return(r), UNCHANGED minted PROVE Safe'
  BY <1>1, <1>3, <1>5, OfRequest, ReturnKeepsCalls
<1>6. CASE HandleUnchanged(r)
  BY <1>6, <1>4, <1>5 DEF HandleUnchanged, FinishUnchanged
<1>7. CASE HandlePurge(r)
  BY <1>7, <1>4, <1>5 DEF HandlePurge, FinishPurged
<1>8. CASE HandleChanged(r)
  <2>0. PICK op \in AppOps : \E s \in AppResults(call[r].state, op) : FinishChanged(r, s)
    BY <1>8 DEF HandleChanged
  <2>1. PICK s \in AppResults(call[r].state, op) : FinishChanged(r, s)
    BY <2>0
  <2>2. /\ s \in State /\ s.sub \in {call[r].state.sub, NoSub}
        /\ s.loginAt \in {call[r].state.loginAt, Missing, Garbled}
        /\ s.tok \in {call[r].state.tok, NoTok}
    <3>1. op \in AppOpNames
      BY StoreAssumption
    <3>2. QED
      BY <3>1, OfRequest, AppResultsFacts
  <2>3. UNCHANGED minted
    BY <1>8 DEF HandleChanged
  <2>4. CASE call[r].key # NoKey
    <3>1. call[r].key \in Keys /\ Issued(call[r].key)
      BY <2>4, OfRequest
    <3>2. Descends(s, birth[call[r].key])
      BY <1>2, <2>2, <2>4 DEF Descends
    <3>3. StartUpdate(r, call[r].key, s)
      BY <2>1, <2>4 DEF FinishChanged
    <3>4. QED
      BY <1>1, <1>3, <2>2, <2>3, <3>1, <3>2, <3>3, OfRequest, StartUpdateKeepsCalls
  <2>5. CASE call[r].key = NoKey /\ StartSave(r, s)
    <3>1. ~HasTokens(s)
      BY <1>2, <2>2, <2>5 DEF HasTokens, EmptyState
    <3>2. QED
      BY <1>1, <1>3, <2>2, <2>3, <2>5, <3>1, OfRequest, StartSaveKeepsCalls
  <2>6. QED
    BY <2>1, <2>3, <2>4, <2>5, <1>5 DEF FinishChanged
<1>9. CASE HandleLogin(r)
  <2>1. PICK t \in Tokens, u \in Subjects, x \in Rests :
          /\ minted[t] = None /\ minted' = [minted EXCEPT ![t] = now]
          /\ FinishRenewed(r, LoggedIn([call[r].state EXCEPT !.rest = x], u, t, now))
    BY <1>9 DEF HandleLogin
  <2> DEFINE s == LoggedIn([call[r].state EXCEPT !.rest = x], u, t, now)
  <2>0. [call[r].state EXCEPT !.rest = x] \in State
    BY OfRequest DEF State
  <2>2. s \in State /\ s.sub = u /\ s.tok = t /\ s.loginAt = now /\ HasSub(s) /\ HasTokens(s)
    BY <2>0, OfRequest, LoggedInFacts, StateAssumption DEF HasSub, HasTokens
  <2> HIDE DEF s
  <2>3. CASE call[r].key # NoKey
    <3> DEFINE c == Rec("renewDelete", call[r].key, s, None)
    <3>1. c \in Call /\ CopyDescends(c) /\ PendingCapped(c) /\ Unsaved(c)
      BY <2>2, <2>3, OfRequest DEF Call, Pcs, CopyDescends, PendingCapped, Unsaved, KeyPcs, CopyPcs
    <3>2. call' = [call EXCEPT ![r] = c]
      BY <2>1, <2>3 DEF FinishRenewed, Goto, s
    <3>3. QED
      BY <1>1, <2>1, <2>2, <3>1, <3>2, OfRequest, LoginKeepsSafe, SafePartsPrime
  <2>4. CASE call[r].key = NoKey
    <3> DEFINE e == EffectiveExpiry(s, now)
               c == Rec("save", NoKey, s, e)
    <3>1. InjectLoginAtIfMissing(s, now) = s
      BY <2>2, OfRequest, InjectFacts
    <3>2. call' = [call EXCEPT ![r] = c]
      BY <2>1, <2>4, <3>1 DEF FinishRenewed, StartSave, Goto, s
    <3>3. e \in Instants \cup {None}
          /\ (HasSub(s) /\ e # None => s.loginAt \in Instants /\ e <= s.loginAt + MaxLifetime)
      BY <2>2, OfRequest, ExpiryFacts
    <3> HIDE DEF e
    <3>4. c \in Call /\ CopyDescends(c) /\ PendingCapped(c) /\ Unsaved(c)
      BY <2>2, <3>3, StoreAssumption DEF Call, Pcs, CopyDescends, PendingCapped, Unsaved, KeyPcs, CopyPcs
    <3>5. QED
      BY <1>1, <2>1, <2>2, <3>2, <3>4, OfRequest, LoginKeepsSafe, SafePartsPrime
  <2>5. QED
    BY <2>3, <2>4
<1>10. QED
  BY <1>6, <1>7, <1>8, <1>9 DEF HandlerStep

\* Best-effort and real deletes, and clean-up.
LEMMA DeletesKeepSafe ==
  ASSUME Safe, NEW r \in Requests,
         LoadDelete(r) \/ DeadDelete(r) \/ RenewDelete(r) \/ PurgeDelete(r) \/ TtlDelete(r)
  PROVE  Safe'
<1>1. /\ call[r].key \in Keys /\ UNCHANGED <<now, birth, minted>>
      /\ Delete(call[r].key) \/ UNCHANGED rows
  BY OfRequest DEF LoadDelete, DeadDelete, RenewDelete, PurgeDelete, TtlDelete, CallSafe,
     CopyDescends, KeyPcs, BestEffortDelete
<1>2. KeysSafe'
  BY <1>1, OfRequest, DeletionKeepsKeys
<1>3. SUFFICES CallsSafe'
  BY <1>2, SafePartsPrime
<1>4. ASSUME Return(r) PROVE CallsSafe'
  BY <1>1, <1>4, OfRequest, ReturnKeepsCalls
<1>5. CASE LoadDelete(r)
  <2> DEFINE c == [pc |-> "handling", key |-> NoKey, state |-> EmptyState, exp |-> None]
  <2>1. c \in Call /\ ~Unsaved(c) /\ CallSafe(c)
    BY StateFacts, StoreAssumption DEF Call, Pcs, Unsaved, CallSafe, CopyDescends,
       PendingLogin, PendingCapped, KeyPcs, CopyPcs
  <2>2. QED
    BY <1>1, <1>5, <2>1, OfRequest, CallMoves DEF LoadDelete, NoSession, Goto
<1>6. CASE RenewDelete(r)
  BY <1>1, <1>6, OfRequest, StartSaveKeepsCalls DEF RenewDelete
<1>7. QED
  BY <1>4, <1>5, <1>6 DEF DeadDelete, PurgeDelete, TtlDelete

\* repo.insert: a login comes to its key.  The key is fresh, so no copy of
\* another session can be written under it; the tokens are fresh, so no other
\* key has them.
LEMMA InsertKeepsSafe ==
  ASSUME Safe, NEW r \in Requests, Insert(r)
  PROVE  Safe'
<1> DEFINE c == call[r]
           row == [state |-> c.state, expiresAt |-> c.exp]
<1>1. /\ c.pc \in {"save", "fallback"} /\ c.exp # None
      /\ Return(r) /\ UNCHANGED <<now, minted>>
  BY DEF Insert
<1>2. PICK k \in FreshKeys :
        rows' = [rows EXCEPT ![k] = row] /\ birth' = [birth EXCEPT ![k] = c.state]
  BY DEF Insert
<1>3. /\ k \in Keys /\ ~Issued(k)
      /\ c \in Call /\ CallSafe(c) /\ c.state \in State /\ c.exp \in Instants
  BY <1>1, OfRequest DEF FreshKeys, Call
<1>4. /\ rows' \in [Keys -> Row \cup {NoRow}] /\ rows'[k] = row
      /\ \A j \in Keys \ {k} : rows'[j] = rows[j]
  BY <1>2, <1>3, OfRequest DEF KeysSafe, Row
<1>5. /\ birth' \in [Keys -> State \cup {None}] /\ birth'[k] = c.state /\ Issued(k)'
      /\ \A j \in Keys \ {k} : birth'[j] = birth[j] /\ (Issued(j)' <=> Issued(j))
  BY <1>2, <1>3, OfRequest, StoreAssumption DEF KeysSafe, Issued
<1>6. HasTokens(c.state) =>
        /\ Unsaved(c) /\ HasSub(c.state)
        /\ minted[c.state.tok] # None /\ c.state.loginAt = minted[c.state.tok]
        /\ \A j \in Keys : Issued(j) => birth[j].tok # c.state.tok
  BY <1>1, <1>3 DEF CallSafe, PendingLogin, Unsaved
<1>7. KeyKeepsItsSession'
  BY <1>4, <1>5, OfRequest DEF KeysSafe, KeyKeepsItsSession, Issued, Descends
<1>8. OneKeyPerLogin'
  BY <1>5, <1>6, OfRequest DEF KeysSafe, OneKeyPerLogin, HasTokens
<1>9. LifetimeCapped'
  <2>1. HasSub(c.state) /\ HasTokens(c.state) =>
          c.state.loginAt \in Instants /\ c.exp <= c.state.loginAt + MaxLifetime
    BY <1>1, <1>3, <1>6 DEF CallSafe, PendingCapped, Unsaved
  <2>2. QED
    BY <1>4, <2>1, OfRequest DEF KeysSafe, LifetimeCapped
<1>10. BirthsAreLogins'
  BY <1>1, <1>5, <1>6, OfRequest DEF KeysSafe, BirthsAreLogins
<1>11. KeysSafe'
  BY <1>1, <1>4, <1>5, <1>7, <1>8, <1>9, <1>10, OfRequest DEF KeysSafe
<1>12. /\ call' \in [Requests -> Call] /\ call'[r] = Idle
       /\ \A q \in Requests \ {r} : call'[q] = call[q]
  BY <1>1, IdleSafe, OfRequest DEF Return, CallsSafe
<1>13. ASSUME NEW q \in Requests \ {r} PROVE CallSafe(call[q])'
  <2>1. CallSafe(call[q]) /\ call[q] \in Call /\ call[q].key # k
    BY <1>3, OfRequest, StoreAssumption DEF Issued
  <2>2. CopyDescends(call[q])'
    BY <1>5, <1>12, <2>1, OfRequest DEF CallSafe, CopyDescends, Call, Descends
  <2>3. Unsaved(call[q]) => call[q].state.tok # c.state.tok
    BY <1>6, OfRequest DEF CallsSafe, PendingDistinct, Unsaved, HasTokens
  <2>4. PendingLogin(call[q])'
    BY <1>1, <1>5, <1>12, <2>1, <2>3 DEF CallSafe, PendingLogin, Unsaved
  <2>5. PendingCapped(call[q])'
    BY <1>12, <2>1 DEF CallSafe, PendingCapped
  <2>6. QED
    BY <2>2, <2>4, <2>5 DEF CallSafe
<1>14. CallSafe(call[r])'
  BY <1>12, StateFacts, StoreAssumption
  DEF Idle, CallSafe, CopyDescends, PendingLogin, PendingCapped, Unsaved, KeyPcs, CopyPcs
<1>15. PendingDistinct'
  BY <1>12, IdleSafe, OfRequest DEF CallsSafe, PendingDistinct, Unsaved
<1>16. QED
  BY <1>11, <1>12, <1>13, <1>14, <1>15, SafePartsPrime DEF CallsSafe

\* repo.update and repo.touch: what is written descends from the birth of the
\* key it is written under, and respects the lifetime counted from it.
LEMMA RewritesKeepSafe ==
  ASSUME Safe, NEW r \in Requests, UpdateRow(r) \/ Touch(r)
  PROVE  Safe'
<1> DEFINE c == call[r]
           k == call[r].key
<1>1. /\ c \in Call /\ CallSafe(c) /\ c.state \in State
      /\ k \in Keys /\ Issued(k) /\ Descends(c.state, birth[k])
      /\ c.exp \in Instants /\ UNCHANGED <<now, birth, minted>>
      /\ HasSub(c.state) => c.state.loginAt \in Instants /\ c.exp <= c.state.loginAt + MaxLifetime
  BY OfRequest, StoreAssumption DEF UpdateRow, Touch, CallSafe, CopyDescends, PendingCapped,
     KeyPcs, CopyPcs, Call
<1>2. CASE UNCHANGED rows
  <2>1. KeysSafe'
    BY <1>1, <1>2, OfRequest DEF KeysSafe, KeyKeepsItsSession, OneKeyPerLogin, LifetimeCapped,
       BirthsAreLogins, Issued, Descends
  <2>2. CASE Return(r)
    BY <1>1, <2>1, <2>2, OfRequest, ReturnKeepsCalls, SafePartsPrime
  <2>3. CASE MayReinsert(c.state) /\ Goto(r, "fallback", NoKey, c.state, FallbackExpiry(now))
    <3> DEFINE d == [pc |-> "fallback", key |-> NoKey, state |-> c.state, exp |-> FallbackExpiry(now)]
    <3>1. FallbackExpiry(now) \in Instants /\ ~HasTokens(c.state)
      BY <2>3, <1>1, OfRequest, ExpiryFacts DEF MayReinsert
    <3>2. d \in Call /\ ~Unsaved(d) /\ CallSafe(d)
      BY <1>1, <3>1, StoreAssumption, ExpiryAssumption DEF Call, Pcs, Unsaved, CallSafe,
         CopyDescends, PendingLogin, PendingCapped, KeyPcs, CopyPcs, Instants
    <3>3. call' = [call EXCEPT ![r] = d]
      BY <2>3 DEF Goto
    <3>4. QED
      BY <1>1, <2>1, <3>2, <3>3, OfRequest, CallMoves, SafePartsPrime
  <2>4. QED
    BY <1>2, <2>2, <2>3 DEF UpdateRow, Touch
<1>3. ASSUME NEW s \in State, Descends(s, birth[k]),
             rows' = [rows EXCEPT ![k] = [state |-> s, expiresAt |-> c.exp]],
             HasSub(s) /\ HasTokens(s) => s.loginAt \in Instants /\ c.exp <= s.loginAt + MaxLifetime,
             Return(r)
      PROVE  Safe'
  <2>1. /\ rows' \in [Keys -> Row \cup {NoRow}]
        /\ rows'[k] = [state |-> s, expiresAt |-> c.exp]
        /\ \A j \in Keys \ {k} : rows'[j] = rows[j]
    BY <1>1, <1>3, OfRequest DEF KeysSafe, Row
  <2>2. KeysSafe'
    BY <1>1, <1>3, <2>1, OfRequest DEF KeysSafe, KeyKeepsItsSession, OneKeyPerLogin,
       LifetimeCapped, BirthsAreLogins, Issued, Descends
  <2>3. QED
    BY <1>1, <1>3, <2>2, OfRequest, ReturnKeepsCalls, SafePartsPrime
<1>4. CASE UpdateRow(r) /\ rows[k] # NoRow
  BY <1>1, <1>3, <1>4 DEF UpdateRow
<1>5. CASE Touch(r) /\ rows[k] # NoRow /\ rows[k].expiresAt > now
  <2>1. rows[k] \in Row /\ rows[k].state \in State /\ Descends(rows[k].state, birth[k])
    BY <1>1, <1>5, OfKey
  <2>2. rows' = [rows EXCEPT ![k] = [state |-> rows[k].state, expiresAt |-> c.exp]] /\ Return(r)
    <3>1. [rows[k] EXCEPT !.expiresAt = c.exp] = [state |-> rows[k].state, expiresAt |-> c.exp]
      BY <2>1 DEF Row
    <3>2. rows' = [rows EXCEPT ![k] = [rows[k] EXCEPT !.expiresAt = c.exp]] /\ Return(r)
      BY <1>5, Zenon DEF Touch
    <3>3. QED
      BY <3>1, <3>2
  <2>3. HasSub(rows[k].state) /\ HasTokens(rows[k].state) =>
          rows[k].state.loginAt \in Instants /\ c.exp <= rows[k].state.loginAt + MaxLifetime
    <3>1. HasSub(c.state)
      BY <1>5, <1>1 DEF Touch, CallSafe, PendingCapped
    <3>2. HasSub(rows[k].state) /\ HasTokens(rows[k].state) => rows[k].state.loginAt \in Instants
      BY <1>1, <1>5, OfRequest DEF KeysSafe, LifetimeCapped
    <3>3. c.state.loginAt = birth[k].loginAt
      BY <1>1, <3>1, StateAssumption DEF Descends, Instants
    <3>4. rows[k].state.loginAt \in Instants => rows[k].state.loginAt = birth[k].loginAt
      BY <2>1, StateAssumption DEF Descends, Instants
    <3>5. QED
      BY <1>1, <3>1, <3>2, <3>3, <3>4
  <2>4. QED
    BY <1>3, <2>1, <2>2, <2>3
<1>6. QED
  BY <1>2, <1>4, <1>5 DEF UpdateRow, Touch

\* Requests that end where they stand, clean-up, and time.
LEMMA OthersKeepSafe ==
  ASSUME Safe,
         \/ \E r \in Requests : Abort(r) \/ SaveRefused(r)
         \/ \E k \in Keys : Sweep(k)
         \/ Tick
         \/ UNCHANGED vars
  PROVE  Safe'
<1>1. CASE \E r \in Requests : Abort(r) \/ SaveRefused(r)
  <2>1. PICK r \in Requests : Abort(r) \/ SaveRefused(r)
    BY <1>1
  <2>2. Return(r) /\ UNCHANGED <<now, rows, birth, minted>>
    BY <2>1 DEF Abort, SaveRefused
  <2>3. KeysSafe'
    BY <2>2, OfRequest DEF KeysSafe, KeyKeepsItsSession, OneKeyPerLogin, LifetimeCapped,
       BirthsAreLogins, Issued, Descends
  <2>4. QED
    BY <2>2, <2>3, OfRequest, ReturnKeepsCalls, SafePartsPrime
<1>2. ASSUME UNCHANGED <<birth, minted, call>>, now' \in Instants,
             NEW k \in Keys, Delete(k) \/ UNCHANGED rows
      PROVE  Safe'
  <2>1. KeysSafe'
    BY <1>2, SafeParts, DeletionKeepsKeys
  <2>2. CallsSafe'
    BY <1>2, SafeParts DEF CallsSafe, CallSafe, CopyDescends, PendingLogin, PendingCapped,
       PendingDistinct, Unsaved, Issued, Descends
  <2>3. QED
    BY <2>1, <2>2, SafePartsPrime
<1>3. CASE \E k \in Keys : Sweep(k)
  BY <1>2, <1>3, SafeParts DEF Sweep, KeysSafe
<1>4. CASE Tick \/ UNCHANGED vars
  <2>1. now' \in Instants /\ UNCHANGED <<rows, birth, minted, call>>
    BY <1>4, SafeParts DEF Tick, vars, KeysSafe, Instants
  <2>2. KeysSafe'
    BY <2>1, SafeParts DEF KeysSafe, KeyKeepsItsSession, OneKeyPerLogin, LifetimeCapped,
       BirthsAreLogins, Issued, Descends
  <2>3. CallsSafe'
    BY <2>1, SafeParts DEF CallsSafe, CallSafe, CopyDescends, PendingLogin, PendingCapped,
       PendingDistinct, Unsaved, Issued, Descends
  <2>4. QED
    BY <2>2, <2>3, SafePartsPrime
<1>5. QED
  BY <1>1, <1>3, <1>4

LEMMA SafeStep == Safe /\ [Next]_vars => Safe'
<1> SUFFICES ASSUME Safe, [Next]_vars PROVE Safe'
  OBVIOUS
<1>1. ASSUME NEW r \in Requests, \E k \in Keys \cup {NoKey} : Begin(r, k) PROVE Safe'
  BY <1>1, ReadsKeepSafe
<1>2. ASSUME NEW r \in Requests, StoreStep(r) PROVE Safe'
  BY <1>2, ReadsKeepSafe, DeletesKeepSafe, InsertKeepsSafe, RewritesKeepSafe, OthersKeepSafe
  DEF StoreStep
<1>3. ASSUME NEW r \in Requests, HandlerStep(r) PROVE Safe'
  BY <1>3, HandlersKeepSafe
<1>4. QED
  BY <1>1, <1>2, <1>3, OthersKeepSafe DEF Next

-----------------------------------------------------------------------------
(* The theorems. *)

\* The inductive invariant of the store, for any number of requests and keys,
\* any TTLs, either expiry policy, and whatever applications remove from their
\* sessions.
THEOREM StoreSafe == Spec => []Safe
BY SafeInit, SafeStep, PTL DEF Spec

\* Every reachable state of the store and its requests is of the declared type.
THEOREM StoreTypeOK == Spec => []TypeOK
<1>1. Safe => TypeOK
  BY DEF Safe
<1>2. QED
  BY <1>1, StoreSafe, PTL

\* A key stands for one session: no race of stale writes, no renewal and no
\* fallback puts a login under a key that was born without it.
THEOREM StoreKeyKeepsItsSession == Spec => []KeyKeepsItsSession
<1>1. Safe => KeyKeepsItsSession
  BY DEF Safe
<1>2. QED
  BY <1>1, StoreSafe, PTL

\* The tokens of one login are inserted under one key, once.
THEOREM StoreOneKeyPerLogin == Spec => []OneKeyPerLogin
<1>1. Safe => OneKeyPerLogin
  BY DEF Safe
<1>2. QED
  BY <1>1, StoreSafe, PTL

\* No signed-in row that holds tokens is stored past login + MaxLifetime.
THEOREM StoreLifetimeCapped == Spec => []LifetimeCapped
<1>1. Safe => LifetimeCapped
  BY DEF Safe
<1>2. QED
  BY <1>1, StoreSafe, PTL

\* Which rows a step can change, and how: it deletes some row, inserts under one
\* fresh key, or rewrites a row that is there.
LEMMA RowSteps ==
  ASSUME Safe, [Next]_vars
  PROVE  \/ UNCHANGED rows
         \/ \E k \in Keys : Delete(k)
         \/ \E k \in Keys : ~Issued(k) /\ \A j \in Keys \ {k} : rows'[j] = rows[j]
         \/ \E k \in Keys : rows[k] # NoRow /\ \A j \in Keys \ {k} : rows'[j] = rows[j]
<1>1. ASSUME NEW r \in Requests, call[r].pc \in KeyPcs PROVE call[r].key \in Keys
  BY <1>1, OfRequest DEF CallSafe, CopyDescends
<1>2. ASSUME NEW k \in Keys, NEW v, rows' = [rows EXCEPT ![k] = v]
      PROVE  \A j \in Keys \ {k} : rows'[j] = rows[j]
  BY <1>2, SafeParts DEF KeysSafe
<1>3. ASSUME NEW r \in Requests,
             (\E k \in Keys \cup {NoKey} : Begin(r, k)) \/ LoadGet(r) \/ LoadCheck(r)
               \/ TtlGet(r) \/ TtlCheck(r) \/ HandlerStep(r) \/ SaveRefused(r) \/ Abort(r)
      PROVE  UNCHANGED rows
  BY <1>3 DEF Begin, LoadGet, LoadCheck, TtlGet, TtlCheck, HandlerStep, HandleUnchanged,
     HandleChanged, HandleLogin, HandlePurge, SaveRefused, Abort
<1>4. ASSUME NEW r \in Requests,
             LoadDelete(r) \/ DeadDelete(r) \/ RenewDelete(r) \/ PurgeDelete(r) \/ TtlDelete(r)
      PROVE  UNCHANGED rows \/ \E k \in Keys : Delete(k)
  BY <1>4, <1>1 DEF LoadDelete, DeadDelete, RenewDelete, PurgeDelete, TtlDelete,
     BestEffortDelete, KeyPcs
<1>5. ASSUME NEW r \in Requests, Insert(r)
      PROVE  \E k \in Keys : ~Issued(k) /\ \A j \in Keys \ {k} : rows'[j] = rows[j]
  BY <1>5, <1>2 DEF Insert, FreshKeys
<1>6. ASSUME NEW r \in Requests, UpdateRow(r)
      PROVE  \/ UNCHANGED rows
             \/ \E k \in Keys : rows[k] # NoRow /\ \A j \in Keys \ {k} : rows'[j] = rows[j]
  BY <1>6, <1>1, <1>2 DEF UpdateRow, KeyPcs
<1>7. ASSUME NEW r \in Requests, Touch(r)
      PROVE  \/ UNCHANGED rows
             \/ \E k \in Keys : rows[k] # NoRow /\ \A j \in Keys \ {k} : rows'[j] = rows[j]
  <2>1. call[r].key \in Keys
    BY <1>7, <1>1 DEF Touch, KeyPcs
  <2>2. CASE rows[call[r].key] # NoRow
    <3>1. UNCHANGED rows \/ rows' = [rows EXCEPT ![call[r].key] =
                                       [rows[call[r].key] EXCEPT !.expiresAt = call[r].exp]]
      BY <1>7, Zenon DEF Touch
    <3>2. QED
      BY <2>1, <2>2, <3>1, <1>2
  <2>3. CASE rows[call[r].key] = NoRow
    BY <1>7, <2>3 DEF Touch
  <2>4. QED
    BY <2>2, <2>3
<1>8. ASSUME NEW r \in Requests, StoreStep(r)
      PROVE  \/ UNCHANGED rows
             \/ \E k \in Keys : Delete(k)
             \/ \E k \in Keys : ~Issued(k) /\ \A j \in Keys \ {k} : rows'[j] = rows[j]
             \/ \E k \in Keys : rows[k] # NoRow /\ \A j \in Keys \ {k} : rows'[j] = rows[j]
  BY <1>8, <1>3, <1>4, <1>5, <1>6, <1>7 DEF StoreStep
<1>9. QED
  BY <1>3, <1>8 DEF Next, Sweep, Tick, vars

LEMMA DeadKeysStep ==
  Safe /\ [Next]_vars => \A k \in Keys : Issued(k) /\ rows[k] = NoRow => rows'[k] = NoRow
<1> SUFFICES ASSUME Safe, [Next]_vars, NEW k \in Keys, Issued(k), rows[k] = NoRow
             PROVE  rows'[k] = NoRow
  OBVIOUS
<1>1. ASSUME NEW j \in Keys, Delete(j) PROVE rows'[k] = NoRow
  BY <1>1, SafeParts DEF KeysSafe, Delete
<1>2. QED
  BY <1>1, RowSteps

\* Logout is authoritative: whatever is in flight, a key whose row is gone stays
\* gone.
THEOREM StoreDeadKeysStayDead == Spec => DeadKeysStayDead
<1>1. Safe /\ [Next]_vars =>
        [\A k \in Keys : Issued(k) /\ rows[k] = NoRow => rows'[k] = NoRow]_vars
  BY DeadKeysStep
<1>2. QED
  BY <1>1, StoreSafe, PTL DEF Spec, DeadKeysStayDead

-----------------------------------------------------------------------------
(* What one step makes of the request that takes it, and of the rows.        *)

\* Request r leaves its state behind; it holds another one only ...
Empties(r) ==
  /\ call'[r].state = EmptyState
  /\ call'[r].pc \in {"idle", "get", "loadDelete", "handling", "ttlGet", "purgeDelete", "ttlDelete"}
  /\ call'[r].pc = "handling" => call'[r].key = NoKey
  /\ call'[r].pc = "ttlGet" => Sliding

\* ... from a row it reads,
Reads(r) ==
  /\ call'[r].key \in Keys /\ rows[call'[r].key] # NoRow
  /\ call'[r].state = rows[call'[r].key].state
  /\ call'[r].pc = "check" \/ (call'[r].pc = "ttlCheck" /\ call[r].pc = "ttlGet")

\* ... from the copy it read,
Keeps(r) ==
  /\ call'[r].key = call[r].key /\ call'[r].state = call[r].state
  /\ \/ call'[r].pc = "handling" /\ call[r].pc = "check"
     \/ call'[r].pc = "touch" /\ call[r].pc = "ttlCheck"

\* ... from an application, which changed it,
Changes(r) ==
  /\ call[r].pc = "handling" /\ call[r].key # NoKey
  /\ call'[r].pc \in {"update", "deadDelete"} /\ call'[r].key = call[r].key
  /\ \E op \in AppOps : call'[r].state \in AppResults(call[r].state, op)
  /\ call'[r].exp = EffectiveExpiry(call'[r].state, now)

\* ... or which made an anonymous one,
Makes(r) ==
  /\ call'[r].pc = "save"
  /\ ~HasSub(call'[r].state)
  /\ call'[r].exp = EffectiveExpiry(call'[r].state, now)

\* ... from a login,
LogsIn(r) ==
  /\ call'[r].pc \in {"renewDelete", "save"}
  /\ HasSub(call'[r].state) /\ HasTokens(call'[r].state)

\* ... through the deletion that renewal begins with,
Renews(r) ==
  /\ call[r].pc = "renewDelete" /\ call'[r].pc = "save"
  /\ call'[r].state.sub = call[r].state.sub /\ call'[r].state.tok = call[r].state.tok
  /\ call'[r].exp = EffectiveExpiry(call'[r].state, now)

\* ... or through an update that found no row.
FallsBack(r) ==
  /\ call[r].pc = "update" /\ call'[r].pc = "fallback"
  /\ call'[r].state = call[r].state /\ ~HasTokens(call[r].state)
  /\ call'[r].exp = FallbackExpiry(now)

Moves(r) ==
  \/ Empties(r) \/ Reads(r) \/ Keeps(r) \/ Changes(r) \/ Makes(r)
  \/ LogsIn(r) \/ Renews(r) \/ FallsBack(r)

RequestStep(r) ==
  \/ \E k \in Keys \cup {NoKey} : Begin(r, k)
  \/ StoreStep(r) \/ HandlerStep(r) \/ Abort(r)

LEMMA GotoIs ==
  ASSUME Safe, NEW r \in Requests, NEW pc, NEW k, NEW s, NEW e, Goto(r, pc, k, s, e)
  PROVE  /\ call'[r].pc = pc /\ call'[r].key = k /\ call'[r].state = s /\ call'[r].exp = e
         /\ \A q \in Requests \ {r} : call'[q] = call[q]
<1> DEFINE c == [pc |-> pc, key |-> k, state |-> s, exp |-> e]
<1>1. c.pc = pc /\ c.key = k /\ c.state = s /\ c.exp = e
  OBVIOUS
<1>2. call' = [call EXCEPT ![r] = c]
  BY DEF Goto
<1> HIDE DEF c
<1>3. QED
  BY <1>1, <1>2 DEF Safe, TypeOK

LEMMA ReturnIs ==
  ASSUME Safe, NEW r \in Requests, Return(r)
  PROVE  Empties(r) /\ \A q \in Requests \ {r} : call'[q] = call[q]
BY DEF Return, Safe, TypeOK, Empties, Idle

LEMMA NoSessionIs ==
  ASSUME Safe, NEW r \in Requests, NoSession(r)
  PROVE  Empties(r) /\ \A q \in Requests \ {r} : call'[q] = call[q]
BY GotoIs DEF NoSession, Empties

LEMMA StartSaveIs ==
  ASSUME Safe, NEW r \in Requests, NEW s \in State, StartSave(r, s)
  PROVE  /\ call'[r].pc = "save" /\ call'[r].state = InjectLoginAtIfMissing(s, now)
         /\ call'[r].state.sub = s.sub /\ call'[r].state.tok = s.tok
         /\ call'[r].exp = EffectiveExpiry(call'[r].state, now)
         /\ \A q \in Requests \ {r} : call'[q] = call[q]
<1> DEFINE h == InjectLoginAtIfMissing(s, now)
<1>1. h.sub = s.sub /\ h.tok = s.tok
  BY InjectFacts DEF Safe, TypeOK
<1>2. Goto(r, "save", NoKey, h, EffectiveExpiry(h, now))
  BY DEF StartSave
<1> HIDE DEF h
<1>3. QED
  BY <1>1, <1>2, GotoIs DEF h

\* Every step of a request moves it in one of these ways.
LEMMA RequestMoves ==
  ASSUME Safe, NEW r \in Requests, RequestStep(r)
  PROVE  Moves(r) /\ \A q \in Requests \ {r} : call'[q] = call[q]
<1> DEFINE goal == Moves(r) /\ \A q \in Requests \ {r} : call'[q] = call[q]
<1> SUFFICES goal
  OBVIOUS
<1> HIDE DEF goal
<1>1. ASSUME Return(r) \/ NoSession(r) PROVE goal
  BY <1>1, ReturnIs, NoSessionIs DEF goal, Moves
<1>2. ASSUME NEW pc \in {"get", "loadDelete", "ttlGet", "purgeDelete", "ttlDelete"},
             NEW k, Goto(r, pc, k, EmptyState, None), pc = "ttlGet" => Sliding
      PROVE  goal
  BY <1>2, GotoIs DEF goal, Moves, Empties
<1>3. ASSUME NEW k \in Keys, rows[k] # NoRow, NEW pc \in {"check", "ttlCheck"},
             pc = "ttlCheck" => call[r].pc = "ttlGet",
             Goto(r, pc, k, rows[k].state, rows[k].expiresAt)
      PROVE  goal
  <2>1. Reads(r)
    BY <1>3, GotoIs DEF Reads
  <2>2. QED
    BY <1>3, <2>1, GotoIs DEF goal, Moves
<1>4. CASE \E k \in Keys \cup {NoKey} : Begin(r, k)
  BY <1>4, <1>1, <1>2 DEF Begin
<1>5. CASE LoadGet(r)
  <2>1. call[r].key \in Keys
    BY <1>5, OfRequest DEF LoadGet, CallSafe, CopyDescends, KeyPcs
  <2>2. QED
    BY <1>5, <2>1, <1>1, <1>3 DEF LoadGet
<1>6. CASE LoadCheck(r)
  <2>1. CASE Goto(r, "handling", call[r].key, call[r].state, None)
    BY <1>6, <2>1, GotoIs DEF LoadCheck, goal, Moves, Keeps
  <2>2. CASE Goto(r, "loadDelete", call[r].key, EmptyState, None)
    BY <2>2, <1>2
  <2>3. QED
    BY <1>6, <2>1, <2>2 DEF LoadCheck
<1>7. CASE LoadDelete(r) \/ DeadDelete(r) \/ PurgeDelete(r) \/ TtlDelete(r)
        \/ Insert(r) \/ SaveRefused(r) \/ Touch(r) \/ Abort(r)
  BY <1>7, <1>1 DEF LoadDelete, DeadDelete, PurgeDelete, TtlDelete, Insert, SaveRefused, Touch, Abort
<1>8. CASE UpdateRow(r)
  <2>1. CASE MayReinsert(call[r].state)
               /\ Goto(r, "fallback", NoKey, call[r].state, FallbackExpiry(now))
    BY <1>8, <2>1, GotoIs DEF UpdateRow, MayReinsert, goal, Moves, FallsBack
  <2>2. CASE Return(r)
    BY <2>2, <1>1
  <2>3. QED
    BY <1>8, <2>1, <2>2 DEF UpdateRow
<1>9. CASE RenewDelete(r)
  <2>1. StartSave(r, call[r].state) /\ call[r].state \in State /\ call[r].pc = "renewDelete"
    BY <1>9, OfRequest DEF RenewDelete
  <2>2. QED
    BY <2>1, StartSaveIs DEF goal, Moves, Renews
<1>10. CASE TtlGet(r)
  <2>1. call[r].key \in Keys
    BY <1>10, OfRequest DEF TtlGet, CallSafe, CopyDescends, KeyPcs
  <2>2. QED
    BY <1>10, <2>1, <1>1, <1>3 DEF TtlGet
<1>11. CASE TtlCheck(r)
  <2>1. ASSUME NEW e, Goto(r, "touch", call[r].key, call[r].state, e) PROVE goal
    BY <1>11, <2>1, GotoIs DEF TtlCheck, goal, Moves, Keeps
  <2>2. QED
    BY <1>11, <2>1, <1>1, <1>2 DEF TtlCheck
<1>12. CASE HandleUnchanged(r)
  BY <1>12, <1>1, <1>2 DEF HandleUnchanged, FinishUnchanged
<1>13. CASE HandlePurge(r)
  BY <1>13, <1>1, <1>2 DEF HandlePurge, FinishPurged
<1>14. CASE HandleChanged(r)
  <2>1. PICK op \in AppOps : \E s \in AppResults(call[r].state, op) : FinishChanged(r, s)
    BY <1>14 DEF HandleChanged
  <2>2. PICK s \in AppResults(call[r].state, op) : FinishChanged(r, s)
    BY <2>1
  <2>3. call[r].pc = "handling" /\ call[r].state \in State /\ op \in AppOpNames
    BY <1>14, OfRequest, StoreAssumption DEF HandleChanged
  <2>4. CASE call[r].key # NoKey
    <3>1. Goto(r, IF EffectiveExpiry(s, now) = None THEN "deadDelete" ELSE "update",
               call[r].key, s, EffectiveExpiry(s, now))
      BY <2>2, <2>4 DEF FinishChanged, StartUpdate
    <3>2. Changes(r)
      BY <2>2, <2>3, <2>4, <3>1, GotoIs DEF Changes
    <3>3. QED
      BY <3>1, <3>2, GotoIs DEF goal, Moves
  <2>5. CASE call[r].key = NoKey /\ StartSave(r, s)
    <3>1. call[r].state = EmptyState
      BY <2>3, <2>5, OfRequest DEF CallSafe, CopyDescends
    <3>2. s \in State /\ s.sub = NoSub
      BY <2>3, <3>1, AppResultsFacts DEF EmptyState
    <3>3. QED
      BY <2>5, <3>2, StartSaveIs DEF goal, Moves, Makes, HasSub
  <2>6. QED
    BY <2>2, <2>4, <2>5, <1>1 DEF FinishChanged
<1>15. CASE HandleLogin(r)
  <2>1. PICK t \in Tokens, u \in Subjects, x \in Rests :
          FinishRenewed(r, LoggedIn([call[r].state EXCEPT !.rest = x], u, t, now))
    BY <1>15 DEF HandleLogin
  <2>2. [call[r].state EXCEPT !.rest = x] \in State /\ now \in Instants
    BY OfRequest DEF State
  <2>3. PICK s \in State : HasSub(s) /\ HasTokens(s) /\ FinishRenewed(r, s)
    BY <2>1, <2>2, LoggedInFacts, StateAssumption DEF HasSub, HasTokens
  <2>4. CASE StartSave(r, s)
    BY <2>3, <2>4, StartSaveIs DEF goal, Moves, LogsIn, HasSub, HasTokens
  <2>5. CASE Goto(r, "renewDelete", call[r].key, s, None)
    BY <2>3, <2>5, GotoIs DEF goal, Moves, LogsIn
  <2>6. QED
    BY <2>3, <2>4, <2>5 DEF FinishRenewed
<1>16. QED
  BY <1>4, <1>5, <1>6, <1>7, <1>8, <1>9, <1>10, <1>11, <1>12, <1>13, <1>14, <1>15
  DEF RequestStep, StoreStep, HandlerStep

\* A row that a step of a request leaves behind: the one that was there, or ...
Remains(k) == rows[k] # NoRow /\ rows'[k] = rows[k] /\ (birth'[k] = birth[k] \/ birth[k] = None)

\* ... one that was inserted, updated or touched.
Written(r, k) ==
  \/ /\ call[r].pc \in {"save", "fallback"} /\ call[r].exp # None
     /\ rows'[k] = [state |-> call[r].state, expiresAt |-> call[r].exp]
     /\ birth'[k] = call[r].state
  \/ /\ call[r].pc = "update" /\ call[r].key = k /\ call[r].exp # None
     /\ rows'[k] = [state |-> call[r].state, expiresAt |-> call[r].exp]
     /\ birth'[k] = birth[k]
  \/ /\ call[r].pc = "touch" /\ call[r].key = k /\ rows[k] # NoRow
     /\ rows'[k].state = rows[k].state /\ rows'[k].expiresAt = call[r].exp
     /\ birth'[k] = birth[k]

LEMMA RequestRows ==
  ASSUME Safe, NEW r \in Requests, RequestStep(r), NEW k \in Keys, rows'[k] # NoRow
  PROVE  Remains(k) \/ Written(r, k)
<1>1. rows \in [Keys -> Row \cup {NoRow}] /\ birth \in [Keys -> State \cup {None}]
  BY DEF Safe, TypeOK
<1>2. CASE UNCHANGED <<rows, birth>>
  BY <1>2 DEF Remains
<1>3. CASE LoadDelete(r) \/ DeadDelete(r) \/ RenewDelete(r) \/ PurgeDelete(r) \/ TtlDelete(r)
  <2>1. UNCHANGED birth /\ (Delete(call[r].key) \/ UNCHANGED rows)
    BY <1>3 DEF LoadDelete, DeadDelete, RenewDelete, PurgeDelete, TtlDelete, BestEffortDelete
  <2>2. rows'[k] = rows[k]
    BY <1>1, <2>1 DEF Delete
  <2>3. QED
    BY <2>1, <2>2 DEF Remains
<1>4. CASE Insert(r)
  <2>1. PICK j \in FreshKeys :
          /\ rows' = [rows EXCEPT ![j] = [state |-> call[r].state, expiresAt |-> call[r].exp]]
          /\ birth' = [birth EXCEPT ![j] = call[r].state]
    BY <1>4 DEF Insert
  <2>2. call[r].pc \in {"save", "fallback"} /\ call[r].exp # None
    BY <1>4 DEF Insert
  <2>3. CASE j = k
    BY <1>1, <2>1, <2>2, <2>3 DEF Written, FreshKeys
  <2>4. CASE j # k
    BY <1>1, <2>1, <2>4 DEF Remains, FreshKeys
  <2>5. QED
    BY <2>3, <2>4
<1>5. CASE UpdateRow(r)
  <2>1. /\ call[r].pc = "update" /\ call[r].exp # None /\ UNCHANGED birth
        /\ call[r].key \in Keys
    BY <1>5, OfRequest DEF UpdateRow, CallSafe, PendingCapped, CopyDescends, KeyPcs
  <2>2. CASE rows' = [rows EXCEPT ![call[r].key] =
                        [state |-> call[r].state, expiresAt |-> call[r].exp]]
    BY <1>1, <2>1, <2>2 DEF Written, Remains
  <2>3. QED
    BY <1>2, <1>5, <2>1, <2>2 DEF UpdateRow
<1>6. CASE Touch(r)
  <2>1. call[r].pc = "touch" /\ UNCHANGED birth /\ call[r].key \in Keys
    BY <1>6, OfRequest DEF Touch, CallSafe, CopyDescends, KeyPcs
  <2>2. CASE rows[call[r].key] # NoRow
              /\ rows' = [rows EXCEPT ![call[r].key] =
                            [rows[call[r].key] EXCEPT !.expiresAt = call[r].exp]]
    <3>1. CASE k # call[r].key
      BY <1>1, <2>1, <2>2, <3>1 DEF Remains
    <3>2. CASE k = call[r].key
      <4>1. rows'[k] = [rows[k] EXCEPT !.expiresAt = call[r].exp] /\ rows[k] \in Row
        BY <1>1, <2>2, <3>2
      <4>2. rows'[k].state = rows[k].state /\ rows'[k].expiresAt = call[r].exp
        BY <4>1 DEF Row
      <4>3. QED
        BY <2>1, <2>2, <3>2, <4>2 DEF Written
    <3>3. QED
      BY <3>1, <3>2
  <2>3. QED
    BY <1>2, <1>6, <2>1, <2>2, Zenon DEF Touch
<1>7. QED
  BY <1>2, <1>3, <1>4, <1>5, <1>6
  DEF RequestStep, StoreStep, HandlerStep, Begin, LoadGet, LoadCheck, SaveRefused, TtlGet,
      TtlCheck, HandleUnchanged, HandleChanged, HandleLogin, HandlePurge, Abort

\* Everything else leaves the calls, the births and the remaining rows alone.
LEMMA OtherSteps ==
  ASSUME Safe, [Next]_vars, ~\E r \in Requests : RequestStep(r)
  PROVE  /\ UNCHANGED <<birth, call>> /\ now' \in Instants /\ now <= now'
         /\ \A k \in Keys : rows'[k] # NoRow => rows'[k] = rows[k]
<1>1. now \in Instants /\ rows \in [Keys -> Row \cup {NoRow}]
  BY DEF Safe, TypeOK
<1>2. (\E k \in Keys : Sweep(k)) \/ Tick \/ UNCHANGED vars
  BY DEF Next, RequestStep
<1>3. QED
  BY <1>1, <1>2 DEF Sweep, Delete, Tick, vars, Instants

-----------------------------------------------------------------------------
(* The cap on anonymous rows.                                                *)

\* Under sliding expiry, nobody removes "sub" from a session.
SubIsKept == Sliding => {"dropSub", "clear"} \cap AppOps = {}

\* Nobody removes the tokens of a login and leaves the rest of it.
TokensGoWithTheLogin == "dropTokens" \notin AppOps

LEMMA KeepsSub ==
  ASSUME SubIsKept, Sliding, NEW s \in State, NEW op \in AppOps, NEW a \in AppResults(s, op)
  PROVE  a.sub = s.sub
<1>1. op \in AppOpNames /\ op # "dropSub" /\ op # "clear"
  BY StoreAssumption DEF SubIsKept
<1>2. CASE op = "rest"
  BY <1>2 DEF AppResults, State
<1>3. CASE op = "dropTokens"
  BY <1>3 DEF AppResults, State
<1>4. CASE op = "dropLoginAt"
  BY <1>4 DEF AppResults, State
<1>5. CASE op = "garbleLoginAt"
  BY <1>5 DEF AppResults, State
<1>6. QED
  BY <1>1, <1>2, <1>3, <1>4, <1>5 DEF AppOpNames

LEMMA KeepsWhole ==
  ASSUME TokensGoWithTheLogin, NEW s \in State, Whole(s),
         NEW op \in AppOps, NEW a \in AppResults(s, op)
  PROVE  Whole(a)
<1>1. op \in AppOpNames /\ op # "dropTokens"
  BY StoreAssumption DEF TokensGoWithTheLogin
<1>2. CASE op = "rest"
  BY <1>2 DEF AppResults, State, Whole, HasSub, HasTokens
<1>3. CASE op = "dropLoginAt"
  BY <1>3, StateAssumption DEF AppResults, State, Whole, Instants
<1>4. CASE op = "garbleLoginAt"
  BY <1>4, StateAssumption DEF AppResults, State, Whole, Instants
<1>5. CASE op = "dropSub"
  BY <1>5 DEF AppResults, State, Whole, HasSub
<1>6. CASE op = "clear"
  BY <1>6 DEF AppResults, EmptyState, Whole, HasSub
<1>7. QED
  BY <1>1, <1>2, <1>3, <1>4, <1>5, <1>6 DEF AppOpNames

AnonymousCap == AtMost(PostAuthTtl, PreAuthTtl)

LEMMA CapFacts ==
  /\ AnonymousCap \in Nat
  /\ \A t : FallbackExpiry(t) = t + AnonymousCap
  /\ \A s, t : ~HasSub(s) => EffectiveExpiry(s, t) = t + AnonymousCap
  /\ ~HasSub(EmptyState)
BY ExpiryAssumption
DEF AnonymousCap, AtMost, FallbackExpiry, EffectiveExpiry, HasSub, EmptyState

LEMMA CapInit == Init => CapSafe
<1> SUFFICES ASSUME Init PROVE CapSafe
  OBVIOUS
<1>1. \A r \in Requests : call[r].pc = "idle" /\ call[r].key = NoKey
  BY DEF Init, Idle
<1>2. \A k \in Keys : rows[k] # NoRow => HasSub(rows[k].state) /\ birth[k] = rows[k].state
  BY StoreAssumption DEF Init
<1>3. QED
  BY <1>1, <1>2 DEF CapSafe, AnonymousCapped, PendingAnonymous, RenewalKnowsWhom, CopyPcs

\* The part that makes renewal harmless: without sliding expiry there is none, with
\* it every copy is as signed in as the row it came from.
LEMMA RenewalKeeps ==
  ASSUME SubIsKept, Safe, CapSafe, NEW r \in Requests, RequestStep(r)
  PROVE  RenewalKnowsWhom'
<1>1. Moves(r) /\ \A q \in Requests \ {r} : call'[q] = call[q]
  BY RequestMoves
<1>2. CASE ~Sliding
  <2>1. \A q \in Requests : call[q].pc \notin {"ttlGet", "ttlCheck", "touch"}
    BY <1>2 DEF CapSafe, RenewalKnowsWhom
  <2>2. call'[r].pc \notin {"ttlGet", "ttlCheck", "touch"}
    BY <1>1, <1>2, <2>1
    DEF Moves, Empties, Reads, Keeps, Changes, Makes, LogsIn, Renews, FallsBack
  <2>3. QED
    BY <1>1, <1>2, <2>1, <2>2 DEF RenewalKnowsWhom
<1>3. CASE Sliding
  <2>0. /\ \A k \in Keys : rows[k] # NoRow => rows[k].state.sub = birth[k].sub
        /\ \A q \in Requests : call[q].key # NoKey /\ call[q].pc \in CopyPcs =>
             call[q].state.sub = birth[call[q].key].sub
    BY <1>3 DEF CapSafe, RenewalKnowsWhom
  <2>1. \A q \in Requests : call[q].key # NoKey => call[q].key \in Keys /\ Issued(call[q].key)
    BY OfRequest
  <2>2. \A k \in Keys : Issued(k) => birth'[k] = birth[k]
    <3>1. birth' = birth \/ \E k \in FreshKeys : birth' = [birth EXCEPT ![k] = call[r].state]
      BY DEF RequestStep, StoreStep, HandlerStep, Begin, LoadGet, LoadCheck, LoadDelete, Insert,
         SaveRefused, UpdateRow, DeadDelete, RenewDelete, PurgeDelete, TtlGet, TtlCheck, TtlDelete,
         Touch, HandleUnchanged, HandleChanged, HandleLogin, HandlePurge, Abort
    <3>2. QED
      BY <3>1 DEF FreshKeys, Safe, TypeOK
  <2>3. ASSUME NEW k \in Keys, rows'[k] # NoRow PROVE rows'[k].state.sub = birth'[k].sub
    <3>1. CASE Remains(k)
      BY <2>0, <3>1, OfKey DEF Remains, Issued
    <3>2. CASE Written(r, k)
      <4>1. call[r].pc = "update" => call[r].key = k /\ call[r].key # NoKey /\ call[r].pc \in CopyPcs
        BY <3>2, StoreAssumption DEF Written, CopyPcs
      <4>2. QED
        BY <2>0, <3>2, <4>1 DEF Written
    <3>3. QED
      BY <2>3, <3>1, <3>2, RequestRows
  <2>4. call'[r].key # NoKey /\ call'[r].pc \in CopyPcs =>
          call'[r].state.sub = birth'[call'[r].key].sub
    <3> SUFFICES ASSUME call'[r].key # NoKey, call'[r].pc \in CopyPcs
                 PROVE  call'[r].state.sub = birth'[call'[r].key].sub
      OBVIOUS
    <3>1. CASE Reads(r)
      BY <2>0, <2>2, <3>1, OfKey DEF Reads
    <3>2. CASE Keeps(r)
      <4>1. call[r].pc \in CopyPcs
        BY <3>2 DEF Keeps, CopyPcs
      <4>2. QED
        BY <2>0, <2>1, <2>2, <3>2, <4>1 DEF Keeps
    <3>3. CASE Changes(r)
      <4>1. PICK op \in AppOps : call'[r].state \in AppResults(call[r].state, op)
        BY <3>3 DEF Changes
      <4>2. call'[r].state.sub = call[r].state.sub
        BY <1>3, <4>1, OfRequest, KeepsSub
      <4>3. call[r].pc \in CopyPcs /\ call[r].key # NoKey /\ call'[r].key = call[r].key
        BY <3>3 DEF Changes, CopyPcs
      <4>4. QED
        BY <2>0, <2>1, <2>2, <4>2, <4>3
    <3>4. CASE ~Reads(r) /\ ~Keeps(r) /\ ~Changes(r)
      BY <1>1, <3>4 DEF Moves, Empties, Makes, LogsIn, Renews, FallsBack, CopyPcs
    <3>5. QED
      BY <3>1, <3>2, <3>3, <3>4
  <2>5. ASSUME NEW q \in Requests, call'[q].key # NoKey, call'[q].pc \in CopyPcs
        PROVE  call'[q].state.sub = birth'[call'[q].key].sub
    BY <1>1, <2>0, <2>1, <2>2, <2>4, <2>5
  <2>6. QED
    BY <1>3, <2>3, <2>5 DEF RenewalKnowsWhom
<1>4. QED
  BY <1>2, <1>3

LEMMA CapRequestStep ==
  ASSUME SubIsKept, Safe, CapSafe, NEW r \in Requests, RequestStep(r)
  PROVE  CapSafe'
<1>1. Moves(r) /\ \A q \in Requests \ {r} : call'[q] = call[q]
  BY RequestMoves
<1>2. now' = now /\ now \in Instants
  BY DEF RequestStep, StoreStep, HandlerStep, Begin, LoadGet, LoadCheck, LoadDelete, Insert,
     SaveRefused, UpdateRow, DeadDelete, RenewDelete, PurgeDelete, TtlGet, TtlCheck, TtlDelete,
     Touch, HandleUnchanged, HandleChanged, HandleLogin, HandlePurge, Abort, Safe, TypeOK
<1>3. PendingAnonymous'
  <2> DEFINE c == call'[r]
  <2>1. ASSUME c.pc \in {"save", "update", "fallback"}, c.exp # None, ~HasSub(c.state)
        PROVE  c.exp <= now + AnonymousCap
    <3>1. c.exp = now + AnonymousCap
      BY <1>1, <2>1, CapFacts
      DEF Moves, Empties, Reads, Keeps, Changes, Makes, LogsIn, Renews, FallsBack
    <3>2. QED
      BY <3>1, <1>2, CapFacts DEF Instants
  <2>2. ASSUME NEW q \in Requests \ {r}, call[q].pc \in {"save", "update", "fallback"},
               call[q].exp # None, ~HasSub(call[q].state)
        PROVE  call[q].exp <= now + AnonymousCap
    BY <2>2 DEF CapSafe, PendingAnonymous, AnonymousCap
  <2>3. QED
    BY <1>1, <1>2, <2>1, <2>2 DEF PendingAnonymous, AnonymousCap
<1>4. AnonymousCapped'
  <2> SUFFICES ASSUME NEW k \in Keys, rows'[k] # NoRow, ~HasSub(rows'[k].state)
               PROVE  rows'[k].expiresAt <= now + AnonymousCap
    BY <1>2 DEF AnonymousCapped, AnonymousCap
  <2>1. CASE Remains(k)
    BY <2>1 DEF Remains, CapSafe, AnonymousCapped, AnonymousCap
  <2>2. CASE Written(r, k) /\ call[r].pc # "touch"
    <3>1. /\ call[r].pc \in {"save", "update", "fallback"} /\ call[r].exp # None
          /\ rows'[k] = [state |-> call[r].state, expiresAt |-> call[r].exp]
      BY <2>2 DEF Written
    <3>2. ~HasSub(call[r].state) /\ rows'[k].expiresAt = call[r].exp
      BY <3>1
    <3>3. QED
      BY <3>1, <3>2 DEF CapSafe, PendingAnonymous, AnonymousCap
  <2>3. CASE Written(r, k) /\ call[r].pc = "touch"
    <3>1. rows[k] # NoRow /\ rows'[k].state = rows[k].state /\ call[r].key = k
      BY <2>3 DEF Written
    <3>2. /\ rows[k].state.sub = birth[k].sub
          /\ call[r].state.sub = birth[k].sub
      BY <2>3, <3>1, StoreAssumption DEF CapSafe, RenewalKnowsWhom, CopyPcs
    <3>3. HasSub(call[r].state)
      BY <2>3, OfRequest DEF CallSafe, PendingCapped
    <3>4. QED
      BY <3>1, <3>2, <3>3 DEF HasSub
  <2>4. QED
    BY <2>1, <2>2, <2>3, RequestRows
<1>5. QED
  BY <1>3, <1>4, RenewalKeeps DEF CapSafe

LEMMA CapStep ==
  ASSUME SubIsKept, Safe, CapSafe, [Next]_vars
  PROVE  CapSafe'
<1>1. CASE \E r \in Requests : RequestStep(r)
  BY <1>1, CapRequestStep
<1>2. CASE ~\E r \in Requests : RequestStep(r)
  <2>1. /\ UNCHANGED <<birth, call>> /\ now' \in Instants /\ now \in Instants /\ now <= now'
        /\ \A k \in Keys : rows'[k] # NoRow => rows'[k] = rows[k]
    BY <1>2, OtherSteps DEF Safe, TypeOK
  <2>2. \A k \in Keys : rows[k] # NoRow => rows[k].expiresAt \in Instants
    BY OfKey
  <2>3. \A r \in Requests : call[r].exp \in Instants \cup {None}
    BY OfRequest DEF Call
  <2>4. AnonymousCapped'
    BY <2>1, <2>2, CapFacts DEF CapSafe, AnonymousCapped, Instants, AnonymousCap
  <2>5. PendingAnonymous'
    BY <2>1, <2>3, CapFacts DEF CapSafe, PendingAnonymous, Instants, AnonymousCap
  <2>6. RenewalKnowsWhom'
    BY <2>1 DEF CapSafe, RenewalKnowsWhom
  <2>7. QED
    BY <2>4, <2>5, <2>6 DEF CapSafe
<1>3. QED
  BY <1>1, <1>2

\* No anonymous row outlives the pre-auth TTL counted from now, unless expiry is
\* sliding and an application removes "sub" from a session it does not purge.
THEOREM StoreAnonymousCapped ==
  ASSUME SubIsKept
  PROVE  Spec => []AnonymousCapped
<1>1. Safe /\ CapSafe /\ [Next]_vars => CapSafe'
  BY CapStep
<1>2. CapSafe => AnonymousCapped
  BY DEF CapSafe
<1>3. QED
  BY <1>1, <1>2, CapInit, StoreSafe, PTL DEF Spec

-----------------------------------------------------------------------------
(* The fallback.                                                             *)

LEMMA WholeInit == Init => WholeSafe
<1> SUFFICES ASSUME Init PROVE WholeSafe
  OBVIOUS
<1>1. \A r \in Requests : call[r].pc = "idle" /\ Whole(call[r].state)
  BY DEF Init, Idle, Whole, HasSub, EmptyState
<1>2. \A k \in Keys : rows[k] # NoRow => Whole(rows[k].state)
  BY StoreAssumption, StateAssumption DEF Init, Whole, Instants
<1>3. QED
  BY <1>1, <1>2 DEF WholeSafe, FallbackIsAnonymous

LEMMA WholeRequestStep ==
  ASSUME TokensGoWithTheLogin, Safe, WholeSafe, NEW r \in Requests, RequestStep(r)
  PROVE  WholeSafe'
<1>1. Moves(r) /\ \A q \in Requests \ {r} : call'[q] = call[q]
  BY RequestMoves
<1>2. ASSUME NEW k \in Keys, rows'[k] # NoRow PROVE Whole(rows'[k].state)
  <2>1. CASE Remains(k)
    BY <2>1 DEF Remains, WholeSafe
  <2>2. CASE Written(r, k)
    BY <2>2 DEF Written, WholeSafe
  <2>3. QED
    BY <1>2, <2>1, <2>2, RequestRows
<1>3. Whole(call'[r].state)
  <2>1. CASE Changes(r)
    <3>1. PICK op \in AppOps : call'[r].state \in AppResults(call[r].state, op)
      BY <2>1 DEF Changes
    <3>2. QED
      BY <3>1, OfRequest, KeepsWhole DEF WholeSafe
  <2>2. CASE Renews(r)
    BY <2>2 DEF Renews, WholeSafe, Whole, HasTokens
  <2>3. CASE ~Changes(r) /\ ~Renews(r)
    BY <1>1, <2>3, CapFacts
    DEF Moves, Empties, Reads, Keeps, Makes, LogsIn, FallsBack, Whole, WholeSafe
  <2>4. QED
    BY <2>1, <2>2, <2>3
<1>4. call'[r].pc = "renewDelete" => HasTokens(call'[r].state)
  BY <1>1 DEF Moves, Empties, Reads, Keeps, Changes, Makes, LogsIn, Renews, FallsBack
<1>5. call'[r].pc = "fallback" => ~HasSub(call'[r].state)
  <2> SUFFICES ASSUME call'[r].pc = "fallback" PROVE ~HasSub(call'[r].state)
    OBVIOUS
  <2>1. call[r].pc = "update" /\ call'[r].state = call[r].state /\ ~HasTokens(call[r].state)
    BY <1>1 DEF Moves, Empties, Reads, Keeps, Changes, Makes, LogsIn, Renews, FallsBack
  <2>2. HasSub(call[r].state) => call[r].state.loginAt \in Instants
    BY <2>1, OfRequest DEF CallSafe, PendingCapped
  <2>3. QED
    BY <2>1, <2>2 DEF WholeSafe, Whole
<1>6. QED
  BY <1>1, <1>2, <1>3, <1>4, <1>5 DEF WholeSafe, FallbackIsAnonymous

LEMMA WholeStep ==
  ASSUME TokensGoWithTheLogin, Safe, WholeSafe, [Next]_vars
  PROVE  WholeSafe'
<1>1. CASE \E r \in Requests : RequestStep(r)
  BY <1>1, WholeRequestStep
<1>2. CASE ~\E r \in Requests : RequestStep(r)
  BY <1>2, OtherSteps DEF WholeSafe, FallbackIsAnonymous
<1>3. QED
  BY <1>1, <1>2

\* What update() inserts again, under a new key, is nobody's session, unless an
\* application removes the tokens of a login and leaves the rest of it.
THEOREM StoreFallbackIsAnonymous ==
  ASSUME TokensGoWithTheLogin
  PROVE  Spec => []FallbackIsAnonymous
<1>1. Safe /\ WholeSafe /\ [Next]_vars => WholeSafe'
  BY WholeStep
<1>2. WholeSafe => FallbackIsAnonymous
  BY DEF WholeSafe
<1>3. QED
  BY <1>1, <1>2, WholeInit, StoreSafe, PTL DEF Spec

-----------------------------------------------------------------------------
(* What a login's status, and a request's view, are made of.                 *)

\* A login under no key is pending.
LEMMA PendingStatus ==
  ASSUME NEW t \in Tokens, \A k \in Keys : Issued(k) => birth[k].tok # t
  PROVE  LoginStatus[t] = "pending"
BY DEF LoginStatus, HomeOf

\* A login under a key has that key only, and lives with its row.
LEMMA OneHome ==
  ASSUME Safe, NEW k \in Keys, Issued(k), birth[k].tok \in Tokens
  PROVE  HomeOf(birth[k].tok) = {k}
<1>1. HasTokens(birth[k])
  BY StateAssumption DEF HasTokens
<1>2. QED
  BY <1>1 DEF HomeOf, Safe, OneKeyPerLogin

LEMMA HomeStatus ==
  ASSUME Safe, NEW k \in Keys, Issued(k), birth[k].tok \in Tokens
  PROVE  LoginStatus[birth[k].tok] = IF rows[k] # NoRow THEN "live" ELSE "ended"
BY OneHome DEF LoginStatus

\* Statuses change only with the births and the set of rows.
LEMMA StatusStays ==
  ASSUME UNCHANGED birth, \A k \in Keys : (rows'[k] # NoRow) <=> (rows[k] # NoRow)
  PROVE  LoginStatus' = LoginStatus
BY DEF LoginStatus, HomeOf, Issued

\* A row that disappears ends the login it was born in, if it was born in one.
LEMMA DeletionEnds ==
  ASSUME Safe, NEW k \in Keys, Delete(k), UNCHANGED birth
  PROVE  \/ LoginStatus' = LoginStatus
         \/ \E t \in Tokens : /\ LoginStatus[t] = "live"
                              /\ LoginStatus' = [LoginStatus EXCEPT ![t] = "ended"]
<1>0. rows'[k] = NoRow /\ \A j \in Keys \ {k} : rows'[j] = rows[j]
  BY DEF Delete, Safe, TypeOK
<1>1. CASE rows[k] = NoRow
  BY <1>0, <1>1, StatusStays
<1>2. CASE rows[k] # NoRow /\ birth[k].tok \notin Tokens
  BY <1>0, <1>2 DEF LoginStatus, HomeOf, Issued
<1>3. CASE rows[k] # NoRow /\ birth[k].tok \in Tokens
  <2>1. PICK t \in Tokens : t = birth[k].tok
    BY <1>3
  <2>2. HomeOf(t) = {k}
    BY <1>3, <2>1, OneHome, OfKey
  <2>3. LoginStatus[t] = "live" /\ LoginStatus'[t] = "ended"
    <3>1. HomeOf(t)' = HomeOf(t)
      BY DEF HomeOf, Issued
    <3>2. QED
      BY <1>0, <1>3, <2>2, <3>1 DEF LoginStatus
  <2>4. \A u \in Tokens \ {t} : LoginStatus'[u] = LoginStatus[u]
    <3> SUFFICES ASSUME NEW u \in Tokens \ {t} PROVE LoginStatus'[u] = LoginStatus[u]
      OBVIOUS
    <3>1. HomeOf(u)' = HomeOf(u) /\ \A j \in HomeOf(u) : rows'[j] = rows[j]
      BY <1>0, <2>1 DEF HomeOf, Issued
    <3>2. QED
      BY <3>1 DEF LoginStatus
  <2>5. LoginStatus' = [LoginStatus EXCEPT ![t] = "ended"]
    BY <2>3, <2>4 DEF LoginStatus
  <2>6. QED
    BY <2>3, <2>5
<1>4. QED
  BY <1>1, <1>2, <1>3

\* What a request has fetched and what it uses, from what its call is doing.
FetchedBy(c) == IF c.pc = "check" /\ HasSub(c.state) THEN c.state.tok ELSE NoTok
UsedBy(c) == IF c.pc = "handling" /\ HasSub(c.state) THEN c.state.tok ELSE NoTok

LEMMA Updated ==
  ASSUME NEW S, NEW f, NEW g, NEW x \in S, NEW v,
         f = [y \in S |-> f[y]], g = [y \in S |-> g[y]],
         g[x] = v, \A y \in S \ {x} : g[y] = f[y]
  PROVE  g = [f EXCEPT ![x] = v]
<1>1. [f EXCEPT ![x] = v] = [y \in S |-> IF y = x THEN v ELSE f[y]]
  OBVIOUS
<1>2. \A y \in S : g[y] = IF y = x THEN v ELSE f[y]
  OBVIOUS
<1>3. QED
  BY <1>1, <1>2, Zenon

LEMMA ViewsMove ==
  ASSUME Safe, NEW r \in Requests, NEW c, call' = [call EXCEPT ![r] = c]
  PROVE  /\ Fetched' = [Fetched EXCEPT ![r] = FetchedBy(c)]
         /\ InUse' = [InUse EXCEPT ![r] = UsedBy(c)]
<1>1. call'[r] = c /\ \A q \in Requests \ {r} : call'[q] = call[q]
  BY DEF Safe, TypeOK
<1>2. Fetched' = [Fetched EXCEPT ![r] = FetchedBy(c)]
  <2>1. Fetched'[r] = FetchedBy(c) /\ \A q \in Requests \ {r} : Fetched'[q] = Fetched[q]
    BY <1>1 DEF Fetched, FetchedBy
  <2>2. /\ Fetched = [q \in Requests |-> Fetched[q]]
        /\ Fetched' = [q \in Requests |-> Fetched'[q]]
    BY DEF Fetched
  <2>3. QED
    BY <2>1, <2>2, Updated
<1>3. InUse' = [InUse EXCEPT ![r] = UsedBy(c)]
  <2>1. InUse'[r] = UsedBy(c) /\ \A q \in Requests \ {r} : InUse'[q] = InUse[q]
    BY <1>1 DEF InUse, UsedBy
  <2>2. /\ InUse = [q \in Requests |-> InUse[q]]
        /\ InUse' = [q \in Requests |-> InUse'[q]]
    BY DEF InUse
  <2>3. QED
    BY <2>1, <2>2, Updated
<1>4. QED
  BY <1>2, <1>3

\* Where a request stands that has fetched nothing and uses nothing.
LEMMA NoViews ==
  ASSUME NEW r \in Requests
  PROVE  /\ Fetched[r] = FetchedBy(call[r]) /\ InUse[r] = UsedBy(call[r])
         /\ call[r].pc # "check" => Fetched[r] = NoTok
         /\ call[r].pc # "handling" => InUse[r] = NoTok
         /\ \A c : c.pc \notin {"check", "handling"} => FetchedBy(c) = NoTok /\ UsedBy(c) = NoTok
         /\ \A c : ~HasSub(c.state) => FetchedBy(c) = NoTok /\ UsedBy(c) = NoTok
BY DEF Fetched, InUse, FetchedBy, UsedBy

-----------------------------------------------------------------------------
(* One lemma per group of steps. *)

Unseen(c) == c.pc \notin {"check", "handling"} \/ ~HasSub(c.state)

LEMMA UnseenGoto ==
  ASSUME NEW r \in Requests, NEW pc, NEW k, NEW s, NEW e, Goto(r, pc, k, s, e),
         pc \notin {"check", "handling"} \/ ~HasSub(s)
  PROVE  \E c : call' = [call EXCEPT ![r] = c] /\ Unseen(c)
<1> DEFINE c == [pc |-> pc, key |-> k, state |-> s, exp |-> e]
<1>1. call' = [call EXCEPT ![r] = c] /\ c.pc = pc /\ c.state = s
  BY DEF Goto
<1> HIDE DEF c
<1>2. QED
  BY <1>1 DEF Unseen

LEMMA UnseenReturn ==
  ASSUME NEW r \in Requests, Return(r)
  PROVE  \E c : call' = [call EXCEPT ![r] = c] /\ Unseen(c)
<1>1. Unseen(Idle)
  BY DEF Unseen, Idle
<1>2. QED
  BY <1>1 DEF Return

\* A request that moves on without a login, while no login begins or ends.
LEMMA Leaves ==
  ASSUME Safe, NEW r \in Requests, NEW c, call' = [call EXCEPT ![r] = c], Unseen(c),
         UNCHANGED <<now, minted>>, LoginStatus' = LoginStatus
  PROVE  Revocable!Leave(r)
<1>1. FetchedBy(c) = NoTok /\ UsedBy(c) = NoTok
  BY DEF Unseen, FetchedBy, UsedBy
<1>2. QED
  BY <1>1, ViewsMove, ZenonT(30) DEF Revocable!Leave

\* Neither the views nor the clock move when a request comes from where it used
\* nothing and goes to where it uses nothing.
LEMMA ViewsStay ==
  ASSUME Safe, NEW r \in Requests, NEW c, call' = [call EXCEPT ![r] = c], Unseen(c),
         call[r].pc \notin {"check", "handling"}
  PROVE  Fetched' = Fetched /\ InUse' = InUse
<1>1. call'[r] = c /\ \A q \in Requests \ {r} : call'[q] = call[q]
  BY DEF Safe, TypeOK
<1>2. QED
  BY <1>1 DEF Fetched, InUse, Unseen

\* Steps that touch no login: the request only moves on.
LEMMA OrdinarySteps ==
  ASSUME Safe, NEW r \in Requests,
         \/ \E k \in Keys \cup {NoKey} : Begin(r, k)
         \/ LoadGet(r) /\ NoSession(r)
         \/ LoadCheck(r) /\ call'[r].pc = "loadDelete"
         \/ HandleUnchanged(r) \/ HandleChanged(r) \/ HandlePurge(r)
         \/ SaveRefused(r) \/ UpdateRow(r) \/ TtlGet(r) \/ TtlCheck(r) \/ Touch(r)
         \/ Abort(r)
  PROVE  Revocable!Leave(r)
<1>1. UNCHANGED <<now, birth, minted>>
  BY DEF Begin, LoadGet, LoadCheck, HandleUnchanged, HandleChanged, HandlePurge, SaveRefused,
     UpdateRow, TtlGet, TtlCheck, Touch, Abort
<1>2. \A k \in Keys : (rows'[k] # NoRow) <=> (rows[k] # NoRow)
  <2>1. CASE UpdateRow(r)
    <3>1. call[r].key \in Keys /\ call[r].state \in State /\ call[r].exp \in Instants
      BY <2>1, OfRequest DEF UpdateRow, CallSafe, CopyDescends, PendingCapped, KeyPcs, Call
    <3>2. [state |-> call[r].state, expiresAt |-> call[r].exp] # NoRow
      BY <3>1, StoreAssumption
    <3>3. QED
      BY <2>1, <3>1, <3>2 DEF UpdateRow, Safe, TypeOK
  <2>2. CASE Touch(r)
    <3> DEFINE k == call[r].key
    <3>1. k \in Keys /\ call[r].exp \in Instants
      BY <2>2, OfRequest DEF Touch, CallSafe, CopyDescends, PendingCapped, KeyPcs, Call
    <3>2. CASE UNCHANGED rows
      BY <3>2
    <3>3. CASE rows[k] # NoRow /\ rows' = [rows EXCEPT ![k] = [rows[k] EXCEPT !.expiresAt = call[r].exp]]
      <4>1. rows[k] \in Row
        BY <3>1, <3>3 DEF Safe, TypeOK
      <4>2. [rows[k] EXCEPT !.expiresAt = call[r].exp] # NoRow
        BY <4>1, <3>1, StateFacts DEF Row
      <4>3. QED
        BY <3>1, <3>3, <4>2 DEF Safe, TypeOK
    <3>4. QED
      BY <2>2, <3>2, <3>3, Zenon DEF Touch
  <2>3. CASE ~UpdateRow(r) /\ ~Touch(r)
    BY <2>3 DEF Begin, LoadGet, LoadCheck, HandleUnchanged, HandleChanged, HandlePurge,
       SaveRefused, TtlGet, TtlCheck, Abort
  <2>4. QED
    BY <2>1, <2>2, <2>3
<1>3. LoginStatus' = LoginStatus
  BY <1>1, <1>2, StatusStays
<1>4. ~HasSub(EmptyState)
  BY DEF HasSub, EmptyState
<1>5. \E c : call' = [call EXCEPT ![r] = c] /\ Unseen(c)
  <2>1. ASSUME Return(r) PROVE \E c : call' = [call EXCEPT ![r] = c] /\ Unseen(c)
    BY <2>1, UnseenReturn
  <2>2. ASSUME NEW pc \in Pcs, NEW k, NEW s, NEW e, Goto(r, pc, k, s, e),
               pc \notin {"check", "handling"} \/ ~HasSub(s)
        PROVE  \E c : call' = [call EXCEPT ![r] = c] /\ Unseen(c)
    BY <2>2, UnseenGoto
  <2>3. CASE \E k \in Keys \cup {NoKey} : Begin(r, k)
    BY <2>3, <2>2, <1>4 DEF Begin, NoSession, Pcs
  <2>4. CASE LoadGet(r) /\ NoSession(r)
    BY <2>4, <2>2, <1>4 DEF NoSession, Pcs
  <2>5. CASE LoadCheck(r) /\ call'[r].pc = "loadDelete"
    <3>1. call'[r].pc # "handling"
      BY <2>5
    <3>2. ~Goto(r, "handling", call[r].key, call[r].state, None)
      BY <3>1 DEF Goto, Safe, TypeOK
    <3>3. Goto(r, "loadDelete", call[r].key, EmptyState, None)
      BY <2>5, <3>2 DEF LoadCheck
    <3>4. QED
      BY <3>3, <2>2 DEF Pcs
  <2>6. CASE HandleUnchanged(r)
    BY <2>6, <2>1, <2>2 DEF HandleUnchanged, FinishUnchanged, Pcs
  <2>7. CASE HandlePurge(r)
    BY <2>7, <2>1, <2>2 DEF HandlePurge, FinishPurged, Pcs
  <2>8. CASE HandleChanged(r)
    <3>1. PICK s : FinishChanged(r, s)
      BY <2>8 DEF HandleChanged
    <3>2. CASE StartUpdate(r, call[r].key, s)
      BY <3>2, <2>2 DEF StartUpdate, Pcs
    <3>3. CASE StartSave(r, s)
      BY <3>3, <2>2 DEF StartSave, Pcs
    <3>4. QED
      BY <3>1, <3>2, <3>3, <2>1 DEF FinishChanged
  <2>9. CASE UpdateRow(r)
    BY <2>9, <2>1, <2>2 DEF UpdateRow, Pcs
  <2>10. CASE TtlGet(r)
    BY <2>10, <2>1, <2>2 DEF TtlGet, Pcs
  <2>11. CASE TtlCheck(r)
    BY <2>11, <2>1, <2>2 DEF TtlCheck, Pcs
  <2>12. CASE SaveRefused(r) \/ Touch(r) \/ Abort(r)
    BY <2>12, <2>1 DEF SaveRefused, Touch, Abort
  <2>13. QED
    BY <2>3, <2>4, <2>5, <2>6, <2>7, <2>8, <2>9, <2>10, <2>11, <2>12
<1>6. QED
  BY <1>1, <1>3, <1>5, Leaves

\* load() fetches a row: the login in it is that of the row's birth, and live.
LEMMA LoadFetches ==
  ASSUME Safe, NEW r \in Requests, LoadGet(r), ~NoSession(r)
  PROVE  \/ UNCHANGED Revocable!vars
         \/ \E t \in Tokens : Revocable!Fetch(r, t)
<1> DEFINE k == call[r].key
           s == rows[k].state
           c == [pc |-> "check", key |-> k, state |-> s, exp |-> rows[k].expiresAt]
<1>1. /\ call' = [call EXCEPT ![r] = c] /\ rows[k] # NoRow /\ call[r].pc = "get"
      /\ UNCHANGED <<now, rows, birth, minted>>
  BY DEF LoadGet, Goto
<1>2. k \in Keys
  BY <1>1, OfRequest DEF CallSafe, CopyDescends, KeyPcs
<1>3. s \in State /\ Issued(k) /\ Descends(s, birth[k])
  BY <1>1, <1>2, OfKey
<1>4. LoginStatus' = LoginStatus
  BY <1>1, StatusStays
<1>5. Fetched' = [Fetched EXCEPT ![r] = FetchedBy(c)] /\ InUse' = [InUse EXCEPT ![r] = NoTok]
  <2>1. UsedBy(c) = NoTok
    BY DEF UsedBy
  <2> HIDE DEF c
  <2>2. QED
    BY <1>1, <2>1, ViewsMove
<1>6. Fetched[r] = NoTok /\ InUse[r] = NoTok
  BY <1>1, NoViews
<1>7. InUse' = InUse
  BY <1>5, <1>6 DEF InUse
<1>8. CASE FetchedBy(c) = NoTok
  <2>1. Fetched' = Fetched
    BY <1>5, <1>6, <1>8 DEF Fetched
  <2>2. QED
    BY <1>1, <1>4, <1>7, <2>1 DEF Revocable!vars
<1>9. CASE FetchedBy(c) # NoTok
  <2>1. s.tok \in Tokens /\ FetchedBy(c) = s.tok /\ birth[k].tok = s.tok
    BY <1>3, <1>9 DEF FetchedBy, State, Descends
  <2>2. LoginStatus[s.tok] = "live"
    BY <1>1, <1>2, <1>3, <2>1, HomeStatus
  <2> HIDE DEF s
  <2>3. Revocable!Fetch(r, s.tok)
    BY <1>1, <1>4, <1>5, <1>7, <2>1, <2>2 DEF Revocable!Fetch
  <2>4. QED
    BY <2>1, <2>3
<1>10. QED
  BY <1>8, <1>9

\* load() lets a request in: its login has not reached its lifetime, counted from
\* the time it was granted.
LEMMA LoadAdmits ==
  ASSUME Safe, NEW r \in Requests, LoadCheck(r), call'[r].pc # "loadDelete"
  PROVE  \/ UNCHANGED Revocable!vars
         \/ \E t \in Tokens : Revocable!Admit(r, t)
<1> DEFINE k == call[r].key
           s == call[r].state
           c == [pc |-> "handling", key |-> k, state |-> s, exp |-> None]
<1>0. ~Goto(r, "loadDelete", k, EmptyState, None)
  BY DEF Goto, Safe, TypeOK
<1>1. /\ call' = [call EXCEPT ![r] = c] /\ LoadAccepts(s, call[r].exp, now)
      /\ call[r].pc = "check" /\ UNCHANGED <<now, rows, birth, minted>>
  BY <1>0 DEF LoadCheck, Goto
<1>2. k \in Keys /\ Issued(k) /\ Descends(s, birth[k]) /\ s \in State /\ now \in Instants
  BY <1>1, OfRequest, StoreAssumption DEF CallSafe, CopyDescends, KeyPcs, CopyPcs
<1>3. LoginStatus' = LoginStatus
  BY <1>1, StatusStays
<1>4. Fetched' = [Fetched EXCEPT ![r] = NoTok] /\ InUse' = [InUse EXCEPT ![r] = UsedBy(c)]
  <2>1. FetchedBy(c) = NoTok
    BY DEF FetchedBy
  <2> HIDE DEF c
  <2>2. QED
    BY <1>1, <2>1, ViewsMove
<1>5. Fetched[r] = UsedBy(c) /\ InUse[r] = NoTok
  BY <1>1, NoViews DEF FetchedBy, UsedBy
<1>6. CASE UsedBy(c) = NoTok
  <2>1. Fetched' = Fetched /\ InUse' = InUse
    BY <1>4, <1>5, <1>6, ZenonT(30) DEF Fetched, InUse
  <2>2. QED
    BY <1>1, <1>3, <2>1 DEF Revocable!vars
<1>7. CASE UsedBy(c) # NoTok
  <2>1. HasSub(s) /\ s.tok \in Tokens /\ UsedBy(c) = s.tok /\ birth[k].tok = s.tok
    BY <1>2, <1>7 DEF UsedBy, State, Descends
  <2>2. s.loginAt \in Instants /\ now < s.loginAt + MaxLifetime
    BY <1>1, <1>2, <2>1, StateAssumption, ExpiryAssumption
    DEF LoadAccepts, HardCapExpiry, State, Instants
  <2>3. minted[s.tok] = s.loginAt
    <3>1. birth[k].loginAt = minted[birth[k].tok]
      BY <1>2, <2>1, StateAssumption DEF Safe, BirthsAreLogins, HasTokens
    <3>2. s.loginAt = birth[k].loginAt
      BY <1>2, <2>2, StateAssumption DEF Descends, Instants
    <3>3. QED
      BY <2>1, <3>1, <3>2
  <2> HIDE DEF s
  <2>4. Revocable!Admit(r, s.tok)
    BY <1>1, <1>3, <1>4, <1>5, <2>1, <2>2, <2>3 DEF Revocable!Admit
  <2>5. QED
    BY <2>1, <2>4
<1>8. QED
  BY <1>6, <1>7

\* A completed login is granted; it has no key yet.
LEMMA LoginGrants ==
  ASSUME Safe, NEW r \in Requests, HandleLogin(r)
  PROVE  \E t \in Tokens : Revocable!Grant(r, t)
<1>1. PICK t \in Tokens : /\ minted[t] = None /\ minted' = [minted EXCEPT ![t] = now]
                          /\ \E s : FinishRenewed(r, s)
  BY DEF HandleLogin
<1>2. call[r].pc = "handling" /\ UNCHANGED <<now, rows, birth>>
  BY DEF HandleLogin
<1>3. PICK c : call' = [call EXCEPT ![r] = c] /\ c.pc \in {"renewDelete", "save"}
  <2>1. PICK s : FinishRenewed(r, s)
    BY <1>1
  <2>2. PICK pc \in {"renewDelete", "save"} : \E k, a, e : Goto(r, pc, k, a, e)
    BY <2>1 DEF FinishRenewed, StartSave
  <2>3. PICK k, a, e : Goto(r, pc, k, a, e)
    BY <2>2
  <2> DEFINE c == [pc |-> pc, key |-> k, state |-> a, exp |-> e]
  <2>4. call' = [call EXCEPT ![r] = c] /\ c.pc = pc
    BY <2>3 DEF Goto
  <2> HIDE DEF c
  <2>5. QED
    BY <2>4
<1>4. Fetched' = [Fetched EXCEPT ![r] = NoTok] /\ InUse' = [InUse EXCEPT ![r] = NoTok]
  BY <1>3, ViewsMove DEF FetchedBy, UsedBy
<1>5. Fetched' = Fetched
  BY <1>2, <1>4, NoViews DEF Fetched
<1>6. LoginStatus' = LoginStatus
  BY <1>2, StatusStays
<1>7. QED
  BY <1>1, <1>2, <1>4, <1>5, <1>6 DEF Revocable!Grant

\* repo.insert makes the login it carries usable, for the first and only time.
LEMMA InsertEstablishes ==
  ASSUME Safe, NEW r \in Requests, Insert(r)
  PROVE  \/ UNCHANGED Revocable!vars
         \/ \E t \in Tokens : Revocable!Establish(t)
<1> DEFINE c == call[r]
           row == [state |-> c.state, expiresAt |-> c.exp]
<1>1. /\ c.pc \in {"save", "fallback"} /\ c.exp # None
      /\ call' = [call EXCEPT ![r] = Idle] /\ UNCHANGED <<now, minted>>
  BY DEF Insert, Return
<1>2. PICK k \in FreshKeys :
        rows' = [rows EXCEPT ![k] = row] /\ birth' = [birth EXCEPT ![k] = c.state]
  BY DEF Insert
<1>3. k \in Keys /\ ~Issued(k) /\ CallSafe(c) /\ c.state \in State /\ c.exp \in Instants
  BY <1>1, OfRequest DEF FreshKeys, Call
<1>4. row # NoRow /\ c.state # None
  BY <1>3, StateFacts, StoreAssumption
<1>5. /\ rows'[k] = row /\ birth'[k] = c.state
      /\ \A j \in Keys \ {k} : rows'[j] = rows[j] /\ birth'[j] = birth[j]
  BY <1>2, <1>3 DEF Safe, TypeOK
<1>6. Fetched' = Fetched /\ InUse' = InUse
  <2>1. Unseen(Idle)
    BY DEF Unseen, Idle
  <2>2. QED
    BY <1>1, <2>1, ViewsStay
<1>7. \A t \in Tokens : t # c.state.tok => LoginStatus'[t] = LoginStatus[t]
  <2> SUFFICES ASSUME NEW t \in Tokens, t # c.state.tok PROVE LoginStatus'[t] = LoginStatus[t]
    OBVIOUS
  <2>1. HomeOf(t)' = HomeOf(t) /\ k \notin HomeOf(t)
    BY <1>3, <1>5 DEF HomeOf, Issued
  <2>2. \A j \in HomeOf(t) : rows'[j] = rows[j]
    BY <1>5, <2>1 DEF HomeOf
  <2>3. QED
    BY <2>1, <2>2 DEF LoginStatus
<1>8. CASE ~HasTokens(c.state)
  <2>1. LoginStatus' = LoginStatus
    BY <1>7, <1>8, StateAssumption DEF LoginStatus, HasTokens
  <2>2. QED
    BY <1>1, <1>6, <2>1 DEF Revocable!vars
<1>9. CASE HasTokens(c.state)
  <2>0. PICK t \in Tokens : t = c.state.tok
    BY <1>3, <1>9 DEF HasTokens, State
  <2>1. /\ minted[t] # None
        /\ \A j \in Keys : Issued(j) => birth[j].tok # t
    BY <1>1, <1>3, <1>9, <2>0 DEF CallSafe, PendingLogin, Unsaved
  <2>2. LoginStatus[t] = "pending"
    BY <2>1, PendingStatus
  <2>3. LoginStatus'[t] = "live"
    <3>1. k \in HomeOf(t)' /\ rows'[k] # NoRow
      BY <1>3, <1>4, <1>5, <2>0 DEF HomeOf, Issued
    <3>2. QED
      BY <3>1 DEF LoginStatus
  <2>4. LoginStatus' = [LoginStatus EXCEPT ![t] = "live"]
    <3>1. \A u \in Tokens \ {t} : LoginStatus'[u] = LoginStatus[u]
      BY <1>7, <2>0
    <3>2. QED
      BY <2>3, <3>1 DEF LoginStatus
  <2>5. Revocable!Establish(t)
    BY <1>1, <1>6, <2>1, <2>2, <2>4 DEF Revocable!Establish
  <2>6. QED
    BY <2>5
<1>10. QED
  BY <1>8, <1>9

\* Every delete ends at most one login.
LEMMA DeletesEnd ==
  ASSUME Safe, NEW r \in Requests,
         LoadDelete(r) \/ DeadDelete(r) \/ RenewDelete(r) \/ PurgeDelete(r) \/ TtlDelete(r)
  PROVE  Revocable!Leave(r) \/ \E t \in Tokens : Revocable!End(t)
<1>1. /\ call[r].key \in Keys /\ UNCHANGED <<now, birth, minted>>
      /\ Delete(call[r].key) \/ UNCHANGED rows
      /\ call[r].pc \notin {"check", "handling"}
  BY OfRequest DEF LoadDelete, DeadDelete, RenewDelete, PurgeDelete, TtlDelete, CallSafe,
     CopyDescends, KeyPcs, BestEffortDelete
<1>2. PICK c : call' = [call EXCEPT ![r] = c] /\ Unseen(c)
  <2>1. ~HasSub(EmptyState)
    BY DEF HasSub, EmptyState
  <2>2. CASE LoadDelete(r)
    BY <2>1, <2>2, UnseenGoto DEF LoadDelete, NoSession
  <2>3. CASE RenewDelete(r)
    BY <2>3, UnseenGoto DEF RenewDelete, StartSave
  <2>4. CASE DeadDelete(r) \/ PurgeDelete(r) \/ TtlDelete(r)
    BY <2>4, UnseenReturn DEF DeadDelete, PurgeDelete, TtlDelete
  <2>5. QED
    BY <2>2, <2>3, <2>4
<1>3. Fetched' = Fetched /\ InUse' = InUse
  BY <1>1, <1>2, ViewsStay
<1>4. \/ LoginStatus' = LoginStatus
      \/ \E t \in Tokens : /\ LoginStatus[t] = "live"
                           /\ LoginStatus' = [LoginStatus EXCEPT ![t] = "ended"]
  BY <1>1, DeletionEnds, StatusStays
<1>5. CASE LoginStatus' = LoginStatus
  BY <1>1, <1>2, <1>5, Leaves
<1>6. CASE \E t \in Tokens : /\ LoginStatus[t] = "live"
                             /\ LoginStatus' = [LoginStatus EXCEPT ![t] = "ended"]
  BY <1>1, <1>3, <1>6 DEF Revocable!End
<1>7. QED
  BY <1>4, <1>5, <1>6

\* Clean-up, and time.
LEMMA EnvironmentMaps ==
  ASSUME Safe, (\E k \in Keys : Sweep(k)) \/ Tick \/ UNCHANGED vars
  PROVE  [Revocable!Next]_(Revocable!vars)
<1>1. Fetched' = Fetched /\ InUse' = InUse
  BY DEF Sweep, Tick, vars, Fetched, InUse
<1>2. CASE \E k \in Keys : Sweep(k)
  <2>1. PICK k \in Keys : Delete(k) /\ UNCHANGED <<now, birth, minted>>
    BY <1>2 DEF Sweep
  <2>2. CASE LoginStatus' = LoginStatus
    BY <1>1, <2>1, <2>2 DEF Revocable!vars
  <2>3. CASE \E t \in Tokens : /\ LoginStatus[t] = "live"
                               /\ LoginStatus' = [LoginStatus EXCEPT ![t] = "ended"]
    BY <1>1, <2>1, <2>3 DEF Revocable!End, Revocable!Next
  <2>4. QED
    BY <2>1, <2>2, <2>3, DeletionEnds
<1>3. CASE Tick \/ UNCHANGED vars
  <2>1. LoginStatus' = LoginStatus /\ minted' = minted
    BY <1>3, StatusStays DEF Tick, vars
  <2>2. now' = now + 1 \/ now' = now
    BY <1>3 DEF Tick, vars
  <2>3. QED
    BY <1>1, <2>1, <2>2 DEF Revocable!Next, Revocable!Advance, Revocable!vars
<1>4. QED
  BY <1>2, <1>3

-----------------------------------------------------------------------------
(* The refinement. *)

LEMMA InitMaps == Init => Revocable!Init
<1> SUFFICES ASSUME Init PROVE Revocable!Init
  OBVIOUS
<1>1. Safe
  BY SafeInit
<1>2. \A k \in Keys : Issued(k) => birth[k].tok = NoTok
  <2> SUFFICES ASSUME NEW k \in Keys, Issued(k) PROVE birth[k].tok = NoTok
    OBVIOUS
  <2>1. rows[k] \in LegacyRows /\ birth[k] = rows[k].state
    BY DEF Init, Issued
  <2>2. QED
    BY <2>1, StoreAssumption
<1>3. \A t \in Tokens : LoginStatus[t] = "pending"
  BY <1>2, PendingStatus, StateAssumption
<1>4. \A r \in Requests : Fetched[r] = NoTok /\ InUse[r] = NoTok
  BY DEF Init, Idle, Fetched, InUse
<1>5. /\ LoginStatus = [t \in Tokens |-> "pending"]
      /\ Fetched = [r \in Requests |-> NoTok] /\ InUse = [r \in Requests |-> NoTok]
  BY <1>3, <1>4 DEF LoginStatus, Fetched, InUse
<1>6. QED
  BY <1>5 DEF Init, Revocable!Init

LEMMA StepMaps == Safe /\ [Next]_vars => [Revocable!Next]_(Revocable!vars)
<1> SUFFICES ASSUME Safe, [Next]_vars PROVE [Revocable!Next]_(Revocable!vars)
  OBVIOUS
<1>1. ASSUME NEW r \in Requests, NEW k \in Keys \cup {NoKey}, Begin(r, k)
      PROVE  Revocable!Next
  BY <1>1, OrdinarySteps DEF Revocable!Next
<1>2. ASSUME NEW r \in Requests, StoreStep(r) PROVE [Revocable!Next]_(Revocable!vars)
  <2>1. CASE LoadGet(r)
    <3>1. Revocable!Leave(r) \/ UNCHANGED Revocable!vars \/ \E t \in Tokens : Revocable!Fetch(r, t)
      BY <2>1, OrdinarySteps, LoadFetches
    <3>2. QED
      BY <3>1 DEF Revocable!Next
  <2>2. CASE LoadCheck(r)
    <3>1. Revocable!Leave(r) \/ UNCHANGED Revocable!vars \/ \E t \in Tokens : Revocable!Admit(r, t)
      BY <2>2, OrdinarySteps, LoadAdmits
    <3>2. QED
      BY <3>1 DEF Revocable!Next
  <2>3. CASE Insert(r)
    BY <2>3, InsertEstablishes DEF Revocable!Next
  <2>4. CASE LoadDelete(r) \/ DeadDelete(r) \/ RenewDelete(r) \/ PurgeDelete(r) \/ TtlDelete(r)
    BY <2>4, DeletesEnd DEF Revocable!Next
  <2>5. CASE SaveRefused(r) \/ UpdateRow(r) \/ TtlGet(r) \/ TtlCheck(r) \/ Touch(r)
    BY <2>5, OrdinarySteps DEF Revocable!Next
  <2>6. QED
    BY <1>2, <2>1, <2>2, <2>3, <2>4, <2>5 DEF StoreStep
<1>3. ASSUME NEW r \in Requests, HandlerStep(r) \/ Abort(r) PROVE Revocable!Next
  BY <1>3, OrdinarySteps, LoginGrants DEF HandlerStep, Revocable!Next
<1>4. QED
  BY <1>1, <1>2, <1>3, EnvironmentMaps DEF Next

\* The store keeps the promise of revocable sessions, for any number of requests
\* and keys: whatever interleaves, fails or is written late, a login that ended is
\* over for good, and no request is let in with a login that was over, or past its
\* lifetime, before.
THEOREM StoreIsRevocable == Spec => RevocableSpec
BY InitMaps, StepMaps, StoreSafe, PTL DEF Spec, RevocableSpec, Revocable!Spec
=============================================================================
