----------------------------- MODULE RouteProofs -----------------------------
(***************************************************************************)
(* What the routes promise: logins stay ended, a login is made in the      *)
(* browser that began it, a step-up had its evidence, attempts expire,     *)
(* revoked tokens leave the store; and of a browser whose requests do not  *)
(* overlap: a state is single-use, and an attempt can be completed for as  *)
(* long as it may take.                                                    *)
(***************************************************************************)
EXTENDS BffSessionProofs, FiniteSetTheorems

-----------------------------------------------------------------------------
(* What holds of the crate because it holds of the store.                    *)

\* No interleaving of routes, browsers and provider revives a login that ended:
\* the crate, not only its store, implements revocable sessions.
THEOREM RoutesAreRevocable == BffSpec => RevocableSpec
BY BffImplementsStore, StoreIsRevocable, PTL DEF StoreSpec

\* The extractor and the store agree on which sessions are over.
THEOREM RoutesExtractorAgrees == BffSpec => []ExtractorAgrees
<1>1. BffSafe => ExtractorAgrees
  <2> SUFFICES ASSUME BffSafe, NEW r \in Requests, HasSub(call[r].state)
               PROVE  LifetimeOver(call[r].state) <=> HardCapExpiry(call[r].state, now) = None
    BY DEF ExtractorAgrees
  <2>1. call[r].state.loginAt \in Instants \cup {Missing, Garbled} /\ now \in Instants
    BY OfHandler, OfRequest DEF State, BffSafe
  <2>2. QED
    BY <2>1, StateAssumption, ExpiryAssumption DEF LifetimeOver, HardCapExpiry, Instants
<1>2. QED
  BY <1>1, RoutesSafe, PTL

-----------------------------------------------------------------------------
(* What has been begun stays begun.                                          *)

\* The history of attempts only grows.
Grows == opened' = opened \/ \E o \in Opened : opened' = Append(opened, o)

LEMMA GrowsKeeps ==
  ASSUME RouteTypes, Grows
  PROVE  \A i \in 1..Len(opened) : i \in 1..Len(opened)' /\ opened'[i] = opened[i]
<1>1. CASE opened' = opened
  BY <1>1
<1>2. ASSUME NEW o \in Opened, opened' = Append(opened, o)
      PROVE  \A i \in 1..Len(opened) : i \in 1..Len(opened)' /\ opened'[i] = opened[i]
  <2>1. /\ Len(opened') = Len(opened) + 1 /\ Len(opened) \in Nat
        /\ \A i \in 1..Len(opened) : opened'[i] = opened[i]
    BY <1>2, AppendProperties, LenProperties DEF RouteTypes
  <2>2. QED
    BY <2>1
<1>3. QED
  BY <1>1, <1>2 DEF Grows

\* Beginnings and slots stay what they were.
LEMMA BegunForGood ==
  ASSUME RouteTypes, Grows
  PROVE  /\ \A b : SlotsBegunBy(b) \subseteq SlotsBegunBy(b)'
         /\ \A b : \A v \in Seq(SlotsBegunBy(b)) : v \in Seq(SlotsBegunBy(b)')
         /\ \A a, b : BeganBy(a, b) => BeganBy(a, b)'
<1>1. \A b : SlotsBegunBy(b) \subseteq SlotsBegunBy(b)'
  BY GrowsKeeps DEF SlotsBegunBy
<1>2. \A S, T : S \subseteq T => Seq(S) \subseteq Seq(T)
  BY SeqDef
<1>3. \A b : \A v \in Seq(SlotsBegunBy(b)) : v \in Seq(SlotsBegunBy(b)')
  BY <1>1, <1>2, Zenon
<1>4. \A a, b : BeganBy(a, b) => BeganBy(a, b)'
  BY GrowsKeeps DEF BeganBy
<1>5. QED
  BY <1>1, <1>3, <1>4

\* So does the evidence for a login: the provider answers once.
LEMMA AccountedForGood ==
  ASSUME RouteTypes, Grows, NEW s \in State, Accounted(s),
         \A a \in Tokens : answer[a] # None => answer'[a] = answer[a]
  PROVE  Accounted(s)'
<1> SUFFICES ASSUME HasTokens(s) PROVE Accounted(s)'
  BY DEF Accounted
<1>1. s.tok \in Tokens
  BY DEF HasTokens, State
<1>2. PICK i \in 1..Len(opened) :
        /\ opened[i].attempt = s.tok
        /\ opened[i].stepUp =>
             /\ answer[s.tok] # None /\ answer[s.tok].authAt # None
             /\ opened[i].at - answer[s.tok].authAt <= MaxAge + AuthSkew
             /\ answer[s.tok].authAt - s.loginAt <= AuthSkew
  BY DEF Accounted
<1>3. i \in 1..Len(opened)' /\ opened'[i] = opened[i]
  BY GrowsKeeps
<1>4. QED
  BY <1>1, <1>2, <1>3 DEF Accounted

\* What a request works with stays its own while it does not move.
LEMMA WorkStays ==
  ASSUME BffSafe, Grows, NEW q \in Requests, OwnWork(q),
         call'[q] = call[q], flow'[q] = flow[q],
         \A a \in Tokens : answer[a] # None => answer'[a] = answer[a]
  PROVE  OwnWork(q)'
<1>1. RouteTypes /\ call[q].state \in State
  BY TypeParts, OfHandler DEF BffSafe
<1>2. PICK s \in State : s = call[q].state
  BY <1>1
<1>3. PICK f : f = flow[q]
  OBVIOUS
<1>4. PICK b : b = Owner[q]
  OBVIOUS
<1>5. /\ SlotsOf(s) \in Seq(SlotsBegunBy(b)') /\ SlotsOf(f) \in Seq(SlotsBegunBy(b)')
      /\ f.at \in {"exchange", "verify"} => f.slot \in SlotsBegunBy(b)'
      /\ f.at = "verify" => f.slot.attempt = f.code
  BY <1>1, <1>2, <1>3, <1>4, BegunForGood DEF OwnWork
<1>6. Unsaved(call[q]) => BeganBy(s.tok, b)' /\ Accounted(s)'
  BY <1>1, <1>2, <1>4, BegunForGood, AccountedForGood DEF OwnWork
<1>7. call'[q].state = s /\ flow'[q] = f /\ (Unsaved(call[q])' <=> Unsaved(call[q]))
  BY <1>2, <1>3 DEF Unsaved
<1>8. QED
  BY <1>4, <1>5, <1>6, <1>7 DEF OwnWork, SlotsOf, SlotsBegunBy, BeganBy, Accounted

-----------------------------------------------------------------------------
(* Keys and the browsers that hold them.                                     *)

\* No browser gets hold of a key it did not hold.
NoNewHolders ==
  /\ \A b \in Browsers : jar'[b] \in Keys => Holds(b, jar'[b])
  /\ \A q \in Requests : reply'[q] \in Keys => Holds(Owner[q], reply'[q])
  /\ \A q \in Requests : call'[q].key \in Keys => Holds(Owner[q], call'[q].key)

LEMMA HoldersStay ==
  ASSUME NoNewHolders, NEW b \in Browsers, NEW k \in Keys, Holds(b, k)'
  PROVE  Holds(b, k)
<1>1. CASE jar'[b] = k
  BY <1>1 DEF NoNewHolders
<1>2. ASSUME NEW q \in Requests, Owner[q] = b, reply'[q] = k \/ call'[q].key = k
      PROVE  Holds(b, k)
  BY <1>2 DEF NoNewHolders
<1>3. QED
  BY <1>1, <1>2 DEF Holds

LEMMA OwnHeld ==
  /\ \A b \in Browsers : Holds(b, jar[b])
  /\ \A q \in Requests : Holds(Owner[q], reply[q]) /\ Holds(Owner[q], call[q].key)
BY DEF Holds

\* One key: its holders are those it had, its row is one of theirs.
LEMMA KeyStays ==
  ASSUME RouteTypes, Grows, NEW k \in Keys, NEW b \in Browsers, OwnKey(k, b),
         \A c \in Browsers : Holds(c, k)' => Holds(c, k),
         birth'[k] = birth[k],
         Holds(b, k) /\ rows'[k] # NoRow => SlotsOf(rows'[k].state) \in Seq(SlotsBegunBy(b))
  PROVE  OwnKey(k, b)'
<1> SUFFICES ASSUME Holds(b, k)' PROVE OwnKey(k, b)'
  BY DEF OwnKey
<1>1. Holds(b, k)
  OBVIOUS
<1>2. PICK t : t = birth[k].tok
  OBVIOUS
<1>3. PICK v : v = SlotsOf(rows'[k].state)
  OBVIOUS
<1>4. Issued(k) /\ (t # NoTok => BeganBy(t, b)') /\ (rows'[k] # NoRow => v \in Seq(SlotsBegunBy(b)'))
  BY <1>1, <1>2, <1>3, BegunForGood DEF OwnKey, HasTokens
<1>5. \A c \in Browsers : Holds(c, k)' => b = c
  BY <1>1 DEF OwnKey
<1>6. Issued(k)' /\ (HasTokens(birth[k])' => BeganBy(birth[k].tok, b)')
  BY <1>2, <1>4 DEF Issued, HasTokens, BeganBy
<1>7. rows'[k] # NoRow => SlotsOf(rows'[k].state) \in Seq(SlotsBegunBy(b)')
  BY <1>3, <1>4
<1>8. QED
  BY <1>5, <1>6, <1>7 DEF OwnKey, SlotsOf

LEMMA KeysStay ==
  ASSUME BffSafe, OwnSafe, Grows, NoNewHolders, UNCHANGED birth,
         \A k \in Keys : rows'[k] # NoRow => rows'[k] = rows[k]
  PROVE  \A k \in Keys, b \in Browsers : OwnKey(k, b)'
<1>1. RouteTypes
  BY TypeParts DEF BffSafe
<1>2. SUFFICES ASSUME NEW k \in Keys, NEW b \in Browsers PROVE OwnKey(k, b)'
  OBVIOUS
<1>3. OwnKey(k, b)
  BY DEF OwnSafe
<1>4. Holds(b, k) /\ rows'[k] # NoRow => SlotsOf(rows'[k].state) \in Seq(SlotsBegunBy(b))
  BY <1>3 DEF OwnKey
<1>5. QED
  BY <1>1, <1>3, <1>4, KeyStays, HoldersStay

LEMMA BirthsStay ==
  ASSUME BffSafe, OwnSafe, Grows, UNCHANGED birth,
         \A a \in Tokens : answer[a] # None => answer'[a] = answer[a]
  PROVE  \A k \in Keys : Issued(k)' => Accounted(birth[k])'
<1> SUFFICES ASSUME NEW k \in Keys, Issued(k)' PROVE Accounted(birth[k])'
  OBVIOUS
<1>1. RouteTypes /\ birth \in [Keys -> State \cup {None}]
  BY TypeParts DEF BffSafe, Safe, TypeOK
<1>2. Issued(k)
  BY DEF Issued
<1>3. PICK s \in State : s = birth[k] /\ Accounted(s)
  BY <1>1, <1>2 DEF Issued, OwnSafe
<1>4. Accounted(s)'
  BY <1>1, <1>3, AccountedForGood
<1>5. QED
  BY <1>3, <1>4 DEF Accounted

-----------------------------------------------------------------------------
(* The steps of the store.                                                   *)

\* A step of the store works with what it had, with nothing, or with what it
\* reads in the row of its key.
LEMMA StoreStepIs ==
  ASSUME Safe, NEW r \in Requests, StoreStep(r)
  PROVE  /\ call'[r].key \in {call[r].key, NoKey}
         /\ \/ call'[r].state = EmptyState
            \/ /\ call'[r].pc \in {"check", "ttlCheck"} /\ call'[r].key = call[r].key
               /\ call[r].key \in Keys /\ rows[call[r].key] # NoRow
               /\ call'[r].state = rows[call[r].key].state
            \/ /\ call'[r].state.rest = call[r].state.rest
               /\ Unsaved(call'[r]) => Unsaved(call[r]) /\ call'[r].state = call[r].state
<1> DEFINE goal ==
      /\ call'[r].key \in {call[r].key, NoKey}
      /\ \/ call'[r].state = EmptyState
         \/ /\ call'[r].pc \in {"check", "ttlCheck"} /\ call'[r].key = call[r].key
            /\ call[r].key \in Keys /\ rows[call[r].key] # NoRow
            /\ call'[r].state = rows[call[r].key].state
         \/ /\ call'[r].state.rest = call[r].state.rest
            /\ Unsaved(call'[r]) => Unsaved(call[r]) /\ call'[r].state = call[r].state
<1> SUFFICES goal
  OBVIOUS
<1>1. ASSUME Return(r) \/ NoSession(r) PROVE goal
  <2>1. call'[r].state = EmptyState /\ call'[r].key = NoKey
    BY <1>1, GotoIs DEF Return, NoSession, Idle, Safe, TypeOK
  <2>2. QED
    BY <2>1
<1>2. ASSUME NEW pc, NEW e, Goto(r, pc, call[r].key, EmptyState, e) PROVE goal
  BY <1>2, GotoIs
<1>3. ASSUME NEW pc \in {"check", "ttlCheck"}, NEW e, call[r].key \in Keys, rows[call[r].key] # NoRow,
             Goto(r, pc, call[r].key, rows[call[r].key].state, e)
      PROVE  goal
  BY <1>3, GotoIs
<1>4. ASSUME NEW pc \in {"handling", "fallback", "touch"}, NEW k \in {call[r].key, NoKey}, NEW e,
             Goto(r, pc, k, call[r].state, e)
      PROVE  goal
  BY <1>4, GotoIs DEF Unsaved
<1>5. CASE RenewDelete(r)
  <2>1. StartSave(r, call[r].state) /\ call[r].pc = "renewDelete" /\ call[r].state \in State
        /\ CallSafe(call[r])
    BY <1>5, OfRequest DEF RenewDelete
  <2>2. /\ call'[r].state = InjectLoginAtIfMissing(call[r].state, now) /\ call'[r].key = NoKey
        /\ call'[r].state.tok = call[r].state.tok
    BY <2>1, StartSaveIs, GotoIs DEF StartSave
  <2>3. call'[r].state.rest = call[r].state.rest
    BY <2>1, <2>2 DEF InjectLoginAtIfMissing, State
  <2>4. HasTokens(call[r].state) => call[r].state.loginAt \in Instants
    <3> SUFFICES ASSUME HasTokens(call[r].state) PROVE call[r].state.loginAt \in Instants
      OBVIOUS
    <3>1. call[r].state.tok \in Tokens
      BY <2>1 DEF HasTokens, State
    <3>2. minted[call[r].state.tok] # None /\ call[r].state.loginAt = minted[call[r].state.tok]
      BY <2>1 DEF CallSafe, PendingLogin, Unsaved
    <3>3. minted[call[r].state.tok] \in Instants \cup {None}
      BY <3>1, OfRequest
    <3>4. QED
      BY <3>2, <3>3
  <2>5. HasTokens(call[r].state) => call'[r].state = call[r].state
    BY <2>1, <2>2, <2>4, InjectFacts DEF Safe, TypeOK
  <2>6. QED
    BY <2>1, <2>2, <2>3, <2>5 DEF Unsaved, HasTokens
<1> HIDE DEF goal
<1>6. call[r].pc \in KeyPcs => call[r].key \in Keys
  BY OfRequest DEF CallSafe, CopyDescends
<1>7. CASE LoadGet(r) \/ TtlGet(r)
  BY <1>7, <1>1, <1>3, <1>6 DEF LoadGet, TtlGet, KeyPcs
<1>8. CASE LoadCheck(r)
  BY <1>8, <1>2, <1>4 DEF LoadCheck
<1>9. CASE TtlCheck(r)
  <2>1. \/ Return(r) \/ Goto(r, "ttlDelete", call[r].key, EmptyState, None)
        \/ \E e : Goto(r, "touch", call[r].key, call[r].state, e)
    BY <1>9 DEF TtlCheck
  <2>2. QED
    BY <2>1, <1>1, <1>2, <1>4
<1>10. CASE UpdateRow(r)
  <2>1. Return(r) \/ \E e : Goto(r, "fallback", NoKey, call[r].state, e)
    BY <1>10 DEF UpdateRow
  <2>2. QED
    BY <2>1, <1>1, <1>4
<1>11. CASE LoadDelete(r) \/ DeadDelete(r) \/ PurgeDelete(r) \/ TtlDelete(r)
        \/ Insert(r) \/ SaveRefused(r) \/ Touch(r)
  BY <1>11, <1>1 DEF LoadDelete, DeadDelete, PurgeDelete, TtlDelete, Insert, SaveRefused, Touch
<1>12. QED
  BY <1>5, <1>7, <1>8, <1>9, <1>10, <1>11 DEF StoreStep

\* What request r is left to work with is its own.
LEMMA ServeWork ==
  ASSUME BffSafe, OwnSafe, NEW r \in Requests, StoreStep(r), UNCHANGED <<flow, opened, answer>>
  PROVE  OwnWork(r)'
<1>1. Safe /\ OwnWork(r) /\ FlowOK(r)
  BY OfHandler DEF BffSafe, OwnSafe
<1>2. flow[r].at = "none"
  BY <1>1, StoreStepBirths DEF FlowOK
<1> DEFINE S == Seq(SlotsBegunBy(Owner[r]))
<1>3. << >> \in S
  BY EmptySeq
<1>4. call[r].key \in Keys /\ rows[call[r].key] # NoRow => SlotsOf(rows[call[r].key].state) \in S
  BY OwnHeld, FlowAssumption DEF OwnSafe, OwnKey
<1>5. SlotsOf(call[r].state) \in S /\ SlotsOf(flow[r]) \in S
  BY <1>1 DEF OwnWork
<1> HIDE DEF S
<1>6. SlotsOf(call'[r].state) \in S
  <2>1. call'[r].state = EmptyState => SlotsOf(call'[r].state) = << >>
    BY DEF EmptyState, SlotsOf
  <2>2. call'[r].state.rest = call[r].state.rest => SlotsOf(call'[r].state) = SlotsOf(call[r].state)
    BY DEF SlotsOf
  <2>3. QED
    BY <1>1, <1>3, <1>4, <1>5, <2>1, <2>2, StoreStepIs
<1>7. Unsaved(call'[r]) => Unsaved(call[r]) /\ call'[r].state = call[r].state
  <2>1. call'[r].state = EmptyState => ~Unsaved(call'[r])
    BY DEF EmptyState, Unsaved, HasTokens
  <2>2. call'[r].pc \in {"check", "ttlCheck"} => ~Unsaved(call'[r])
    BY DEF Unsaved
  <2>3. QED
    BY <1>1, <2>1, <2>2, StoreStepIs
<1>8. Unsaved(call'[r]) => BeganBy(call'[r].state.tok, Owner[r]) /\ Accounted(call'[r].state)
  BY <1>1, <1>7, Zenon DEF OwnWork
<1>9. QED
  BY <1>2, <1>5, <1>6, <1>8
  DEF S, OwnWork, SlotsBegunBy, SlotsOf, BeganBy, Accounted, Unsaved, HasTokens

\* A row under a key that was not inserted just now: one of its holder's.
LEMMA RowsStayOwn ==
  ASSUME BffSafe, OwnSafe, NEW r \in Requests, StoreStep(r),
         NEW k \in Keys, NEW b \in Browsers, birth'[k] = birth[k], Holds(b, k), rows'[k] # NoRow
  PROVE  SlotsOf(rows'[k].state) \in Seq(SlotsBegunBy(b))
<1>1. Safe /\ OwnWork(r) /\ OwnKey(k, b) /\ Owner[r] \in Browsers
  BY OfHandler DEF BffSafe, OwnSafe
<1>2. CASE Remains(k)
  BY <1>1, <1>2 DEF Remains, OwnKey
<1>3. CASE call[r].key = k /\ rows'[k].state = call[r].state
  <2>1. Holds(Owner[r], k)
    BY <1>3, OwnHeld
  <2>2. Owner[r] = b
    BY <1>1, <2>1 DEF OwnKey
  <2>3. QED
    BY <1>1, <1>3, <2>2 DEF OwnWork
<1>4. CASE call[r].key = k /\ rows[k] # NoRow /\ rows'[k].state = rows[k].state
  BY <1>1, <1>4 DEF OwnKey
<1>5. CASE call[r].pc \in {"save", "fallback"} /\ call[r].exp # None
  <2>1. Insert(r)
    BY <1>5 DEF StoreStep, LoadGet, LoadCheck, LoadDelete, SaveRefused, UpdateRow, DeadDelete,
       RenewDelete, PurgeDelete, TtlGet, TtlCheck, TtlDelete, Touch
  <2>2. PICK j \in FreshKeys :
          rows' = [rows EXCEPT ![j] = [state |-> call[r].state, expiresAt |-> call[r].exp]]
            /\ birth' = [birth EXCEPT ![j] = call[r].state]
    BY <2>1 DEF Insert
  <2>3. j # k
    <3>1. birth \in [Keys -> State \cup {None}] /\ call[r].state \in State
      BY <1>1, OfRequest DEF Safe, TypeOK
    <3>2. QED
      BY <2>2, <3>1, StateFacts DEF FreshKeys, Issued
  <2>4. rows'[k] = rows[k]
    BY <1>1, <2>2, <2>3 DEF Safe, TypeOK
  <2>5. QED
    BY <1>1, <2>4 DEF OwnKey
<1>6. Remains(k) \/ Written(r, k)
  BY <1>1, RequestRows DEF RequestStep
<1>7. QED
  BY <1>2, <1>3, <1>4, <1>5, <1>6 DEF Written

\* Every step of the store, with the answer it may send.
LEMMA ServeOwn ==
  ASSUME BffSafe, OwnSafe, NEW r \in Requests, Serve(r)
  PROVE  OwnSafe'
<1>0. /\ StoreStep(r) /\ reply' = [reply EXCEPT ![r] = SetCookie(r)]
      /\ UNCHANGED <<jar, flow, opened, answer>>
  BY DEF Serve, idpVars
<1>1. /\ Safe /\ RouteTypes /\ OneLoginPerCode /\ OwnWork(r) /\ Owner[r] \in Browsers
      /\ birth \in [Keys -> State \cup {None}] /\ Grows
  BY <1>0, TypeParts, OfHandler DEF BffSafe, OwnSafe, Safe, TypeOK, Grows
<1>2. /\ \A q \in Requests \ {r} : call'[q] = call[q] /\ reply'[q] = reply[q]
      /\ reply'[r] = SetCookie(r) /\ call'[r].key \in {call[r].key, NoKey}
  BY <1>0, <1>1, StoreStepIs, RequestMoves DEF RequestStep, RouteTypes
<1>3. \A q \in Requests : OwnWork(q)'
  <2>1. ASSUME NEW q \in Requests \ {r} PROVE OwnWork(q)'
    BY <1>0, <1>1, <1>2, WorkStays DEF OwnSafe
  <2>2. OwnWork(r)'
    BY <1>0, ServeWork
  <2>3. QED
    BY <2>1, <2>2
<1>4. \A i, j \in 1..Len(opened') : opened'[i].attempt = opened'[j].attempt => i = j
  BY <1>0 DEF OwnSafe
<1>5. CASE birth' = birth
  <2>1. NoNewHolders
    <3>1. SetCookie(r) \in {Nothing, NoKey, call[r].key}
      BY <1>5 DEF SetCookie
    <3>2. QED
      BY <1>0, <1>2, <3>1, OwnHeld, StoreAssumption, FlowAssumption DEF NoNewHolders
  <2>2. \A k \in Keys, b \in Browsers : OwnKey(k, b)'
    <3> SUFFICES ASSUME NEW k \in Keys, NEW b \in Browsers PROVE OwnKey(k, b)'
      OBVIOUS
    <3>1. Holds(b, k) /\ rows'[k] # NoRow => SlotsOf(rows'[k].state) \in Seq(SlotsBegunBy(b))
      BY <1>0, <1>5, RowsStayOwn
    <3>2. OwnKey(k, b) /\ birth'[k] = birth[k]
      BY <1>5 DEF OwnSafe
    <3>3. QED
      BY <1>1, <2>1, <3>1, <3>2, KeyStays, HoldersStay
  <2>3. \A k \in Keys : Issued(k)' => Accounted(birth[k])'
    BY <1>0, <1>1, <1>5, BirthsStay
  <2>4. QED
    BY <1>3, <1>4, <2>2, <2>3 DEF OwnSafe
<1>6. CASE birth' # birth
  <2>1. Insert(r)
    BY <1>0, <1>6 DEF StoreStep, LoadGet, LoadCheck, LoadDelete, SaveRefused, UpdateRow, DeadDelete,
       RenewDelete, PurgeDelete, TtlGet, TtlCheck, TtlDelete, Touch
  <2>2. PICK j \in FreshKeys :
          /\ rows' = [rows EXCEPT ![j] = [state |-> call[r].state, expiresAt |-> call[r].exp]]
          /\ birth' = [birth EXCEPT ![j] = call[r].state]
    BY <2>1 DEF Insert
  <2>3. /\ j \in Keys /\ birth[j] = None /\ birth'[j] = call[r].state
        /\ rows'[j].state = call[r].state /\ call[r].state \in State
        /\ \A k \in Keys \ {j} : birth'[k] = birth[k] /\ rows'[k] = rows[k]
    BY <1>1, <2>2, OfRequest DEF FreshKeys, Issued, Safe, TypeOK
  <2>4. SetCookie(r) \in {j, Nothing}
    <3>1. (CHOOSE k \in Keys : birth'[k] # birth[k]) = j
      BY <1>1, <2>3, StateFacts
    <3>2. QED
      BY <1>6, <3>1 DEF SetCookie
  <2>5. \A c \in Browsers : ~Holds(c, j)
    <3>1. \A c \in Browsers : jar[c] # j
      BY <1>1, <2>3, StoreAssumption DEF OneLoginPerCode, Issued
    <3>2. \A q \in Requests : reply[q] # j /\ call[q].key # j
      BY <1>1, <2>3, OfRequest, StoreAssumption DEF OneLoginPerCode, Issued
    <3>3. QED
      BY <3>1, <3>2 DEF Holds
  <2>6. \A c \in Browsers, k \in Keys : Holds(c, k)' => Holds(c, k) \/ (c = Owner[r] /\ k = j)
    <3> SUFFICES ASSUME NEW c \in Browsers, NEW k \in Keys, Holds(c, k)', k # j \/ c # Owner[r]
                 PROVE  Holds(c, k)
      OBVIOUS
    <3>1. CASE jar'[c] = k
      BY <1>0, <3>1 DEF Holds
    <3>2. ASSUME NEW q \in Requests, Owner[q] = c, reply'[q] = k \/ call'[q].key = k
          PROVE  Holds(c, k)
      BY <1>2, <2>4, <3>2, StoreAssumption, FlowAssumption DEF Holds
    <3>3. QED
      BY <3>1, <3>2 DEF Holds
  <2>7. ASSUME NEW k \in Keys \ {j}, NEW b \in Browsers PROVE OwnKey(k, b)'
    <3>1. OwnKey(k, b) /\ birth'[k] = birth[k]
      BY <2>3 DEF OwnSafe
    <3>2. Holds(b, k) /\ rows'[k] # NoRow => SlotsOf(rows'[k].state) \in Seq(SlotsBegunBy(b))
      BY <1>0, <3>1, RowsStayOwn
    <3>3. \A c \in Browsers : Holds(c, k)' => Holds(c, k)
      BY <2>6
    <3>4. QED
      BY <1>1, <3>1, <3>2, <3>3, KeyStays
  <2>8. HasTokens(call[r].state) => BeganBy(call[r].state.tok, Owner[r]) /\ Accounted(call[r].state)
    <3>1. call[r].pc = "fallback" => ~HasTokens(call[r].state)
      BY OfRequest, <1>1 DEF CallSafe, PendingLogin
    <3>2. call[r].pc \in {"save", "fallback"}
      BY <2>1 DEF Insert
    <3>3. QED
      BY <1>1, <3>1, <3>2 DEF OwnWork, Unsaved
  <2>9. ASSUME NEW b \in Browsers PROVE OwnKey(j, b)'
    <3> SUFFICES ASSUME Holds(b, j)' PROVE OwnKey(j, b)'
      BY DEF OwnKey
    <3>1. b = Owner[r] /\ \A c \in Browsers : Holds(c, j)' => b = c
      BY <2>3, <2>5, <2>6
    <3>2. Issued(j)' /\ (HasTokens(birth'[j]) => BeganBy(birth'[j].tok, b))
      BY <2>3, <2>8, <3>1, StateFacts DEF Issued
    <3>3. SlotsOf(rows'[j].state) \in Seq(SlotsBegunBy(b))
      BY <1>1, <2>3, <3>1 DEF OwnWork
    <3>4. QED
      BY <1>0, <3>1, <3>2, <3>3 DEF OwnKey, HasTokens, BeganBy, SlotsOf, SlotsBegunBy
  <2>10. \A k \in Keys : Issued(k)' => Accounted(birth[k])'
    <3> SUFFICES ASSUME NEW k \in Keys, Issued(k)' PROVE Accounted(birth[k])'
      OBVIOUS
    <3>1. Accounted(birth'[k])
      <4>1. CASE k = j
        BY <2>3, <2>8, <4>1 DEF Accounted
      <4>2. CASE k # j
        BY <2>3, <4>2 DEF Issued, OwnSafe
      <4>3. QED
        BY <4>1, <4>2
    <3>2. QED
      BY <1>0, <3>1 DEF Accounted, HasTokens
  <2>11. QED
    BY <1>3, <1>4, <2>7, <2>9, <2>10 DEF OwnSafe
<1>7. QED
  BY <1>5, <1>6

-----------------------------------------------------------------------------
(* The steps of handlers.                                                    *)

\* prune_expired, take_matching and push_pre_auth make no slots of their own.
LEMMA HelpersKeepSet ==
  ASSUME NEW S, NEW v \in Seq(S), v \in SlotVectors
  PROVE  /\ \A kept : Retain(v, kept) \in Seq(S)
         /\ \A a : Without(v, a) \in Seq(S) /\ Matching(v, a) \subseteq S
         /\ \A slot \in S : PushPreAuth(v, slot) \in Seq(S)
<1>1. \A kept : Retain(v, kept) \in Seq(S)
  BY RetainTyped
<1>2. \A i \in 1..Len(v) : v[i] \in S
  BY ElementOfSeq
<1>3. DOMAIN v = 1..Len(v) /\ Len(v) \in Nat /\ MaxSlots \in Nat \ {0}
  BY LenProperties, FlowAssumption
<1>4. \A a : Matching(v, a) \subseteq S
  BY <1>2, <1>3 DEF Matching
<1>5. ASSUME NEW slot \in S PROVE PushPreAuth(v, slot) \in Seq(S)
  <2> DEFINE m == IF Len(v) < MaxSlots THEN 1 ELSE Len(v) - MaxSlots + 2
  <2>1. m \in Int /\ m >= 1
    BY <1>3
  <2> HIDE DEF m
  <2>2. \A i \in m..Len(v) : v[i] \in S
    BY <1>2, <1>3, <2>1
  <2>3. SubSeq(v, m, Len(v)) \in Seq(S)
    BY <1>3, <2>1, <2>2, SubSeqProperties
  <2>4. PushPreAuth(v, slot) = Append(SubSeq(v, m, Len(v)), slot)
    BY DEF PushPreAuth, m
  <2>5. QED
    BY <2>3, <2>4, AppendProperties
<1>6. QED
  BY <1>1, <1>4, <1>5 DEF Without

\* What a request holds when its handler has ended.
LEMMA FinishIs ==
  ASSUME Safe, NEW r \in Requests, NEW s \in State,
         FinishChanged(r, s) \/ FinishRenewed(r, s)
  PROVE  /\ call'[r].key \in {call[r].key, NoKey}
         /\ SlotsOf(call'[r].state) \in {SlotsOf(s), << >>}
         /\ FinishChanged(r, s) /\ Unsaved(call'[r]) => HasTokens(s) /\ call[r].key = NoKey
         /\ FinishRenewed(r, s) /\ s.loginAt \in Instants => call'[r].state = s
<1> DEFINE goal ==
         /\ call'[r].key \in {call[r].key, NoKey}
         /\ SlotsOf(call'[r].state) \in {SlotsOf(s), << >>}
         /\ FinishChanged(r, s) /\ Unsaved(call'[r]) => HasTokens(s) /\ call[r].key = NoKey
         /\ FinishRenewed(r, s) /\ s.loginAt \in Instants => call'[r].state = s
<1> SUFFICES goal
  OBVIOUS
<1>1. CASE call[r].key = NoKey /\ StartSave(r, s)
  <2>1. /\ call'[r].state = InjectLoginAtIfMissing(s, now) /\ call'[r].key = NoKey
        /\ call'[r].state.tok = s.tok
    BY <1>1, StartSaveIs, GotoIs DEF StartSave
  <2>2. call'[r].state.rest = s.rest /\ (s.loginAt \in Instants => call'[r].state = s)
    BY <2>1, InjectFacts DEF InjectLoginAtIfMissing, State, Safe, TypeOK
  <2>3. QED
    BY <1>1, <2>1, <2>2 DEF SlotsOf, Unsaved, HasTokens
<1>2. CASE call[r].key # NoKey /\ StartUpdate(r, call[r].key, s)
  <2>1. \E e : \E p \in {"deadDelete", "update"} : Goto(r, p, call[r].key, s, e)
    BY <1>2 DEF StartUpdate
  <2>2. call'[r].key = call[r].key /\ call'[r].state = s /\ call'[r].pc \in {"deadDelete", "update"}
    BY <2>1, GotoIs
  <2>3. QED
    BY <1>2, <2>2 DEF Unsaved
<1>3. CASE Return(r) /\ FinishChanged(r, s) /\ ~FinishRenewed(r, s)
  <2>1. call'[r].state = EmptyState /\ call'[r].key = NoKey /\ call'[r].pc = "idle"
    BY <1>3, GotoIs DEF Return, Idle, Safe, TypeOK
  <2>2. QED
    BY <1>3, <2>1 DEF Unsaved, EmptyState, SlotsOf
<1>4. CASE call[r].key # NoKey /\ FinishRenewed(r, s)
  <2>1. call'[r].key = call[r].key /\ call'[r].state = s
    BY <1>4, GotoIs DEF FinishRenewed
  <2>2. FinishChanged(r, s) => \E e : \E p \in {"deadDelete", "update"} : Goto(r, p, call[r].key, s, e)
    BY <1>4 DEF FinishChanged, StartUpdate
  <2>3. ~FinishChanged(r, s)
    <3>1. call'[r].pc = "renewDelete"
      BY <1>4, GotoIs DEF FinishRenewed
    <3>2. QED
      BY <2>2, <3>1, GotoIs
  <2>4. QED
    BY <2>1, <2>3
<1> HIDE DEF goal
<1>5. FinishChanged(r, s) /\ ~FinishRenewed(r, s) => goal
  BY <1>1, <1>2, <1>3 DEF FinishChanged
<1>6. FinishRenewed(r, s) => goal
  BY <1>1, <1>4 DEF FinishRenewed
<1>7. QED
  BY <1>5, <1>6

LEMMA LeavesNothing ==
  ASSUME Safe, NEW r \in Requests, FinishUnchanged(r) \/ FinishPurged(r)
  PROVE  call'[r].key \in {call[r].key, NoKey} /\ call'[r].state = EmptyState
<1>1. CASE Return(r)
  BY <1>1 DEF Return, Idle, Safe, TypeOK
<1>2. CASE \E p : Goto(r, p, call[r].key, EmptyState, None)
  BY <1>2, GotoIs
<1>3. QED
  BY <1>1, <1>2 DEF FinishUnchanged, FinishPurged

\* The end of a handler.
LEMMA WorkEnds ==
  ASSUME BffSafe, NEW r \in Requests, Ends(r),
         SlotsOf(call'[r].state) \in Seq(SlotsBegunBy(Owner[r])'),
         Unsaved(call'[r]) => BeganBy(call[r].state.tok, Owner[r])' /\ Accounted(call[r].state)'
  PROVE  OwnWork(r)'
<1>1. flow'[r] = NoFlow
  BY TypeParts DEF Ends, BffSafe, RouteTypes
<1>2. SlotsOf(flow'[r]) = << >>
  BY <1>1 DEF NoFlow, SlotsOf
<1>3. << >> \in Seq(SlotsBegunBy(Owner[r])')
  BY EmptySeq
<1>4. flow'[r].at = "none"
  BY <1>1, NoFlowTyped
<1>5. QED
  BY <1>2, <1>3, <1>4 DEF OwnWork, SlotsOf, Unsaved, SlotsBegunBy

\* A handler that ends with other slots and the same tokens.
LEMMA SlotWriteOwn ==
  ASSUME BffSafe, NEW r \in Requests, NEW s \in State, call[r].pc = "handling",
         s.tok = call[r].state.tok, FinishChanged(r, s), Ends(r),
         SlotsOf(s) \in Seq(SlotsBegunBy(Owner[r])')
  PROVE  OwnWork(r)' /\ call'[r].key \in {call[r].key, NoKey}
<1>1. Safe /\ CallSafe(call[r])
  BY OfRequest DEF BffSafe
<1>2. << >> \in Seq(SlotsBegunBy(Owner[r])')
  BY EmptySeq
<1>3. /\ call'[r].key \in {call[r].key, NoKey}
      /\ SlotsOf(call'[r].state) \in Seq(SlotsBegunBy(Owner[r])')
      /\ Unsaved(call'[r]) => HasTokens(s) /\ call[r].key = NoKey
  BY <1>1, <1>2, FinishIs
<1>4. call[r].key = NoKey => s.tok = NoTok
  BY <1>1 DEF CallSafe, CopyDescends, EmptyState
<1>5. ~Unsaved(call'[r])
  BY <1>3, <1>4 DEF HasTokens
<1>6. QED
  BY <1>3, <1>5, WorkEnds

\* The tokens a callback is about to save are accounted for.
LEMMA FinishOwn ==
  ASSUME BffSafe, OwnSafe, NEW r \in Requests, CallbackFinish(r)
  PROVE  OwnWork(r)' /\ call'[r].key \in {call[r].key, NoKey}
<1> DEFINE f == flow[r]
           w == WithSlots(call[r].state, f.rest)
           s == LoggedIn(w, answer[f.code].sub, f.code, now)
<1>1. /\ f.at = "verify" /\ FinishRenewed(r, s) /\ Ends(r) /\ UNCHANGED <<opened, answer>>
      /\ StepUpHolds(f.slot, answer[f.code], call[r].state)
  BY DEF CallbackFinish, idpVars
<1>2. Safe /\ RouteTypes /\ OwnWork(r) /\ FlowOK(r) /\ now \in Instants
  BY TypeParts, OfHandler DEF BffSafe, OwnSafe, Instants
<1>3. f.code \in Tokens /\ answer[f.code] # None /\ answer[f.code].sub \in Subjects
  BY <1>1, <1>2 DEF FlowOK, RouteTypes
<1>4. w \in State /\ SlotsOf(w) = SlotsOf(f)
  BY OfHandler, WithSlotsFacts DEF WithSlots, SlotsOf, State
<1>5. /\ s \in State /\ s.loginAt = now /\ s.tok = f.code /\ SlotsOf(s) = SlotsOf(f)
  BY <1>2, <1>3, <1>4, LoggedInFacts DEF LoggedIn, SlotsOf, State
<1>6. f.slot \in SlotsBegunBy(Owner[r]) /\ f.slot.attempt = f.code /\ SlotsOf(f) \in Seq(SlotsBegunBy(Owner[r]))
  BY <1>1, <1>2 DEF OwnWork
<1>7. PICK i \in 1..Len(opened) :
        /\ opened[i].attempt = f.code /\ opened[i].by = Owner[r]
        /\ opened[i].at = f.slot.started /\ opened[i].stepUp = f.slot.stepUp
  BY <1>6 DEF SlotsBegunBy
<1>8. f.slot.stepUp => /\ answer[f.code].authAt # None
                       /\ f.slot.started - answer[f.code].authAt <= MaxAge + AuthSkew
                       /\ answer[f.code].authAt - now <= AuthSkew
  BY <1>1 DEF StepUpHolds, AuthFresh
<1>9. call'[r].state = s /\ call'[r].key \in {call[r].key, NoKey}
  BY <1>1, <1>2, <1>5, FinishIs
<1> HIDE DEF s, f
<1>10. BeganBy(call'[r].state.tok, Owner[r]) /\ Accounted(call'[r].state)
  BY <1>3, <1>5, <1>7, <1>8, <1>9 DEF BeganBy, Accounted
<1>11. BeganBy(call[r].state.tok, Owner[r])' /\ Accounted(call[r].state)'
  BY <1>1, <1>10 DEF BeganBy, Accounted, HasTokens
<1>12. SlotsOf(call'[r].state) \in Seq(SlotsBegunBy(Owner[r])')
  BY <1>1, <1>5, <1>6, <1>9 DEF SlotsBegunBy
<1>13. QED
  BY <1>1, <1>9, <1>11, <1>12, WorkEnds

\* A handler that is suspended keeps slots of its own.
LEMMA SuspendOwn ==
  ASSUME BffSafe, OwnSafe, NEW r \in Requests, NEW at, NEW slot, NEW rest, NEW code,
         Suspend(r, at, slot, rest, code), UNCHANGED <<call, opened, answer>>,
         rest = NoRest \/ rest \in Seq(SlotsBegunBy(Owner[r])),
         at \in {"exchange", "verify"} => slot \in SlotsBegunBy(Owner[r]),
         at = "verify" => slot.attempt = code
  PROVE  OwnWork(r)' /\ call'[r].key \in {call[r].key, NoKey}
<1>1. RouteTypes /\ OwnWork(r)
  BY TypeParts DEF BffSafe, OwnSafe
<1>2. /\ flow'[r].at = at /\ flow'[r].slot = slot /\ flow'[r].rest = rest /\ flow'[r].code = code
  BY <1>1 DEF Suspend, RouteTypes
<1>3. SlotsOf(flow'[r]) \in Seq(SlotsBegunBy(Owner[r]))
  BY <1>2, EmptySeq DEF SlotsOf
<1>4. QED
  BY <1>1, <1>2, <1>3 DEF OwnWork, SlotsOf, SlotsBegunBy, BeganBy, Accounted, Unsaved, HasTokens

\* A login begins an attempt nobody began before.
LEMMA LoginOwn ==
  ASSUME BffSafe, OwnSafe, NEW r \in Requests, NEW a \in Tokens, NEW up \in StepUps, Login(r, a, up)
  PROVE  /\ OwnWork(r)' /\ call'[r].key \in {call[r].key, NoKey} /\ Grows
         /\ \A i, j \in 1..Len(opened') : opened'[i].attempt = opened'[j].attempt => i = j
<1> DEFINE slot == [attempt |-> a, started |-> now, stepUp |-> up]
           o == [attempt |-> a, by |-> Owner[r], at |-> now, stepUp |-> up, as |-> call[r].state.sub]
           v == PushPreAuth(LiveSlots(call[r].state), slot)
<1>1. /\ Safe /\ RouteTypes /\ OwnWork(r) /\ call[r].state \in State /\ Owner[r] \in Browsers
      /\ now \in 0..MaxNow /\ LiveSlots(call[r].state) \in SlotVectors
      /\ SlotsOf(call[r].state) \in SlotVectors
  BY TypeParts, OfHandler DEF BffSafe, OwnSafe
<1>2. /\ opened' = Append(opened, o) /\ a \notin Attempts /\ call[r].pc = "handling"
      /\ FinishChanged(r, WithSlots(call[r].state, v)) /\ Ends(r)
  BY DEF Login, Ready
<1>3. slot \in Slot /\ slot.attempt = a /\ slot.started = now /\ slot.stepUp = up
  BY <1>1 DEF Slot
<1>4. o \in Opened /\ o.attempt = a /\ o.by = Owner[r] /\ o.at = now /\ o.stepUp = up
  <2>1. up \in BOOLEAN /\ now \in Instants
    BY <1>1, FlowAssumption, StoreAssumption, Zenon DEF Safe, TypeOK
  <2>2. QED
    BY <1>1, <2>1 DEF Opened, State
<1> HIDE DEF slot, o
<1>5. Grows
  BY <1>2, <1>4 DEF Grows
<1>6. /\ Len(opened') = Len(opened) + 1 /\ opened'[Len(opened) + 1] = o /\ Len(opened) \in Nat
      /\ \A i \in 1..Len(opened) : opened'[i] = opened[i]
  BY <1>1, <1>2, <1>4, AppendProperties, LenProperties DEF RouteTypes
<1>7. \A i, j \in 1..Len(opened') : opened'[i].attempt = opened'[j].attempt => i = j
  <2> SUFFICES ASSUME NEW i \in 1..Len(opened'), NEW j \in 1..Len(opened'), i # j,
                      opened'[i].attempt = opened'[j].attempt
               PROVE  FALSE
    OBVIOUS
  <2>1. \A n \in 1..Len(opened) : opened[n].attempt # a
    BY <1>2 DEF Attempts
  <2>2. \/ i \in 1..Len(opened) /\ j \in 1..Len(opened)
        \/ i \in 1..Len(opened) /\ j = Len(opened) + 1
        \/ j \in 1..Len(opened) /\ i = Len(opened) + 1
    BY <1>6
  <2>3. QED
    BY <1>4, <1>6, <2>1, <2>2 DEF OwnSafe
<1>8. slot \in SlotsBegunBy(Owner[r])'
  <2>1. Len(opened) + 1 \in 1..Len(opened')
    BY <1>6
  <2>2. QED
    BY <1>3, <1>4, <1>6, <2>1 DEF SlotsBegunBy
<1>9. v \in Seq(SlotsBegunBy(Owner[r])') /\ v \in SlotVectors
  <2>1. LiveSlots(call[r].state) \in Seq(SlotsBegunBy(Owner[r]))
    BY <1>1, HelpersKeepSet DEF LiveSlots, OwnWork
  <2>2. LiveSlots(call[r].state) \in Seq(SlotsBegunBy(Owner[r])')
    BY <1>1, <1>5, <2>1, BegunForGood
  <2>3. QED
    BY <1>1, <1>3, <1>8, <2>2, HelpersKeepSet, PushPreAuthTyped
<1> HIDE DEF v
<1>10. /\ WithSlots(call[r].state, v) \in State /\ SlotsOf(WithSlots(call[r].state, v)) = v
       /\ WithSlots(call[r].state, v).tok = call[r].state.tok
  <2>1. v \in Rests /\ v # NoRest
    BY <1>9, FlowAssumption
  <2>2. QED
    BY <1>1, <2>1, WithSlotsFacts DEF SlotsOf, State
<1>11. QED
  BY <1>2, <1>5, <1>7, <1>9, <1>10, SlotWriteOwn

LEMMA HandlerWork ==
  ASSUME BffSafe, OwnSafe, NEW r \in Requests, Handler(r)
  PROVE  /\ OwnWork(r)' /\ call'[r].key \in {call[r].key, NoKey} /\ Grows
         /\ \A i, j \in 1..Len(opened') : opened'[i].attempt = opened'[j].attempt => i = j
<1> DEFINE S == SlotsBegunBy(Owner[r])
           goal == OwnWork(r)' /\ call'[r].key \in {call[r].key, NoKey}
           c == call[r]
           v == LiveSlots(c.state)
<1>1. /\ Safe /\ RouteTypes /\ OwnWork(r) /\ FlowOK(r) /\ flow[r] \in Flow
      /\ c.state \in State /\ SlotsOf(c.state) \in SlotVectors /\ v \in SlotVectors
  BY TypeParts, OfHandler DEF BffSafe, OwnSafe
<1>2. v \in Seq(S) /\ \A a : Without(v, a) \in Seq(S) /\ Matching(v, a) \subseteq S
  <2>1. v \in Seq(S)
    BY <1>1, HelpersKeepSet DEF LiveSlots, OwnWork
  <2> HIDE DEF v, S
  <2>2. QED
    BY <1>1, <2>1, HelpersKeepSet
<1>3. SlotsOf(flow[r]) \in Seq(S)
  BY <1>1 DEF OwnWork
<1>4. CASE \E a \in Tokens, up \in StepUps : Login(r, a, up)
  BY <1>4, LoginOwn
<1>5. CASE ~\E a \in Tokens, up \in StepUps : Login(r, a, up)
  <2>1. UNCHANGED opened
    BY <1>5 DEF Handler, CallbackStray, CallbackError, CallbackStart, Exchange, CallbackFail,
       CallbackFinish, LogoutStart, Revoke, LogoutFinish, Me
  <2>2. SUFFICES goal
    BY <2>1 DEF Grows, OwnSafe
  <2>3. S' = S
    BY <2>1 DEF SlotsBegunBy
  <2>4. ASSUME NEW x \in Rests, SlotsOf([rest |-> x]) \in Seq(S), c.pc = "handling",
               FinishChanged(r, WithSlots(c.state, x)), Ends(r)
        PROVE  goal
    <3>1. /\ WithSlots(c.state, x) \in State /\ WithSlots(c.state, x).tok = c.state.tok
          /\ SlotsOf(WithSlots(c.state, x)) = SlotsOf([rest |-> x])
      BY <1>1, WithSlotsFacts DEF SlotsOf, State
    <3>2. SlotsOf(WithSlots(c.state, x)) \in Seq(SlotsBegunBy(Owner[r])')
      BY <2>3, <2>4, <3>1
    <3>3. QED
      BY <2>4, <3>1, <3>2, SlotWriteOwn
  <2>5. ASSUME NEW x \in SlotVectors, x \in Seq(S) PROVE x \in Rests /\ SlotsOf([rest |-> x]) \in Seq(S)
    BY <2>5, VectorsAreRests, FlowAssumption DEF SlotsOf
  <2>6. CASE CallbackStray(r)
    BY <1>1, <1>2, <2>4, <2>5, <2>6 DEF CallbackStray, Ready
  <2>7. CASE CallbackFail(r)
    <3>1. flow[r].rest \in Rests /\ SlotsOf([rest |-> flow[r].rest]) = SlotsOf(flow[r])
      BY <1>1 DEF Flow, SlotsOf
    <3>2. QED
      BY <1>1, <1>3, <2>4, <2>7, <3>1 DEF CallbackFail, FlowOK
  <2>8. CASE \E a \in Tokens : CallbackError(r, a)
    <3>1. PICK a \in Tokens : CallbackError(r, a)
      BY <2>8
    <3>2. Without(v, a) \in SlotVectors /\ Without(v, a) \in Seq(S)
      BY <1>1, <1>2, HelpersTyped
    <3>3. FinishChanged(r, WithSlots(c.state, Without(v, a))) /\ Ends(r) /\ c.pc = "handling"
      BY <3>1 DEF CallbackError, Ready
    <3>4. QED
      BY <2>4, <2>5, <3>2, <3>3
  <2>9. CASE CallbackFinish(r)
    BY <2>9, FinishOwn
  <2>10. CASE \E a \in Tokens, code \in Attempts : CallbackStart(r, a, code)
    <3>1. PICK a \in Tokens, code \in Attempts : CallbackStart(r, a, code)
      BY <2>10
    <3>2. PICK slot \in Matching(v, a) : Suspend(r, "exchange", slot, Without(v, a), code)
      BY <3>1 DEF CallbackStart
    <3>3. slot \in S /\ Without(v, a) \in Seq(S) /\ UNCHANGED <<call, opened, answer>>
      BY <1>2, <3>1 DEF CallbackStart, vars, idpVars
    <3>4. QED
      BY <3>2, <3>3, SuspendOwn
  <2>11. CASE Exchange(r)
    <3>1. /\ Suspend(r, "verify", flow[r].slot, flow[r].rest, flow[r].code)
          /\ UNCHANGED <<call, opened, answer>> /\ flow[r].slot.attempt = flow[r].code
          /\ flow[r].at = "exchange"
      BY <2>11 DEF Exchange, Bound, vars
    <3>2. flow[r].slot \in S /\ (flow[r].rest = NoRest \/ flow[r].rest \in Seq(S))
      BY <1>1, <1>3, <3>1 DEF OwnWork, SlotsOf
    <3>3. QED
      BY <3>1, <3>2, SuspendOwn
  <2>12. CASE LogoutStart(r) \/ Revoke(r)
    <3>1. /\ \E code : \E at \in {"revoke", "revoked"} : Suspend(r, at, None, NoRest, code)
          /\ UNCHANGED <<call, opened, answer>>
      BY <2>12 DEF LogoutStart, Revoke, vars, idpVars
    <3>2. QED
      BY <3>1, SuspendOwn
  <2>13. CASE LogoutFinish(r) \/ Me(r)
    <3>1. (FinishPurged(r) \/ FinishUnchanged(r)) /\ Ends(r)
      BY <2>13 DEF LogoutFinish, Me
    <3>2. call'[r].key \in {call[r].key, NoKey} /\ call'[r].state = EmptyState
      BY <1>1, <3>1, LeavesNothing
    <3>3. SlotsOf(call'[r].state) \in Seq(SlotsBegunBy(Owner[r])') /\ ~Unsaved(call'[r])
      BY <3>2, EmptySeq DEF EmptyState, SlotsOf, Unsaved, HasTokens
    <3>4. QED
      BY <3>1, <3>2, <3>3, WorkEnds
  <2>14. QED
    BY <1>5, <2>6, <2>7, <2>8, <2>9, <2>10, <2>11, <2>12, <2>13 DEF Handler
<1>6. QED
  BY <1>4, <1>5

LEMMA HandlerOwn ==
  ASSUME BffSafe, OwnSafe, NEW r \in Requests, Handler(r)
  PROVE  OwnSafe'
<1>1. /\ OwnWork(r)' /\ call'[r].key \in {call[r].key, NoKey} /\ Grows
      /\ \A i, j \in 1..Len(opened') : opened'[i].attempt = opened'[j].attempt => i = j
  BY HandlerWork
<1>2. UNCHANGED <<rows, birth, jar, reply, answer>>
  BY HandlerRefines
  DEF Handler, Login, CallbackStray, CallbackError, CallbackStart, Exchange, CallbackFail,
      CallbackFinish, LogoutStart, Revoke, LogoutFinish, Me, Ends, storeVars, vars, idpVars
<1>3. \A q \in Requests \ {r} : call'[q] = call[q] /\ flow'[q] = flow[q]
  <2>1. RouteTypes /\ Safe /\ (HandlerStep(r) \/ UNCHANGED vars)
    BY TypeParts, HandlerRefines DEF BffSafe
  <2>2. \A q \in Requests \ {r} : call'[q] = call[q]
    BY <2>1, OnlyCall DEF vars, Safe, TypeOK
  <2>3. \E f : flow' = [flow EXCEPT ![r] = f]
    BY DEF Handler, Login, CallbackStray, CallbackError, CallbackStart, Exchange, CallbackFail,
       CallbackFinish, LogoutStart, Revoke, LogoutFinish, Me, Ends, Suspend
  <2>4. QED
    BY <2>1, <2>2, <2>3 DEF RouteTypes
<1>4. \A q \in Requests : OwnWork(q)'
  BY <1>1, <1>2, <1>3, WorkStays DEF OwnSafe
<1>5. NoNewHolders
  BY <1>1, <1>2, <1>3, OwnHeld, StoreAssumption DEF NoNewHolders
<1>6. QED
  BY <1>1, <1>2, <1>4, <1>5, KeysStay, BirthsStay DEF OwnSafe

-----------------------------------------------------------------------------
(* The other steps.                                                          *)

LEMMA SendOwn ==
  ASSUME BffSafe, OwnSafe, NEW r \in Requests, Send(r)
  PROVE  OwnSafe'
<1>1. /\ Safe /\ RouteTypes /\ FlowOK(r) /\ OwnWork(r) /\ Owner[r] \in Browsers
  BY TypeParts, OfHandler DEF BffSafe, OwnSafe
<1>2. /\ call[r].pc = "idle" /\ UNCHANGED <<rows, birth, jar, reply, flow, opened, answer>>
      /\ Begin(r, jar[Owner[r]])
  BY DEF Send, Begin, idpVars
<1>3. /\ call'[r].key \in {jar[Owner[r]], NoKey} /\ call'[r].state = EmptyState
      /\ \A q \in Requests \ {r} : call'[q] = call[q]
  BY <1>1, <1>2, GotoIs DEF Begin, NoSession
<1>4. Grows
  BY <1>2 DEF Grows
<1>5. OwnWork(r)'
  <2>1. SlotsOf(call'[r].state) = << >> /\ ~Unsaved(call'[r])
    BY <1>3 DEF EmptyState, SlotsOf, Unsaved, HasTokens
  <2>2. << >> \in Seq(SlotsBegunBy(Owner[r]))
    BY EmptySeq
  <2>3. QED
    BY <1>1, <1>2, <2>1, <2>2 DEF OwnWork, SlotsOf, SlotsBegunBy, Unsaved
<1>6. \A q \in Requests : OwnWork(q)'
  BY <1>2, <1>3, <1>4, <1>5, WorkStays DEF OwnSafe
<1>7. NoNewHolders
  BY <1>1, <1>2, <1>3, OwnHeld, StoreAssumption DEF NoNewHolders
<1>8. QED
  BY <1>2, <1>4, <1>6, <1>7, KeysStay, BirthsStay DEF OwnSafe

LEMMA OutsideOwn ==
  ASSUME BffSafe, OwnSafe,
         \/ \E r \in Requests : Deliver(r) \/ CutOff(r)
         \/ \E a \in Tokens : Authenticate(a)
         \/ Environment \/ UNCHANGED bffVars
  PROVE  OwnSafe'
<1>1. /\ Safe /\ RouteTypes /\ OneLoginPerCode
  BY TypeParts DEF BffSafe
<1>2. /\ UNCHANGED <<birth, opened>> /\ Grows
      /\ \A a \in Tokens : answer[a] # None => answer'[a] = answer[a]
  BY <1>1 DEF Deliver, CutOff, Abort, Authenticate, Environment, Tick, Sweep, bffVars, vars,
     idpVars, Grows, RouteTypes
<1>3. \A k \in Keys : rows'[k] # NoRow => rows'[k] = rows[k]
  BY <1>1 DEF Deliver, CutOff, Abort, Authenticate, Environment, Tick, Sweep, Delete, bffVars, vars,
     Safe, TypeOK
<1>4. ASSUME NEW q \in Requests
      PROVE  \/ call'[q] = call[q] /\ flow'[q] = flow[q]
             \/ call'[q] = call[q] /\ flow'[q] = NoFlow
             \/ call'[q] = Idle /\ flow'[q] = NoFlow
  BY <1>1 DEF Deliver, CutOff, Abort, Return, Authenticate, Environment, Tick, Sweep, bffVars, vars,
     Safe, TypeOK, RouteTypes
<1>5. ASSUME NEW q \in Requests PROVE OwnWork(q)'
  <2>1. CASE call'[q] = call[q] /\ flow'[q] = flow[q]
    BY <1>2, <2>1, WorkStays DEF OwnSafe
  <2>2. CASE flow'[q] = NoFlow /\ call'[q] \in {call[q], Idle}
    <3>1. /\ SlotsOf(flow'[q]) = << >> /\ SlotsOf(EmptyState) = << >> /\ ~Unsaved(Idle)
          /\ Idle.state = EmptyState /\ flow'[q].at = "none"
      BY <2>2, NoFlowTyped DEF NoFlow, SlotsOf, Idle, Unsaved, EmptyState
    <3>2. << >> \in Seq(SlotsBegunBy(Owner[q]))
      BY EmptySeq
    <3>3. OwnWork(q) /\ call[q].state \in State
      BY OfHandler DEF OwnSafe
    <3>4. /\ SlotsOf(call'[q].state) \in Seq(SlotsBegunBy(Owner[q]))
          /\ Unsaved(call'[q]) => call'[q] = call[q]
      BY <2>2, <3>1, <3>2, <3>3 DEF OwnWork
    <3>5. PICK s \in State : s = call[q].state
      BY <3>3
    <3>6. Unsaved(call[q]) => BeganBy(s.tok, Owner[q]) /\ Accounted(s)'
      BY <1>1, <1>2, <3>3, <3>5, AccountedForGood DEF OwnWork
    <3>7. Unsaved(call[q])' => BeganBy(call[q].state.tok, Owner[q])' /\ Accounted(call[q].state)'
      BY <1>2, <3>4, <3>5, <3>6 DEF BeganBy, Accounted, Unsaved
    <3>8. QED
      BY <1>2, <3>1, <3>2, <3>4, <3>7 DEF OwnWork, SlotsOf, SlotsBegunBy
  <2>3. QED
    BY <1>4, <2>1, <2>2
<1>6. NoNewHolders
  <2>1. \A q \in Requests : call'[q].key \in Keys => Holds(Owner[q], call'[q].key)
    BY <1>4, OwnHeld, StoreAssumption DEF Idle
  <2>2. CASE \E r \in Requests : Deliver(r)
    <3>1. PICK r \in Requests : Deliver(r)
      BY <2>2
    <3>2. /\ jar' = [jar EXCEPT ![Owner[r]] = reply[r]] /\ reply' = [reply EXCEPT ![r] = Nothing]
      BY <3>1 DEF Deliver
    <3>3. \A b \in Browsers : jar'[b] = jar[b] \/ (b = Owner[r] /\ jar'[b] = reply[r])
      BY <1>1, <3>2 DEF RouteTypes
    <3>4. \A q \in Requests : reply'[q] = reply[q] \/ reply'[q] = Nothing
      BY <1>1, <3>2 DEF RouteTypes
    <3>5. QED
      BY <2>1, <3>3, <3>4, OwnHeld, FlowAssumption DEF NoNewHolders
  <2>3. CASE ~\E r \in Requests : Deliver(r)
    <3>1. UNCHANGED jar /\ \A q \in Requests : reply'[q] = reply[q] \/ reply'[q] = Nothing
      BY <1>1, <2>3 DEF CutOff, Abort, Authenticate, Environment, bffVars, RouteTypes
    <3>2. QED
      BY <2>1, <3>1, OwnHeld, FlowAssumption DEF NoNewHolders
  <2>4. QED
    BY <2>2, <2>3
<1>7. QED
  BY <1>2, <1>3, <1>5, <1>6, KeysStay, BirthsStay DEF OwnSafe

LEMMA OwnInit == BffInit => OwnSafe
<1> SUFFICES ASSUME BffInit PROVE OwnSafe
  OBVIOUS
<1>1. /\ opened = << >> /\ \A b \in Browsers : jar[b] = NoKey
      /\ \A r \in Requests : reply[r] = Nothing /\ flow[r] = NoFlow /\ call[r] = Idle
  BY DEF BffInit, Init
<1>2. \A b \in Browsers, k \in Keys : ~Holds(b, k)
  BY <1>1, StoreAssumption, FlowAssumption DEF Holds, Idle
<1>3. \A k \in Keys : Issued(k) => ~HasTokens(birth[k])
  <2>1. \A k \in Keys : rows[k] \in LegacyRows \cup {NoRow}
                          /\ birth[k] = IF rows[k] = NoRow THEN None ELSE rows[k].state
    BY DEF BffInit, Init
  <2>2. QED
    BY <2>1, StoreAssumption DEF Issued, HasTokens
<1>4. ASSUME NEW r \in Requests PROVE OwnWork(r)
  <2>1. /\ SlotsOf(call[r].state) = << >> /\ SlotsOf(flow[r]) = << >> /\ ~Unsaved(call[r])
        /\ flow[r].at = "none"
    BY <1>1, NoFlowTyped DEF NoFlow, Idle, EmptyState, SlotsOf, Unsaved
  <2>2. QED
    BY <2>1, EmptySeq DEF OwnWork
<1>5. \A i, j \in 1..Len(opened) : opened[i].attempt = opened[j].attempt => i = j
  BY <1>1
<1>6. QED
  BY <1>2, <1>3, <1>4, <1>5 DEF OwnSafe, OwnKey, Accounted

LEMMA OwnStep == BffSafe /\ OwnSafe /\ [BffNext]_bffVars => OwnSafe'
BY SendOwn, HandlerOwn, ServeOwn, OutsideOwn DEF BffNext

\* Keys, slots and logins belong to browsers.
THEOREM RoutesOwn == BffSpec => []OwnSafe
BY OwnInit, OwnStep, RoutesSafe, PTL DEF BffSpec

\* Nobody is signed in by an attempt somebody else began.
THEOREM RoutesLoginInOwnBrowser == BffSpec => []LoginInOwnBrowser
<1>1. BffSafe /\ OwnSafe => LoginInOwnBrowser
  BY OwnHeld, OfHandler DEF OwnSafe, OwnKey, LoginInOwnBrowser
<1>2. QED
  BY <1>1, RoutesSafe, RoutesOwn, PTL

\* A completed step-up had its evidence.
THEOREM RoutesStepUpFresh == BffSpec => []StepUpFresh
<1>1. BffSafe /\ OwnSafe => StepUpFresh
  <2> SUFFICES ASSUME BffSafe, OwnSafe, NEW k \in Keys, NEW i \in 1..Len(opened),
                      Issued(k), birth[k].tok = opened[i].attempt, opened[i].stepUp
               PROVE  /\ answer[opened[i].attempt].authAt # None
                      /\ opened[i].at - answer[opened[i].attempt].authAt <= MaxAge + AuthSkew
                      /\ answer[opened[i].attempt].authAt - birth[k].loginAt <= AuthSkew
    BY DEF StepUpFresh
  <2>1. opened[i] \in Opened
    BY TypeParts, ElementOfSeq DEF BffSafe, RouteTypes
  <2>2. HasTokens(birth[k])
    BY <2>1, StateAssumption DEF Opened, HasTokens
  <2>3. PICK j \in 1..Len(opened) :
          /\ opened[j].attempt = birth[k].tok
          /\ opened[j].stepUp =>
               /\ answer[birth[k].tok].authAt # None
               /\ opened[j].at - answer[birth[k].tok].authAt <= MaxAge + AuthSkew
               /\ answer[birth[k].tok].authAt - birth[k].loginAt <= AuthSkew
    BY <2>2 DEF OwnSafe, Accounted
  <2>4. j = i
    BY <2>3 DEF OwnSafe
  <2>5. QED
    BY <2>3, <2>4
<1>2. QED
  BY <1>1, RoutesSafe, RoutesOwn, PTL

-----------------------------------------------------------------------------
(* What pruning keeps.                                                       *)

\* A callback finds slots that are young enough only.
LEMMA MatchesAreLive ==
  ASSUME NEW s \in State, NEW a, NEW slot \in Matching(LiveSlots(s), a)
  PROVE  now - slot.started \in 0..PreAuthTtl
<1> DEFINE kept == {e \in Slot : now - e.started \in 0..PreAuthTtl}
           w == Retain(SlotsOf(s), kept)
<1>1. SlotsOf(s) \in Seq(Slot)
  BY SlotsOfTyped, SlotVectorsAreSeqs
<1>2. w \in Seq(Slot \cap kept)
  <2> HIDE DEF kept
  <2>1. QED
    BY <1>1, RetainSelects DEF Selects
<1>3. \A i \in DOMAIN w : w[i] \in kept
  <2> HIDE DEF w, kept
  <2>1. DOMAIN w = 1..Len(w) /\ \A i \in 1..Len(w) : w[i] \in Slot \cap kept
    BY <1>2, ElementOfSeq, LenProperties
  <2>2. QED
    BY <2>1
<1>4. LiveSlots(s) = w
  BY DEF LiveSlots
<1> HIDE DEF w
<1>5. slot \in kept
  BY <1>3, <1>4 DEF Matching
<1>6. QED
  BY <1>5

\* Only a callback that found a slot suspends its handler at the exchange.
LEMMA CallbackStarts ==
  ASSUME BffSafe, [BffNext]_bffVars, NEW r \in Requests,
         flow'[r].at = "exchange", flow[r].at # "exchange"
  PROVE  \E a \in Tokens, code \in Attempts : CallbackStart(r, a, code)
<1>0. RouteTypes
  BY TypeParts DEF BffSafe
<1>1. ASSUME NEW q \in Requests, Handler(q)
      PROVE  q = r /\ \E a \in Tokens, code \in Attempts : CallbackStart(r, a, code)
  <2>1. CASE Ends(q)
    BY <1>0, <2>1, NoFlowTyped DEF Ends, RouteTypes
  <2>2. CASE Exchange(q) \/ LogoutStart(q) \/ Revoke(q)
    <3>1. \E at \in {"verify", "revoke", "revoked"} : \E x, y, z : Suspend(q, at, x, y, z)
      BY <2>2 DEF Exchange, LogoutStart, Revoke
    <3>2. QED
      BY <1>0, <3>1 DEF Suspend, RouteTypes
  <2>3. CASE \E a \in Tokens, code \in Attempts : CallbackStart(q, a, code)
    <3>1. \E x, y, z : Suspend(q, "exchange", x, y, z)
      BY <2>3 DEF CallbackStart
    <3>2. q = r
      BY <1>0, <3>1 DEF Suspend, RouteTypes
    <3>3. QED
      BY <2>3, <3>2
  <2>4. QED
    BY <1>1, <2>1, <2>2, <2>3
    DEF Handler, Login, CallbackStray, CallbackError, CallbackFail, CallbackFinish, LogoutFinish, Me
<1>2. ASSUME \/ \E q \in Requests : Send(q) \/ Serve(q) \/ Deliver(q) \/ CutOff(q)
             \/ \E a \in Tokens : Authenticate(a)
             \/ Environment \/ UNCHANGED bffVars
      PROVE  FALSE
  BY <1>0, <1>2, NoFlowTyped
  DEF Send, Serve, Deliver, CutOff, Authenticate, Environment, bffVars, RouteTypes
<1>3. QED
  BY <1>1, <1>2 DEF BffNext

\* The callback goes on with a slot for pre_auth_ttl after the login at most.
THEOREM RoutesAttemptsExpire == BffSpec => AttemptsExpire
<1> DEFINE Expire ==
      \A r \in Requests :
        flow'[r].at = "exchange" /\ flow[r].at # "exchange" =>
          \E i \in 1..Len(opened) :
            /\ opened[i].attempt = flow'[r].slot.attempt
            /\ now - opened[i].at <= PreAuthTtl
<1>1. ASSUME BffSafe, OwnSafe, [BffNext]_bffVars PROVE Expire
  <2> SUFFICES ASSUME NEW r \in Requests, flow'[r].at = "exchange", flow[r].at # "exchange"
               PROVE  \E i \in 1..Len(opened) : /\ opened[i].attempt = flow'[r].slot.attempt
                                                /\ now - opened[i].at <= PreAuthTtl
    OBVIOUS
  <2>1. /\ RouteTypes /\ call[r].state \in State /\ OwnWork(r) /\ now \in Nat
    BY <1>1, TypeParts, OfHandler DEF BffSafe, OwnSafe, Safe, TypeOK, Instants
  <2>2. \E a \in Tokens, code \in Attempts : CallbackStart(r, a, code)
    BY <1>1, CallbackStarts
  <2>3. PICK a \in Tokens, code \in Attempts : CallbackStart(r, a, code)
    BY <2>2
  <2>4. PICK slot \in Matching(LiveSlots(call[r].state), a) :
          Suspend(r, "exchange", slot, Without(LiveSlots(call[r].state), a), code)
    BY <2>3 DEF CallbackStart
  <2>5. flow'[r].slot = slot
    BY <2>1, <2>4 DEF Suspend, RouteTypes
  <2>6. now - slot.started \in 0..PreAuthTtl
    BY <2>1, <2>4, MatchesAreLive
  <2>7. slot \in SlotsBegunBy(Owner[r])
    <3>1. /\ SlotsOf(call[r].state) \in Seq(SlotsBegunBy(Owner[r]))
          /\ SlotsOf(call[r].state) \in SlotVectors /\ LiveSlots(call[r].state) \in SlotVectors
      BY <1>1, <2>1, OfHandler DEF OwnWork
    <3>2. LiveSlots(call[r].state) \in Seq(SlotsBegunBy(Owner[r]))
      BY <3>1, HelpersKeepSet DEF LiveSlots
    <3>3. QED
      BY <2>4, <3>1, <3>2, HelpersKeepSet
  <2>8. PICK i \in 1..Len(opened) : opened[i].attempt = slot.attempt /\ opened[i].at = slot.started
    BY <2>7 DEF SlotsBegunBy
  <2>9. slot.started \in Nat
    BY <2>7, StoreAssumption DEF SlotsBegunBy, Slot
  <2>10. QED
    BY <2>1, <2>5, <2>6, <2>8, <2>9, ExpiryAssumption
<1>2. BffSafe /\ OwnSafe /\ [BffNext]_bffVars => [Expire]_bffVars
  BY <1>1
<1>3. QED
  BY <1>2, RoutesSafe, RoutesOwn, PTL DEF BffSpec, AttemptsExpire

-----------------------------------------------------------------------------
(* The order of the slots.                                                   *)

\* Rows left behind by an earlier version of the crate hold no slots.
LegacyHasNoSlots == \A l \in LegacyRows : l.state.rest = NoRest

\* The order in which attempts were begun does not change.
LEMMA BeforeForGood ==
  ASSUME RouteTypes, Grows
  PROVE  \A a, b : BegunBefore(a, b) => BegunBefore(a, b)'
<1> SUFFICES ASSUME NEW a, NEW b, BegunBefore(a, b) PROVE BegunBefore(a, b)'
  OBVIOUS
<1>1. PICK m \in 1..Len(opened), n \in 1..Len(opened) :
        m < n /\ opened[m].attempt = a /\ opened[n].attempt = b
  BY DEF BegunBefore
<1>2. /\ m \in 1..Len(opened)' /\ opened'[m] = opened[m]
      /\ n \in 1..Len(opened)' /\ opened'[n] = opened[n]
  BY GrowsKeeps
<1>3. QED
  BY <1>1, <1>2 DEF BegunBefore

LEMMA VectorsForGood ==
  ASSUME RouteTypes, Grows, NEW v, VectorOK(v)
  PROVE  VectorOK(v)'
<1>1. ASSUME NEW i \in 1..Len(v)
      PROVE  \E n \in 1..Len(opened') :
               opened'[n].attempt = v[i].attempt /\ opened'[n].stepUp = v[i].stepUp
  <2>1. PICK n \in 1..Len(opened) : opened[n].attempt = v[i].attempt /\ opened[n].stepUp = v[i].stepUp
    BY DEF VectorOK
  <2>2. n \in 1..Len(opened)' /\ opened'[n] = opened[n]
    BY GrowsKeeps
  <2>3. QED
    BY <2>1, <2>2
<1>2. ASSUME NEW i \in 1..Len(v), NEW j \in 1..Len(v), i < j
      PROVE  /\ v[i].started <= v[j].started /\ v[i].attempt # v[j].attempt
             /\ BegunBefore(v[i].attempt, v[j].attempt)'
  <2>1. /\ v[i].started <= v[j].started /\ v[i].attempt # v[j].attempt
        /\ BegunBefore(v[i].attempt, v[j].attempt)
    BY <1>2 DEF VectorOK
  <2>2. QED
    BY <2>1, BeforeForGood
<1>3. QED
  BY <1>1, <1>2 DEF VectorOK

LEMMA EmptyVectorOK == VectorOK(<< >>) /\ VectorOK(<< >>)'
BY DEF VectorOK

\* What is left of a vector is as well formed as the whole.
LEMMA RetainKeepsOrder ==
  ASSUME NEW v \in SlotVectors, NEW kept, VectorOK(v)
  PROVE  VectorOK(Retain(v, kept))
<1>1. v \in Seq(Slot)
  BY SlotVectorsAreSeqs
<1>2. PICK w : w = Retain(v, kept)
  OBVIOUS
<1>3. Selects(w, v, Slot \cap kept, Len(v))
  BY <1>1, <1>2, RetainSelects
<1>4. ASSUME NEW i \in 1..Len(w), NEW j \in 1..Len(w), i < j
      PROVE  /\ w[i].started <= w[j].started /\ w[i].attempt # w[j].attempt
             /\ BegunBefore(w[i].attempt, w[j].attempt)
  <2>1. PICK p \in 1..Len(v), q \in 1..Len(v) : p < q /\ w[i] = v[p] /\ w[j] = v[q]
    BY <1>3, <1>4 DEF Selects
  <2>2. QED
    BY <2>1 DEF VectorOK
<1>5. ASSUME NEW i \in 1..Len(w)
      PROVE  \E n \in 1..Len(opened) :
               opened[n].attempt = w[i].attempt /\ opened[n].stepUp = w[i].stepUp
  <2>1. PICK p \in 1..Len(v) : w[i] = v[p]
    BY <1>3 DEF Selects
  <2>2. QED
    BY <2>1 DEF VectorOK
<1>6. VectorOK(w)
  BY <1>4, <1>5 DEF VectorOK
<1>7. QED
  BY <1>2, <1>6

\* A newer slot goes to the end, the oldest go.
LEMMA PushKeepsOrder ==
  ASSUME NEW v \in SlotVectors, VectorOK(v)', NEW slot \in Slot,
         \A i \in 1..Len(v) : v[i].started <= slot.started /\ v[i].attempt # slot.attempt,
         \A i \in 1..Len(v) : BegunBefore(v[i].attempt, slot.attempt)',
         \E n \in 1..Len(opened') :
           opened'[n].attempt = slot.attempt /\ opened'[n].stepUp = slot.stepUp,
         NEW pushed, pushed = PushPreAuth(v, slot)
  PROVE  VectorOK(pushed)'
<1> DEFINE n == Len(v)
           m == IF n < MaxSlots THEN 1 ELSE n - MaxSlots + 2
           u == SubSeq(v, m, n)
           w == Append(u, slot)
<1>1. v \in Seq(Slot) /\ n \in Nat /\ MaxSlots \in Nat \ {0}
  BY SlotVectorsAreSeqs, FlowAssumption
<1>2. m \in Int /\ m >= 1
  BY <1>1
<1> HIDE DEF m
<1>3. \A i \in m..n : v[i] \in Slot
  BY <1>1, <1>2, ElementOfSeq
<1>4. /\ u \in Seq(Slot) /\ Len(u) \in Nat
      /\ \A i \in 1..Len(u) : i + m - 1 \in 1..n /\ u[i] = v[i + m - 1]
  <2> HIDE DEF n
  <2>1. u \in Seq(Slot) /\ Len(u) = (IF m <= n THEN n - m + 1 ELSE 0)
        /\ \A i \in 1..(n - m + 1) : u[i] = v[m + i - 1]
    BY <1>1, <1>2, <1>3, SubSeqProperties
  <2> HIDE DEF u
  <2>2. PICK l : l = Len(u)
    OBVIOUS
  <2>3. l \in Nat /\ n \in Int /\ m \in Int /\ l = (IF m <= n THEN n - m + 1 ELSE 0)
    BY <1>1, <1>2, <2>1, <2>2
  <2>4. ASSUME NEW i \in 1..l PROVE i + m - 1 \in 1..n /\ u[i] = v[i + m - 1]
    <3>1. i \in Int /\ i >= 1 /\ m <= n /\ i <= n - m + 1
      BY <2>3
    <3>2. i \in 1..(n - m + 1) /\ m + i - 1 = i + m - 1 /\ i + m - 1 \in 1..n
      BY <1>2, <2>3, <3>1
    <3>3. QED
      BY <2>1, <3>2
  <2>5. QED
    BY <2>1, <2>2, <2>3, <2>4
<1> HIDE DEF u
<1>5. /\ Len(w) = Len(u) + 1 /\ w[Len(u) + 1] = slot /\ \A i \in 1..Len(u) : w[i] = u[i]
  BY <1>4, AppendProperties
<1> HIDE DEF w
<1>6. PICK x : x = w
  OBVIOUS
<1>7. ASSUME NEW i \in 1..Len(x), NEW j \in 1..Len(x), i < j
      PROVE  /\ x[i].started <= x[j].started /\ x[i].attempt # x[j].attempt
             /\ BegunBefore(x[i].attempt, x[j].attempt)'
  <2>1. i \in 1..Len(u) /\ (j \in 1..Len(u) \/ j = Len(u) + 1)
    <3>1. PICK l : l = Len(u)
      OBVIOUS
    <3>2. l \in Nat /\ Len(x) = l + 1
      BY <1>4, <1>5, <1>6, <3>1
    <3>3. i \in Int /\ j \in Int /\ i >= 1 /\ i < j /\ j <= l + 1
      BY <1>7, <3>2
    <3>4. i \in 1..l /\ (j \in 1..l \/ j = l + 1)
      BY <3>2, <3>3
    <3>5. QED
      BY <3>1, <3>4
  <2>2. x[i] = v[i + m - 1] /\ i + m - 1 \in 1..n
    BY <1>4, <1>5, <1>6, <2>1
  <2>3. CASE j = Len(u) + 1
    BY <1>5, <1>6, <2>2, <2>3
  <2>4. CASE j \in 1..Len(u)
    <3>1. x[j] = v[j + m - 1] /\ j + m - 1 \in 1..n
      BY <1>4, <1>5, <1>6, <2>4
    <3>2. i \in Int /\ j \in Int /\ m \in Int
      BY <1>2
    <3>3. i + m - 1 < j + m - 1
      BY <1>7, <3>2
    <3>4. QED
      BY <2>2, <3>1, <3>3 DEF VectorOK
  <2>5. QED
    BY <2>1, <2>3, <2>4
<1>8. ASSUME NEW i \in 1..Len(x)
      PROVE  \E k \in 1..Len(opened') :
               opened'[k].attempt = x[i].attempt /\ opened'[k].stepUp = x[i].stepUp
  <2>1. CASE i \in 1..Len(u)
    <3>1. x[i] = v[i + m - 1] /\ i + m - 1 \in 1..n
      BY <1>4, <1>5, <1>6, <2>1
    <3>2. QED
      BY <3>1, SMTT(30) DEF VectorOK
  <2>2. CASE i = Len(u) + 1
    BY <1>5, <1>6, <2>2
  <2>3. QED
    BY <1>4, <1>5, <1>6, <2>1, <2>2
<1>9. pushed = x
  BY <1>6 DEF PushPreAuth, w, u, m
<1>10. VectorOK(x)'
  BY <1>7, <1>8 DEF VectorOK
<1>11. QED
  BY <1>9, <1>10

\* VectorOK, of the attempts begun.
Fits(v, begun) ==
  /\ \A i, j \in 1..Len(v) :
       i < j => /\ v[i].started <= v[j].started /\ v[i].attempt # v[j].attempt
                /\ \E m, n \in 1..Len(begun) :
                     m < n /\ begun[m].attempt = v[i].attempt /\ begun[n].attempt = v[j].attempt
  /\ \A i \in 1..Len(v) : \E n \in 1..Len(begun) :
       begun[n].attempt = v[i].attempt /\ begun[n].stepUp = v[i].stepUp

\* What the invariant says of one request.
CallOrdered(r) == VectorOK(SlotsOf(call[r].state)) /\ VectorOK(SlotsOf(flow[r]))

\* A vector that was well formed and stays where it is, or moves.
LEMMA CallStaysOrdered ==
  ASSUME RouteTypes, Grows, NEW r \in Requests, NEW v, NEW w,
         VectorOK(v) \/ VectorOK(v)', VectorOK(w) \/ VectorOK(w)',
         SlotsOf(call'[r].state) \in {v, << >>}, SlotsOf(flow'[r]) \in {w, << >>}
  PROVE  CallOrdered(r)'
<1>1. VectorOK(v)' /\ VectorOK(w)' /\ VectorOK(<< >>)'
  BY VectorsForGood, EmptyVectorOK
<1>2. PICK a : a = SlotsOf(call'[r].state)
  OBVIOUS
<1>3. PICK b : b = SlotsOf(flow'[r])
  OBVIOUS
<1>4. VectorOK(a)' /\ VectorOK(b)'
  BY <1>1, <1>2, <1>3, Zenon
<1>5. VectorOK(SlotsOf(call[r].state))' /\ VectorOK(SlotsOf(flow[r]))'
  <2>1. Fits(a, opened') /\ Fits(b, opened')
    BY <1>4, Zenon DEF VectorOK, BegunBefore, Fits
  <2>2. Fits(SlotsOf(call'[r].state), opened') /\ Fits(SlotsOf(flow'[r]), opened')
    BY <1>2, <1>3, <2>1, Zenon
  <2>3. QED
    BY <2>2, Zenon DEF VectorOK, BegunBefore, Fits, SlotsOf
<1>6. QED
  BY <1>5 DEF CallOrdered

\* The slot of a new attempt is the newest, and is pushed to the end.
LEMMA LoginOrdered ==
  ASSUME BffSafe, OwnSafe, VectorsSafe, NEW r \in Requests, NEW a \in Tokens, NEW up \in StepUps,
         Login(r, a, up)
  PROVE  CallOrdered(r)'
<1>1. /\ Safe /\ RouteTypes /\ OwnWork(r) /\ call[r].state \in State
      /\ now \in 0..MaxNow /\ LiveSlots(call[r].state) \in SlotVectors
      /\ SlotsOf(call[r].state) \in SlotVectors /\ Grows
  BY TypeParts, OfHandler, LoginOwn DEF BffSafe, OwnSafe
<1>2. PICK u, slot, o :
        /\ u = LiveSlots(call[r].state)
        /\ slot = [attempt |-> a, started |-> now, stepUp |-> up]
        /\ o = [attempt |-> a, by |-> Owner[r], at |-> now, stepUp |-> up, as |-> call[r].state.sub]
  OBVIOUS
<1>3. /\ opened' = Append(opened, o) /\ a \notin Attempts
      /\ FinishChanged(r, WithSlots(call[r].state, PushPreAuth(u, slot))) /\ Ends(r)
  BY <1>2 DEF Login, Ready
<1>4. slot \in Slot /\ slot.attempt = a /\ slot.started = now /\ slot.stepUp = up
  BY <1>1, <1>2 DEF Slot
<1>5. o \in Opened /\ o.attempt = a /\ o.stepUp = up
  <2>1. up \in BOOLEAN /\ now \in Instants /\ Owner[r] \in Browsers
    BY <1>1, FlowAssumption, StoreAssumption, Zenon DEF Safe, TypeOK
  <2>2. QED
    BY <1>1, <1>2, <2>1 DEF Opened, State
<1>6. u \in SlotVectors /\ VectorOK(u) /\ u \in Seq(SlotsBegunBy(Owner[r]))
  <2>1. VectorOK(SlotsOf(call[r].state))
    BY DEF VectorsSafe, SlotsWellFormed
  <2>2. QED
    BY <1>1, <1>2, <2>1, RetainKeepsOrder, HelpersKeepSet DEF LiveSlots, OwnWork
<1>7. \A i \in 1..Len(u) : u[i].started <= slot.started /\ u[i].attempt # slot.attempt
  <2> SUFFICES ASSUME NEW i \in 1..Len(u)
               PROVE  u[i].started <= slot.started /\ u[i].attempt # slot.attempt
    OBVIOUS
  <2>1. u[i] \in SlotsBegunBy(Owner[r])
    BY <1>6, ElementOfSeq
  <2>2. PICK n \in 1..Len(opened) : opened[n].attempt = u[i].attempt /\ opened[n].at = u[i].started
    BY <2>1 DEF SlotsBegunBy
  <2>3. QED
    BY <1>3, <1>4, <2>2 DEF Attempts, VectorsSafe
<1>8. /\ Len(opened') = Len(opened) + 1 /\ opened'[Len(opened) + 1] = o /\ Len(opened) \in Nat
      /\ Len(opened) + 1 \in 1..Len(opened')
  BY <1>1, <1>3, <1>5, AppendProperties, LenProperties DEF RouteTypes
<1>9. \E n \in 1..Len(opened') :
        opened'[n].attempt = slot.attempt /\ opened'[n].stepUp = slot.stepUp
  BY <1>4, <1>5, <1>8
<1>10. \A i \in 1..Len(u) : BegunBefore(u[i].attempt, slot.attempt)'
  <2> SUFFICES ASSUME NEW i \in 1..Len(u) PROVE BegunBefore(u[i].attempt, slot.attempt)'
    OBVIOUS
  <2>1. u[i] \in SlotsBegunBy(Owner[r])
    BY <1>6, ElementOfSeq
  <2>2. PICK n \in 1..Len(opened) : opened[n].attempt = u[i].attempt
    BY <2>1 DEF SlotsBegunBy
  <2>3. n \in 1..Len(opened') /\ opened'[n] = opened[n] /\ n < Len(opened) + 1
    BY <1>1, <1>8, GrowsKeeps
  <2>4. \E m, k \in 1..Len(opened') :
          m < k /\ opened'[m].attempt = u[i].attempt /\ opened'[k].attempt = slot.attempt
    BY <1>4, <1>5, <1>8, <2>2, <2>3
  <2>5. QED
    BY <2>4 DEF BegunBefore
<1>11. PICK v : v = PushPreAuth(u, slot)
  OBVIOUS
<1>12. VectorOK(v)' /\ v \in SlotVectors
  <2>1. VectorOK(u)'
    BY <1>1, <1>6, VectorsForGood
  <2>2. QED
    BY <1>4, <1>6, <1>7, <1>9, <1>10, <1>11, <2>1, PushKeepsOrder, PushPreAuthTyped
<1>13. SlotsOf(call'[r].state) \in {v, << >>}
  <2>1. WithSlots(call[r].state, v) \in State /\ SlotsOf(WithSlots(call[r].state, v)) = v
    <3>1. v \in Rests /\ v # NoRest
      BY <1>12, FlowAssumption
    <3>2. QED
      BY <1>1, <3>1, WithSlotsFacts DEF SlotsOf, State
  <2>2. QED
    BY <1>1, <1>3, <1>11, <2>1, FinishIs
<1>14. SlotsOf(flow'[r]) = << >>
  BY <1>1, <1>3 DEF Ends, NoFlow, SlotsOf, RouteTypes
<1>15. QED
  BY <1>1, <1>12, <1>13, <1>14, CallStaysOrdered, EmptyVectorOK

\* The other handlers drop slots or keep them.
LEMMA HandlerOrdered ==
  ASSUME BffSafe, OwnSafe, VectorsSafe, NEW r \in Requests, Handler(r)
  PROVE  CallOrdered(r)'
<1> DEFINE c == call[r]
           v == LiveSlots(c.state)
<1>1. /\ Safe /\ RouteTypes /\ FlowOK(r) /\ flow[r] \in Flow /\ Grows
      /\ c.state \in State /\ SlotsOf(c.state) \in SlotVectors /\ v \in SlotVectors
  BY TypeParts, OfHandler, HandlerWork DEF BffSafe, OwnSafe
<1>2. VectorOK(SlotsOf(c.state)) /\ VectorOK(SlotsOf(flow[r])) /\ VectorOK(<< >>)
  BY EmptyVectorOK DEF VectorsSafe, SlotsWellFormed
<1>3. VectorOK(v)
  BY <1>1, <1>2, RetainKeepsOrder DEF LiveSlots
<1>4. \A a : VectorOK(Without(v, a)) /\ Without(v, a) \in SlotVectors
  <2> HIDE DEF v
  <2>1. QED
    BY <1>1, <1>3, RetainKeepsOrder, HelpersTyped DEF Without
<1> HIDE DEF v
<1>5. SlotsOf(NoFlow) = << >>
  BY DEF NoFlow, SlotsOf
<1>6. ASSUME NEW x \in Rests, VectorOK(SlotsOf([rest |-> x])),
             FinishChanged(r, WithSlots(c.state, x)), Ends(r)
      PROVE  CallOrdered(r)'
  <2>1. /\ WithSlots(c.state, x) \in State
        /\ SlotsOf(WithSlots(c.state, x)) = SlotsOf([rest |-> x])
    BY <1>1, WithSlotsFacts DEF SlotsOf, State
  <2>2. SlotsOf(call'[r].state) \in {SlotsOf([rest |-> x]), << >>}
    BY <1>1, <1>6, <2>1, FinishIs
  <2>3. flow'[r] = NoFlow
    BY <1>1, <1>6 DEF Ends, RouteTypes
  <2>4. QED
    BY <1>1, <1>2, <1>5, <1>6, <2>2, <2>3, CallStaysOrdered
<1>7. ASSUME NEW x, VectorOK(x), x \in SlotVectors
      PROVE  x \in Rests /\ VectorOK(SlotsOf([rest |-> x])) /\ SlotsOf([rest |-> x]) = x
  BY <1>7, VectorsAreRests, FlowAssumption DEF SlotsOf
<1>8. ASSUME NEW at, NEW slot, NEW x, NEW code, Suspend(r, at, slot, x, code),
             UNCHANGED call, VectorOK(SlotsOf([rest |-> x]))
      PROVE  CallOrdered(r)'
  <2>1. SlotsOf(flow'[r]) = SlotsOf([rest |-> x])
    BY <1>1, <1>8 DEF Suspend, RouteTypes, SlotsOf
  <2>2. SlotsOf(call'[r].state) = SlotsOf(c.state)
    BY <1>8
  <2>3. QED
    BY <1>1, <1>2, <1>8, <2>1, <2>2, CallStaysOrdered
<1>9. CASE \E a \in Tokens, up \in StepUps : Login(r, a, up)
  BY <1>9, LoginOrdered
<1>10. CASE CallbackStray(r)
  BY <1>1, <1>3, <1>6, <1>7, <1>10 DEF CallbackStray, v
<1>11. CASE CallbackFail(r)
  <2>1. flow[r].rest \in Rests /\ SlotsOf([rest |-> flow[r].rest]) = SlotsOf(flow[r])
    BY <1>1 DEF Flow, SlotsOf
  <2>2. QED
    BY <1>2, <1>6, <1>11, <2>1 DEF CallbackFail
<1>12. CASE \E a \in Tokens : CallbackError(r, a)
  <2>1. PICK a \in Tokens : CallbackError(r, a)
    BY <1>12
  <2>2. FinishChanged(r, WithSlots(c.state, Without(v, a))) /\ Ends(r)
    BY <2>1 DEF CallbackError, v
  <2>3. QED
    BY <1>4, <1>6, <1>7, <2>2
<1>13. CASE CallbackFinish(r)
  <2> DEFINE f == flow[r]
             w == WithSlots(c.state, f.rest)
             s == LoggedIn(w, answer[f.code].sub, f.code, now)
  <2>1. f.at = "verify" /\ FinishRenewed(r, s) /\ Ends(r)
    BY <1>13 DEF CallbackFinish
  <2>2. f.code \in Tokens /\ answer[f.code].sub \in Subjects /\ now \in Instants
    BY <1>1, <2>1, OfRequest DEF FlowOK, RouteTypes
  <2>3. w \in State /\ SlotsOf(w) = SlotsOf(f)
    BY OfHandler, WithSlotsFacts DEF WithSlots, SlotsOf, State
  <2>4. s \in State /\ SlotsOf(s) = SlotsOf(f)
    BY <2>2, <2>3, LoggedInFacts DEF LoggedIn, SlotsOf, State
  <2> HIDE DEF s
  <2>5. SlotsOf(call'[r].state) \in {SlotsOf(f), << >>} /\ flow'[r] = NoFlow
    BY <1>1, <2>1, <2>4, FinishIs DEF Ends, RouteTypes
  <2>6. QED
    BY <1>1, <1>2, <1>5, <2>5, CallStaysOrdered
<1>14. CASE \E a \in Tokens, code \in Attempts : CallbackStart(r, a, code)
  <2>1. PICK a \in Tokens, code \in Attempts : CallbackStart(r, a, code)
    BY <1>14
  <2>2. /\ \E slot : Suspend(r, "exchange", slot, Without(v, a), code)
        /\ UNCHANGED call
    BY <2>1 DEF CallbackStart, v, vars
  <2>3. QED
    BY <1>4, <1>7, <1>8, <2>2
<1>15. CASE Exchange(r)
  <2>1. SlotsOf([rest |-> flow[r].rest]) = SlotsOf(flow[r])
    BY DEF SlotsOf
  <2>2. Suspend(r, "verify", flow[r].slot, flow[r].rest, flow[r].code) /\ UNCHANGED call
    BY <1>15 DEF Exchange, vars
  <2>3. QED
    BY <1>2, <1>8, <2>1, <2>2
<1>16. CASE LogoutStart(r) \/ Revoke(r)
  <2>1. SlotsOf([rest |-> NoRest]) = << >>
    BY DEF SlotsOf
  <2>2. (\E at, code : Suspend(r, at, None, NoRest, code)) /\ UNCHANGED call
    BY <1>16 DEF LogoutStart, Revoke, vars
  <2>3. QED
    BY <1>2, <1>8, <2>1, <2>2
<1>17. CASE LogoutFinish(r) \/ Me(r)
  <2>1. (FinishPurged(r) \/ FinishUnchanged(r)) /\ Ends(r)
    BY <1>17 DEF LogoutFinish, Me
  <2>2. call'[r].state = EmptyState /\ flow'[r] = NoFlow
    BY <1>1, <2>1, LeavesNothing DEF Ends, RouteTypes
  <2>3. SlotsOf(call'[r].state) = << >>
    BY <2>2 DEF EmptyState, SlotsOf
  <2>4. QED
    BY <1>1, <1>2, <1>5, <2>2, <2>3, CallStaysOrdered
<1>18. QED
  BY <1>9, <1>10, <1>11, <1>12, <1>13, <1>14, <1>15, <1>16, <1>17 DEF Handler

\* The store moves vectors about.
LEMMA ServeOrdered ==
  ASSUME BffSafe, VectorsSafe, NEW r \in Requests, StoreStep(r), UNCHANGED <<flow, opened>>
  PROVE  /\ CallOrdered(r)'
         /\ \A k \in Keys : rows'[k] # NoRow => VectorOK(SlotsOf(rows'[k].state))
<1>1. Safe /\ RouteTypes /\ Grows /\ RequestStep(r)
  BY TypeParts DEF BffSafe, Grows, RequestStep
<1>2. /\ \A k \in Keys : rows[k] # NoRow => VectorOK(SlotsOf(rows[k].state))
      /\ VectorOK(SlotsOf(call[r].state)) /\ VectorOK(SlotsOf(flow[r])) /\ VectorOK(<< >>)
  BY EmptyVectorOK DEF VectorsSafe, SlotsWellFormed
<1>3. PICK v : SlotsOf(call'[r].state) = v /\ VectorOK(v)
  <2>1. call'[r].state = EmptyState => SlotsOf(call'[r].state) = << >>
    BY DEF EmptyState, SlotsOf
  <2>2. call'[r].state.rest = call[r].state.rest => SlotsOf(call'[r].state) = SlotsOf(call[r].state)
    BY DEF SlotsOf
  <2>3. QED
    BY <1>1, <1>2, <2>1, <2>2, StoreStepIs
<1>4. ASSUME NEW k \in Keys, rows'[k] # NoRow PROVE VectorOK(SlotsOf(rows'[k].state))
  <2>1. Remains(k) \/ Written(r, k)
    BY <1>1, <1>4, RequestRows
  <2>2. \/ rows'[k].state = call[r].state
        \/ rows[k] # NoRow /\ rows'[k].state = rows[k].state
    BY <2>1 DEF Remains, Written
  <2>3. QED
    BY <1>2, <2>2
<1>5. SlotsOf(flow'[r]) = SlotsOf(flow[r])
  OBVIOUS
<1>6. CallOrdered(r)'
  BY <1>1, <1>2, <1>3, <1>5, CallStaysOrdered
<1>7. QED
  BY <1>4, <1>6

LEMMA VectorsInit == ASSUME LegacyHasNoSlots PROVE BffInit => VectorsSafe
<1> SUFFICES ASSUME BffInit PROVE VectorsSafe
  OBVIOUS
<1>1. opened = << >>
  BY DEF BffInit
<1>2. ASSUME NEW k \in Keys, rows[k] # NoRow PROVE SlotsOf(rows[k].state) = << >>
  BY <1>2 DEF BffInit, Init, LegacyHasNoSlots, SlotsOf
<1>3. ASSUME NEW r \in Requests PROVE SlotsOf(call[r].state) = << >> /\ SlotsOf(flow[r]) = << >>
  BY DEF BffInit, Init, Idle, EmptyState, NoFlow, SlotsOf
<1>4. QED
  BY <1>1, <1>2, <1>3, EmptyVectorOK DEF VectorsSafe, SlotsWellFormed

\* What stands still in a step.
LEMMA OthersStay ==
  ASSUME BffSafe, NEW r \in Requests, Send(r) \/ Handler(r) \/ Serve(r)
  PROVE  \A q \in Requests \ {r} : call'[q] = call[q] /\ flow'[q] = flow[q]
<1>1. RouteTypes /\ Safe /\ call \in [Requests -> Call]
  BY TypeParts DEF BffSafe, Safe, TypeOK
<1>2. CASE Handler(r)
  <2>1. HandlerStep(r) \/ UNCHANGED vars
    BY <1>2, HandlerRefines
  <2>2. \E f : flow' = [flow EXCEPT ![r] = f]
    BY <1>2
    DEF Handler, Login, CallbackStray, CallbackError, CallbackStart, Exchange, CallbackFail,
        CallbackFinish, LogoutStart, Revoke, LogoutFinish, Me, Ends, Suspend
  <2>3. QED
    BY <1>1, <2>1, <2>2, OnlyCall DEF vars, RouteTypes
<1>3. CASE Send(r)
  <2>1. Begin(r, jar[Owner[r]]) /\ UNCHANGED flow /\ jar[Owner[r]] \in Keys \cup {NoKey}
    BY <1>1, <1>3, OfHandler DEF Send, RouteTypes
  <2>2. QED
    BY <1>1, <2>1, OnlyCall
<1>4. CASE Serve(r)
  BY <1>1, <1>4, OnlyCall DEF Serve
<1>5. QED
  BY <1>2, <1>3, <1>4

LEMMA VectorsStep == BffSafe /\ OwnSafe /\ VectorsSafe /\ [BffNext]_bffVars => VectorsSafe'
<1> SUFFICES ASSUME BffSafe, OwnSafe, VectorsSafe, [BffNext]_bffVars PROVE VectorsSafe'
  OBVIOUS
<1>1. RouteTypes /\ Safe /\ now \in Int /\ call \in [Requests -> Call]
  BY TypeParts, StoreAssumption DEF BffSafe, Safe, TypeOK, Instants
<1>2. ASSUME NEW q \in Requests
      PROVE  VectorOK(SlotsOf(call[q].state)) /\ VectorOK(SlotsOf(flow[q]))
  BY DEF VectorsSafe, SlotsWellFormed
<1>3. ASSUME NEW q \in Requests, Grows,
             call'[q] \in {call[q], Idle}, flow'[q] \in {flow[q], NoFlow}
      PROVE  CallOrdered(q)'
  <2>1. SlotsOf(Idle.state) = << >> /\ SlotsOf(NoFlow) = << >>
    BY DEF Idle, EmptyState, NoFlow, SlotsOf
  <2>2. QED
    BY <1>1, <1>2, <1>3, <2>1, CallStaysOrdered
<1>4. ASSUME NEW k \in Keys, Grows, rows'[k] = rows[k], rows[k] # NoRow
      PROVE  VectorOK(SlotsOf(rows[k].state))'
  <2>1. PICK v : v = SlotsOf(rows[k].state)
    OBVIOUS
  <2>2. VectorOK(v)'
    BY <1>1, <1>4, <2>1, VectorsForGood DEF VectorsSafe, SlotsWellFormed
  <2>3. v = SlotsOf(rows'[k].state)
    BY <1>4, <2>1
  <2>4. QED
    <3>1. Fits(v, opened')
      BY <2>2, Zenon DEF VectorOK, BegunBefore, Fits
    <3>2. Fits(SlotsOf(rows'[k].state), opened')
      BY <2>3, <3>1, Zenon
    <3>3. QED
      BY <3>2, Zenon DEF VectorOK, BegunBefore, Fits, SlotsOf
<1>5. ASSUME NEW r \in Requests, Handler(r) PROVE VectorsSafe'
  <2>1. CallOrdered(r)' /\ Grows /\ UNCHANGED <<rows, now>>
    BY <1>5, HandlerOrdered, HandlerWork, HandlerRefines
    DEF Handler, Login, CallbackStray, CallbackError, CallbackStart, Exchange, CallbackFail,
        CallbackFinish, LogoutStart, Revoke, LogoutFinish, Me, Ends, storeVars, vars, idpVars
  <2>2. \A q \in Requests : CallOrdered(q)'
    BY <1>3, <1>5, <2>1, OthersStay
  <2>3. \A i \in 1..Len(opened') : opened'[i].at <= now
    <3>1. CASE opened' = opened
      BY <3>1 DEF VectorsSafe
    <3>2. CASE \E o \in Opened : opened' = Append(opened, o) /\ o.at = now
      <4>1. PICK o \in Opened : opened' = Append(opened, o) /\ o.at = now
        BY <3>2
      <4>2. /\ Len(opened') = Len(opened) + 1 /\ opened'[Len(opened) + 1] = o
            /\ Len(opened) \in Nat /\ \A i \in 1..Len(opened) : opened'[i] = opened[i]
        BY <1>1, <4>1, AppendProperties, LenProperties DEF RouteTypes
      <4>3. \A i \in 1..Len(opened') : i \in 1..Len(opened) \/ i = Len(opened) + 1
        BY <4>2
      <4>4. QED
        BY <1>1, <4>1, <4>2, <4>3 DEF VectorsSafe
    <3>3. QED
      <4>1. CASE \E a \in Tokens, up \in StepUps : Login(r, a, up)
        <5>1. PICK a \in Tokens, up \in StepUps : Login(r, a, up)
          BY <4>1
        <5>2. PICK o : /\ o = [attempt |-> a, by |-> Owner[r], at |-> now, stepUp |-> up,
                               as |-> call[r].state.sub]
                       /\ opened' = Append(opened, o)
          BY <5>1 DEF Login
        <5>3. up \in BOOLEAN /\ now \in Instants /\ Owner[r] \in Browsers /\ call[r].state \in State
          BY <1>1, OfHandler, FlowAssumption, Zenon DEF Safe, TypeOK
        <5>4. o \in Opened /\ o.at = now
          BY <5>2, <5>3 DEF Opened, State
        <5>5. QED
          BY <3>2, <5>2, <5>4
      <4>2. CASE ~\E a \in Tokens, up \in StepUps : Login(r, a, up)
        BY <1>5, <3>1, <4>2
        DEF Handler, CallbackStray, CallbackError, CallbackStart, Exchange, CallbackFail,
            CallbackFinish, LogoutStart, Revoke, LogoutFinish, Me
      <4>3. QED
        BY <4>1, <4>2
  <2>4. \A k \in Keys : rows'[k] # NoRow => VectorOK(SlotsOf(rows[k].state))'
    BY <1>4, <2>1
  <2>5. QED
    BY <2>1, <2>2, <2>3, <2>4 DEF VectorsSafe, SlotsWellFormed, CallOrdered
<1>6. ASSUME NEW r \in Requests, Serve(r) PROVE VectorsSafe'
  <2>1. StoreStep(r) /\ UNCHANGED <<flow, opened, now>>
    BY <1>1, <1>6, StoreStepBirths DEF Serve
  <2>2. Grows /\ CallOrdered(r)'
    BY <2>1, ServeOrdered DEF Grows
  <2>3. \A q \in Requests : CallOrdered(q)'
    BY <1>3, <1>6, <2>2, OthersStay
  <2>4. ASSUME NEW k \in Keys, rows'[k] # NoRow PROVE VectorOK(SlotsOf(rows[k].state))'
    <3>1. PICK v : v = SlotsOf(rows'[k].state)
      OBVIOUS
    <3>2. VectorOK(v)
      BY <2>1, <2>4, <3>1, ServeOrdered
    <3>3. VectorOK(v)'
      BY <1>1, <2>2, <3>2, VectorsForGood
    <3>4. QED
      <4>1. Fits(v, opened')
        BY <3>3, Zenon DEF VectorOK, BegunBefore, Fits
      <4>2. Fits(SlotsOf(rows'[k].state), opened')
        BY <3>1, <4>1, Zenon
      <4>3. QED
        BY <4>2, Zenon DEF VectorOK, BegunBefore, Fits, SlotsOf
  <2>5. QED
    BY <2>1, <2>3, <2>4 DEF VectorsSafe, SlotsWellFormed, CallOrdered
<1>7. ASSUME NEW r \in Requests, Send(r) PROVE VectorsSafe'
  <2>1. /\ UNCHANGED <<rows, flow, opened, now>> /\ Begin(r, jar[Owner[r]]) /\ Grows
    BY <1>7 DEF Send, Begin, Grows
  <2>2. call'[r].state = EmptyState
    BY <1>1, <2>1, GotoIs DEF Begin, NoSession
  <2>3. CallOrdered(r)'
    <3>1. SlotsOf(call'[r].state) = << >>
      BY <2>2 DEF EmptyState, SlotsOf
    <3>2. QED
      BY <1>1, <1>2, <2>1, <3>1, CallStaysOrdered
  <2>4. \A q \in Requests : CallOrdered(q)'
    BY <1>3, <1>7, <2>1, <2>3, OthersStay
  <2>5. \A k \in Keys : rows'[k] # NoRow => VectorOK(SlotsOf(rows[k].state))'
    BY <1>4, <2>1
  <2>6. QED
    BY <2>1, <2>4, <2>5 DEF VectorsSafe, SlotsWellFormed, CallOrdered
<1>8. ASSUME \/ \E r \in Requests : Deliver(r) \/ CutOff(r)
             \/ \E a \in Tokens : Authenticate(a)
             \/ Environment \/ UNCHANGED bffVars
      PROVE  VectorsSafe'
  <2>1. UNCHANGED opened /\ Grows /\ now' >= now /\ now' \in Int
    BY <1>1, <1>8
    DEF Deliver, CutOff, Abort, Authenticate, Environment, Tick, Sweep, bffVars, vars, Grows
  <2>2. \A k \in Keys : rows'[k] # NoRow => rows'[k] = rows[k]
    BY <1>1, <1>8
    DEF Deliver, CutOff, Abort, Authenticate, Environment, Tick, Sweep, Delete, bffVars, vars,
        Safe, TypeOK
  <2>3. ASSUME NEW q \in Requests
        PROVE  call'[q] \in {call[q], Idle} /\ flow'[q] \in {flow[q], NoFlow}
    BY <1>1, <1>8
    DEF Deliver, CutOff, Abort, Return, Authenticate, Environment, Tick, Sweep, bffVars, vars,
        RouteTypes
  <2>4. \A q \in Requests : CallOrdered(q)'
    BY <1>3, <2>1, <2>3
  <2>5. \A k \in Keys : rows'[k] # NoRow => VectorOK(SlotsOf(rows[k].state))'
    BY <1>4, <2>1, <2>2
  <2>6. \A i \in 1..Len(opened) : opened[i].at <= now'
    <3> SUFFICES ASSUME NEW i \in 1..Len(opened) PROVE opened[i].at <= now'
      OBVIOUS
    <3>1. opened[i] \in Opened /\ opened[i].at <= now
      BY <1>1, ElementOfSeq DEF VectorsSafe, RouteTypes
    <3>2. opened[i].at \in Instants
      BY <3>1 DEF Opened
    <3>3. QED
      BY <1>1, <2>1, <3>1, <3>2, StoreAssumption DEF Instants
  <2>7. QED
    BY <2>1, <2>4, <2>5, <2>6 DEF VectorsSafe, SlotsWellFormed, CallOrdered
<1>9. QED
  BY <1>5, <1>6, <1>7, <1>8 DEF BffNext

\* FIFO eviction drops the oldest slot, whatever handlers overwrite each other.
THEOREM RoutesSlotsWellFormed == ASSUME LegacyHasNoSlots PROVE BffSpec => []SlotsWellFormed
<1>1. BffInit => VectorsSafe
  BY VectorsInit
<1>2. VectorsSafe => SlotsWellFormed
  BY DEF VectorsSafe
<1>3. QED
  BY <1>1, <1>2, VectorsStep, RoutesSafe, RoutesOwn, PTL DEF BffSpec

-----------------------------------------------------------------------------
(* Logout.                                                                   *)

\* Requests run to their end.
NoAborts == "abort" \notin Faults

\* Issued keys keep their births, and dead ones stay dead.
KeysGoOn == \A k \in Keys : Issued(k) => birth'[k] = birth[k] /\ (rows[k] = NoRow => rows'[k] = NoRow)

\* Request r is about to delete the row of key k.
Ending(r, k) == call[r].key = k /\ (flow[r].at = "revoked" \/ call[r].pc = "purgeDelete")

\* What a step of request r has to see to.
LEMMA LogoutGoesOn ==
  ASSUME BffSafe, LogoutSafe, KeysGoOn, NEW r \in Requests,
         \A q \in Requests \ {r} : call'[q] = call[q] /\ flow'[q] = flow[q],
         flow'[r].at \in {"revoke", "revoked"} /\ flow'[r].code # NoTok =>
           call'[r].key \in Keys /\ birth'[call'[r].key].tok = flow'[r].code,
         \A t \in revoked' \ revoked :
           /\ call'[r].key \in Keys /\ birth'[call'[r].key].tok = t
           /\ birth'[call'[r].key] # None /\ flow'[r].at = "revoked",
         \A k \in Keys : Ending(r, k) => rows'[k] = NoRow \/ Ending(r, k)'
  PROVE  LogoutSafe'
<1>1. ASSUME NEW q \in Requests, flow'[q].at \in {"revoke", "revoked"}, flow'[q].code # NoTok
      PROVE  call'[q].key \in Keys /\ birth'[call'[q].key].tok = flow'[q].code
  <2>1. CASE q = r
    BY <1>1, <2>1
  <2>2. CASE q # r
    <3>1. call'[q] = call[q] /\ flow'[q] = flow[q]
      BY <2>2
    <3>2. call[q].key \in Keys /\ birth[call[q].key].tok = flow[q].code
      BY <1>1, <3>1 DEF LogoutSafe
    <3>3. Issued(call[q].key)
      BY <3>2, OfRequest, StoreAssumption DEF BffSafe
    <3>4. QED
      BY <3>1, <3>2, <3>3 DEF KeysGoOn
  <2>3. QED
    BY <2>1, <2>2
<1>2. ASSUME NEW t \in revoked'
      PROVE  \E k \in Keys : /\ Issued(k)' /\ birth'[k].tok = t
                             /\ rows'[k] = NoRow \/ \E q \in Requests : Ending(q, k)'
  <2>1. CASE t \in revoked
    <3>1. PICK k \in Keys : /\ Issued(k) /\ birth[k].tok = t
                            /\ rows[k] = NoRow \/ \E q \in Requests : Ending(q, k)
      BY <2>1 DEF LogoutSafe, Ending
    <3>2. birth'[k] = birth[k] /\ Issued(k)' /\ (rows[k] = NoRow => rows'[k] = NoRow)
      BY <3>1 DEF KeysGoOn, Issued
    <3>3. ASSUME NEW q \in Requests, Ending(q, k)
          PROVE  rows'[k] = NoRow \/ Ending(q, k)'
      BY <3>3 DEF Ending
    <3>4. QED
      BY <3>1, <3>2, <3>3
  <2>2. CASE t \notin revoked
    <3>1. PICK k \in Keys : k = call'[r].key
      BY <2>2
    <3>2. Ending(r, k)' /\ Issued(k)' /\ birth'[k].tok = t
      BY <2>2, <3>1 DEF Ending, Issued
    <3>3. QED
      BY <3>2
  <2>3. QED
    BY <2>1, <2>2
<1>3. QED
  BY <1>1, <1>2 DEF LogoutSafe, Ending

LEMMA HandlerLogout ==
  ASSUME BffSafe, LogoutSafe, NEW r \in Requests, Handler(r)
  PROVE  LogoutSafe'
<1>1. /\ Safe /\ RouteTypes /\ FlowOK(r) /\ CallSafe(call[r])
      /\ call[r].key # NoKey => call[r].key \in Keys /\ Issued(call[r].key)
  BY TypeParts, OfHandler, OfRequest DEF BffSafe
<1>2. UNCHANGED <<rows, birth>> /\ KeysGoOn
  BY HandlerRefines
  DEF Handler, Login, CallbackStray, CallbackError, CallbackStart, Exchange, CallbackFail,
      CallbackFinish, LogoutStart, Revoke, LogoutFinish, Me, storeVars, vars, KeysGoOn
<1>3. \A q \in Requests \ {r} : call'[q] = call[q] /\ flow'[q] = flow[q]
  BY OthersStay
<1>4. CASE LogoutStart(r)
  <2>1. /\ UNCHANGED <<call, revoked>> /\ Ready(r)
        /\ flow'[r].at = "revoke" /\ flow'[r].code = call[r].state.tok
    BY <1>1, <1>4 DEF LogoutStart, Suspend, RouteTypes, vars, idpVars
  <2>2. ASSUME call[r].state.tok # NoTok
        PROVE  call[r].key \in Keys /\ birth[call[r].key].tok = call[r].state.tok
    BY <1>1, <2>1, <2>2 DEF CallSafe, CopyDescends, CopyPcs, Descends, Ready, EmptyState
  <2>3. \A k \in Keys : ~Ending(r, k)
    BY <2>1, NoFlowTyped DEF Ready, Ending
  <2>4. QED
    BY <1>2, <1>3, <2>1, <2>2, <2>3, LogoutGoesOn
<1>5. CASE Revoke(r)
  <2>1. /\ UNCHANGED call /\ revoked' = revoked \cup {flow[r].code}
        /\ flow[r].at = "revoke" /\ flow[r].code # NoTok
        /\ flow'[r].at = "revoked" /\ flow'[r].code = flow[r].code
    BY <1>1, <1>5 DEF Revoke, Suspend, RouteTypes, vars
  <2>2. call[r].key \in Keys /\ birth[call[r].key].tok = flow[r].code /\ birth[call[r].key] # None
    <3>1. call[r].key \in Keys /\ birth[call[r].key].tok = flow[r].code
      BY <2>1 DEF LogoutSafe
    <3>2. QED
      BY <1>1, <3>1, StoreAssumption DEF Issued
  <2>3. \A k \in Keys : ~Ending(r, k)
    BY <1>1, <2>1 DEF FlowOK, Ending
  <2>4. QED
    BY <1>2, <1>3, <2>1, <2>2, <2>3, LogoutGoesOn
<1>6. CASE LogoutFinish(r)
  <2>1. /\ FinishPurged(r) /\ UNCHANGED revoked /\ flow'[r].at = "none"
        /\ flow[r].at \in {"revoke", "revoked"}
    BY <1>1, <1>6, NoFlowTyped DEF LogoutFinish, Ends, RouteTypes, idpVars
  <2>2. ASSUME NEW k \in Keys, Ending(r, k) PROVE Ending(r, k)'
    <3>1. call[r].key = k /\ k # NoKey
      BY <2>2, StoreAssumption DEF Ending
    <3>2. call'[r].pc = "purgeDelete" /\ call'[r].key = k
      BY <1>1, <2>1, <3>1, GotoIs DEF FinishPurged
    <3>3. QED
      BY <3>2 DEF Ending
  <2>3. QED
    BY <1>2, <1>3, <2>1, <2>2, LogoutGoesOn
<1>7. CASE ~(LogoutStart(r) \/ Revoke(r) \/ LogoutFinish(r))
  <2>1. UNCHANGED revoked
    BY <1>7
    DEF Handler, Login, CallbackStray, CallbackError, CallbackStart, Exchange, CallbackFail,
        CallbackFinish, Me, idpVars
  <2>2. /\ Ready(r) \/ flow[r].at \in {"exchange", "verify"}
        /\ Ends(r) \/ \E at \in {"exchange", "verify"} : \E x, y, z : Suspend(r, at, x, y, z)
    BY <1>7
    DEF Handler, Login, CallbackStray, CallbackError, CallbackStart, Exchange, CallbackFail,
        CallbackFinish, Me
  <2>3. flow'[r].at \in {"none", "exchange", "verify"}
    BY <1>1, <2>2, NoFlowTyped DEF Ends, Suspend, RouteTypes
  <2>4. \A k \in Keys : ~Ending(r, k)
    BY <1>1, <2>2, NoFlowTyped DEF Ready, FlowOK, Ending
  <2>5. QED
    BY <1>2, <1>3, <2>1, <2>3, <2>4, LogoutGoesOn
<1>8. QED
  BY <1>4, <1>5, <1>6, <1>7

\* A purge removes the row it was to remove.
LEMMA ServeLogout ==
  ASSUME BffSafe, LogoutSafe, NEW r \in Requests, Serve(r)
  PROVE  LogoutSafe'
<1>1. /\ Safe /\ StoreStep(r) /\ FlowOK(r) /\ UNCHANGED <<flow, revoked>>
      /\ birth \in [Keys -> State \cup {None}] /\ rows \in [Keys -> Row \cup {NoRow}]
  BY OfHandler DEF BffSafe, Serve, Safe, TypeOK, idpVars
<1>2. flow[r].at = "none"
  BY <1>1, StoreStepBirths DEF FlowOK
<1>3. KeysGoOn
  <2> SUFFICES ASSUME NEW k \in Keys, Issued(k)
               PROVE  birth'[k] = birth[k] /\ (rows[k] = NoRow => rows'[k] = NoRow)
    BY DEF KeysGoOn
  <2>1. CASE Insert(r)
    BY <1>1, <2>1 DEF Insert, FreshKeys
  <2>2. CASE ~Insert(r)
    <3>1. UNCHANGED birth
      BY <1>1, <2>2
      DEF StoreStep, LoadGet, LoadCheck, LoadDelete, SaveRefused, UpdateRow, DeadDelete,
          RenewDelete, PurgeDelete, TtlGet, TtlCheck, TtlDelete, Touch
    <3>2. rows[k] = NoRow => rows'[k] = NoRow
      BY <1>1, DeadKeysStep DEF Next
    <3>3. QED
      BY <3>1, <3>2
  <2>3. QED
    BY <2>1, <2>2
<1>4. \A q \in Requests \ {r} : call'[q] = call[q] /\ flow'[q] = flow[q]
  BY OthersStay
<1>5. ASSUME NEW k \in Keys, Ending(r, k) PROVE rows'[k] = NoRow
  <2>1. call[r].pc = "purgeDelete" /\ call[r].key = k
    BY <1>2, <1>5 DEF Ending
  <2>2. PurgeDelete(r)
    BY <1>1, <2>1
    DEF StoreStep, LoadGet, LoadCheck, LoadDelete, SaveRefused, UpdateRow, DeadDelete, Insert,
        RenewDelete, TtlGet, TtlCheck, TtlDelete, Touch
  <2>3. QED
    BY <1>1, <2>1, <2>2 DEF PurgeDelete, Delete
<1>6. QED
  BY <1>1, <1>2, <1>3, <1>4, <1>5, LogoutGoesOn

LEMMA OtherLogout ==
  ASSUME NoAborts, BffSafe, LogoutSafe,
         \/ \E r \in Requests : Send(r) \/ Deliver(r) \/ CutOff(r)
         \/ \E a \in Tokens : Authenticate(a)
         \/ Environment \/ UNCHANGED bffVars
  PROVE  LogoutSafe'
<1>1. /\ Safe /\ RouteTypes /\ rows \in [Keys -> Row \cup {NoRow}]
  BY TypeParts DEF BffSafe, Safe, TypeOK
<1>2. UNCHANGED <<birth, flow, revoked>>
  BY NoAborts
  DEF Send, Begin, Deliver, CutOff, Abort, Authenticate, Environment, Tick, Sweep, bffVars, vars,
      idpVars, NoAborts
<1>3. KeysGoOn
  BY <1>1, <1>2
  DEF Send, Begin, Deliver, CutOff, Abort, Authenticate, Environment, Tick, Sweep, Delete, bffVars,
      vars, KeysGoOn
<1>4. CASE \E r \in Requests : Send(r)
  <2>1. PICK r \in Requests : Send(r)
    BY <1>4
  <2>2. call[r].pc = "idle" /\ flow[r].at = "none"
    BY <2>1, OfHandler DEF Send, Begin, FlowOK
  <2>3. \A k \in Keys : ~Ending(r, k)
    BY <2>2 DEF Ending
  <2>4. QED
    BY <1>2, <1>3, <2>1, <2>2, <2>3, OthersStay, LogoutGoesOn
<1>5. CASE ~\E r \in Requests : Send(r)
  <2>1. UNCHANGED call
    BY <1>5, NoAborts
    DEF Deliver, CutOff, Abort, Authenticate, Environment, Tick, Sweep, bffVars, vars, NoAborts
  <2>2. CASE Requests # {}
    <3>1. PICK r \in Requests : TRUE
      BY <2>2
    <3>2. flow[r].at \in {"revoke", "revoked"} /\ flow[r].code # NoTok =>
            call[r].key \in Keys /\ birth[call[r].key].tok = flow[r].code
      BY DEF LogoutSafe
    <3>3. \A k \in Keys : Ending(r, k) => Ending(r, k)'
      BY <1>2, <2>1 DEF Ending
    <3>4. QED
      BY <1>2, <1>3, <2>1, <3>2, <3>3, LogoutGoesOn
  <2>3. CASE Requests = {}
    BY <1>2, <1>3, <2>1, <2>3 DEF LogoutSafe, KeysGoOn, Issued
  <2>4. QED
    BY <2>2, <2>3
<1>6. QED
  BY <1>4, <1>5

LEMMA LogoutStep == ASSUME NoAborts PROVE BffSafe /\ LogoutSafe /\ [BffNext]_bffVars => LogoutSafe'
BY HandlerLogout, ServeLogout, OtherLogout DEF BffNext

\* Revoked tokens leave the store: no request that is cut off stands between the
\* revocation and the delete, and no late write brings them back.
THEOREM RoutesRevokedTokensGo == ASSUME NoAborts PROVE BffSpec => []RevokedTokensGo
<1>1. BffInit => LogoutSafe
  BY NoFlowTyped DEF BffInit, LogoutSafe
<1>2. BffSafe /\ LogoutSafe => RevokedTokensGo
  <2> SUFFICES ASSUME BffSafe, LogoutSafe, NEW k \in Keys,
                      rows[k] # NoRow, rows[k].state.tok \in revoked
               PROVE  \E r \in Requests : Ending(r, k)
    BY DEF RevokedTokensGo, Ending
  <2>1. rows[k].state.tok \in Tokens /\ Safe
    BY TypeParts DEF BffSafe, RouteTypes
  <2>2. Issued(k) /\ birth[k].tok = rows[k].state.tok /\ HasTokens(birth[k])
    BY <2>1, StateAssumption DEF Safe, KeyKeepsItsSession, Descends, HasTokens
  <2>3. PICK j \in Keys : /\ Issued(j) /\ birth[j].tok = rows[k].state.tok
                          /\ rows[j] = NoRow \/ \E r \in Requests : Ending(r, j)
    BY DEF LogoutSafe, Ending
  <2>4. j = k
    BY <2>1, <2>2, <2>3 DEF Safe, OneKeyPerLogin, HasTokens
  <2>5. QED
    BY <2>3, <2>4
<1>3. QED
  BY <1>1, <1>2, LogoutStep, RoutesSafe, PTL DEF BffSpec

-----------------------------------------------------------------------------
(* A state is good for one callback.                                         *)

\* The requests of one browser do not overlap, and no delete of a row fails.
OneAtATime == \A q, r \in Requests : Owner[q] = Owner[r] => q = r
DeletesSucceed == "deleteFails" \notin Faults

\* Slots of a browser are of attempts it began, which no other browser did.
LEMMA BegunByOne ==
  ASSUME OwnSafe, NEW a, NEW b, NEW c, BeganBy(a, b), BeganBy(a, c)
  PROVE  b = c
<1>1. PICK i \in 1..Len(opened) : opened[i].attempt = a /\ opened[i].by = b
  BY DEF BeganBy
<1>2. PICK j \in 1..Len(opened) : opened[j].attempt = a /\ opened[j].by = c
  BY DEF BeganBy
<1>3. i = j
  BY <1>1, <1>2 DEF OwnSafe
<1>4. QED
  BY <1>1, <1>2, <1>3

LEMMA AttemptsBegun ==
  ASSUME NEW b, NEW v \in Seq(SlotsBegunBy(b)), NEW a \in AttemptsIn(v)
  PROVE  BeganBy(a, b) /\ a \in Attempts
<1>1. PICK i \in 1..Len(v) : v[i].attempt = a
  BY LenProperties DEF AttemptsIn
<1>2. v[i] \in SlotsBegunBy(b)
  BY ElementOfSeq
<1>3. QED
  BY <1>1, <1>2 DEF SlotsBegunBy, BeganBy, Attempts

\* prune_expired, take_matching and push_pre_auth bring no attempt back.
LEMMA HelpersKeepAttempts ==
  ASSUME NEW v \in SlotVectors
  PROVE  /\ \A kept : AttemptsIn(Retain(v, kept)) \subseteq AttemptsIn(v)
         /\ \A a : AttemptsIn(Without(v, a)) \subseteq AttemptsIn(v) \ {a}
         /\ \A slot \in Slot : AttemptsIn(PushPreAuth(v, slot)) \subseteq AttemptsIn(v) \cup {slot.attempt}
<1>1. v \in Seq(Slot)
  BY SlotVectorsAreSeqs
<1>2. \A kept : \A x \in AttemptsIn(Retain(v, kept)) :
        \E e \in Slot \cap kept : e.attempt = x /\ x \in AttemptsIn(v)
  <2> SUFFICES ASSUME NEW kept, NEW x \in AttemptsIn(Retain(v, kept))
               PROVE  \E e \in Slot \cap kept : e.attempt = x /\ x \in AttemptsIn(v)
    OBVIOUS
  <2>1. PICK w : w = Retain(v, kept)
    OBVIOUS
  <2>2. Selects(w, v, Slot \cap kept, Len(v))
    BY <1>1, <2>1, RetainSelects
  <2>3. w \in Seq(Slot \cap kept)
    BY <2>2 DEF Selects
  <2>4. PICK i \in 1..Len(w) : w[i].attempt = x
    BY <2>1, <2>3, LenProperties DEF AttemptsIn
  <2>5. PICK p \in 1..Len(v) : w[i] = v[p]
    BY <2>2 DEF Selects
  <2>6. w[i] \in Slot \cap kept
    BY <2>3, ElementOfSeq
  <2>7. x \in AttemptsIn(v)
    BY <1>1, <2>4, <2>5, LenProperties DEF AttemptsIn
  <2>8. QED
    BY <2>4, <2>6, <2>7
<1>3. \A kept : AttemptsIn(Retain(v, kept)) \subseteq AttemptsIn(v)
  BY <1>2
<1>4. ASSUME NEW a PROVE AttemptsIn(Without(v, a)) \subseteq AttemptsIn(v) \ {a}
  <2>1. Without(v, a) = Retain(v, {e \in Slot : e.attempt # a})
    BY DEF Without
  <2>2. QED
    BY <1>2, <2>1
<1>5. ASSUME NEW slot \in Slot
      PROVE  AttemptsIn(PushPreAuth(v, slot)) \subseteq AttemptsIn(v) \cup {slot.attempt}
  <2> DEFINE S == {e \in Slot : e.attempt \in AttemptsIn(v) \cup {slot.attempt}}
  <2>1. v \in Seq(S)
    <3>1. \A i \in 1..Len(v) : v[i] \in S
      BY <1>1, ElementOfSeq, LenProperties DEF AttemptsIn
    <3>2. QED
      BY <1>1, <3>1, SeqDef, LenProperties
  <2>2. slot \in S
    OBVIOUS
  <2> HIDE DEF S
  <2>3. PushPreAuth(v, slot) \in Seq(S)
    BY <2>1, <2>2, HelpersKeepSet
  <2>4. PICK w \in Seq(S) : w = PushPreAuth(v, slot)
    BY <2>3
  <2>5. \A i \in 1..Len(w) : w[i] \in S
    BY ElementOfSeq
  <2>6. AttemptsIn(w) \subseteq AttemptsIn(v) \cup {slot.attempt}
    BY <2>5, LenProperties DEF AttemptsIn, S
  <2>7. QED
    BY <2>4, <2>6
<1>6. QED
  BY <1>3, <1>4, <1>5

\* A handler that changed, renewed or purged its session goes on to the row it read.
LEMMA EndsInWrite ==
  ASSUME BffSafe, NEW r \in Requests, call[r].key # NoKey,
         (\E s : FinishChanged(r, s) \/ FinishRenewed(r, s)) \/ FinishPurged(r)
  PROVE  \A k \in Keys : call[r].key = k => Overwrites(r, k)'
<1>1. Safe
  BY DEF BffSafe
<1>2. \E pc \in {"update", "deadDelete", "renewDelete", "purgeDelete"} :
        \E s, e : Goto(r, pc, call[r].key, s, e)
  BY DEF FinishChanged, FinishRenewed, FinishPurged, StartUpdate
<1>3. call'[r].key = call[r].key /\ call'[r].pc \in {"update", "deadDelete", "renewDelete", "purgeDelete"}
  BY <1>1, <1>2, GotoIs
<1>4. QED
  BY <1>3 DEF Overwrites

\* What a step of a handler does: nothing closed stays in hand, what it closes its
\* browser began, and it closes nothing without going on to the row.
Consumes(r) ==
  /\ AttemptsIn(InHand(r))' \cap closed' = {}
  /\ closed \subseteq closed' /\ \A a \in closed' \ closed : BeganBy(a, Owner[r])
  /\ closed' # closed => \E k \in Keys : call[r].key = k /\ Overwrites(r, k)'
  /\ \A k \in Keys : Overwrites(r, k) => Overwrites(r, k)'

\* The end of a handler that leaves the attempts of v.
LEMMA EndConsumes ==
  ASSUME BffSafe, NEW r \in Requests, Ends(r), NEW v,
         SlotsOf(call'[r].state) \in {v, << >>}, AttemptsIn(v) \cap closed' = {},
         closed \subseteq closed', \A a \in closed' \ closed : BeganBy(a, Owner[r]),
         closed' # closed => call[r].key # NoKey,
         (\A k \in Keys : call[r].key = k => Overwrites(r, k)') \/ (UNCHANGED closed /\ Ready(r))
  PROVE  Consumes(r)
<1>1. RouteTypes /\ (call[r].key # NoKey => call[r].key \in Keys)
  BY TypeParts, OfRequest DEF BffSafe
<1>2. flow'[r].at = "none"
  BY <1>1, NoFlowTyped DEF Ends, RouteTypes
<1>3. PICK w : w = SlotsOf(call'[r].state)
  OBVIOUS
<1>4. InHand(r)' = w
  BY <1>2, <1>3 DEF InHand, SlotsOf
<1>5. AttemptsIn(w) \cap closed' = {}
  <2>1. w = v \/ w = << >>
    BY <1>3
  <2>2. AttemptsIn(<< >>) = {}
    BY DEF AttemptsIn
  <2>3. QED
    BY <2>1, <2>2
<1>6. AttemptsIn(InHand(r))' \cap closed' = {}
  BY <1>4, <1>5 DEF AttemptsIn
<1>7. ASSUME NEW k \in Keys, Overwrites(r, k) PROVE Overwrites(r, k)'
  <2>1. k = call[r].key /\ ~Ready(r)
    BY <1>7, NoFlowTyped DEF Overwrites, Ready
  <2>2. QED
    BY <2>1
<1>8. QED
  BY <1>1, <1>6, <1>7 DEF Consumes

\* A handler that ends with the slots x instead of its own.
LEMMA SlotWriteConsumes ==
  ASSUME BffSafe, NEW r \in Requests, Ends(r), NEW x \in Rests, NEW v, v = SlotsOf([rest |-> x]),
         FinishChanged(r, WithSlots(call[r].state, x)), AttemptsIn(v) \cap closed' = {},
         closed \subseteq closed', \A a \in closed' \ closed : BeganBy(a, Owner[r]),
         closed' # closed => call[r].key # NoKey
  PROVE  Consumes(r)
<1>1. Safe /\ call[r].state \in State
  BY OfHandler DEF BffSafe
<1>2. WithSlots(call[r].state, x) \in State /\ SlotsOf(WithSlots(call[r].state, x)) = v
  BY <1>1, WithSlotsFacts DEF SlotsOf, State
<1>3. SlotsOf(call'[r].state) \in {v, << >>}
  BY <1>1, <1>2, FinishIs
<1>4. \A k \in Keys : call[r].key = k => Overwrites(r, k)'
  BY EndsInWrite, StoreAssumption
<1>5. QED
  BY <1>3, <1>4, EndConsumes

\* A handler that is suspended, with call and its session as they were.
LEMMA SuspendConsumes ==
  ASSUME BffSafe, NEW r \in Requests, NEW at, NEW slot, NEW rest, NEW code,
         Suspend(r, at, slot, rest, code), UNCHANGED call,
         NEW v, v = IF at \in {"exchange", "verify"} THEN SlotsOf([rest |-> rest])
                    ELSE SlotsOf(call[r].state),
         AttemptsIn(v) \cap closed' = {},
         closed \subseteq closed', \A a \in closed' \ closed : BeganBy(a, Owner[r]),
         closed' # closed => call[r].key # NoKey /\ at \in {"exchange", "verify"},
         \A k \in Keys : Overwrites(r, k) => at \in {"exchange", "verify"}
  PROVE  Consumes(r)
<1>1. RouteTypes /\ (call[r].key # NoKey => call[r].key \in Keys)
  BY TypeParts, OfRequest DEF BffSafe
<1>2. flow'[r].at = at /\ flow'[r].rest = rest
  BY <1>1 DEF Suspend, RouteTypes
<1>3. InHand(r)' = v
  BY <1>2 DEF InHand, SlotsOf
<1>4. AttemptsIn(InHand(r))' \cap closed' = {}
  BY <1>3 DEF AttemptsIn
<1>5. at \in {"exchange", "verify"} => \A k \in Keys : call[r].key = k => Overwrites(r, k)'
  BY <1>2 DEF Overwrites
<1>6. \A k \in Keys : Overwrites(r, k) => Overwrites(r, k)'
  BY <1>5 DEF Overwrites
<1>7. QED
  BY <1>1, <1>4, <1>5, <1>6 DEF Consumes

LEMMA LoginConsumes ==
  ASSUME BffSafe, SerialSafe, NEW r \in Requests, NEW a \in Tokens, NEW up \in StepUps, Login(r, a, up)
  PROVE  Consumes(r)
<1> DEFINE slot == [attempt |-> a, started |-> now, stepUp |-> up]
           s == call[r].state
           v == PushPreAuth(LiveSlots(s), slot)
<1>1. /\ s \in State /\ SlotsOf(s) \in SlotVectors /\ LiveSlots(s) \in SlotVectors
      /\ slot \in Slot /\ slot.attempt = a
  BY OfHandler DEF Slot
<1>2. Ready(r) /\ a \notin Attempts /\ FinishChanged(r, WithSlots(s, v)) /\ Ends(r) /\ UNCHANGED closed
  BY DEF Login
<1>3. AttemptsIn(SlotsOf(s)) \cap closed = {} /\ a \notin closed
  BY <1>2, NoFlowTyped DEF SerialSafe, InHand, Ready
<1>4. AttemptsIn(v) \subseteq AttemptsIn(SlotsOf(s)) \cup {a} /\ v \in SlotVectors
  <2>1. AttemptsIn(LiveSlots(s)) \subseteq AttemptsIn(SlotsOf(s))
    BY <1>1, HelpersKeepAttempts DEF LiveSlots
  <2> HIDE DEF slot
  <2>2. AttemptsIn(v) \subseteq AttemptsIn(LiveSlots(s)) \cup {a}
    BY <1>1, HelpersKeepAttempts
  <2>3. QED
    BY <1>1, <2>1, <2>2, PushPreAuthTyped
<1> HIDE DEF v
<1>5. v \in Rests /\ SlotsOf([rest |-> v]) = v
  BY <1>4, VectorsAreRests, FlowAssumption DEF SlotsOf
<1>6. QED
  BY <1>2, <1>3, <1>4, <1>5, SlotWriteConsumes

\* A logout, or the extractor on a session past its lifetime.
LEMMA PurgeConsumes ==
  ASSUME BffSafe, OwnSafe, SerialSafe, NEW r \in Requests, LogoutFinish(r) \/ Me(r)
  PROVE  Consumes(r)
<1> DEFINE D == AttemptsIn(SlotsOf(call[r].state))
<1>1. /\ Safe /\ Ends(r) /\ FlowOK(r) /\ OwnWork(r) /\ CallSafe(call[r])
  BY OfHandler, OfRequest DEF LogoutFinish, Me, BffSafe, OwnSafe
<1>2. call[r].pc = "handling"
  BY <1>1 DEF LogoutFinish, Me, Ready, FlowOK
<1>3. \A a \in D : BeganBy(a, Owner[r])
  BY <1>1, AttemptsBegun DEF OwnWork
<1>4. call[r].key = NoKey => D = {}
  <2> SUFFICES ASSUME call[r].key = NoKey PROVE D = {}
    OBVIOUS
  <2>1. SlotsOf(call[r].state) = << >>
    BY <1>1, <1>2 DEF CallSafe, CopyDescends, EmptyState, SlotsOf
  <2>2. AttemptsIn(<< >>) = {}
    BY DEF AttemptsIn
  <2>3. QED
    BY <2>1, <2>2
<1> HIDE DEF D
<1>5. FinishPurged(r) \/ FinishUnchanged(r)
  BY DEF LogoutFinish, Me
<1>6. SlotsOf(call'[r].state) = << >> /\ AttemptsIn(<< >>) = {}
  BY <1>1, <1>5, LeavesNothing DEF EmptyState, SlotsOf, AttemptsIn
<1>7. CASE FinishPurged(r) /\ closed' = closed \cup D
  <2>1. \A k \in Keys : call[r].key = k => Overwrites(r, k)'
    BY <1>7, EndsInWrite, StoreAssumption
  <2>2. QED
    BY <1>1, <1>3, <1>4, <1>6, <1>7, <2>1, EndConsumes
<1>8. CASE Ready(r) /\ UNCHANGED closed
  BY <1>1, <1>6, <1>8, EndConsumes
<1>9. QED
  BY <1>7, <1>8 DEF LogoutFinish, Me, Discard, D

\* A callback finds only slots of its own, in a session that has a key.
LEMMA MatchIsOwn ==
  ASSUME BffSafe, OwnSafe, SerialSafe, NEW r \in Requests, Ready(r),
         NEW a, NEW slot \in Matching(LiveSlots(call[r].state), a)
  PROVE  /\ slot.attempt = a /\ BeganBy(a, Owner[r]) /\ a \notin closed /\ call[r].key # NoKey
         /\ Without(LiveSlots(call[r].state), a) \in SlotVectors
         /\ AttemptsIn(Without(LiveSlots(call[r].state), a)) \cap (closed \cup {a}) = {}
<1> DEFINE s == call[r].state
           v == LiveSlots(s)
<1>1. /\ SlotsOf(s) \in SlotVectors /\ v \in SlotVectors /\ OwnWork(r) /\ CallSafe(call[r])
  BY OfHandler, OfRequest DEF OwnSafe, BffSafe
<1>2. AttemptsIn(SlotsOf(s)) \cap closed = {}
  BY NoFlowTyped DEF SerialSafe, InHand, Ready
<1>3. AttemptsIn(v) \subseteq AttemptsIn(SlotsOf(s))
  BY <1>1, HelpersKeepAttempts DEF LiveSlots
<1> HIDE DEF v
<1>4. slot.attempt = a /\ a \in AttemptsIn(v)
  BY DEF Matching, AttemptsIn, v
<1>5. AttemptsIn(Without(v, a)) \subseteq AttemptsIn(v) \ {a} /\ Without(v, a) \in SlotVectors
  BY <1>1, HelpersKeepAttempts, HelpersTyped
<1>6. BeganBy(a, Owner[r])
  BY <1>1, <1>3, <1>4, AttemptsBegun DEF OwnWork
<1>7. call[r].key # NoKey
  <2>1. AttemptsIn(<< >>) = {}
    BY DEF AttemptsIn
  <2>2. call[r].key = NoKey => SlotsOf(s) = << >>
    BY <1>1 DEF CallSafe, CopyDescends, EmptyState, SlotsOf, Ready
  <2>3. QED
    BY <1>3, <1>4, <2>1, <2>2
<1>8. QED
  BY <1>2, <1>3, <1>4, <1>5, <1>6, <1>7 DEF v

LEMMA CallbackConsumes ==
  ASSUME BffSafe, OwnSafe, SerialSafe, NEW r \in Requests, NEW a \in Tokens,
         CallbackError(r, a) \/ \E code \in Attempts : CallbackStart(r, a, code)
  PROVE  Consumes(r)
<1> DEFINE v == Without(LiveSlots(call[r].state), a)
<1>1. /\ Ready(r) /\ closed' = closed \cup {a} /\ \E slot : slot \in Matching(LiveSlots(call[r].state), a)
  BY DEF CallbackError, CallbackStart
<1>2. /\ BeganBy(a, Owner[r]) /\ call[r].key # NoKey
      /\ v \in SlotVectors /\ AttemptsIn(v) \cap closed' = {}
  BY <1>1, MatchIsOwn
<1> HIDE DEF v
<1>3. v \in Rests /\ SlotsOf([rest |-> v]) = v
  BY <1>2, VectorsAreRests, FlowAssumption DEF SlotsOf
<1>4. CASE CallbackError(r, a)
  <2>1. FinishChanged(r, WithSlots(call[r].state, v)) /\ Ends(r)
    BY <1>4 DEF CallbackError, v
  <2>2. QED
    BY <1>1, <1>2, <1>3, <2>1, SlotWriteConsumes
<1>5. CASE \E code \in Attempts : CallbackStart(r, a, code)
  <2>1. PICK code \in Attempts : CallbackStart(r, a, code)
    BY <1>5
  <2>2. (\E slot : Suspend(r, "exchange", slot, v, code)) /\ UNCHANGED call
    BY <2>1 DEF CallbackStart, v, vars
  <2>3. QED
    BY <1>1, <1>2, <1>3, <2>2, SuspendConsumes
<1>6. QED
  BY <1>4, <1>5

LEMMA HandlerConsumes ==
  ASSUME BffSafe, OwnSafe, SerialSafe, NEW r \in Requests, Handler(r)
  PROVE  Consumes(r)
<1> DEFINE s == call[r].state
<1>1. /\ Safe /\ RouteTypes /\ FlowOK(r) /\ flow[r] \in Flow /\ s \in State
      /\ SlotsOf(s) \in SlotVectors /\ LiveSlots(s) \in SlotVectors
  BY TypeParts, OfHandler DEF BffSafe
<1>2. AttemptsIn(InHand(r)) \cap closed = {}
  BY DEF SerialSafe
<1>3. CASE CallbackStray(r)
  <2>1. /\ FinishChanged(r, WithSlots(s, LiveSlots(s))) /\ Ends(r) /\ UNCHANGED closed
        /\ InHand(r) = SlotsOf(s)
    BY <1>3, NoFlowTyped DEF CallbackStray, Ready, InHand
  <2>2. AttemptsIn(LiveSlots(s)) \subseteq AttemptsIn(SlotsOf(s))
    BY <1>1, HelpersKeepAttempts DEF LiveSlots
  <2>3. LiveSlots(s) \in Rests /\ SlotsOf([rest |-> LiveSlots(s)]) = LiveSlots(s)
    BY <1>1, VectorsAreRests, FlowAssumption DEF SlotsOf
  <2>4. QED
    BY <1>2, <2>1, <2>2, <2>3, SlotWriteConsumes
<1>4. CASE CallbackFail(r)
  <2>1. /\ FinishChanged(r, WithSlots(s, flow[r].rest)) /\ Ends(r) /\ UNCHANGED closed
        /\ InHand(r) = SlotsOf([rest |-> flow[r].rest]) /\ flow[r].rest \in Rests
    BY <1>1, <1>4 DEF CallbackFail, InHand, Flow, SlotsOf
  <2>2. QED
    BY <1>2, <2>1, SlotWriteConsumes
<1>5. CASE CallbackFinish(r)
  <2> DEFINE f == flow[r]
             w == WithSlots(s, f.rest)
             u == LoggedIn(w, answer[f.code].sub, f.code, now)
  <2>1. f.at = "verify" /\ FinishRenewed(r, u) /\ Ends(r) /\ UNCHANGED closed /\ InHand(r) = SlotsOf(f)
    BY <1>5 DEF CallbackFinish, InHand
  <2>2. f.code \in Tokens /\ answer[f.code].sub \in Subjects /\ now \in Instants
    BY <1>1, <2>1, OfRequest DEF FlowOK, RouteTypes
  <2>3. w \in State /\ SlotsOf(w) = SlotsOf(f)
    BY OfHandler, WithSlotsFacts DEF WithSlots, SlotsOf, State
  <2>4. u \in State /\ SlotsOf(u) = SlotsOf(f)
    BY <2>2, <2>3, LoggedInFacts DEF LoggedIn, SlotsOf, State
  <2> HIDE DEF u
  <2>5. SlotsOf(call'[r].state) \in {SlotsOf(f), << >>}
    BY <1>1, <2>1, <2>4, FinishIs
  <2>6. \A k \in Keys : call[r].key = k => Overwrites(r, k)'
    BY <2>1, EndsInWrite, StoreAssumption
  <2>7. QED
    BY <1>2, <2>1, <2>5, <2>6, EndConsumes
<1>6. CASE Exchange(r)
  <2>1. /\ Suspend(r, "verify", flow[r].slot, flow[r].rest, flow[r].code) /\ UNCHANGED <<call, closed>>
        /\ InHand(r) = SlotsOf([rest |-> flow[r].rest])
    BY <1>6 DEF Exchange, vars, InHand, SlotsOf
  <2>2. QED
    BY <1>2, <2>1, SuspendConsumes
<1>7. CASE LogoutStart(r) \/ Revoke(r)
  <2>1. PICK at \in {"revoke", "revoked"} : \E code : Suspend(r, at, None, NoRest, code)
    BY <1>7 DEF LogoutStart, Revoke
  <2>2. /\ UNCHANGED <<call, closed>> /\ InHand(r) = SlotsOf(s) /\ call[r].pc = "handling"
        /\ flow[r].at \notin {"exchange", "verify"}
    BY <1>1, <1>7, NoFlowTyped DEF LogoutStart, Revoke, vars, InHand, Ready, FlowOK
  <2>3. \A k \in Keys : ~Overwrites(r, k)
    BY <2>2 DEF Overwrites
  <2>4. QED
    BY <1>2, <2>1, <2>2, <2>3, SuspendConsumes
<1>8. QED
  BY <1>3, <1>4, <1>5, <1>6, <1>7, LoginConsumes, CallbackConsumes, PurgeConsumes DEF Handler

\* What other browsers have under way is of other attempts.
LEMMA OthersUnclosed ==
  ASSUME OwnSafe, NEW b, NEW c, b # c, NEW v \in Seq(SlotsBegunBy(c)),
         AttemptsIn(v) \cap closed = {}, \A a \in closed' \ closed : BeganBy(a, b)
  PROVE  AttemptsIn(v) \cap closed' = {}
BY AttemptsBegun, BegunByOne

LEMMA HandlerSerial ==
  ASSUME OneAtATime, BffSafe, OwnSafe, SerialSafe, NEW r \in Requests, Handler(r)
  PROVE  SerialSafe'
<1>1. /\ RouteTypes /\ Owner[r] \in Browsers /\ Consumes(r) /\ Grows
      /\ call'[r].key \in {call[r].key, NoKey} /\ call[r].pc = "handling"
  <2>1. call[r].pc = "handling"
    BY OfHandler
    DEF Handler, Login, CallbackStray, CallbackError, CallbackStart, Exchange, CallbackFail,
        CallbackFinish, LogoutStart, Revoke, LogoutFinish, Me, Ready, FlowOK
  <2>2. QED
    BY <2>1, TypeParts, OfHandler, HandlerConsumes, HandlerWork DEF BffSafe
<1>2. /\ UNCHANGED <<rows, jar, reply>>
      /\ \A q \in Requests \ {r} : call'[q] = call[q] /\ flow'[q] = flow[q]
  BY OthersStay, HandlerRefines
  DEF Handler, Login, CallbackStray, CallbackError, CallbackStart, Exchange, CallbackFail,
      CallbackFinish, LogoutStart, Revoke, LogoutFinish, Me, Ends, storeVars, vars, idpVars
<1>3. closed' \subseteq Attempts'
  <2> SUFFICES ASSUME NEW a \in closed' PROVE a \in Attempts'
    OBVIOUS
  <2>1. a \in Attempts
    BY <1>1 DEF Consumes, SerialSafe, BeganBy, Attempts
  <2>2. PICK i \in 1..Len(opened) : opened[i].attempt = a
    BY <2>1 DEF Attempts
  <2>3. i \in 1..Len(opened)' /\ opened'[i] = opened[i]
    BY <1>1, GrowsKeeps
  <2>4. QED
    BY <2>2, <2>3 DEF Attempts
<1>4. ASSUME NEW q \in Requests PROVE AttemptsIn(InHand(q))' \cap closed' = {}
  <2>1. CASE q = r
    BY <1>1, <2>1 DEF Consumes
  <2>2. CASE q # r
    <3>1. Owner[q] # Owner[r] /\ OwnWork(q) /\ call'[q] = call[q] /\ flow'[q] = flow[q]
      BY <1>2, <2>2 DEF OneAtATime, OwnSafe
    <3>2. PICK v : v = InHand(q)
      OBVIOUS
    <3>3. v \in Seq(SlotsBegunBy(Owner[q])) /\ AttemptsIn(v) \cap closed = {}
      BY <3>1, <3>2 DEF OwnWork, InHand, SerialSafe
    <3>4. AttemptsIn(v) \cap closed' = {}
      BY <1>1, <3>1, <3>3, OthersUnclosed DEF Consumes
    <3>5. InHand(q)' = v
      BY <3>1, <3>2 DEF InHand, SlotsOf
    <3>6. QED
      BY <3>4, <3>5 DEF AttemptsIn
  <2>3. QED
    BY <2>1, <2>2
<1>5. ASSUME NEW q \in Requests, call'[q].pc # "idle"
      PROVE  reply'[q] = Nothing /\ call'[q].key \in {jar'[Owner[q]], NoKey}
  BY <1>1, <1>2, <1>5 DEF SerialSafe
<1>6. ASSUME NEW k \in Keys, NEW b \in Browsers, Holds(b, k)', rows'[k] # NoRow,
             NEW v, v = SlotsOf(rows[k].state)
      PROVE  AttemptsIn(v) \cap closed' = {} \/ \E q \in Requests : Overwrites(q, k)'
  <2>1. NoNewHolders
    BY <1>1, <1>2, OwnHeld, StoreAssumption DEF NoNewHolders
  <2>2. Holds(b, k) /\ rows[k] # NoRow
    BY <1>2, <1>6, <2>1, HoldersStay
  <2>3. CASE \E q \in Requests : Overwrites(q, k)
    <3>1. PICK q \in Requests : Overwrites(q, k)
      BY <2>3
    <3>2. Overwrites(q, k)'
      BY <1>1, <1>2, <3>1 DEF Consumes, Overwrites
    <3>3. QED
      BY <3>2
  <2>4. CASE AttemptsIn(v) \cap closed = {}
    <3>1. CASE b # Owner[r]
      <4>1. v \in Seq(SlotsBegunBy(b))
        BY <1>6, <2>2 DEF OwnSafe, OwnKey
      <4>2. QED
        BY <1>1, <2>4, <3>1, <4>1, OthersUnclosed DEF Consumes
    <3>2. CASE b = Owner[r] /\ closed' # closed
      <4>1. PICK j \in Keys : call[r].key = j /\ Overwrites(r, j)'
        BY <1>1, <3>2 DEF Consumes
      <4>2. jar[b] = j /\ reply[r] = Nothing
        BY <1>1, <3>2, <4>1, StoreAssumption DEF SerialSafe
      <4>3. k = j
        BY <2>2, <3>2, <4>1, <4>2, FlowAssumption DEF Holds, OneAtATime
      <4>4. QED
        BY <4>1, <4>3
    <3>3. CASE closed' = closed
      BY <2>4, <3>3
    <3>4. QED
      BY <3>1, <3>2, <3>3
  <2>5. QED
    BY <1>6, <2>2, <2>3, <2>4 DEF SerialSafe
<1>7. ASSUME NEW k \in Keys, NEW b \in Browsers, Holds(b, k)', rows'[k] # NoRow
      PROVE  AttemptsIn(SlotsOf(rows[k].state))' \cap closed' = {} \/ \E q \in Requests : Overwrites(q, k)'
  <2>1. PICK v : v = SlotsOf(rows[k].state)
    OBVIOUS
  <2>2. SlotsOf(rows[k].state)' = v
    BY <1>2, <2>1 DEF SlotsOf
  <2>3. AttemptsIn(SlotsOf(rows[k].state))' = AttemptsIn(v)
    BY <2>2 DEF AttemptsIn
  <2>4. QED
    BY <1>6, <1>7, <2>1, <2>3
<1>8. QED
  BY <1>3, <1>4, <1>5, <1>7 DEF SerialSafe

\* The write a request was about to make replaces or deletes the row.
LEMMA WriteReplaces ==
  ASSUME DeletesSucceed, Safe, NEW r \in Requests, StoreStep(r),
         call[r].pc \in {"update", "deadDelete", "renewDelete", "purgeDelete"}
  PROVE  /\ call'[r].pc \notin {"check", "ttlCheck"}
         /\ \A k \in Keys : call[r].key = k => rows'[k] = NoRow \/ rows'[k].state = call[r].state
<1>1. rows \in [Keys -> Row \cup {NoRow}] /\ (call[r].key \in Keys)
  BY OfRequest DEF Safe, TypeOK, CallSafe, CopyDescends, KeyPcs
<1>2. ASSUME Return(r) PROVE call'[r].pc = "idle"
  BY <1>2 DEF Return, Idle, Safe, TypeOK
<1>3. CASE UpdateRow(r)
  <2>1. Return(r) \/ \E s, e : Goto(r, "fallback", NoKey, s, e)
    BY <1>3 DEF UpdateRow
  <2>2. rows'[call[r].key] = NoRow \/ rows'[call[r].key].state = call[r].state
    BY <1>1, <1>3 DEF UpdateRow
  <2>3. QED
    BY <1>2, <2>1, <2>2, GotoIs
<1>4. CASE DeadDelete(r) \/ PurgeDelete(r)
  <2>1. Return(r) /\ Delete(call[r].key)
    BY <1>4 DEF DeadDelete, PurgeDelete, BestEffortDelete, DeletesSucceed
  <2>2. QED
    BY <1>1, <1>2, <2>1 DEF Delete
<1>5. CASE RenewDelete(r)
  <2>1. Delete(call[r].key) /\ \E s, e : Goto(r, "save", NoKey, s, e)
    BY <1>5 DEF RenewDelete, StartSave
  <2>2. QED
    BY <1>1, <2>1, GotoIs DEF Delete
<1>6. QED
  BY <1>3, <1>4, <1>5
  DEF StoreStep, LoadGet, LoadCheck, LoadDelete, Insert, SaveRefused, TtlGet, TtlCheck, TtlDelete, Touch

\* A cookie names a new key, or one its browser held.
LEMMA CookieHeld ==
  ASSUME BffSafe, NEW r \in Requests, Serve(r), NEW b \in Browsers, NEW k \in Keys,
         Holds(b, k)', birth'[k] = birth[k]
  PROVE  Holds(b, k)
<1>1. /\ RouteTypes /\ StoreStep(r) /\ reply' = [reply EXCEPT ![r] = SetCookie(r)] /\ UNCHANGED jar
      /\ birth \in [Keys -> State \cup {None}] /\ Safe
  BY TypeParts DEF BffSafe, Serve, Safe, TypeOK
<1>2. /\ \A q \in Requests \ {r} : call'[q] = call[q] /\ reply'[q] = reply[q]
      /\ reply'[r] = SetCookie(r) /\ call'[r].key \in {call[r].key, NoKey}
  BY <1>1, StoreStepIs, RequestMoves DEF RequestStep, RouteTypes
<1>3. SetCookie(r) = k => call[r].key = k
  <2>1. CASE birth' = birth
    BY <2>1, StoreAssumption, FlowAssumption DEF SetCookie
  <2>2. CASE birth' # birth
    <3>1. Insert(r)
      BY <1>1, <2>2 DEF StoreStep, LoadGet, LoadCheck, LoadDelete, SaveRefused, UpdateRow, DeadDelete,
         RenewDelete, PurgeDelete, TtlGet, TtlCheck, TtlDelete, Touch
    <3>2. \E j \in Keys : birth'[j] # birth[j]
      <4>1. PICK j \in FreshKeys : birth' = [birth EXCEPT ![j] = call[r].state]
        BY <3>1 DEF Insert
      <4>2. call[r].state \in State
        BY <1>1, OfRequest
      <4>3. QED
        BY <1>1, <4>1, <4>2, StateFacts DEF FreshKeys, Issued
    <3>3. (CHOOSE j \in Keys : birth'[j] # birth[j]) # k
      BY <3>2
    <3>4. SetCookie(r) \in {Nothing, CHOOSE j \in Keys : birth'[j] # birth[j]}
      BY <2>2 DEF SetCookie
    <3>5. QED
      BY <3>3, <3>4, FlowAssumption
  <2>3. QED
    BY <2>1, <2>2
<1>4. CASE jar'[b] = k
  BY <1>1, <1>4 DEF Holds
<1>5. ASSUME NEW q \in Requests, Owner[q] = b, reply'[q] = k \/ call'[q].key = k
      PROVE  Holds(b, k)
  BY <1>2, <1>3, <1>5, StoreAssumption, FlowAssumption DEF Holds
<1>6. QED
  BY <1>4, <1>5 DEF Holds

\* The request that works with a key is the only one that does.
LEMMA KeyIsSerial ==
  ASSUME OneAtATime, OwnSafe, NEW k \in Keys, NEW r \in Requests, Holds(Owner[r], k),
         NEW q \in Requests, Overwrites(q, k)
  PROVE  q = r
<1>1. Holds(Owner[q], k) /\ Owner[q] \in Browsers /\ Owner[r] \in Browsers
  BY OwnHeld, FlowAssumption DEF Overwrites
<1>2. Owner[q] = Owner[r]
  BY <1>1 DEF OwnSafe, OwnKey
<1>3. QED
  BY <1>2 DEF OneAtATime

LEMMA ServeSerial ==
  ASSUME OneAtATime, DeletesSucceed, BffSafe, OwnSafe, SerialSafe, NEW r \in Requests, Serve(r)
  PROVE  SerialSafe'
<1>1. /\ StoreStep(r) /\ UNCHANGED <<jar, flow, opened, closed>>
      /\ reply' = [reply EXCEPT ![r] = SetCookie(r)] /\ RequestStep(r)
      /\ Safe /\ RouteTypes /\ FlowOK(r) /\ CallSafe(call[r]) /\ Owner[r] \in Browsers
  BY TypeParts, OfHandler, OfRequest DEF BffSafe, Serve, RequestStep
<1>2. /\ \A q \in Requests \ {r} : call'[q] = call[q] /\ reply'[q] = reply[q]
      /\ reply'[r] = SetCookie(r) /\ call'[r].key \in {call[r].key, NoKey}
      /\ flow[r].at = "none" /\ flow'[r].at = "none" /\ call[r].pc # "idle"
  <2>1. flow[r].at = "none" /\ call[r].pc # "idle"
    BY <1>1, StoreStepBirths DEF FlowOK, StoreStep, LoadGet, LoadCheck, LoadDelete, SaveRefused,
       UpdateRow, DeadDelete, RenewDelete, PurgeDelete, TtlGet, TtlCheck, TtlDelete, Touch, Insert
  <2>2. QED
    BY <1>1, <2>1, StoreStepIs, RequestMoves DEF RouteTypes
<1>3. closed \subseteq Attempts'
  BY <1>1 DEF SerialSafe, Attempts
<1>4. AttemptsIn(SlotsOf(call[r].state)) \cap closed = {} /\ AttemptsIn(<< >>) = {}
  BY <1>2 DEF SerialSafe, InHand, AttemptsIn
<1>5. ASSUME NEW k \in Keys, NEW b \in Browsers, Holds(b, k), rows[k] # NoRow,
             \A q \in Requests : ~Overwrites(q, k)
      PROVE  AttemptsIn(SlotsOf(rows[k].state)) \cap closed = {}
  BY <1>5 DEF SerialSafe
<1>6. AttemptsIn(SlotsOf(call'[r].state)) \cap closed = {}
  <2>1. CASE call'[r].state = EmptyState
    <3>1. SlotsOf(call'[r].state) = << >>
      BY <2>1 DEF EmptyState, SlotsOf
    <3>2. QED
      BY <1>4, <3>1
  <2>2. CASE call'[r].state.rest = call[r].state.rest
    <3>1. SlotsOf(call'[r].state) = SlotsOf(call[r].state)
      BY <2>2 DEF SlotsOf
    <3>2. QED
      BY <1>4, <3>1
  <2>3. ASSUME call'[r].pc \in {"check", "ttlCheck"}, NEW k \in Keys, call[r].key = k,
               rows[k] # NoRow, call'[r].state = rows[k].state
        PROVE  AttemptsIn(SlotsOf(call'[r].state)) \cap closed = {}
    <3>1. Holds(Owner[r], k)
      BY <2>3, OwnHeld
    <3>2. ~Overwrites(r, k)
      BY <1>1, <1>2, <2>3, WriteReplaces DEF Overwrites
    <3>3. \A q \in Requests : ~Overwrites(q, k)
      BY <3>1, <3>2, KeyIsSerial
    <3>4. QED
      BY <1>1, <1>5, <2>3, <3>1, <3>3
  <2>4. QED
    BY <1>1, <2>1, <2>2, <2>3, StoreStepIs
<1>7. ASSUME NEW q \in Requests PROVE AttemptsIn(InHand(q))' \cap closed' = {}
  <2>1. CASE q = r
    <3>1. PICK w : w = SlotsOf(call'[r].state)
      OBVIOUS
    <3>2. InHand(r)' = w
      BY <1>2, <3>1 DEF InHand, SlotsOf
    <3>3. QED
      BY <1>1, <1>6, <2>1, <3>1, <3>2 DEF AttemptsIn
  <2>2. CASE q # r
    <3>1. InHand(q)' = InHand(q)
      BY <1>1, <1>2, <2>2 DEF InHand, SlotsOf
    <3>2. QED
      BY <1>1, <3>1 DEF SerialSafe, AttemptsIn
  <2>3. QED
    BY <2>1, <2>2
<1>8. ASSUME NEW q \in Requests, call'[q].pc # "idle"
      PROVE  reply'[q] = Nothing /\ call'[q].key \in {jar'[Owner[q]], NoKey}
  <2>1. CASE q = r
    <3>1. SetCookie(r) = Nothing
      BY <1>8, <2>1 DEF SetCookie
    <3>2. QED
      BY <1>1, <1>2, <2>1, <3>1 DEF SerialSafe
  <2>2. CASE q # r
    BY <1>1, <1>2, <1>8, <2>2 DEF SerialSafe
  <2>3. QED
    BY <2>1, <2>2
<1>9. ASSUME NEW k \in Keys, NEW b \in Browsers, Holds(b, k)', rows'[k] # NoRow,
             \A q \in Requests : ~Overwrites(q, k)'
      PROVE  AttemptsIn(SlotsOf(rows'[k].state)) \cap closed = {}
  <2>1. CASE rows'[k].state = call[r].state
    BY <1>4, <2>1
  <2>2. CASE rows'[k].state # call[r].state
    <3>1. birth'[k] = birth[k] /\ rows[k] # NoRow /\ rows'[k].state = rows[k].state
      <4>1. Remains(k) \/ Written(r, k)
        BY <1>1, <1>9, RequestRows
      <4>2. rows[k] # NoRow /\ rows'[k].state = rows[k].state /\ (birth'[k] = birth[k] \/ birth[k] = None)
        BY <2>2, <4>1 DEF Remains, Written
      <4>3. birth[k] # None
        BY <1>1, <4>2 DEF Safe, KeyKeepsItsSession, Issued
      <4>4. QED
        BY <4>2, <4>3
    <3>2. Holds(b, k)
      BY <1>9, <3>1, CookieHeld
    <3>3. ASSUME NEW q \in Requests PROVE ~Overwrites(q, k)
      <4>1. CASE q = r
        BY <1>1, <1>2, <1>9, <2>2, <4>1, WriteReplaces DEF Overwrites
      <4>2. CASE q # r
        BY <1>1, <1>2, <1>9, <4>2 DEF Overwrites
      <4>3. QED
        BY <4>1, <4>2
    <3>4. QED
      BY <1>5, <3>1, <3>2, <3>3
  <2>3. QED
    BY <2>1, <2>2
<1>10. ASSUME NEW k \in Keys, NEW b \in Browsers, Holds(b, k)', rows'[k] # NoRow
       PROVE  \/ AttemptsIn(SlotsOf(rows[k].state))' \cap closed' = {}
              \/ \E q \in Requests : Overwrites(q, k)'
  <2>1. PICK w : w = SlotsOf(rows'[k].state)
    OBVIOUS
  <2>2. AttemptsIn(SlotsOf(rows[k].state))' = AttemptsIn(w)
    BY <2>1 DEF AttemptsIn, SlotsOf
  <2>3. QED
    BY <1>1, <1>9, <1>10, <2>1, <2>2
<1>11. QED
  BY <1>1, <1>3, <1>7, <1>8, <1>10 DEF SerialSafe

\* Neither cookies on their way nor the provider nor time closes an attempt.
LEMMA OtherSerial ==
  ASSUME OneAtATime, NoAborts, BffSafe, OwnSafe, SerialSafe,
         \/ \E r \in Requests : Send(r) \/ Deliver(r) \/ CutOff(r)
         \/ \E a \in Tokens : Authenticate(a)
         \/ Environment \/ UNCHANGED bffVars
  PROVE  SerialSafe'
<1>1. /\ Safe /\ RouteTypes /\ rows \in [Keys -> Row \cup {NoRow}] /\ call \in [Requests -> Call]
  BY TypeParts DEF BffSafe, Safe, TypeOK
<1>2. UNCHANGED <<flow, opened, closed>>
  BY NoAborts
  DEF Send, Begin, Deliver, CutOff, Abort, Authenticate, Environment, Tick, Sweep, bffVars, vars,
      idpVars, NoAborts
<1>3. \A k \in Keys : rows'[k] # NoRow => rows'[k] = rows[k]
  BY <1>1
  DEF Send, Begin, Deliver, CutOff, Abort, Authenticate, Environment, Tick, Sweep, Delete, bffVars, vars
<1>4. ASSUME NEW q \in Requests
      PROVE  \/ call'[q] = call[q]
             \/ /\ Send(q) /\ call[q].pc = "idle" /\ call'[q].state = EmptyState
                /\ call'[q].pc \in {"get", "handling"} /\ call'[q].key \in {jar[Owner[q]], NoKey}
  <2>1. CASE \E r \in Requests : Send(r)
    <3>1. PICK r \in Requests : Send(r)
      BY <2>1
    <3>2. CASE q = r
      BY <1>1, <3>1, <3>2, GotoIs DEF Send, Begin, NoSession
    <3>3. CASE q # r
      BY <3>1, <3>3, OthersStay
    <3>4. QED
      BY <3>2, <3>3
  <2>2. CASE ~\E r \in Requests : Send(r)
    BY <2>2, NoAborts
    DEF Deliver, CutOff, Abort, Authenticate, Environment, Tick, Sweep, bffVars, vars, NoAborts
  <2>3. QED
    BY <2>1, <2>2
<1>5. ASSUME NEW q \in Requests PROVE AttemptsIn(InHand(q))' \cap closed' = {}
  <2>1. CASE call'[q] = call[q]
    <3>1. InHand(q)' = InHand(q)
      BY <1>2, <2>1 DEF InHand, SlotsOf
    <3>2. QED
      BY <1>2, <3>1 DEF SerialSafe, AttemptsIn
  <2>2. CASE call[q].pc = "idle" /\ call'[q].state = EmptyState
    <3>1. flow[q].at = "none"
      BY <2>2, OfHandler DEF FlowOK
    <3>2. InHand(q)' = << >>
      BY <1>2, <2>2, <3>1 DEF InHand, SlotsOf, EmptyState
    <3>3. QED
      BY <3>2 DEF AttemptsIn
  <2>3. QED
    BY <1>4, <2>1, <2>2
<1>6. ASSUME NEW q \in Requests, call'[q].pc # "idle"
      PROVE  reply'[q] = Nothing /\ call'[q].key \in {jar'[Owner[q]], NoKey}
  <2>1. CASE Send(q)
    <3>1. reply[q] = Nothing /\ UNCHANGED <<reply, jar>> /\ call[q].pc = "idle"
      BY <2>1 DEF Send, Begin
    <3>2. QED
      BY <1>4, <1>6, <3>1
  <2>2. CASE ~Send(q)
    <3>1. call'[q] = call[q] /\ reply[q] = Nothing /\ call[q].key \in {jar[Owner[q]], NoKey}
      BY <1>4, <1>6, <2>2 DEF SerialSafe
    <3>2. ASSUME NEW r \in Requests, Deliver(r)
          PROVE  reply'[q] = reply[q] /\ jar'[Owner[q]] = jar[Owner[q]]
      <4>1. r # q /\ Owner[r] # Owner[q]
        BY <3>1, <3>2 DEF Deliver, OneAtATime
      <4>2. QED
        BY <1>1, <3>2, <4>1 DEF Deliver, RouteTypes
    <3>3. ~(\E r \in Requests : Deliver(r)) => UNCHANGED <<reply, jar>>
      BY NoAborts DEF Send, CutOff, Abort, Authenticate, Environment, bffVars, NoAborts
    <3>4. QED
      BY <3>1, <3>2, <3>3
  <2>3. QED
    BY <2>1, <2>2
<1>7. ASSUME NEW q \in Requests, NEW k \in Keys, Overwrites(q, k) PROVE Overwrites(q, k)'
  <2>1. call[q].pc # "idle"
    BY <1>7, OfHandler DEF Overwrites, FlowOK
  <2>2. QED
    BY <1>2, <1>4, <1>7, <2>1 DEF Overwrites
<1>8. NoNewHolders
  <2>1. \A q \in Requests : call'[q].key \in Keys => Holds(Owner[q], call'[q].key)
    BY <1>4, OwnHeld, StoreAssumption, FlowAssumption
  <2>2. CASE \E r \in Requests : Deliver(r)
    <3>1. PICK r \in Requests : Deliver(r)
      BY <2>2
    <3>2. \A b \in Browsers : jar'[b] = jar[b] \/ (b = Owner[r] /\ jar'[b] = reply[r])
      BY <1>1, <3>1 DEF Deliver, RouteTypes
    <3>3. \A q \in Requests : reply'[q] = reply[q] \/ reply'[q] = Nothing
      BY <1>1, <3>1 DEF Deliver, RouteTypes
    <3>4. QED
      BY <2>1, <3>2, <3>3, OwnHeld, FlowAssumption DEF NoNewHolders
  <2>3. CASE UNCHANGED <<reply, jar>>
    BY <2>1, <2>3, OwnHeld DEF NoNewHolders
  <2>4. QED
    BY <2>2, <2>3, NoAborts DEF Send, CutOff, Abort, Authenticate, Environment, bffVars, NoAborts
<1>9. ASSUME NEW k \in Keys, NEW b \in Browsers, Holds(b, k)', rows'[k] # NoRow
      PROVE  \/ AttemptsIn(SlotsOf(rows[k].state))' \cap closed' = {}
             \/ \E q \in Requests : Overwrites(q, k)'
  <2>1. Holds(b, k) /\ rows'[k] = rows[k] /\ rows[k] # NoRow
    BY <1>3, <1>8, <1>9, HoldersStay
  <2>2. AttemptsIn(SlotsOf(rows[k].state))' = AttemptsIn(SlotsOf(rows[k].state))
    BY <2>1 DEF AttemptsIn, SlotsOf
  <2>3. QED
    BY <1>2, <1>7, <2>1, <2>2 DEF SerialSafe
<1>10. closed' \subseteq Attempts'
  BY <1>2 DEF SerialSafe, Attempts
<1>11. QED
  BY <1>5, <1>6, <1>9, <1>10 DEF SerialSafe

LEMMA SerialInit == BffInit => SerialSafe
<1> SUFFICES ASSUME BffInit PROVE SerialSafe
  OBVIOUS
<1>1. closed = {} /\ \A r \in Requests : call[r].pc = "idle"
  BY DEF BffInit, Init, Idle
<1>2. QED
  BY <1>1 DEF SerialSafe

LEMMA SerialStep ==
  ASSUME OneAtATime, NoAborts, DeletesSucceed
  PROVE  BffSafe /\ OwnSafe /\ SerialSafe /\ [BffNext]_bffVars => SerialSafe'
BY HandlerSerial, ServeSerial, OtherSerial DEF BffNext

\* `state` is single-use, if the requests of a browser do not overlap and none of
\* them is cut off: otherwise the callback that consumed the slot need not be the
\* last to write the session back, and an earlier vector of slots stays.
THEOREM RoutesStateSingleUse ==
  ASSUME OneAtATime, NoAborts, DeletesSucceed
  PROVE  BffSpec => StateSingleUse
<1> DEFINE Single ==
      \A r \in Requests :
        flow'[r].at = "exchange" /\ flow[r].at # "exchange" => flow'[r].slot.attempt \notin closed
<1>1. ASSUME BffSafe, OwnSafe, SerialSafe, [BffNext]_bffVars PROVE Single
  <2> SUFFICES ASSUME NEW r \in Requests, flow'[r].at = "exchange", flow[r].at # "exchange"
               PROVE  flow'[r].slot.attempt \notin closed
    OBVIOUS
  <2>1. PICK a \in Tokens, code \in Attempts : CallbackStart(r, a, code)
    BY <1>1, CallbackStarts
  <2>2. PICK slot \in Matching(LiveSlots(call[r].state), a) :
          Suspend(r, "exchange", slot, Without(LiveSlots(call[r].state), a), code)
    BY <2>1 DEF CallbackStart
  <2>3. flow'[r].slot = slot
    BY <1>1, <2>2, TypeParts DEF Suspend, RouteTypes, BffSafe
  <2>4. Ready(r)
    BY <2>1 DEF CallbackStart
  <2>5. QED
    BY <1>1, <2>2, <2>3, <2>4, MatchIsOwn
<1>2. BffSafe /\ OwnSafe /\ SerialSafe /\ [BffNext]_bffVars => [Single]_bffVars
  BY <1>1
<1>3. QED
  BY <1>2, SerialInit, SerialStep, RoutesSafe, RoutesOwn, PTL DEF BffSpec, StateSingleUse

-----------------------------------------------------------------------------
(* The slot of an awaited attempt stays in the session of its browser.       *)

\* No call on the repository fails, no request is cut off, and nobody cleans up.
NoFaults == Faults = {}

\* Time, logins and attempts go one way only.
Onward ==
  /\ Grows /\ closed \subseteq closed'
  /\ now \in Int /\ now' \in Int /\ now <= now'
  /\ \A t \in Tokens : minted[t] # None => minted'[t] = minted[t]

LEMMA StepsOnward ==
  ASSUME BffSafe, OwnSafe, [BffNext]_bffVars
  PROVE  Onward
<1>1. /\ Safe /\ now \in Int /\ \A x \in Int : x + 1 \in Int /\ x <= x + 1 /\ x <= x
      /\ minted \in [Tokens -> Instants \cup {None}]
  BY DEF BffSafe, Safe, TypeOK, Instants
<1>2. ASSUME NEW r \in Requests, Handler(r) PROVE Onward
  <2>1. Grows /\ FlowOK(r)
    BY <1>2, HandlerWork, OfHandler
  <2>2. closed \subseteq closed' /\ UNCHANGED now
    BY <1>2
    DEF Handler, Login, CallbackStray, CallbackError, CallbackStart, Exchange, CallbackFail,
        CallbackFinish, LogoutStart, Revoke, LogoutFinish, Me, Discard, storeVars, vars
  <2>3. CASE CallbackFinish(r)
    <3>1. flow[r].code \in Tokens /\ minted[flow[r].code] = None
      BY <2>1, <2>3 DEF CallbackFinish, FlowOK
    <3>2. \A t \in Tokens : minted[t] # None => minted'[t] = minted[t]
      BY <1>1, <2>3, <3>1 DEF CallbackFinish
    <3>3. QED
      BY <1>1, <2>1, <2>2, <3>2 DEF Onward
  <2>4. CASE ~CallbackFinish(r)
    <3>1. UNCHANGED minted
      BY <1>2, <2>4
      DEF Handler, Login, CallbackStray, CallbackError, CallbackStart, Exchange, CallbackFail,
          LogoutStart, Revoke, LogoutFinish, Me, storeVars, vars
    <3>2. QED
      BY <1>1, <2>1, <2>2, <3>1 DEF Onward
  <2>5. QED
    BY <2>3, <2>4
<1>3. ASSUME NEW r \in Requests, Serve(r) PROVE Onward
  BY <1>1, <1>3, StoreStepBirths DEF Serve, Onward, Grows
<1>4. CASE \/ \E r \in Requests : Send(r) \/ Deliver(r) \/ CutOff(r)
           \/ \E a \in Tokens : Authenticate(a)
           \/ Environment \/ UNCHANGED bffVars
  <2>1. UNCHANGED <<opened, closed, minted>> /\ now' \in {now, now + 1}
    BY <1>4
    DEF Send, Begin, Deliver, CutOff, Abort, Authenticate, Environment, Tick, Sweep, bffVars, vars
  <2>2. QED
    BY <1>1, <2>1 DEF Onward, Grows
<1>5. QED
  BY <1>2, <1>3, <1>4 DEF BffNext

\* The attempts of browser b after the i-th of those in o.
LaterOnes(o, i, b) == {j \in (i + 1)..Len(o) : o[j].by = b}

LEMMA LaterFinite ==
  ASSUME NEW o \in Seq(Opened), NEW i \in Int, NEW b
  PROVE  IsFiniteSet(LaterOnes(o, i, b)) /\ Cardinality(LaterOnes(o, i, b)) \in Nat
<1>1. IsFiniteSet((i + 1)..Len(o))
  BY LenProperties, FS_Interval
<1>2. LaterOnes(o, i, b) \in SUBSET ((i + 1)..Len(o))
  BY DEF LaterOnes
<1>3. IsFiniteSet(LaterOnes(o, i, b))
  BY <1>1, <1>2, FS_Subset
<1>4. QED
  BY <1>3, FS_CardinalityType

\* What is awaited was awaited before.
LEMMA AwaitedBefore ==
  ASSUME BffSafe, Onward, NEW i \in 1..Len(opened), Awaited(i)'
  PROVE  Awaited(i)
<1>1. /\ RouteTypes /\ opened'[i] = opened[i] /\ opened[i] \in Opened /\ i \in Int
      /\ MaxSlots \in Nat /\ MaxLifetime \in Nat /\ minted \in [Tokens -> Instants \cup {None}]
  BY TypeParts, GrowsKeeps, ElementOfSeq, FlowAssumption, ExpiryAssumption
  DEF BffSafe, Onward, RouteTypes, Safe, TypeOK
<1>2. PICK b : b = opened[i].by
  OBVIOUS
<1>3. Later(i, b) < MaxSlots
  <2> DEFINE L == LaterOnes(opened, i, b)
             M == LaterOnes(opened', i, b)
  <2>1. opened \in Seq(Opened) /\ opened' \in Seq(Opened)
    <3>1. opened \in Seq(Opened) /\ Grows
      BY <1>1 DEF RouteTypes, Onward
    <3>2. \A o \in Opened : Append(opened, o) \in Seq(Opened)
      BY <3>1, AppendProperties
    <3>3. QED
      BY <3>1, <3>2 DEF Grows
  <2>2. L \subseteq M
    <3>1. ASSUME NEW j \in L PROVE j \in M
      <4>1. j \in (i + 1)..Len(opened) /\ opened[j].by = b
        BY <3>1 DEF LaterOnes
      <4>2. j \in 1..Len(opened)
        BY <1>1, <4>1
      <4>3. j \in 1..Len(opened') /\ opened'[j] = opened[j]
        BY <1>1, <4>2, GrowsKeeps DEF Onward
      <4>4. j \in (i + 1)..Len(opened')
        BY <1>1, <4>1, <4>3
      <4>5. QED
        BY <4>1, <4>3, <4>4 DEF LaterOnes
    <3>2. QED
      BY <3>1
  <2>3. Cardinality(L) \in Nat /\ Cardinality(M) \in Nat /\ IsFiniteSet(M)
    BY <1>1, <2>1, LaterFinite
  <2> HIDE DEF L, M
  <2>4. Cardinality(L) <= Cardinality(M)
    BY <2>2, <2>3, FS_Subset
  <2>5. Cardinality(M) < MaxSlots
    BY <1>1, <1>2 DEF Awaited, Later, LaterOnes, M
  <2>6. Cardinality(L) < MaxSlots
    BY <1>1, <2>3, <2>4, <2>5
  <2>7. QED
    BY <2>6 DEF Later, LaterOnes, L
<1>4. now - opened[i].at < AtMost(PostAuthTtl, PreAuthTtl)
  <2>1. now' - opened[i].at < AtMost(PostAuthTtl, PreAuthTtl)
    BY <1>1 DEF Awaited
  <2>2. opened[i].at \in Int /\ AtMost(PostAuthTtl, PreAuthTtl) \in Int
    BY <1>1, ExpiryAssumption DEF Opened, Instants, AtMost
  <2>3. QED
    BY <2>1, <2>2 DEF Onward
<1>5. ~LifetimeEnded(b)
  <2> SUFFICES ASSUME NEW t \in Tokens, BeganBy(t, b), minted[t] # None, minted[t] + MaxLifetime <= now
               PROVE  FALSE
    BY DEF LifetimeEnded
  <2>1. BeganBy(t, b)' /\ minted'[t] = minted[t]
    BY <1>1, BegunForGood DEF Onward
  <2>2. minted[t] \in Int /\ minted[t] + MaxLifetime <= now'
    BY <1>1 DEF Onward, Instants
  <2>3. ~LifetimeEnded(b)'
    <3>1. ~(\E u \in Tokens : BeganBy(u, b)' /\ minted'[u] # None /\ minted'[u] + MaxLifetime <= now')
      <4>1. PICK c : c = opened'[i].by
        OBVIOUS
      <4>2. c = b
        BY <1>1, <1>2, <4>1
      <4>3. ~(\E u \in Tokens : BeganBy(u, c)' /\ minted'[u] # None /\ minted'[u] + MaxLifetime <= now')
        BY <4>1 DEF Awaited, LifetimeEnded, BeganBy
      <4>4. QED
        BY <4>2, <4>3
    <3>2. QED
      BY <3>1 DEF LifetimeEnded
  <2>4. QED
    BY <2>1, <2>2, <2>3 DEF LifetimeEnded
<1>6. opened[i].attempt \notin closed
  BY <1>1 DEF Awaited, Onward
<1>7. QED
  BY <1>2, <1>3, <1>4, <1>5, <1>6 DEF Awaited

\* An expiry that lasts goes on to, and so does a login of one's own.
LEMMA LastingForGood ==
  ASSUME BffSafe, Onward, NEW i \in 1..Len(opened), NEW e, Lasting(e, i)
  PROVE  Lasting(e, i)'
<1>1. RouteTypes /\ opened'[i] = opened[i]
  BY TypeParts, GrowsKeeps DEF BffSafe, Onward
<1>2. PICK b : b = opened[i].by
  OBVIOUS
<1>3. CASE e >= opened[i].at + AtMost(PostAuthTtl, PreAuthTtl)
  BY <1>1, <1>3 DEF Lasting
<1>4. ASSUME NEW t \in Tokens, BeganBy(t, b), minted[t] # None, e >= minted[t] + MaxLifetime
      PROVE  Lasting(e, i)'
  <2>1. BeganBy(t, b)' /\ minted'[t] = minted[t] /\ opened'[i].by = b
    BY <1>1, <1>2, <1>4, BegunForGood DEF Onward
  <2>2. QED
    BY <1>4, <2>1 DEF Lasting, BeganBy
<1>5. QED
  BY <1>2, <1>3, <1>4 DEF Lasting

LEMMA SignedForGood ==
  ASSUME BffSafe, Onward, NEW s \in State, NEW b, SignedInBy(s, b)
  PROVE  SignedInBy(s, b)'
<1> SUFFICES ASSUME HasSub(s) PROVE SignedInBy(s, b)'
  BY DEF SignedInBy
<1>1. HasTokens(s) /\ BeganBy(s.tok, b) /\ minted[s.tok] # None /\ s.loginAt = minted[s.tok]
  BY DEF SignedInBy
<1>2. s.tok \in Tokens /\ RouteTypes
  BY <1>1, TypeParts DEF HasTokens, State, BffSafe
<1>3. BeganBy(s.tok, b)' /\ minted'[s.tok] = minted[s.tok]
  BY <1>1, <1>2, BegunForGood DEF Onward
<1>4. QED
  BY <1>1, <1>3 DEF SignedInBy

\* An expiry computed at t leaves an attempt begun before t its time, or is the end
\* of the lifetime.
LEMMA LongEnough ==
  ASSUME NEW s \in State, NEW t \in Instants, NEW at \in Instants, at <= t,
         NEW e, e = EffectiveExpiry(s, t), e # None
  PROVE  \/ e >= at + AtMost(PostAuthTtl, PreAuthTtl)
         \/ HasSub(s) /\ e >= s.loginAt + MaxLifetime
<1>1. AtMost(PostAuthTtl, PreAuthTtl) \in Int /\ AtMost(PostAuthTtl, PreAuthTtl) <= PostAuthTtl
      /\ PostAuthTtl \in Int /\ t \in Int /\ at \in Int
  BY ExpiryAssumption DEF AtMost, Instants
<1>2. CASE ~HasSub(s)
  <2>1. e = t + AtMost(PostAuthTtl, PreAuthTtl)
    BY <1>2 DEF EffectiveExpiry
  <2>2. QED
    BY <1>1, <2>1
<1>3. CASE HasSub(s)
  <2>1. PICK h : h = HardCapExpiry(s, t)
    OBVIOUS
  <2>2. h # None /\ e = AtMost(t + PostAuthTtl, h)
    BY <1>3, <2>1 DEF EffectiveExpiry
  <2>3. h = s.loginAt + MaxLifetime /\ h \in Int
    BY <2>1, <2>2, ExpiryAssumption DEF HardCapExpiry, State, Instants
  <2>4. e = t + PostAuthTtl \/ e = h
    BY <2>2 DEF AtMost
  <2>5. e = t + PostAuthTtl => e >= at + AtMost(PostAuthTtl, PreAuthTtl)
    BY <1>1
  <2>6. QED
    BY <1>3, <2>3, <2>4, <2>5
<1>4. QED
  BY <1>2, <1>3

LEMMA WrittenLasts ==
  ASSUME BffSafe, Onward, NEW i \in 1..Len(opened'), opened'[i].at \in Instants, opened'[i].at <= now,
         NEW s \in State, NEW b, b = opened'[i].by, SignedInBy(s, b)',
         NEW e, e = EffectiveExpiry(s, now), e # None
  PROVE  Lasting(e, i)'
<1>1. now \in Instants
  BY DEF BffSafe, Safe, TypeOK
<1>2. CASE e >= opened'[i].at + AtMost(PostAuthTtl, PreAuthTtl)
  BY <1>2 DEF Lasting
<1>3. CASE HasSub(s) /\ e >= s.loginAt + MaxLifetime
  <2>1. /\ HasTokens(s) /\ BeganBy(s.tok, b)' /\ minted'[s.tok] # None /\ s.loginAt = minted'[s.tok]
    BY <1>3 DEF SignedInBy
  <2>2. PICK t \in Tokens : t = s.tok
    BY <2>1 DEF HasTokens, State
  <2>3. BeganBy(t, b)' /\ minted'[t] # None /\ e >= minted'[t] + MaxLifetime
    BY <1>3, <2>1, <2>2
  <2>4. QED
    BY <2>3 DEF Lasting, BeganBy
<1>4. QED
  BY <1>1, <1>2, <1>3, LongEnough

\* A session whose browser has no login past its lifetime is not dead.
LEMMA SessionIsLive ==
  ASSUME BffSafe, MintedPast, NEW s \in State, NEW b, SignedInBy(s, b), ~LifetimeEnded(b)
  PROVE  EffectiveExpiry(s, now) # None /\ (HasSub(s) => HardCapExpiry(s, now) # None)
<1>1. now \in Instants /\ minted \in [Tokens -> Instants \cup {None}]
  BY DEF BffSafe, Safe, TypeOK
<1>2. CASE ~HasSub(s)
  <2>1. EffectiveExpiry(s, now) \in Int
    BY <1>1, <1>2, ExpiryAssumption DEF EffectiveExpiry, AtMost, Instants
  <2>2. QED
    BY <1>2, <2>1, ExpiryAssumption
<1>3. CASE HasSub(s)
  <2>1. /\ HasTokens(s) /\ BeganBy(s.tok, b) /\ minted[s.tok] # None /\ s.loginAt = minted[s.tok]
    BY <1>3 DEF SignedInBy
  <2>2. PICK t \in Tokens : t = s.tok
    BY <2>1 DEF HasTokens, State
  <2>3. /\ minted[t] \in Nat /\ minted[t] <= now /\ ~(minted[t] + MaxLifetime <= now)
    BY <1>1, <2>1, <2>2 DEF MintedPast, LifetimeEnded, Instants
  <2>4. HardCapExpiry(s, now) \in Int
    BY <1>1, <2>1, <2>2, <2>3, ExpiryAssumption, StateAssumption DEF HardCapExpiry, Instants
  <2>5. EffectiveExpiry(s, now) \in Int
    BY <1>1, <1>3, <2>4, ExpiryAssumption DEF EffectiveExpiry, AtMost, Instants
  <2>6. QED
    BY <2>4, <2>5, ExpiryAssumption
<1>4. QED
  BY <1>2, <1>3

LEMMA LastingIsLive ==
  ASSUME BffSafe, NEW i \in 1..Len(opened), Awaited(i), NEW e \in Instants, Lasting(e, i)
  PROVE  e > now
<1>1. /\ now \in Instants /\ minted \in [Tokens -> Instants \cup {None}] /\ MaxLifetime \in Int
      /\ opened[i] \in Opened
  BY TypeParts, ElementOfSeq, ExpiryAssumption DEF BffSafe, Safe, TypeOK, RouteTypes
<1>2. CASE e >= opened[i].at + AtMost(PostAuthTtl, PreAuthTtl)
  <2>1. now - opened[i].at < AtMost(PostAuthTtl, PreAuthTtl)
    BY DEF Awaited
  <2>2. opened[i].at \in Int /\ AtMost(PostAuthTtl, PreAuthTtl) \in Int /\ now \in Int /\ e \in Int
    BY <1>1, ExpiryAssumption DEF Opened, Instants, AtMost
  <2>3. QED
    BY <1>2, <2>1, <2>2
<1>3. ASSUME NEW t \in Tokens, BeganBy(t, opened[i].by), minted[t] # None, e >= minted[t] + MaxLifetime
      PROVE  e > now
  <2>1. ~(minted[t] + MaxLifetime <= now)
    BY <1>3 DEF Awaited, LifetimeEnded
  <2>2. minted[t] \in Int /\ now \in Int /\ e \in Int
    BY <1>1, <1>3 DEF Instants
  <2>3. QED
    BY <1>1, <1>3, <2>1, <2>2
<1>4. QED
  BY <1>2, <1>3 DEF Lasting

\* Only an answer of the store makes a cookie, and only a step of the store a row.
LEMMA OutsideHolders ==
  ASSUME BffSafe, OwnSafe, [BffNext]_bffVars, ~\E r \in Requests : Serve(r)
  PROVE  /\ NoNewHolders /\ UNCHANGED birth
         /\ \A k \in Keys : rows'[k] # NoRow => rows'[k] = rows[k]
<1> DEFINE goal ==
      /\ NoNewHolders /\ UNCHANGED birth
      /\ \A k \in Keys : rows'[k] # NoRow => rows'[k] = rows[k]
<1>1. /\ Safe /\ RouteTypes /\ rows \in [Keys -> Row \cup {NoRow}] /\ call \in [Requests -> Call]
  BY TypeParts DEF BffSafe, Safe, TypeOK
<1>2. ASSUME NEW r \in Requests, Handler(r) PROVE goal
  <2>1. UNCHANGED <<rows, birth, jar, reply>>
    BY <1>2, HandlerRefines
    DEF Handler, Login, CallbackStray, CallbackError, CallbackStart, Exchange, CallbackFail,
        CallbackFinish, LogoutStart, Revoke, LogoutFinish, Me, Ends, storeVars, vars, idpVars
  <2>2. \A q \in Requests : call'[q].key \in {call[q].key, NoKey}
    BY <1>2, HandlerWork, OthersStay
  <2>3. QED
    BY <2>1, <2>2, OwnHeld, StoreAssumption DEF NoNewHolders
<1>3. ASSUME NEW r \in Requests, Send(r) PROVE goal
  <2>1. UNCHANGED <<rows, birth, jar, reply>> /\ Begin(r, jar[Owner[r]])
    BY <1>3 DEF Send, Begin
  <2>2. call'[r].key \in {jar[Owner[r]], NoKey}
    BY <1>1, <2>1, GotoIs DEF Begin, NoSession
  <2>3. \A q \in Requests \ {r} : call'[q] = call[q]
    BY <1>3, OthersStay
  <2>4. QED
    BY <2>1, <2>2, <2>3, OwnHeld, StoreAssumption, FlowAssumption DEF NoNewHolders
<1>4. CASE \/ \E r \in Requests : Deliver(r) \/ CutOff(r)
           \/ \E a \in Tokens : Authenticate(a)
           \/ Environment \/ UNCHANGED bffVars
  <2>1. UNCHANGED birth /\ \A k \in Keys : rows'[k] # NoRow => rows'[k] = rows[k]
    BY <1>1, <1>4
    DEF Deliver, CutOff, Abort, Authenticate, Environment, Tick, Sweep, Delete, bffVars, vars
  <2>2. \A q \in Requests : call'[q] = call[q] \/ call'[q] = Idle
    BY <1>1, <1>4
    DEF Deliver, CutOff, Abort, Return, Authenticate, Environment, Tick, Sweep, bffVars, vars
  <2>3. \A q \in Requests : call'[q].key \in Keys => Holds(Owner[q], call'[q].key)
    BY <2>2, OwnHeld, StoreAssumption DEF Idle
  <2>4. CASE \E r \in Requests : Deliver(r)
    <3>1. PICK r \in Requests : Deliver(r)
      BY <2>4
    <3>2. \A b \in Browsers : jar'[b] = jar[b] \/ (b = Owner[r] /\ jar'[b] = reply[r])
      BY <1>1, <3>1 DEF Deliver, RouteTypes
    <3>3. \A q \in Requests : reply'[q] = reply[q] \/ reply'[q] = Nothing
      BY <1>1, <3>1 DEF Deliver, RouteTypes
    <3>4. QED
      BY <2>1, <2>3, <3>2, <3>3, OwnHeld, FlowAssumption DEF NoNewHolders
  <2>5. CASE ~\E r \in Requests : Deliver(r)
    <3>1. UNCHANGED jar /\ \A q \in Requests : reply'[q] = reply[q] \/ reply'[q] = Nothing
      BY <1>1, <1>4, <2>5 DEF CutOff, Abort, Authenticate, Environment, bffVars, RouteTypes
    <3>2. QED
      BY <2>1, <2>3, <3>1, OwnHeld, FlowAssumption DEF NoNewHolders
  <2>6. QED
    BY <2>4, <2>5
<1>5. QED
  BY <1>2, <1>3, <1>4 DEF BffNext

-----------------------------------------------------------------------------
(* Who is signed in in the session of a browser.                             *)

\* A request that holds a login of its browser goes on with it, or with none.
LEMMA SignedLike ==
  ASSUME BffSafe, Onward, NEW r \in Requests, NEW s \in State, SignedInBy(s, Owner[r]),
         NEW t, t = call'[r].state,
         \/ t = EmptyState \/ t = InjectLoginAtIfMissing(s, now)
         \/ t.sub = s.sub /\ t.tok = s.tok /\ t.loginAt = s.loginAt
  PROVE  CallSigned(r)'
<1>1. PICK b : b = Owner[r]
  OBVIOUS
<1>2. SignedInBy(s, b)'
  BY <1>1, SignedForGood
<1>3. HasSub(s) => /\ s.tok # NoTok /\ BeganBy(s.tok, b)' /\ minted'[s.tok] # None
                   /\ s.loginAt = minted'[s.tok]
  BY <1>2 DEF SignedInBy, HasTokens, BeganBy
<1>4. HasSub(s) => s.loginAt # Missing
  <2> SUFFICES ASSUME HasSub(s) PROVE s.loginAt # Missing
    OBVIOUS
  <2>1. s.tok \in Tokens /\ minted[s.tok] # None /\ s.loginAt = minted[s.tok]
        /\ minted \in [Tokens -> Instants \cup {None}]
    BY DEF SignedInBy, HasTokens, State, BffSafe, Safe, TypeOK
  <2>2. QED
    BY <2>1, StateAssumption DEF Instants
<1>5. t = EmptyState \/ (t.sub = s.sub /\ t.tok = s.tok /\ t.loginAt = s.loginAt)
  BY <1>4 DEF InjectLoginAtIfMissing
<1>6. t.sub # NoSub => /\ t.tok # NoTok /\ BeganBy(t.tok, b)' /\ minted'[t.tok] # None
                       /\ t.loginAt = minted'[t.tok]
  BY <1>3, <1>5 DEF HasSub, EmptyState
<1>7. QED
  BY <1>1, <1>6 DEF CallSigned, SignedInBy, HasSub, HasTokens, BeganBy

\* A handler that writes slots back, or nothing.
LEMMA SignedSlots ==
  ASSUME BffSafe, Onward, NEW r \in Requests, CallSigned(r),
         \/ \E x \in Rests : FinishChanged(r, WithSlots(call[r].state, x))
         \/ FinishUnchanged(r) \/ FinishPurged(r) \/ UNCHANGED call
  PROVE  CallSigned(r)'
<1>1. Safe /\ call[r].state \in State
  BY OfHandler DEF BffSafe
<1>2. SignedInBy(call[r].state, Owner[r])
  BY DEF CallSigned
<1>3. CASE \E x \in Rests : FinishChanged(r, WithSlots(call[r].state, x))
  <2>1. PICK x \in Rests : FinishChanged(r, WithSlots(call[r].state, x))
    BY <1>3
  <2>2. PICK s \in State : /\ s = WithSlots(call[r].state, x) /\ s.sub = call[r].state.sub
                           /\ s.tok = call[r].state.tok /\ s.loginAt = call[r].state.loginAt
    BY <1>1, WithSlotsFacts DEF State
  <2>3. SignedInBy(s, Owner[r])
    BY <1>2, <2>2 DEF SignedInBy, HasSub, HasTokens
  <2>4. call'[r].state \in {s, EmptyState, InjectLoginAtIfMissing(s, now)}
    <3>1. CASE Return(r)
      BY <1>1, <3>1, ReturnIs DEF Empties
    <3>2. CASE StartSave(r, s)
      BY <1>1, <3>2, StartSaveIs
    <3>3. CASE StartUpdate(r, call[r].key, s)
      BY <1>1, <3>3, GotoIs DEF StartUpdate
    <3>4. QED
      BY <2>1, <2>2, <3>1, <3>2, <3>3 DEF FinishChanged
  <2>5. QED
    BY <2>3, <2>4, SignedLike
<1>4. CASE FinishUnchanged(r) \/ FinishPurged(r)
  BY <1>1, <1>2, <1>4, LeavesNothing, SignedLike
<1>5. CASE UNCHANGED call
  BY <1>1, <1>2, <1>5, SignedLike
<1>6. QED
  BY <1>3, <1>4, <1>5

\* A callback signs in whom its own browser sent to the provider.
LEMMA SignedFinish ==
  ASSUME BffSafe, OwnSafe, NEW r \in Requests, CallbackFinish(r)
  PROVE  CallSigned(r)'
<1> DEFINE f == flow[r]
           w == WithSlots(call[r].state, f.rest)
           s == LoggedIn(w, answer[f.code].sub, f.code, now)
<1>1. /\ f.at = "verify" /\ FinishRenewed(r, s) /\ UNCHANGED opened
      /\ minted' = [minted EXCEPT ![f.code] = now]
  BY DEF CallbackFinish
<1>2. /\ Safe /\ RouteTypes /\ OwnWork(r) /\ FlowOK(r) /\ now \in Instants
      /\ minted \in [Tokens -> Instants \cup {None}]
  BY TypeParts, OfHandler DEF BffSafe, OwnSafe, Safe, TypeOK
<1>3. f.code \in Tokens /\ answer[f.code] # None /\ answer[f.code].sub \in Subjects
  BY <1>1, <1>2 DEF FlowOK, RouteTypes
<1>4. w \in State
  BY OfHandler, WithSlotsFacts
<1>5. s \in State /\ s.loginAt = now /\ s.tok = f.code
  BY <1>2, <1>3, <1>4, LoggedInFacts
<1>6. call'[r].state = s
  BY <1>1, <1>2, <1>5, FinishIs
<1>7. BeganBy(f.code, Owner[r]) /\ minted'[f.code] = now /\ now # None /\ f.code # NoTok
  <2>1. f.slot \in SlotsBegunBy(Owner[r]) /\ f.slot.attempt = f.code
    BY <1>1, <1>2 DEF OwnWork
  <2>2. BeganBy(f.code, Owner[r])
    BY <2>1 DEF SlotsBegunBy, BeganBy
  <2>3. QED
    BY <1>1, <1>2, <1>3, <2>2, StateAssumption, ExpiryAssumption DEF Instants
<1> HIDE DEF s, f
<1>8. QED
  BY <1>1, <1>5, <1>6, <1>7 DEF CallSigned, SignedInBy, HasTokens, BeganBy

LEMMA SignedHandler ==
  ASSUME BffSafe, OwnSafe, Onward, NEW r \in Requests, CallSigned(r), Handler(r)
  PROVE  CallSigned(r)'
<1>1. LiveSlots(call[r].state) \in SlotVectors /\ flow[r].rest \in Rests /\ SlotVectors \subseteq Rests
  BY OfHandler, VectorsAreRests
<1>2. CASE \E a \in Tokens, up \in StepUps : Login(r, a, up)
  <2>1. PICK a \in Tokens, up \in StepUps : Login(r, a, up)
    BY <1>2
  <2>2. PICK slot : slot = [attempt |-> a, started |-> now, stepUp |-> up]
    OBVIOUS
  <2>3. slot \in Slot
    BY <2>2, OfHandler DEF Slot
  <2>4. PushPreAuth(LiveSlots(call[r].state), slot) \in Rests
    BY <1>1, <2>3, PushPreAuthTyped
  <2>5. FinishChanged(r, WithSlots(call[r].state, PushPreAuth(LiveSlots(call[r].state), slot)))
    BY <2>1, <2>2 DEF Login
  <2>6. QED
    BY <2>4, <2>5, SignedSlots
<1>3. CASE CallbackStray(r) \/ CallbackFail(r)
  BY <1>1, <1>3, SignedSlots DEF CallbackStray, CallbackFail
<1>4. CASE \E a \in Tokens : CallbackError(r, a)
  <2>1. PICK a \in Tokens : CallbackError(r, a)
    BY <1>4
  <2>2. Without(LiveSlots(call[r].state), a) \in Rests
    BY <1>1, HelpersTyped
  <2>3. QED
    BY <2>1, <2>2, SignedSlots DEF CallbackError
<1>5. CASE CallbackFinish(r)
  BY <1>5, SignedFinish
<1>6. CASE LogoutFinish(r) \/ Me(r)
  BY <1>6, SignedSlots DEF LogoutFinish, Me
<1>7. CASE \/ \E a \in Tokens, code \in Attempts : CallbackStart(r, a, code)
           \/ Exchange(r) \/ LogoutStart(r) \/ Revoke(r)
  <2>1. UNCHANGED call
    BY <1>7 DEF CallbackStart, Exchange, LogoutStart, Revoke, vars
  <2>2. QED
    BY <2>1, SignedSlots
<1>8. QED
  BY <1>2, <1>3, <1>4, <1>5, <1>6, <1>7 DEF Handler

\* The store hands a request what it had, or the row of its key.
LEMMA SignedServe ==
  ASSUME BffSafe, OwnSafe, SignedSafe, Onward, NEW r \in Requests, StoreStep(r)
  PROVE  CallSigned(r)'
<1>1. Safe /\ call[r].state \in State /\ RequestStep(r) /\ Owner[r] \in Browsers
  BY OfHandler DEF BffSafe, RequestStep
<1>2. SignedInBy(call[r].state, Owner[r])
  BY DEF SignedSafe, CallSigned
<1>3. CASE RenewDelete(r)
  <2>1. call'[r].state = InjectLoginAtIfMissing(call[r].state, now)
    BY <1>1, <1>3, StartSaveIs DEF RenewDelete
  <2>2. QED
    BY <1>1, <1>2, <2>1, SignedLike
<1>4. CASE call'[r].state \in {call[r].state, EmptyState}
  BY <1>1, <1>2, <1>4, SignedLike
<1>5. CASE LoadGet(r) \/ TtlGet(r)
  <2>1. PICK k \in Keys : k = call[r].key
    BY <1>1, <1>5, OfRequest DEF LoadGet, TtlGet, CallSafe, CopyDescends, KeyPcs
  <2>2. call'[r].state = EmptyState \/ (rows[k] # NoRow /\ call'[r].state = rows[k].state)
    BY <1>1, <1>5, <2>1, GotoIs, ReturnIs, NoSessionIs DEF LoadGet, TtlGet, Empties
  <2>3. rows[k] # NoRow => rows[k].state \in State /\ SignedInBy(rows[k].state, Owner[r])
    <3>1. Holds(Owner[r], k) /\ rows \in [Keys -> Row \cup {NoRow}]
      BY <1>1, <2>1, OwnHeld DEF Safe, TypeOK
    <3>2. QED
      BY <1>1, <3>1 DEF SignedSafe, RowSigned, Row
  <2>4. QED
    BY <1>4, <2>2, <2>3, SignedLike
<1>6. CASE ~RenewDelete(r) /\ ~LoadGet(r) /\ ~TtlGet(r)
  <2>1. ASSUME Return(r) \/ NoSession(r) PROVE call'[r].state = EmptyState
    BY <1>1, <2>1, ReturnIs, NoSessionIs DEF Empties
  <2>2. ASSUME NEW pc, NEW k, NEW s, NEW e, Goto(r, pc, k, s, e) PROVE call'[r].state = s
    BY <1>1, <2>2, GotoIs
  <2>3. QED
    BY <1>4, <1>6, <2>1, <2>2
    DEF StoreStep, LoadCheck, LoadDelete, Insert, SaveRefused, UpdateRow, DeadDelete, PurgeDelete,
        TtlCheck, TtlDelete, Touch
<1>7. QED
  BY <1>3, <1>5, <1>6

\* A row that was not there before is that of its only holder, who wrote it.
LEMMA SignedRows ==
  ASSUME BffSafe, OwnSafe, OwnSafe', SignedSafe, Onward, NEW r \in Requests, Serve(r),
         NEW k \in Keys, NEW b \in Browsers, Holds(b, k)', rows'[k] # NoRow,
         NEW s, s = rows'[k].state
  PROVE  SignedInBy(s, b)'
<1>1. /\ Safe /\ RouteTypes /\ StoreStep(r) /\ RequestStep(r) /\ call[r].state \in State
      /\ Owner[r] \in Browsers /\ CallSigned(r) /\ rows \in [Keys -> Row \cup {NoRow}]
  BY TypeParts, OfHandler DEF BffSafe, Serve, RequestStep, SignedSafe, Safe, TypeOK
<1>2. CASE birth'[k] = birth[k]
  <2>1. Holds(b, k) /\ OwnKey(k, b)
    BY <1>2, CookieHeld DEF OwnSafe
  <2>2. CASE rows[k] # NoRow /\ s = rows[k].state
    <3>1. s \in State /\ SignedInBy(s, b)
      BY <1>1, <2>1, <2>2 DEF SignedSafe, RowSigned, Row
    <3>2. QED
      BY <3>1, SignedForGood
  <2>3. CASE call[r].key = k /\ s = call[r].state
    <3>1. Owner[r] = b
      BY <1>1, <2>1, <2>3, OwnHeld DEF OwnKey
    <3>2. SignedInBy(s, b)
      BY <1>1, <2>3, <3>1 DEF CallSigned
    <3>3. QED
      BY <1>1, <2>3, <3>2, SignedForGood
  <2>4. Issued(k)
    BY <2>1 DEF OwnKey
  <2>5. call[r].pc \in {"save", "fallback"} => rows'[k] = rows[k]
    <3>1. SUFFICES ASSUME call[r].pc \in {"save", "fallback"} PROVE rows'[k] = rows[k]
      OBVIOUS
    <3>2. Insert(r) \/ SaveRefused(r)
      BY <1>1, <3>1 DEF StoreStep, LoadGet, LoadCheck, LoadDelete, UpdateRow, DeadDelete,
         RenewDelete, PurgeDelete, TtlGet, TtlCheck, TtlDelete, Touch
    <3>3. QED
      BY <1>1, <2>4, <3>1, <3>2 DEF Insert, SaveRefused, FreshKeys
  <2>6. \/ rows[k] # NoRow /\ s = rows[k].state
        \/ call[r].key = k /\ s = call[r].state
    <3>1. Remains(k) \/ Written(r, k)
      BY <1>1, RequestRows
    <3>2. QED
      BY <2>5, <3>1 DEF Remains, Written
  <2>7. QED
    BY <2>2, <2>3, <2>6
<1>3. CASE birth'[k] # birth[k]
  <2>1. Insert(r)
    BY <1>1, <1>3 DEF StoreStep, LoadGet, LoadCheck, LoadDelete, SaveRefused, UpdateRow, DeadDelete,
       RenewDelete, PurgeDelete, TtlGet, TtlCheck, TtlDelete, Touch
  <2>2. PICK j \in FreshKeys :
          /\ rows' = [rows EXCEPT ![j] = [state |-> call[r].state, expiresAt |-> call[r].exp]]
          /\ birth' = [birth EXCEPT ![j] = call[r].state]
    BY <2>1 DEF Insert
  <2>3. j = k /\ birth \in [Keys -> State \cup {None}]
    BY <1>1, <1>3, <2>2 DEF Safe, TypeOK
  <2>4. s = call[r].state
    BY <1>1, <2>2, <2>3
  <2>5. SetCookie(r) = k
    <3>1. call'[r].pc = "idle"
      BY <1>1, <2>1 DEF Insert, Return, Idle, Safe, TypeOK
    <3>2. \A x \in Keys : birth'[x] # birth[x] <=> x = k
      BY <1>3, <2>2, <2>3
    <3>3. birth' # birth /\ (CHOOSE x \in Keys : birth'[x] # birth[x]) = k
      BY <3>2
    <3>4. QED
      BY <3>1, <3>3 DEF SetCookie
  <2>6. Holds(Owner[r], k)'
    BY <1>1, <2>5 DEF Serve, RouteTypes, Holds
  <2>7. Owner[r] = b
    BY <1>1, <2>6 DEF OwnSafe, OwnKey
  <2>8. SignedInBy(s, b)
    BY <1>1, <2>4, <2>7 DEF CallSigned
  <2>9. QED
    BY <1>1, <2>4, <2>8, SignedForGood
<1>4. QED
  BY <1>2, <1>3

LEMMA SignedStep == BffSafe /\ OwnSafe /\ SignedSafe /\ [BffNext]_bffVars => SignedSafe'
<1> SUFFICES ASSUME BffSafe, OwnSafe, SignedSafe, [BffNext]_bffVars PROVE SignedSafe'
  OBVIOUS
<1>1. /\ Onward /\ OwnSafe' /\ Safe /\ RouteTypes /\ now \in Int
      /\ minted \in [Tokens -> Instants \cup {None}] /\ rows \in [Keys -> Row \cup {NoRow}]
  BY StepsOnward, OwnStep, TypeParts DEF BffSafe, Safe, TypeOK, Instants
<1>2. MintedPast'
  <2>1. CASE UNCHANGED minted
    <3>1. \A t \in Tokens : minted[t] # None => minted[t] \in Int /\ minted[t] <= now
      BY <1>1 DEF SignedSafe, MintedPast, Instants
    <3>2. QED
      BY <1>1, <2>1, <3>1 DEF MintedPast, Onward
  <2>2. CASE \E r \in Requests : CallbackFinish(r)
    <3>1. UNCHANGED now /\ \E t : minted' = [minted EXCEPT ![t] = now]
      BY <2>2 DEF CallbackFinish
    <3>2. QED
      BY <1>1, <3>1 DEF SignedSafe, MintedPast
  <2>3. ASSUME NEW r \in Requests, Serve(r) PROVE UNCHANGED minted
    BY <1>1, <2>3, StoreStepBirths DEF Serve
  <2>4. ASSUME NEW r \in Requests, Handler(r), ~CallbackFinish(r) PROVE UNCHANGED minted
    BY <2>4
    DEF Handler, Login, CallbackStray, CallbackError, CallbackStart, Exchange, CallbackFail,
        LogoutStart, Revoke, LogoutFinish, Me, storeVars, vars
  <2>5. ASSUME NEW r \in Requests, Send(r) \/ Deliver(r) \/ CutOff(r) PROVE UNCHANGED minted
    BY <2>5 DEF Send, Begin, Deliver, CutOff, Abort, vars
  <2>6. CASE (\E a \in Tokens : Authenticate(a)) \/ Environment \/ UNCHANGED bffVars
    BY <2>6, <2>1 DEF Authenticate, Environment, Tick, Sweep, storeVars, bffVars, vars
  <2>7. QED
    BY <2>1, <2>2, <2>3, <2>4, <2>5, <2>6 DEF BffNext
<1>3. ASSUME NEW k \in Keys, NEW b \in Browsers PROVE RowSigned(k, b)'
  <2> SUFFICES ASSUME Holds(b, k)', rows'[k] # NoRow PROVE SignedInBy(rows[k].state, b)'
    BY DEF RowSigned
  <2>1. PICK s : s = rows'[k].state
    OBVIOUS
  <2>2. SignedInBy(s, b)'
    <3>1. CASE \E r \in Requests : Serve(r)
      BY <1>1, <2>1, <3>1, SignedRows
    <3>2. CASE ~\E r \in Requests : Serve(r)
      <4>1. Holds(b, k) /\ rows'[k] = rows[k]
        BY <3>2, OutsideHolders, HoldersStay
      <4>2. s \in State /\ SignedInBy(s, b)
        BY <1>1, <2>1, <4>1 DEF SignedSafe, RowSigned, Row
      <4>3. QED
        BY <1>1, <4>2, SignedForGood
    <3>3. QED
      BY <3>1, <3>2
  <2>3. QED
    BY <2>1, <2>2 DEF SignedInBy, BeganBy, HasSub, HasTokens
<1>4. ASSUME NEW r \in Requests PROVE CallSigned(r)'
  <2>1. CallSigned(r) /\ call[r].state \in State
    BY OfHandler DEF SignedSafe
  <2>2. CASE call'[r].state \in {call[r].state, EmptyState}
    BY <1>1, <2>1, <2>2, SignedLike DEF CallSigned
  <2>3. CASE Handler(r) \/ Serve(r)
    BY <1>1, <2>1, <2>3, SignedHandler, SignedServe DEF Serve
  <2>4. ASSUME NEW q \in Requests \ {r}, Send(q) \/ Handler(q) \/ Serve(q) PROVE call'[r] = call[r]
    BY <2>4, OthersStay
  <2>5. CASE Send(r)
    <3>1. Begin(r, jar[Owner[r]])
      BY <2>5 DEF Send
    <3>2. call'[r].state = EmptyState
      BY <1>1, <3>1, GotoIs DEF Begin, NoSession
    <3>3. QED
      BY <2>2, <3>2
  <2>6. CASE \/ \E q \in Requests : Deliver(q) \/ CutOff(q)
             \/ \E a \in Tokens : Authenticate(a)
             \/ Environment \/ UNCHANGED bffVars
    <3>1. call'[r] \in {call[r], Idle}
      <4>1. call \in [Requests -> Call]
        BY <1>1 DEF Safe, TypeOK
      <4>2. QED
        BY <4>1, <2>6
        DEF Deliver, CutOff, Abort, Return, Authenticate, Environment, Tick, Sweep, bffVars, vars
    <3>2. QED
      BY <2>2, <3>1 DEF Idle
  <2>7. QED
    BY <2>2, <2>3, <2>4, <2>5, <2>6 DEF BffNext
<1>5. QED
  BY <1>2, <1>3, <1>4 DEF SignedSafe

LEMMA SignedInit == BffInit => SignedSafe
<1> SUFFICES ASSUME BffInit PROVE SignedSafe
  OBVIOUS
<1>1. /\ \A t \in Tokens : minted[t] = None
      /\ \A r \in Requests : call[r] = Idle /\ reply[r] = Nothing
      /\ \A b \in Browsers : jar[b] = NoKey
  BY DEF BffInit, Init
<1>2. \A k \in Keys, b \in Browsers : ~Holds(b, k)
  BY <1>1, StoreAssumption, FlowAssumption DEF Holds, Idle
<1>3. QED
  BY <1>1, <1>2 DEF SignedSafe, MintedPast, RowSigned, CallSigned, SignedInBy, Idle, EmptyState, HasSub

-----------------------------------------------------------------------------
(* Rows that requests rely on.                                               *)

\* A step of the store leaves every row alone but that of its key.
LEMMA StrangersKeep ==
  ASSUME Safe, NEW r \in Requests, StoreStep(r), NEW k \in Keys, Issued(k), call[r].key # k
  PROVE  rows'[k] = rows[k]
<1>1. rows \in [Keys -> Row \cup {NoRow}]
  BY DEF Safe, TypeOK
<1>2. CASE LoadDelete(r) \/ DeadDelete(r) \/ RenewDelete(r) \/ PurgeDelete(r) \/ TtlDelete(r)
  <2>1. Delete(call[r].key) \/ UNCHANGED rows
    BY <1>2 DEF LoadDelete, DeadDelete, RenewDelete, PurgeDelete, TtlDelete, BestEffortDelete
  <2>2. QED
    BY <1>1, <2>1 DEF Delete
<1>3. CASE Insert(r)
  BY <1>1, <1>3 DEF Insert, FreshKeys
<1>4. CASE UpdateRow(r)
  BY <1>1, <1>4 DEF UpdateRow
<1>5. CASE Touch(r)
  BY <1>1, <1>5 DEF Touch
<1>6. QED
  BY <1>2, <1>3, <1>4, <1>5 DEF StoreStep, LoadGet, LoadCheck, SaveRefused, TtlGet, TtlCheck

\* Only the request of a browser touches the rows the browser holds the key of.
LEMMA HeldRowsStay ==
  ASSUME OneAtATime, NoFaults, BffSafe, OwnSafe, [BffNext]_bffVars,
         NEW r \in Requests, ~Serve(r), NEW k \in Keys, Holds(Owner[r], k)
  PROVE  rows'[k] = rows[k]
<1>1. /\ Safe /\ Owner[r] \in Browsers /\ OwnKey(k, Owner[r]) /\ Issued(k)
  BY OfHandler DEF BffSafe, OwnSafe, OwnKey
<1>2. ASSUME NEW q \in Requests, Serve(q) PROVE rows'[k] = rows[k]
  <2>1. q # r /\ Owner[q] # Owner[r] /\ Owner[q] \in Browsers /\ StoreStep(q)
    BY <1>2, OfHandler DEF OneAtATime, Serve
  <2>2. call[q].key # k
    BY <1>1, <2>1, OwnHeld DEF OwnKey
  <2>3. QED
    BY <1>1, <2>1, <2>2, StrangersKeep
<1>3. CASE ~\E q \in Requests : Serve(q)
  <2>1. UNCHANGED rows
    <3>1. ASSUME NEW q \in Requests, Handler(q) PROVE UNCHANGED rows
      BY <3>1
      DEF Handler, Login, CallbackStray, CallbackError, CallbackStart, Exchange, CallbackFail,
          CallbackFinish, LogoutStart, Revoke, LogoutFinish, Me, storeVars, vars
    <3>2. QED
      BY <1>3, <3>1
      DEF NoFaults, BffNext, Send, Begin, Deliver, CutOff, Abort, Authenticate, Environment, Tick,
          Sweep, bffVars, vars
  <2>2. QED
    BY <2>1
<1>4. QED
  BY <1>2, <1>3

\* A step of somebody else leaves a request, its browser and its rows alone.
LEMMA BystanderStays ==
  ASSUME OneAtATime, NoFaults, BffSafe, OwnSafe, [BffNext]_bffVars, NEW r \in Requests,
         ~(Send(r) \/ Handler(r) \/ Serve(r) \/ Deliver(r))
  PROVE  /\ call'[r] = call[r] /\ flow'[r] = flow[r] /\ reply'[r] = reply[r]
         /\ jar'[Owner[r]] = jar[Owner[r]]
<1>1. RouteTypes /\ Safe
  BY TypeParts DEF BffSafe
<1>2. ASSUME NEW q \in Requests, q # r, Send(q) \/ Handler(q) \/ Serve(q) \/ Deliver(q)
      PROVE  /\ reply'[r] = reply[r] /\ jar'[Owner[r]] = jar[Owner[r]]
  <2>1. Owner[q] # Owner[r]
    BY <1>2 DEF OneAtATime
  <2>2. CASE Send(q)
    BY <2>2 DEF Send
  <2>3. CASE Handler(q)
    BY <2>3
    DEF Handler, Login, CallbackStray, CallbackError, CallbackStart, Exchange, CallbackFail,
        CallbackFinish, LogoutStart, Revoke, LogoutFinish, Me, Ends
  <2>4. CASE Serve(q)
    BY <1>1, <1>2, <2>4 DEF Serve, RouteTypes
  <2>5. CASE Deliver(q)
    BY <1>1, <1>2, <2>1, <2>5 DEF Deliver, RouteTypes
  <2>6. QED
    BY <1>2, <2>2, <2>3, <2>4, <2>5
<1>3. ASSUME NEW q \in Requests, q # r, Send(q) \/ Handler(q) \/ Serve(q) \/ Deliver(q)
      PROVE  call'[r] = call[r] /\ flow'[r] = flow[r]
  BY <1>3, OthersStay DEF Deliver, vars
<1>4. CASE ~\E q \in Requests : Send(q) \/ Handler(q) \/ Serve(q) \/ Deliver(q)
  BY <1>4 DEF NoFaults, BffNext, CutOff, Abort, Authenticate, Environment, Tick, Sweep, bffVars, vars
<1>5. QED
  BY <1>2, <1>3, <1>4

\* A handler that holds a copy of a row has the row.
LEMMA HeldStep ==
  ASSUME OneAtATime, NoFaults, BffSafe, OwnSafe, [BffNext]_bffVars, NEW r \in Requests, RowHeld(r)
  PROVE  RowHeld(r)'
<1>1. /\ RouteTypes /\ Safe /\ FlowOK(r) /\ (call[r].key # NoKey => call[r].key \in Keys)
  BY TypeParts, OfHandler, OfRequest DEF BffSafe
<1>2. CASE ~Serve(r) /\ call'[r].key = call[r].key
             /\ (call'[r].pc = call[r].pc \/ call[r].pc \in {"check", "handling", "update"})
  <2>1. call[r].key # NoKey => rows'[call[r].key] = rows[call[r].key]
    BY <1>1, <1>2, HeldRowsStay, OwnHeld
  <2>2. QED
    BY <1>2, <2>1 DEF RowHeld
<1>3. CASE call'[r].key = NoKey \/ call'[r].pc \notin {"check", "handling", "update"}
  BY <1>3 DEF RowHeld
<1>4. CASE ~(Send(r) \/ Handler(r) \/ Serve(r) \/ Deliver(r))
  BY <1>2, <1>4, BystanderStays
<1>5. CASE Deliver(r)
  <2>1. UNCHANGED <<call, rows>>
    BY <1>5 DEF Deliver, vars
  <2>2. QED
    BY <2>1 DEF RowHeld
<1>6. CASE Send(r)
  <2>1. Begin(r, jar[Owner[r]])
    BY <1>6 DEF Send
  <2>2. QED
    BY <1>1, <1>3, <2>1, GotoIs DEF Begin, NoSession
<1>7. CASE Handler(r)
  <2>1. call[r].pc = "handling"
    BY <1>1, <1>7
    DEF Handler, Login, CallbackStray, CallbackError, CallbackStart, Exchange, CallbackFail,
        CallbackFinish, LogoutStart, Revoke, LogoutFinish, Me, Ready, FlowOK
  <2>2. call'[r].key \in {call[r].key, NoKey}
    BY <1>7, HandlerWork
  <2>3. UNCHANGED rows
    BY <1>7
    DEF Handler, Login, CallbackStray, CallbackError, CallbackStart, Exchange, CallbackFail,
        CallbackFinish, LogoutStart, Revoke, LogoutFinish, Me, storeVars, vars
  <2>4. QED
    BY <2>1, <2>2, <2>3 DEF RowHeld
<1>8. CASE Serve(r)
  <2>1. StoreStep(r)
    BY <1>8 DEF Serve
  <2>2. CASE LoadGet(r)
    BY <1>1, <1>3, <2>2, GotoIs, NoSessionIs DEF LoadGet, NoSession, RowHeld
  <2>3. CASE LoadCheck(r)
    BY <1>1, <2>3, GotoIs DEF LoadCheck, RowHeld
  <2>4. ASSUME Return(r) \/ NoSession(r) \/ StartSave(r, call[r].state) PROVE RowHeld(r)'
    <3>1. CASE Return(r)
      BY <1>1, <1>3, <3>1 DEF Return, Idle, Safe, TypeOK
    <3>2. CASE NoSession(r) \/ StartSave(r, call[r].state)
      BY <1>1, <1>3, <3>2, GotoIs DEF NoSession, StartSave
    <3>3. QED
      BY <2>4, <3>1, <3>2
  <2>5. ASSUME NEW pc \in {"fallback", "ttlCheck", "ttlDelete", "touch"}, NEW k, NEW s, NEW e,
               Goto(r, pc, k, s, e)
        PROVE  RowHeld(r)'
    BY <1>1, <1>3, <2>5, GotoIs
  <2>6. QED
    BY <2>1, <2>2, <2>3, <2>4, <2>5
    DEF StoreStep, LoadDelete, Insert, SaveRefused, UpdateRow, DeadDelete, RenewDelete, PurgeDelete,
        TtlGet, TtlCheck, TtlDelete, Touch
<1>9. QED
  BY <1>4, <1>5, <1>6, <1>7, <1>8

-----------------------------------------------------------------------------
(* Where the slot of an awaited attempt is.                                  *)

LEMMA SlotInStays ==
  ASSUME RouteTypes, Grows, NEW i \in 1..Len(opened), NEW v, SlotIn(v, i)
  PROVE  SlotIn(v, i)'
BY GrowsKeeps DEF SlotIn, AttemptsIn

LEMMA KeptInStays ==
  ASSUME BffSafe, Onward, NEW i \in 1..Len(opened), NEW k, KeptIn(k, i), rows'[k] = rows[k]
  PROVE  KeptIn(k, i)'
<1>1. RouteTypes /\ Grows
  BY TypeParts DEF BffSafe, Onward
<1>2. PICK v : v = SlotsOf(rows[k].state)
  OBVIOUS
<1>3. PICK e : e = rows[k].expiresAt
  OBVIOUS
<1>4. k \in Keys /\ rows'[k] # NoRow /\ SlotIn(v, i)' /\ Lasting(e, i)'
  BY <1>1, <1>2, <1>3, SlotInStays, LastingForGood DEF KeptIn
<1>5. v = SlotsOf(rows'[k].state) /\ e = rows'[k].expiresAt
  BY <1>2, <1>3
<1>6. QED
  BY <1>4, <1>5 DEF KeptIn, SlotIn, SlotsOf, AttemptsIn, Lasting, BeganBy

\* What is to be shown of a request after a step.
LEMMA KeptWhere ==
  ASSUME NEW r \in Requests, NEW i, NEW c, c = call'[r],
         NEW j, j = IF reply'[r] = Nothing THEN jar'[Owner[r]] ELSE reply'[r],
         NEW v, v = InHand(r)', NEW w, w = SlotsOf(c.state),
         \/ c.pc = "idle" /\ KeptIn(j, i)'
         \/ c.pc \in {"get", "ttlGet"} /\ KeptIn(c.key, i)'
         \/ /\ c.pc \in {"check", "ttlCheck", "touch"}
            /\ KeptIn(c.key, i)' /\ SlotIn(w, i)' /\ Lasting(c.exp, i)'
         \/ c.pc = "handling" /\ KeptIn(c.key, i)' /\ SlotIn(v, i)'
         \/ c.pc \in {"update", "save"} /\ SlotIn(w, i)' /\ Lasting(c.exp, i)'
         \/ c.pc = "renewDelete" /\ SlotIn(w, i)'
  PROVE  Kept(r, i)'
<1>1. CASE c.pc = "idle" /\ KeptIn(j, i)'
  <2>1. KeptIn(IF reply[r] = Nothing THEN jar[Owner[r]] ELSE reply[r], i)'
    BY <1>1, Zenon DEF KeptIn, SlotIn, SlotsOf, AttemptsIn, Lasting, BeganBy
  <2>2. QED
    BY <1>1, <2>1 DEF Kept
<1>2. CASE KeptIn(c.key, i)'
  <2>1. KeptIn(call[r].key, i)'
    BY <1>2, Zenon DEF KeptIn, SlotIn, SlotsOf, AttemptsIn, Lasting, BeganBy
  <2>2. SlotIn(w, i)' => SlotIn(SlotsOf(call[r].state), i)'
    BY DEF SlotIn, SlotsOf, AttemptsIn
  <2>3. Lasting(c.exp, i)' => Lasting(call[r].exp, i)'
    BY Zenon DEF Lasting, BeganBy
  <2>4. SlotIn(v, i)' => SlotIn(InHand(r), i)'
    <3>1. AttemptsIn(v) = AttemptsIn(InHand(r)')
      OBVIOUS
    <3>2. QED
      BY <3>1 DEF SlotIn, AttemptsIn
  <2>5. QED
    BY <1>1, <2>1, <2>2, <2>3, <2>4, Zenon DEF Kept
<1>3. CASE \/ c.pc \in {"update", "save"} /\ SlotIn(w, i)' /\ Lasting(c.exp, i)'
           \/ c.pc = "renewDelete" /\ SlotIn(w, i)'
  <2>1. SlotIn(SlotsOf(call[r].state), i)'
    BY <1>3 DEF SlotIn, SlotsOf, AttemptsIn
  <2>2. Lasting(c.exp, i)' => Lasting(call[r].exp, i)'
    BY Zenon DEF Lasting, BeganBy
  <2>3. QED
    BY <1>3, <2>1, <2>2 DEF Kept
<1>4. QED
  BY <1>1, <1>2, <1>3

LEMMA KeptStays ==
  ASSUME BffSafe, Onward, NEW r \in Requests, NEW i \in 1..Len(opened), Kept(r, i),
         call'[r] = call[r], flow'[r] = flow[r], reply'[r] = reply[r], jar'[Owner[r]] = jar[Owner[r]],
         \A k \in Keys : Holds(Owner[r], k) => rows'[k] = rows[k]
  PROVE  Kept(r, i)'
<1>1. RouteTypes /\ Grows
  BY TypeParts DEF BffSafe, Onward
<1>2. PICK c : c = call[r]
  OBVIOUS
<1>3. PICK j : j = IF reply[r] = Nothing THEN jar[Owner[r]] ELSE reply[r]
  OBVIOUS
<1>4. PICK v : v = InHand(r)
  OBVIOUS
<1>5. PICK w : w = SlotsOf(c.state)
  OBVIOUS
<1>6. KeptIn(j, i) => KeptIn(j, i)'
  <2>1. j \in Keys => rows'[j] = rows[j]
    BY <1>3, OwnHeld, FlowAssumption
  <2>2. QED
    BY <2>1, KeptInStays DEF KeptIn
<1>7. KeptIn(c.key, i) => KeptIn(c.key, i)'
  <2>1. c.key \in Keys => rows'[c.key] = rows[c.key]
    BY <1>2, OwnHeld
  <2>2. QED
    BY <2>1, KeptInStays DEF KeptIn
<1>8. /\ SlotIn(v, i) => SlotIn(v, i)'
      /\ SlotIn(w, i) => SlotIn(w, i)'
      /\ Lasting(c.exp, i) => Lasting(c.exp, i)'
  BY <1>1, SlotInStays, LastingForGood
<1>9. v = InHand(r)'
  BY <1>4 DEF InHand, SlotsOf
<1>10. /\ c = call'[r] /\ j = IF reply'[r] = Nothing THEN jar'[Owner[r]] ELSE reply'[r]
  BY <1>2, <1>3
<1>11. \/ c.pc = "idle" /\ KeptIn(j, i)
       \/ c.pc \in {"get", "ttlGet"} /\ KeptIn(c.key, i)
       \/ /\ c.pc \in {"check", "ttlCheck", "touch"}
          /\ KeptIn(c.key, i) /\ SlotIn(w, i) /\ Lasting(c.exp, i)
       \/ c.pc = "handling" /\ KeptIn(c.key, i) /\ SlotIn(v, i)
       \/ c.pc \in {"update", "save"} /\ SlotIn(w, i) /\ Lasting(c.exp, i)
       \/ c.pc = "renewDelete" /\ SlotIn(w, i)
  BY <1>2, <1>3, <1>4, <1>5, Zenon DEF Kept
<1>12. \/ c.pc = "idle" /\ KeptIn(j, i)'
       \/ c.pc \in {"get", "ttlGet"} /\ KeptIn(c.key, i)'
       \/ /\ c.pc \in {"check", "ttlCheck", "touch"}
          /\ KeptIn(c.key, i)' /\ SlotIn(w, i)' /\ Lasting(c.exp, i)'
       \/ c.pc = "handling" /\ KeptIn(c.key, i)' /\ SlotIn(v, i)'
       \/ c.pc \in {"update", "save"} /\ SlotIn(w, i)' /\ Lasting(c.exp, i)'
       \/ c.pc = "renewDelete" /\ SlotIn(w, i)'
  BY <1>6, <1>7, <1>8, <1>11, Zenon
<1>13. QED
  BY <1>5, <1>9, <1>10, <1>12, KeptWhere, Zenon

\* The cookie of an answer reaches the jar.
LEMMA DeliverKept ==
  ASSUME OneAtATime, NoFaults, BffSafe, OwnSafe, SerialSafe, Onward, [BffNext]_bffVars,
         NEW r \in Requests, NEW i \in 1..Len(opened), Kept(r, i), Deliver(r)
  PROVE  Kept(r, i)'
<1>1. RouteTypes /\ Owner[r] \in Browsers
  BY TypeParts, OfHandler DEF BffSafe
<1>2. reply[r] # Nothing /\ UNCHANGED <<rows, call>> /\ jar'[Owner[r]] = reply[r] /\ reply'[r] = Nothing
  BY <1>1 DEF Deliver, vars, RouteTypes
<1>3. call[r].pc = "idle"
  BY <1>2 DEF SerialSafe
<1>4. PICK j : j = reply[r]
  OBVIOUS
<1>5. KeptIn(j, i)
  BY <1>2, <1>3, <1>4 DEF Kept
<1>6. KeptIn(j, i)'
  BY <1>2, <1>5, KeptInStays
<1>7. call'[r].pc = "idle" /\ j = IF reply'[r] = Nothing THEN jar'[Owner[r]] ELSE reply'[r]
  BY <1>2, <1>3, <1>4
<1>8. QED
  BY <1>6, <1>7, KeptWhere

\* A request is sent with the cookie of the jar.
LEMMA SendKept ==
  ASSUME BffSafe, Onward, NEW r \in Requests, NEW i \in 1..Len(opened), Kept(r, i), Send(r)
  PROVE  Kept(r, i)'
<1>1. Safe /\ reply[r] = Nothing /\ call[r].pc = "idle" /\ UNCHANGED rows /\ Begin(r, jar[Owner[r]])
  BY DEF Send, Begin, BffSafe
<1>2. PICK j : j = jar[Owner[r]]
  OBVIOUS
<1>3. KeptIn(j, i) /\ j \in Keys
  BY <1>1, <1>2 DEF Kept, KeptIn
<1>4. KeptIn(j, i)'
  BY <1>1, <1>3, KeptInStays
<1>5. call'[r].pc = "get" /\ call'[r].key = j
  BY <1>1, <1>2, <1>3, StoreAssumption, GotoIs DEF Begin
<1>6. PICK c : c = call'[r]
  OBVIOUS
<1>7. c.pc = "get" /\ KeptIn(c.key, i)'
  BY <1>4, <1>5, <1>6
<1>8. QED
  BY <1>6, <1>7, KeptWhere

\* A row that was just written.
LEMMA KeptInWritten ==
  ASSUME NEW i, NEW k \in Keys, NEW s, NEW e, NEW v, v = SlotsOf(s),
         rows'[k] # NoRow, rows'[k].state = s, rows'[k].expiresAt = e,
         SlotIn(v, i)', Lasting(e, i)'
  PROVE  KeptIn(k, i)'
<1>1. SlotIn(SlotsOf(rows[k].state), i)'
  BY DEF SlotIn, SlotsOf, AttemptsIn
<1>2. Lasting(rows[k].expiresAt, i)'
  BY DEF Lasting, BeganBy
<1>3. QED
  BY <1>1, <1>2 DEF KeptIn

\* The answer carries the key of the row.
LEMMA AnswerKept ==
  ASSUME BffSafe, NEW r \in Requests, Serve(r), NEW i, NEW k \in Keys,
         call'[r].pc = "idle", SetCookie(r) = k, KeptIn(k, i)'
  PROVE  Kept(r, i)'
<1>1. reply'[r] = k /\ k # Nothing
  BY TypeParts, FlowAssumption DEF Serve, BffSafe, RouteTypes
<1>2. k = IF reply'[r] = Nothing THEN jar'[Owner[r]] ELSE reply'[r]
  BY <1>1
<1>3. PICK d : d = call'[r]
  OBVIOUS
<1>4. PICK v : v = InHand(r)'
  OBVIOUS
<1>5. PICK w : w = SlotsOf(d.state)
  OBVIOUS
<1>6. d.pc = "idle" /\ KeptIn(k, i)'
  BY <1>3
<1>7. QED
  BY <1>2, <1>3, <1>4, <1>5, <1>6, KeptWhere

\* The key of an answer that ends a step of the store under the key it was for.
LEMMA SameCookie ==
  ASSUME BffSafe, NEW r \in Requests, NEW k, k = call[r].key, Return(r), UNCHANGED birth,
         call[r].pc \in {"update", "deadDelete", "ttlGet", "ttlCheck", "ttlDelete", "touch"}
  PROVE  call'[r].pc = "idle" /\ SetCookie(r) = k
<1>1. call'[r].pc = "idle"
  BY DEF Return, Idle, BffSafe, Safe, TypeOK
<1>2. QED
  BY <1>1 DEF SetCookie

LEMMA InsertCookie ==
  ASSUME BffSafe, NEW r \in Requests, Insert(r)
  PROVE  \E k \in Keys :
           /\ rows'[k] = [state |-> call[r].state, expiresAt |-> call[r].exp]
           /\ call'[r].pc = "idle" /\ SetCookie(r) = k
<1>1. Safe /\ call[r].state \in State
  BY OfHandler DEF BffSafe
<1>2. PICK k \in FreshKeys :
        /\ rows' = [rows EXCEPT ![k] = [state |-> call[r].state, expiresAt |-> call[r].exp]]
        /\ birth' = [birth EXCEPT ![k] = call[r].state]
  BY DEF Insert
<1>3. k \in Keys /\ birth[k] = None /\ call[r].state # None
  BY <1>1, <1>2, StoreAssumption DEF FreshKeys, Issued
<1>4. \A x \in Keys : birth'[x] # birth[x] <=> x = k
  BY <1>1, <1>2, <1>3 DEF Safe, TypeOK
<1>5. birth' # birth /\ (CHOOSE x \in Keys : birth'[x] # birth[x]) = k
  BY <1>3, <1>4
<1>6. call'[r].pc = "idle"
  BY <1>1 DEF Insert, Return, Idle, Safe, TypeOK
<1>7. SetCookie(r) = k
  BY <1>5, <1>6 DEF SetCookie
<1>8. rows'[k] = [state |-> call[r].state, expiresAt |-> call[r].exp]
  BY <1>1, <1>2, <1>3 DEF Safe, TypeOK
<1>9. QED
  BY <1>3, <1>6, <1>7, <1>8

\* The browser of request r waits for the i-th attempt, of which the slot is kept.
Carries(r, i) == Awaited(i) /\ Owner[r] = opened[i].by /\ opened[i].at <= now /\ Kept(r, i)

\* Its session is alive, and what is written of it now will last.
LEMMA CarriedLasts ==
  ASSUME BffSafe, SignedSafe, Onward, NEW r \in Requests, NEW i \in 1..Len(opened), Carries(r, i)
  PROVE  /\ \A e \in Instants : Lasting(e, i) => e > now
         /\ SignedInBy(call[r].state, Owner[r])
         /\ \A s \in State : \A e : SignedInBy(s, Owner[r]) /\ e = EffectiveExpiry(s, now) =>
              e # None /\ Lasting(e, i)' /\ (HasSub(s) => HardCapExpiry(s, now) # None)
<1>1. /\ Awaited(i) /\ Owner[r] = opened[i].by /\ opened[i].at <= now
      /\ RouteTypes /\ MintedPast /\ CallSigned(r)
  BY TypeParts DEF Carries, BffSafe, SignedSafe
<1>2. /\ i \in 1..Len(opened') /\ opened'[i] = opened[i] /\ opened[i].at \in Instants
  <2>1. i \in 1..Len(opened') /\ opened'[i] = opened[i]
    BY <1>1, GrowsKeeps DEF Onward
  <2>2. opened[i] \in Opened
    BY <1>1, ElementOfSeq DEF RouteTypes
  <2>3. QED
    BY <2>1, <2>2 DEF Opened
<1>3. PICK b : b = Owner[r]
  OBVIOUS
<1>4. ~LifetimeEnded(b)
  BY <1>1, <1>3 DEF Awaited
<1>5. ASSUME NEW s \in State, SignedInBy(s, b), NEW e, e = EffectiveExpiry(s, now)
      PROVE  e # None /\ Lasting(e, i)' /\ (HasSub(s) => HardCapExpiry(s, now) # None)
  <2>1. e # None /\ (HasSub(s) => HardCapExpiry(s, now) # None)
    BY <1>1, <1>4, <1>5, SessionIsLive
  <2>2. SignedInBy(s, b)' /\ b = opened'[i].by
    BY <1>1, <1>2, <1>3, <1>5, SignedForGood
  <2>3. Lasting(e, i)'
    BY <1>1, <1>2, <1>5, <2>1, <2>2, WrittenLasts
  <2>4. QED
    BY <2>1, <2>3
<1>6. \A e \in Instants : Lasting(e, i) => e > now
  BY <1>1, LastingIsLive
<1>7. QED
  BY <1>1, <1>3, <1>5, <1>6 DEF CallSigned

\* What a store step of request r starts from.
LEMMA CarriedByStore ==
  ASSUME BffSafe, SignedSafe, Onward, NEW r \in Requests, NEW i \in 1..Len(opened), Carries(r, i),
         Serve(r), NEW c, c = call[r], NEW w, w = SlotsOf(c.state)
  PROVE  /\ c.pc # "idle" /\ c.pc # "handling" /\ InHand(r)' = SlotsOf(call'[r].state)
         /\ c.state \in State /\ c.exp \in Instants \cup {None} /\ now \in Instants
         /\ SlotIn(w, i) => SlotIn(w, i)'
         /\ Lasting(c.exp, i) => c.exp \in Instants /\ c.exp > now /\ Lasting(c.exp, i)'
         /\ KeptIn(c.key, i) =>
              /\ c.key \in Keys /\ rows[c.key] # NoRow /\ rows[c.key] \in Row
              /\ rows[c.key].expiresAt > now
              /\ rows'[c.key] = rows[c.key] => KeptIn(c.key, i)'
         /\ \/ c.pc \in {"get", "ttlGet"} /\ KeptIn(c.key, i)
            \/ /\ c.pc \in {"check", "ttlCheck", "touch"}
               /\ KeptIn(c.key, i) /\ SlotIn(w, i) /\ Lasting(c.exp, i)
            \/ c.pc \in {"update", "save"} /\ SlotIn(w, i) /\ Lasting(c.exp, i)
            \/ c.pc = "renewDelete" /\ SlotIn(w, i)
<1>1. /\ Safe /\ RouteTypes /\ Grows /\ StoreStep(r) /\ call[r] \in Call /\ FlowOK(r)
      /\ now \in Instants /\ rows \in [Keys -> Row \cup {NoRow}] /\ flow' = flow
  BY TypeParts, OfHandler DEF BffSafe, Serve, Onward, Safe, TypeOK
<1>2. c.pc # "idle" /\ c.pc # "handling"
  BY <1>1 DEF StoreStep, LoadGet, LoadCheck, LoadDelete, Insert, SaveRefused, UpdateRow, DeadDelete,
     RenewDelete, PurgeDelete, TtlGet, TtlCheck, TtlDelete, Touch
<1>3. flow'[r].at = "none"
  BY <1>1, <1>2 DEF FlowOK
<1>4. InHand(r)' = SlotsOf(call'[r].state)
  BY <1>3 DEF InHand, SlotsOf
<1>5. /\ c.state \in State /\ c.exp \in Instants \cup {None}
      /\ SlotIn(w, i) => SlotIn(w, i)'
  BY <1>1, SlotInStays DEF Call
<1>6. Lasting(c.exp, i) => c.exp \in Instants /\ c.exp > now /\ Lasting(c.exp, i)'
  <2> SUFFICES ASSUME Lasting(c.exp, i)
               PROVE  c.exp \in Instants /\ c.exp > now /\ Lasting(c.exp, i)'
    OBVIOUS
  <2>1. c.exp \in Instants
    BY <1>5 DEF Lasting
  <2>2. QED
    BY <2>1, CarriedLasts, LastingForGood
<1>7. KeptIn(c.key, i) =>
        /\ c.key \in Keys /\ rows[c.key] # NoRow /\ rows[c.key] \in Row
        /\ rows[c.key].expiresAt > now
        /\ rows'[c.key] = rows[c.key] => KeptIn(c.key, i)'
  <2> SUFFICES ASSUME KeptIn(c.key, i)
               PROVE  /\ c.key \in Keys /\ rows[c.key] # NoRow /\ rows[c.key] \in Row
                      /\ rows[c.key].expiresAt > now
                      /\ rows'[c.key] = rows[c.key] => KeptIn(c.key, i)'
    OBVIOUS
  <2>1. PICK k : k = c.key
    OBVIOUS
  <2>2. /\ k \in Keys /\ rows[k] # NoRow /\ rows[k] \in Row /\ Lasting(rows[k].expiresAt, i)
    BY <1>1, <2>1 DEF KeptIn
  <2>3. rows[k].expiresAt > now
    BY <2>2, CarriedLasts DEF Row
  <2>4. rows'[k] = rows[k] => KeptIn(k, i)'
    BY <2>1, KeptInStays
  <2>5. QED
    BY <2>1, <2>2, <2>3, <2>4
<1>8. \/ c.pc \in {"get", "ttlGet"} /\ KeptIn(c.key, i)
      \/ /\ c.pc \in {"check", "ttlCheck", "touch"}
         /\ KeptIn(c.key, i) /\ SlotIn(w, i) /\ Lasting(c.exp, i)
      \/ c.pc \in {"update", "save"} /\ SlotIn(w, i) /\ Lasting(c.exp, i)
      \/ c.pc = "renewDelete" /\ SlotIn(w, i)
  <2>1. Kept(r, i)
    BY DEF Carries
  <2>2. QED
    BY <1>2, <2>1, Zenon DEF Kept
<1>9. QED
  BY <1>1, <1>2, <1>4, <1>5, <1>6, <1>7, <1>8

LEMMA ReadKept ==
  ASSUME BffSafe, SignedSafe, Onward, NEW r \in Requests, NEW i \in 1..Len(opened), Carries(r, i),
         Serve(r), LoadGet(r) \/ TtlGet(r)
  PROVE  Kept(r, i)'
<1>1. PICK c : c = call[r]
  OBVIOUS
<1>2. c.pc \in {"get", "ttlGet"} /\ Safe
  BY <1>1 DEF LoadGet, TtlGet, BffSafe
<1>3. PICK k : k = c.key
  OBVIOUS
<1>4. /\ KeptIn(k, i) /\ k \in Keys /\ rows[k] # NoRow /\ rows[k] \in Row /\ rows[k].expiresAt > now
      /\ UNCHANGED rows /\ KeptIn(k, i)' /\ now \in Instants
  <2>1. PICK w : w = SlotsOf(c.state)
    OBVIOUS
  <2>2. UNCHANGED rows
    BY DEF LoadGet, TtlGet
  <2>3. QED
    BY <1>1, <1>2, <1>3, <2>1, <2>2, CarriedByStore
<1>5. PICK s : s = rows[k].state
  OBVIOUS
<1>6. PICK e : e = rows[k].expiresAt
  OBVIOUS
<1>7. ~MayBeAbsent(k)
  BY <1>4 DEF MayBeAbsent, Row, Instants
<1>8. Goto(r, "check", k, s, e) \/ Goto(r, "ttlCheck", k, s, e)
  BY <1>1, <1>3, <1>5, <1>6, <1>7 DEF LoadGet, TtlGet
<1>9. PICK d : d = call'[r]
  OBVIOUS
<1>10. d.pc \in {"check", "ttlCheck"} /\ d.key = k /\ d.state = s /\ d.exp = e
  BY <1>2, <1>8, <1>9, GotoIs
<1>11. PICK w : w = SlotsOf(d.state)
  OBVIOUS
<1>12. SlotIn(w, i)' /\ Lasting(e, i)'
  <2>1. SlotIn(w, i) /\ Lasting(e, i)
    BY <1>4, <1>5, <1>6, <1>10, <1>11 DEF KeptIn
  <2>2. RouteTypes /\ Grows
    BY TypeParts DEF BffSafe, Onward
  <2>3. QED
    BY <2>1, <2>2, SlotInStays, LastingForGood
<1>13. PICK v : v = InHand(r)'
  OBVIOUS
<1>14. PICK j : j = IF reply'[r] = Nothing THEN jar'[Owner[r]] ELSE reply'[r]
  OBVIOUS
<1>15. KeptIn(d.key, i)' /\ Lasting(d.exp, i)'
  BY <1>4, <1>10, <1>12
<1>16. QED
  BY <1>9, <1>10, <1>11, <1>12, <1>13, <1>14, <1>15, KeptWhere

LEMMA CheckKept ==
  ASSUME BffSafe, SignedSafe, Onward, NEW r \in Requests, NEW i \in 1..Len(opened), Carries(r, i),
         Serve(r), LoadCheck(r) \/ TtlCheck(r)
  PROVE  Kept(r, i)'
<1>1. PICK c : c = call[r]
  OBVIOUS
<1>2. c.pc \in {"check", "ttlCheck"} /\ Safe
  BY <1>1 DEF LoadCheck, TtlCheck, BffSafe
<1>3. PICK w : w = SlotsOf(c.state)
  OBVIOUS
<1>4. /\ c.key \in Keys /\ KeptIn(c.key, i)' /\ SlotIn(w, i)' /\ c.exp > now /\ now \in Instants
      /\ c.exp \in Instants /\ c.state \in State /\ Lasting(c.exp, i)'
      /\ InHand(r)' = SlotsOf(call'[r].state)
  <2>1. UNCHANGED rows
    BY DEF LoadCheck, TtlCheck
  <2>2. QED
    BY <1>1, <1>2, <1>3, <2>1, CarriedByStore
<1>5. PICK e : e = EffectiveExpiry(c.state, now)
  OBVIOUS
<1>6. e # None /\ Lasting(e, i)' /\ (HasSub(c.state) => HardCapExpiry(c.state, now) # None)
  BY <1>1, <1>4, <1>5, CarriedLasts
<1>7. PICK d : d = call'[r]
  OBVIOUS
<1>8. PICK v : v = InHand(r)'
  OBVIOUS
<1>9. PICK u : u = SlotsOf(d.state)
  OBVIOUS
<1>10. PICK j : j = IF reply'[r] = Nothing THEN jar'[Owner[r]] ELSE reply'[r]
  OBVIOUS
<1>11. CASE LoadCheck(r)
  <2>1. LoadAccepts(c.state, c.exp, now)
    BY <1>4, <1>6 DEF LoadAccepts
  <2>2. Goto(r, "handling", c.key, c.state, None)
    BY <1>1, <1>11, <2>1 DEF LoadCheck
  <2>3. d.pc = "handling" /\ d.key = c.key /\ v = w
    BY <1>2, <1>3, <1>4, <1>7, <1>8, <2>2, GotoIs
  <2>4. KeptIn(d.key, i)' /\ SlotIn(v, i)'
    BY <1>4, <2>3
  <2>5. QED
    BY <1>7, <1>8, <1>9, <1>10, <2>3, <2>4, KeptWhere
<1>12. CASE TtlCheck(r)
  <2>1. Return(r) \/ Goto(r, "touch", c.key, c.state, e)
    <3>1. ~(c.exp <= now)
      BY <1>4 DEF Instants
    <3>2. QED
      BY <1>1, <1>5, <1>6, <1>12, <3>1 DEF TtlCheck
  <2>2. CASE Return(r)
    <3>1. call'[r].pc = "idle" /\ SetCookie(r) = c.key
      BY <1>1, <1>12, <2>2, SameCookie DEF TtlCheck
    <3>2. PICK k : k = c.key
      OBVIOUS
    <3>3. k \in Keys /\ KeptIn(k, i)' /\ SetCookie(r) = k
      BY <1>4, <3>1, <3>2
    <3>4. QED
      BY <3>1, <3>3, AnswerKept
  <2>3. CASE Goto(r, "touch", c.key, c.state, e)
    <3>1. d.pc = "touch" /\ d.key = c.key /\ d.exp = e /\ u = w
      BY <1>2, <1>3, <1>7, <1>9, <2>3, GotoIs
    <3>2. KeptIn(d.key, i)' /\ SlotIn(u, i)' /\ Lasting(d.exp, i)'
      BY <1>4, <1>6, <3>1
    <3>3. QED
      BY <1>7, <1>8, <1>9, <1>10, <3>1, <3>2, KeptWhere
  <2>4. QED
    BY <2>1, <2>2, <2>3
<1>13. QED
  BY <1>11, <1>12

LEMMA WriteKept ==
  ASSUME BffSafe, SignedSafe, Onward, NEW r \in Requests, NEW i \in 1..Len(opened), Carries(r, i),
         RowHeld(r), Serve(r), Insert(r) \/ UpdateRow(r) \/ Touch(r)
  PROVE  Kept(r, i)'
<1>1. PICK c : c = call[r]
  OBVIOUS
<1>2. c.pc \in {"save", "fallback", "update", "touch"} /\ Safe /\ CallSafe(c)
  BY <1>1, OfRequest DEF Insert, UpdateRow, Touch, BffSafe
<1>3. PICK w : w = SlotsOf(c.state)
  OBVIOUS
<1>4. /\ SlotIn(w, i)' /\ Lasting(c.exp, i)' /\ c.pc \in {"save", "update", "touch"}
      /\ c.pc = "touch" => /\ KeptIn(c.key, i) /\ c.key \in Keys /\ rows[c.key] # NoRow
                           /\ rows[c.key] \in Row
                           /\ rows'[c.key] = rows[c.key] => KeptIn(c.key, i)'
  BY <1>1, <1>2, <1>3, CarriedByStore
<1>5. PICK s : s = c.state
  OBVIOUS
<1>6. PICK e : e = c.exp
  OBVIOUS
<1>7. w = SlotsOf(s) /\ Lasting(e, i)' /\ rows \in [Keys -> Row \cup {NoRow}]
  BY <1>2, <1>3, <1>4, <1>5, <1>6 DEF Safe, TypeOK
<1>8. CASE Insert(r)
  <2>1. PICK k \in Keys :
          rows'[k] = [state |-> s, expiresAt |-> e] /\ call'[r].pc = "idle" /\ SetCookie(r) = k
    BY <1>1, <1>5, <1>6, <1>8, InsertCookie
  <2>2. rows'[k] # NoRow
    <3>1. s \in State /\ e \in Instants
      BY <1>1, <1>4, <1>5, <1>6, <1>8, CarriedByStore DEF Insert
    <3>2. QED
      BY <2>1, <3>1, StoreAssumption
  <2>3. KeptIn(k, i)'
    BY <1>4, <1>7, <2>1, <2>2, KeptInWritten
  <2>4. QED
    BY <2>1, <2>3, AnswerKept
<1>9. CASE UpdateRow(r)
  <2>1. PICK k : k = c.key
    OBVIOUS
  <2>2. c.pc = "update" /\ k \in Keys /\ rows[k] # NoRow
    <3>1. c.pc = "update"
      BY <1>1, <1>9 DEF UpdateRow
    <3>2. c.key \in Keys
      BY <1>2, <3>1 DEF CallSafe, CopyDescends, KeyPcs
    <3>3. QED
      BY <1>1, <2>1, <3>1, <3>2, StoreAssumption DEF RowHeld
  <2>3. rows' = [rows EXCEPT ![k] = [state |-> s, expiresAt |-> e]] /\ Return(r) /\ UNCHANGED birth
    BY <1>1, <1>5, <1>6, <1>9, <2>1, <2>2 DEF UpdateRow
  <2>4. rows'[k] = [state |-> s, expiresAt |-> e]
    BY <1>7, <2>2, <2>3
  <2>5. rows'[k] # NoRow
    <3>1. s \in State /\ e \in Instants
      <4>1. c \in Call
        BY <1>1, <1>2, OfRequest
      <4>2. Lasting(e, i)
        BY <1>1, <1>3, <1>6, <2>2, CarriedByStore
      <4>3. QED
        BY <1>5, <1>6, <4>1, <4>2 DEF Call, Lasting
    <3>2. QED
      BY <2>4, <3>1, StoreAssumption
  <2>6. KeptIn(k, i)'
    BY <1>4, <1>7, <2>2, <2>4, <2>5, KeptInWritten
  <2>7. call'[r].pc = "idle" /\ SetCookie(r) = k
    BY <1>1, <2>1, <2>2, <2>3, SameCookie
  <2>8. QED
    BY <2>2, <2>6, <2>7, AnswerKept
<1>10. CASE Touch(r)
  <2>1. PICK k : k = c.key
    OBVIOUS
  <2>2. /\ c.pc = "touch" /\ k \in Keys /\ KeptIn(k, i) /\ rows[k] # NoRow /\ rows[k] \in Row
        /\ rows'[k] = rows[k] => KeptIn(k, i)'
    BY <1>1, <1>4, <1>10, <2>1 DEF Touch
  <2>3. /\ rows' = rows \/ rows' = [rows EXCEPT ![k].expiresAt = e]
        /\ Return(r) /\ UNCHANGED birth
    BY <1>1, <1>6, <1>10, <2>1 DEF Touch
  <2>4. KeptIn(k, i)'
    <3>1. CASE rows' = [rows EXCEPT ![k].expiresAt = e]
      <4>1. PICK x : x = rows[k].state
        OBVIOUS
      <4>2. PICK y : y = SlotsOf(x)
        OBVIOUS
      <4>3. rows'[k] = [state |-> x, expiresAt |-> e]
        BY <1>7, <2>2, <3>1, <4>1 DEF Row
      <4>4. rows'[k] # NoRow
        <5>1. e \in Instants
          BY <1>1, <1>3, <1>6, <2>2, CarriedByStore
        <5>2. QED
          BY <2>2, <4>1, <4>3, <5>1, StoreAssumption DEF Row
      <4>5. SlotIn(y, i)'
        <5>1. SlotIn(y, i) /\ RouteTypes /\ Grows
          BY <2>2, <4>1, <4>2, TypeParts DEF KeptIn, BffSafe, Onward
        <5>2. QED
          BY <5>1, SlotInStays
      <4>6. QED
        BY <1>7, <2>2, <4>2, <4>3, <4>4, <4>5, KeptInWritten
    <3>2. QED
      BY <2>2, <2>3, <3>1
  <2>5. call'[r].pc = "idle" /\ SetCookie(r) = k
    BY <1>1, <2>1, <2>2, <2>3, SameCookie
  <2>6. QED
    BY <2>2, <2>4, <2>5, AnswerKept
<1>11. QED
  BY <1>8, <1>9, <1>10

\* What is saved of a session that is alive.
LEMMA SavedKept ==
  ASSUME BffSafe, Onward, NEW r \in Requests, NEW i, NEW s \in State, NEW w, w = SlotsOf(s),
         SlotIn(w, i)', s.loginAt # Missing \/ ~HasSub(s), StartSave(r, s),
         NEW e, e = EffectiveExpiry(s, now), Lasting(e, i)'
  PROVE  Kept(r, i)'
<1>1. InjectLoginAtIfMissing(s, now) = s
  BY DEF InjectLoginAtIfMissing
<1>2. PICK d : d = call'[r]
  OBVIOUS
<1>3. d.pc = "save" /\ d.state = s /\ d.exp = e
  BY <1>1, <1>2, GotoIs DEF StartSave, BffSafe
<1>4. w = SlotsOf(d.state) /\ Lasting(d.exp, i)'
  BY <1>3
<1>5. PICK v : v = InHand(r)'
  OBVIOUS
<1>6. PICK j : j = IF reply'[r] = Nothing THEN jar'[Owner[r]] ELSE reply'[r]
  OBVIOUS
<1>7. QED
  BY <1>2, <1>3, <1>4, <1>5, <1>6, KeptWhere

LEMMA LoginKnown ==
  ASSUME BffSafe, NEW s \in State, NEW b, SignedInBy(s, b)
  PROVE  s.loginAt # Missing \/ ~HasSub(s)
<1> SUFFICES ASSUME HasSub(s) PROVE s.loginAt # Missing
  OBVIOUS
<1>1. minted \in [Tokens -> Instants \cup {None}] /\ s.tok \in Tokens
      /\ minted[s.tok] # None /\ s.loginAt = minted[s.tok]
  BY DEF SignedInBy, HasTokens, State, BffSafe, Safe, TypeOK
<1>2. minted[s.tok] \in Int
  BY <1>1 DEF Instants
<1>3. QED
  BY <1>1, <1>2, StateAssumption

LEMMA ServeKept ==
  ASSUME BffSafe, SignedSafe, Onward, NEW r \in Requests, NEW i \in 1..Len(opened), Carries(r, i),
         RowHeld(r), Serve(r)
  PROVE  Kept(r, i)'
<1>1. PICK c : c = call[r]
  OBVIOUS
<1>2. PICK w : w = SlotsOf(c.state)
  OBVIOUS
<1>3. /\ c.pc \in {"get", "ttlGet", "check", "ttlCheck", "touch", "update", "save", "renewDelete"}
      /\ c.state \in State
      /\ c.pc = "renewDelete" => SlotIn(w, i)'
      /\ c.pc = "save" => Lasting(c.exp, i)
  BY <1>1, <1>2, CarriedByStore
<1>4. CASE RenewDelete(r)
  <2>1. SignedInBy(c.state, Owner[r])
    BY <1>1, CarriedLasts
  <2>2. PICK e : e = EffectiveExpiry(c.state, now)
    OBVIOUS
  <2>3. Lasting(e, i)'
    BY <1>3, <2>1, <2>2, CarriedLasts
  <2>4. StartSave(r, c.state) /\ c.pc = "renewDelete"
    BY <1>1, <1>4 DEF RenewDelete
  <2>5. QED
    BY <1>2, <1>3, <2>1, <2>2, <2>3, <2>4, LoginKnown, SavedKept
<1>5. ~SaveRefused(r)
  <2> SUFFICES ASSUME SaveRefused(r) PROVE FALSE
    OBVIOUS
  <2>1. c.pc = "save" /\ c.exp = None
    BY <1>1 DEF SaveRefused
  <2>2. QED
    BY <1>3, <2>1 DEF Lasting
<1>6. ~(LoadDelete(r) \/ DeadDelete(r) \/ PurgeDelete(r) \/ TtlDelete(r))
  BY <1>1, <1>3 DEF LoadDelete, DeadDelete, PurgeDelete, TtlDelete
<1>7. \/ LoadGet(r) \/ TtlGet(r) \/ LoadCheck(r) \/ TtlCheck(r)
      \/ Insert(r) \/ UpdateRow(r) \/ Touch(r) \/ RenewDelete(r)
  BY <1>5, <1>6 DEF Serve, StoreStep
<1>8. QED
  BY <1>4, <1>7, ReadKept, CheckKept, WriteKept

-----------------------------------------------------------------------------
(* The slot of an awaited attempt in the hands of a handler.                 *)

\* Neither pruning nor the match of another attempt removes it.
LEMMA PruneKeeps ==
  ASSUME BffSafe, OwnSafe, NEW r \in Requests, NEW i \in 1..Len(opened), Carries(r, i),
         NEW s, s = call[r].state, NEW u, u = SlotsOf(s), SlotIn(u, i),
         NEW v, v = LiveSlots(s)
  PROVE  SlotIn(v, i) /\ v \in SlotVectors /\ v \in Seq(SlotsBegunBy(Owner[r]))
<1>1. /\ u \in Seq(Slot) /\ u \in SlotVectors /\ v \in SlotVectors /\ RouteTypes /\ now \in Nat
      /\ u \in Seq(SlotsBegunBy(Owner[r]))
  BY OfHandler, SlotVectorsAreSeqs, TypeParts, StoreAssumption DEF BffSafe, OwnSafe, OwnWork
<1>2. PICK p \in DOMAIN u : u[p].attempt = opened[i].attempt
  BY DEF SlotIn, AttemptsIn
<1>3. p \in 1..Len(u) /\ u[p] \in Slot /\ u[p] \in SlotsBegunBy(Owner[r])
  <2>1. p \in 1..Len(u)
    BY <1>1, <1>2, LenProperties
  <2>2. QED
    BY <1>1, <2>1, ElementOfSeq
<1>4. u[p].started = opened[i].at
  BY <1>2, <1>3 DEF SlotsBegunBy, OwnSafe
<1>5. now - u[p].started \in 0..PreAuthTtl
  <2>1. opened[i].at <= now /\ now - opened[i].at < AtMost(PostAuthTtl, PreAuthTtl)
    BY DEF Carries, Awaited
  <2>2. opened[i].at \in Nat /\ PreAuthTtl \in Nat /\ PostAuthTtl \in Nat
    <3>1. opened[i] \in Opened
      BY <1>1, ElementOfSeq DEF RouteTypes
    <3>2. QED
      BY <3>1, ExpiryAssumption DEF Opened, Instants
  <2>3. AtMost(PostAuthTtl, PreAuthTtl) <= PreAuthTtl /\ AtMost(PostAuthTtl, PreAuthTtl) \in Nat
    BY <2>2 DEF AtMost
  <2>4. QED
    BY <1>1, <1>4, <2>1, <2>2, <2>3
<1>6. PICK kept : kept = {e \in Slot : now - e.started \in 0..PreAuthTtl}
  OBVIOUS
<1>7. u[p] \in kept /\ v = Retain(u, kept)
  BY <1>3, <1>5, <1>6 DEF LiveSlots
<1>8. PICK q \in 1..Len(v) : v[q] = u[p]
  BY <1>1, <1>3, <1>7, RetainLosesNothing
<1>9. q \in DOMAIN v
  BY <1>1, <1>8, SlotVectorsAreSeqs, LenProperties
<1>10. SlotIn(v, i)
  BY <1>2, <1>8, <1>9 DEF SlotIn, AttemptsIn
<1>11. v \in Seq(SlotsBegunBy(Owner[r]))
  BY <1>1, <1>7, HelpersKeepSet
<1>12. QED
  BY <1>1, <1>10, <1>11

LEMMA OthersMatchKeeps ==
  ASSUME NEW i \in 1..Len(opened), NEW v \in SlotVectors, SlotIn(v, i),
         NEW a, a # opened[i].attempt, NEW w, w = Without(v, a)
  PROVE  SlotIn(w, i) /\ w \in SlotVectors
<1>1. v \in Seq(Slot) /\ w \in SlotVectors
  BY SlotVectorsAreSeqs, HelpersTyped
<1>2. PICK p \in DOMAIN v : v[p].attempt = opened[i].attempt
  BY DEF SlotIn, AttemptsIn
<1>3. p \in 1..Len(v) /\ v[p] \in Slot
  BY <1>1, <1>2, LenProperties, ElementOfSeq
<1>4. PICK kept : kept = {e \in Slot : e.attempt # a}
  OBVIOUS
<1>5. v[p] \in kept /\ w = Retain(v, kept)
  BY <1>2, <1>3, <1>4 DEF Without
<1>6. PICK q \in 1..Len(w) : w[q] = v[p]
  BY <1>1, <1>3, <1>5, RetainLosesNothing
<1>7. q \in DOMAIN w
  BY <1>1, <1>6, SlotVectorsAreSeqs, LenProperties
<1>8. QED
  BY <1>1, <1>2, <1>6, <1>7 DEF SlotIn, AttemptsIn

\* A new slot is the last one, and takes the place of the first one at most.
LEMMA PushIs ==
  ASSUME NEW v \in SlotVectors, NEW slot \in Slot, NEW w, w = PushPreAuth(v, slot)
  PROVE  /\ slot.attempt \in AttemptsIn(w)
         /\ \A p \in 1..Len(v) : Len(v) < MaxSlots \/ p > 1 => v[p].attempt \in AttemptsIn(w)
<1> DEFINE n == Len(v)
           m == IF n < MaxSlots THEN 1 ELSE n - MaxSlots + 2
           u == SubSeq(v, m, n)
<1>1. v \in Seq(Slot) /\ n \in Nat /\ MaxSlots \in Nat \ {0} /\ n <= MaxSlots
  BY SlotVectorsAreSeqs, FlowAssumption
<1> HIDE DEF n
<1>2. m \in Int /\ m >= 1 /\ m <= 2 /\ (n < MaxSlots => m = 1)
  BY <1>1
<1>3. w = Append(u, slot)
  BY DEF PushPreAuth, n
<1> HIDE DEF m
<1>4. \A p \in m..n : v[p] \in Slot
  BY <1>1, <1>2, ElementOfSeq DEF n
<1>5. u \in Seq(Slot) /\ Len(u) = (IF m <= n THEN n - m + 1 ELSE 0)
      /\ \A p \in 1..(n - m + 1) : u[p] = v[m + p - 1]
  BY <1>1, <1>2, <1>4, SubSeqProperties DEF n
<1> HIDE DEF u
<1>6. PICK l : l = Len(u)
  OBVIOUS
<1>7. /\ l \in Nat /\ l = (IF m <= n THEN n - m + 1 ELSE 0)
      /\ DOMAIN w = 1..(l + 1) /\ w[l + 1] = slot /\ \A p \in 1..l : w[p] = u[p]
  BY <1>3, <1>5, <1>6, LenProperties, AppendProperties
<1>8. slot.attempt \in AttemptsIn(w)
  <2>1. l + 1 \in DOMAIN w
    BY <1>7
  <2>2. QED
    BY <1>7, <2>1 DEF AttemptsIn
<1>9. ASSUME NEW p \in 1..n, n < MaxSlots \/ p > 1 PROVE v[p].attempt \in AttemptsIn(w)
  <2>1. m <= p /\ p <= n /\ p \in Int
    BY <1>1, <1>2, <1>9
  <2>2. PICK q : q = p - m + 1
    OBVIOUS
  <2>3. q \in 1..l /\ q \in 1..(n - m + 1) /\ m + q - 1 = p /\ q \in 1..(l + 1)
    BY <1>1, <1>2, <1>7, <2>1, <2>2
  <2>4. w[q] = v[p] /\ q \in DOMAIN w
    BY <1>5, <1>7, <2>3
  <2>5. QED
    BY <2>4 DEF AttemptsIn
<1>10. QED
  BY <1>8, <1>9 DEF n

\* Only MaxSlots newer attempts push a slot out.
LEMMA PushKeepsAwaited ==
  ASSUME BffSafe, OwnSafe, NEW r \in Requests, NEW i \in 1..Len(opened), Owner[r] = opened[i].by,
         NEW v \in SlotVectors, v \in Seq(SlotsBegunBy(Owner[r])), VectorOK(v), SlotIn(v, i),
         NEW o \in Opened, opened' = Append(opened, o), o.by = Owner[r], Awaited(i)',
         NEW slot \in Slot, NEW w, w = PushPreAuth(v, slot)
  PROVE  SlotIn(w, i)
<1>1. /\ v \in Seq(Slot) /\ Len(v) \in Nat /\ Len(v) <= MaxSlots /\ MaxSlots \in Nat \ {0}
      /\ opened \in Seq(Opened) /\ RouteTypes
  BY SlotVectorsAreSeqs, LenProperties, FlowAssumption, TypeParts DEF BffSafe, RouteTypes
<1>2. PICK p \in DOMAIN v : v[p].attempt = opened[i].attempt
  BY DEF SlotIn, AttemptsIn
<1>3. p \in 1..Len(v)
  BY <1>1, <1>2, LenProperties
<1>4. SUFFICES ASSUME Len(v) = MaxSlots, p = 1 PROVE FALSE
  <2>1. CASE Len(v) < MaxSlots \/ p > 1
    BY <1>2, <1>3, <2>1, PushIs DEF SlotIn
  <2>2. QED
    BY <1>1, <1>3, <1>4, <2>1
<1>5. PICK b : b = Owner[r]
  OBVIOUS
<1>6. PICK l : l = Len(opened)
  OBVIOUS
<1>7. /\ l \in Nat /\ Len(opened') = l + 1 /\ opened'[l + 1] = o /\ i \in 1..l
      /\ opened' \in Seq(Opened) /\ \A n \in 1..l : opened'[n] = opened[n]
  BY <1>1, <1>6, LenProperties, AppendProperties
\* The attempts of the other slots, and the new one, are MaxSlots newer ones.
<1>8. PICK L : L = LaterOnes(opened', i, b)
  OBVIOUS
<1>9. ASSUME NEW q \in 2..MaxSlots
      PROVE  \E n \in L : n <= l /\ opened[n].attempt = v[q].attempt
  <2>1. q \in 1..Len(v) /\ 1 < q
    BY <1>1, <1>4
  <2>2. BegunBefore(v[1].attempt, v[q].attempt)
    BY <1>3, <1>4, <2>1 DEF VectorOK
  <2>3. PICK m \in 1..l, n \in 1..l :
          m < n /\ opened[m].attempt = v[1].attempt /\ opened[n].attempt = v[q].attempt
    BY <1>6, <2>2 DEF BegunBefore
  <2>4. m = i
    BY <1>2, <1>4, <1>6, <1>7, <2>3 DEF OwnSafe
  <2>5. v[q] \in SlotsBegunBy(b)
    BY <1>5, <2>1, ElementOfSeq
  <2>6. opened[n].by = b
    BY <1>6, <2>3, <2>5 DEF SlotsBegunBy, OwnSafe
  <2>7. n \in (i + 1)..(l + 1) /\ n <= l
    BY <1>7, <2>3, <2>4
  <2>8. n \in L
    BY <1>7, <1>8, <2>3, <2>6, <2>7 DEF LaterOnes
  <2>9. QED
    BY <2>3, <2>7, <2>8
<1>10. l + 1 \in L
  <2>1. l + 1 \in (i + 1)..(l + 1)
    BY <1>7
  <2>2. QED
    BY <1>5, <1>7, <1>8, <2>1 DEF LaterOnes
<1>11. PICK f : f = [q \in 1..MaxSlots |->
                       IF q = 1 THEN l + 1
                       ELSE CHOOSE n \in L : n <= l /\ opened[n].attempt = v[q].attempt]
  OBVIOUS
<1>12. /\ f[1] = l + 1
       /\ \A q \in 2..MaxSlots : f[q] \in L /\ f[q] <= l /\ opened[f[q]].attempt = v[q].attempt
  <2>1. f[1] = l + 1
    BY <1>1, <1>11
  <2>2. ASSUME NEW q \in 2..MaxSlots
        PROVE  f[q] \in L /\ f[q] <= l /\ opened[f[q]].attempt = v[q].attempt
    <3>1. q \in 1..MaxSlots /\ q # 1
      BY <1>1
    <3>2. f[q] = CHOOSE n \in L : n <= l /\ opened[n].attempt = v[q].attempt
      BY <1>11, <3>1
    <3>3. QED
      BY <1>9, <3>2
  <2>3. QED
    BY <2>1, <2>2
<1>13. f \in [1..MaxSlots -> L]
  <2>1. \A q \in 1..MaxSlots : q = 1 \/ q \in 2..MaxSlots
    BY <1>1
  <2>2. \A q \in 1..MaxSlots : f[q] \in L
    BY <1>10, <1>12, <2>1
  <2>3. QED
    BY <1>11, <2>2
<1>14. \A x, y \in 1..MaxSlots : f[x] = f[y] => x = y
  <2> SUFFICES ASSUME NEW x \in 1..MaxSlots, NEW y \in 1..MaxSlots, f[x] = f[y], x < y
               PROVE  FALSE
    BY <1>1
  <2>1. y \in 2..MaxSlots /\ (x = 1 \/ x \in 2..MaxSlots)
    BY <1>1
  <2>2. CASE x = 1
    BY <1>7, <1>12, <2>1, <2>2
  <2>3. CASE x \in 2..MaxSlots
    <3>1. v[x].attempt = v[y].attempt
      BY <1>12, <2>1, <2>3
    <3>2. x \in 1..Len(v) /\ y \in 1..Len(v)
      BY <1>4
    <3>3. QED
      BY <3>1, <3>2 DEF VectorOK
  <2>4. QED
    BY <2>1, <2>2, <2>3
<1>15. /\ IsFiniteSet(L) /\ Cardinality(L) \in Nat
       /\ IsFiniteSet(1..MaxSlots) /\ Cardinality(1..MaxSlots) = MaxSlots
  <2>1. IsFiniteSet(L) /\ Cardinality(L) \in Nat
    <3>1. i \in Int
      OBVIOUS
    <3>2. PICK after : after = opened'
      OBVIOUS
    <3>3. after \in Seq(Opened) /\ L = LaterOnes(after, i, b)
      BY <1>7, <1>8, <3>2
    <3>4. QED
      BY <3>1, <3>3, LaterFinite
  <2>2. IsFiniteSet(1..MaxSlots) /\ Cardinality(1..MaxSlots) = MaxSlots
    <3>1. 1 \in Int /\ MaxSlots \in Int /\ ~(1 > MaxSlots) /\ MaxSlots - 1 + 1 = MaxSlots
      BY <1>1
    <3>2. QED
      BY <3>1, FS_Interval
  <2>3. QED
    BY <2>1, <2>2
<1>16. Cardinality(L) < MaxSlots
  <2>1. opened'[i].by = b
    BY <1>5, <1>7
  <2>2. QED
    BY <1>8, <2>1 DEF Awaited, Later, LaterOnes
<1>17. PICK S : S = 1..MaxSlots
  OBVIOUS
<1>18. f \in [S -> L] /\ IsFiniteSet(S) /\ Cardinality(L) < Cardinality(S)
  BY <1>13, <1>15, <1>16, <1>17
<1>19. \E x, y \in S : x # y /\ f[x] = f[y]
  BY <1>15, <1>18, FS_PigeonHole
<1>20. QED
  BY <1>14, <1>17, <1>19

-----------------------------------------------------------------------------
(* A step of a handler keeps the slot, or the attempt is awaited no more.    *)

\* The slots are written back to the session, which is alive.
LEMMA SlotWriteKept ==
  ASSUME BffSafe, MintedPast, Onward, NEW r \in Requests, NEW i \in 1..Len(opened'),
         opened'[i].at \in Instants, opened'[i].at <= now, NEW b, b = opened'[i].by, ~LifetimeEnded(b),
         SignedInBy(call[r].state, b), NEW x \in Rests,
         NEW s, s = WithSlots(call[r].state, x), NEW w, w = SlotsOf(s), SlotIn(w, i)',
         call[r].key # NoKey, FinishChanged(r, s)
  PROVE  Kept(r, i)'
<1>1. /\ Safe /\ call[r].state \in State /\ s \in State /\ s = [call[r].state EXCEPT !.rest = x]
  BY OfHandler, WithSlotsFacts DEF BffSafe
<1>2. SignedInBy(s, b)
  BY <1>1 DEF SignedInBy, HasSub, HasTokens, State
<1>3. PICK e : e = EffectiveExpiry(s, now)
  OBVIOUS
<1>4. e # None
  BY <1>1, <1>2, <1>3, SessionIsLive
<1>5. Lasting(e, i)'
  <2>1. SignedInBy(s, b)'
    BY <1>1, <1>2, SignedForGood
  <2>2. QED
    BY <1>1, <1>3, <1>4, <2>1, WrittenLasts
<1>6. Goto(r, "update", call[r].key, s, e)
  BY <1>3, <1>4 DEF FinishChanged, StartUpdate
<1>7. PICK d : d = call'[r]
  OBVIOUS
<1>8. d.pc = "update" /\ d.state = s /\ d.exp = e
  BY <1>1, <1>6, <1>7, GotoIs
<1>9. w = SlotsOf(d.state) /\ Lasting(d.exp, i)'
  BY <1>5, <1>8
<1>10. PICK v : v = InHand(r)'
  OBVIOUS
<1>11. PICK j : j = IF reply'[r] = Nothing THEN jar'[Owner[r]] ELSE reply'[r]
  OBVIOUS
<1>12. QED
  BY <1>7, <1>8, <1>9, <1>10, <1>11, KeptWhere

\* What a handler starts from.
LEMMA CarriedByHandler ==
  ASSUME BffSafe, Onward, NEW r \in Requests, NEW i \in 1..Len(opened), Carries(r, i), Handler(r)
  PROVE  /\ call[r].pc = "handling" /\ call[r].key \in Keys /\ call[r].key # NoKey
         /\ \A k : k = call[r].key => KeptIn(k, i) /\ KeptIn(k, i)'
         /\ \A v : v = InHand(r) => SlotIn(v, i)
         /\ \A v : SlotIn(v, i) => SlotIn(v, i)'
<1>1. call[r].pc = "handling" /\ UNCHANGED rows
  BY OfHandler
  DEF Handler, Login, CallbackStray, CallbackError, CallbackStart, Exchange, CallbackFail,
      CallbackFinish, LogoutStart, Revoke, LogoutFinish, Me, Ready, FlowOK, storeVars, vars
<1>2. PICK k : k = call[r].key
  OBVIOUS
<1>3. KeptIn(k, i) /\ SlotIn(InHand(r), i)
  BY <1>1, <1>2 DEF Carries, Kept
<1>4. k \in Keys /\ k # NoKey /\ KeptIn(k, i)'
  BY <1>1, <1>3, KeptInStays, StoreAssumption DEF KeptIn
<1>5. RouteTypes /\ Grows
  BY TypeParts DEF BffSafe, Onward
<1>6. \A v : SlotIn(v, i) => SlotIn(v, i)'
  BY <1>5, SlotInStays
<1>7. \A v : v = InHand(r) => SlotIn(v, i)
  BY <1>3
<1>8. QED
  BY <1>1, <1>2, <1>3, <1>4, <1>6, <1>7

\* A handler that awaits the provider.
LEMMA SuspendKept ==
  ASSUME BffSafe, Onward, NEW r \in Requests, NEW i \in 1..Len(opened), Carries(r, i), Handler(r),
         UNCHANGED call, NEW v, v = InHand(r)', SlotIn(v, i)
  PROVE  Kept(r, i)'
<1>1. PICK d : d = call'[r]
  OBVIOUS
<1>2. PICK w : w = SlotsOf(d.state)
  OBVIOUS
<1>3. PICK j : j = IF reply'[r] = Nothing THEN jar'[Owner[r]] ELSE reply'[r]
  OBVIOUS
<1>4. d.pc = "handling" /\ KeptIn(d.key, i)' /\ SlotIn(v, i)'
  <2>1. PICK k : k = call[r].key
    OBVIOUS
  <2>2. KeptIn(k, i)' /\ d.key = k /\ d.pc = "handling" /\ SlotIn(v, i)'
    BY <1>1, <2>1, CarriedByHandler
  <2>3. QED
    BY <2>2
<1>5. QED
  BY <1>1, <1>2, <1>3, <1>4, KeptWhere

\* The session is left alone.
LEMMA UnchangedKept ==
  ASSUME BffSafe, SerialSafe, Onward, NEW r \in Requests, NEW i \in 1..Len(opened), Carries(r, i),
         Handler(r), FinishUnchanged(r), UNCHANGED <<jar, reply>>
  PROVE  Kept(r, i)'
<1>1. PICK k : k = call[r].key
  OBVIOUS
<1>2. k \in Keys /\ k # NoKey /\ KeptIn(k, i)' /\ call[r].pc = "handling" /\ Safe
  BY <1>1, CarriedByHandler DEF BffSafe
<1>3. PICK d : d = call'[r]
  OBVIOUS
<1>4. PICK w : w = SlotsOf(d.state)
  OBVIOUS
<1>5. PICK v : v = InHand(r)'
  OBVIOUS
<1>6. PICK j : j = IF reply'[r] = Nothing THEN jar'[Owner[r]] ELSE reply'[r]
  OBVIOUS
<1>7. j = k
  BY <1>1, <1>2, <1>6 DEF SerialSafe
<1>8. CASE Return(r)
  <2>1. d.pc = "idle"
    BY <1>2, <1>3, <1>8 DEF Return, Idle, Safe, TypeOK
  <2>2. KeptIn(j, i)'
    BY <1>2, <1>7
  <2>3. QED
    BY <1>3, <1>4, <1>5, <1>6, <2>1, <2>2, KeptWhere
<1>9. CASE Goto(r, "ttlGet", k, EmptyState, None)
  <2>1. d.pc = "ttlGet" /\ d.key = k
    BY <1>2, <1>3, <1>9, GotoIs
  <2>2. KeptIn(d.key, i)'
    BY <1>2, <2>1
  <2>3. QED
    BY <1>3, <1>4, <1>5, <1>6, <2>1, <2>2, KeptWhere
<1>10. QED
  BY <1>1, <1>8, <1>9 DEF FinishUnchanged

\* A callback that succeeds.
LEMMA FinishKept ==
  ASSUME BffSafe, OwnSafe, Onward, NEW r \in Requests, NEW i \in 1..Len(opened), Carries(r, i),
         Handler(r), CallbackFinish(r)
  PROVE  Kept(r, i)'
<1>1. /\ Safe /\ call[r].state \in State /\ flow[r].rest \in Rests /\ flow[r].at = "verify"
      /\ call[r].key # NoKey
  BY OfHandler, CarriedByHandler DEF BffSafe, CallbackFinish
<1>2. PICK s : s = LoggedIn(WithSlots(call[r].state, flow[r].rest), answer[flow[r].code].sub,
                            flow[r].code, now)
  OBVIOUS
<1>3. s.rest = flow[r].rest
  BY <1>1, <1>2, WithSlotsFacts DEF LoggedIn, State
<1>4. Goto(r, "renewDelete", call[r].key, s, None)
  BY <1>1, <1>2 DEF CallbackFinish, FinishRenewed
<1>5. PICK d : d = call'[r]
  OBVIOUS
<1>6. PICK w : w = SlotsOf(d.state)
  OBVIOUS
<1>7. d.pc = "renewDelete" /\ d.state = s
  BY <1>1, <1>4, <1>5, GotoIs
<1>8. w = InHand(r)
  BY <1>1, <1>3, <1>6, <1>7 DEF InHand, SlotsOf
<1>9. SlotIn(w, i)'
  BY <1>8, CarriedByHandler
<1>10. PICK v : v = InHand(r)'
  OBVIOUS
<1>11. PICK j : j = IF reply'[r] = Nothing THEN jar'[Owner[r]] ELSE reply'[r]
  OBVIOUS
<1>12. QED
  BY <1>5, <1>6, <1>7, <1>9, <1>10, <1>11, KeptWhere

LEMMA WrittenBack ==
  ASSUME BffSafe, SignedSafe, Onward, NEW r \in Requests, NEW i \in 1..Len(opened), Carries(r, i),
         Handler(r), NEW x \in Rests, NEW w, w = SlotsOf([rest |-> x]), SlotIn(w, i),
         FinishChanged(r, WithSlots(call[r].state, x))
  PROVE  Kept(r, i)'
<1>1. /\ Awaited(i) /\ Owner[r] = opened[i].by /\ opened[i].at <= now
      /\ MintedPast /\ CallSigned(r) /\ RouteTypes /\ call[r].state \in State
  BY TypeParts, OfHandler DEF Carries, SignedSafe, BffSafe
<1>2. i \in 1..Len(opened') /\ opened'[i] = opened[i]
  BY <1>1, GrowsKeeps DEF Onward
<1>3. opened[i].at \in Instants
  <2>1. opened[i] \in Opened
    BY <1>1, ElementOfSeq DEF RouteTypes
  <2>2. QED
    BY <2>1 DEF Opened
<1>4. PICK b : b = opened'[i].by
  OBVIOUS
<1>5. ~LifetimeEnded(b) /\ SignedInBy(call[r].state, b)
  BY <1>1, <1>2, <1>4 DEF Awaited, CallSigned
<1>6. PICK s : s = WithSlots(call[r].state, x)
  OBVIOUS
<1>7. w = SlotsOf(s)
  BY <1>1, <1>6, WithSlotsFacts DEF SlotsOf, State
<1>8. SlotIn(w, i)' /\ call[r].key # NoKey
  BY CarriedByHandler
<1>9. QED
  BY <1>1, <1>2, <1>3, <1>4, <1>5, <1>6, <1>7, <1>8, SlotWriteKept

\* What a handler that starts has pruned has the slot in it.
LEMMA ReadyCarries ==
  ASSUME BffSafe, OwnSafe, Onward, NEW r \in Requests, NEW i \in 1..Len(opened), Carries(r, i),
         Handler(r), Ready(r), NEW v, v = LiveSlots(call[r].state)
  PROVE  SlotIn(v, i) /\ v \in SlotVectors /\ v \in Seq(SlotsBegunBy(Owner[r]))
<1>1. PICK u : u = SlotsOf(call[r].state)
  OBVIOUS
<1>2. u = InHand(r)
  BY <1>1, NoFlowTyped DEF Ready, InHand
<1>3. SlotIn(u, i)
  BY <1>2, CarriedByHandler
<1>4. QED
  BY <1>1, <1>3, PruneKeeps

\* A new attempt of the same browser.
LEMMA LoginKept ==
  ASSUME BffSafe, OwnSafe, VectorsSafe, SignedSafe, Onward,
         NEW r \in Requests, NEW i \in 1..Len(opened), Carries(r, i), Handler(r), Awaited(i)',
         NEW a \in Tokens, NEW up \in StepUps, Login(r, a, up)
  PROVE  Kept(r, i)'
<1>1. /\ call[r].state \in State /\ now \in 0..MaxNow /\ now \in Instants /\ Owner[r] \in Browsers
      /\ SlotsOf(call[r].state) \in SlotVectors /\ VectorOK(SlotsOf(call[r].state))
      /\ call[r].state.sub \in Subjects \cup {NoSub} /\ StepUps \subseteq BOOLEAN /\ Ready(r)
  BY OfHandler, FlowAssumption DEF BffSafe, Safe, TypeOK, VectorsSafe, SlotsWellFormed, Login, State
<1>2. PICK slot : slot = [attempt |-> a, started |-> now, stepUp |-> up]
  OBVIOUS
<1>3. PICK v : v = LiveSlots(call[r].state)
  OBVIOUS
<1>4. PICK w : w = PushPreAuth(v, slot)
  OBVIOUS
<1>5. PICK o : o = [attempt |-> a, by |-> Owner[r], at |-> now, stepUp |-> up, as |-> call[r].state.sub]
  OBVIOUS
<1>6. slot \in Slot /\ o \in Opened /\ o.by = Owner[r]
  BY <1>1, <1>2, <1>5 DEF Slot, Opened
<1>7. FinishChanged(r, WithSlots(call[r].state, w)) /\ opened' = Append(opened, o)
  BY <1>2, <1>3, <1>4, <1>5 DEF Login
<1>8. SlotIn(v, i) /\ v \in SlotVectors /\ v \in Seq(SlotsBegunBy(Owner[r]))
  BY <1>1, <1>3, ReadyCarries
<1>9. VectorOK(v)
  <2>1. PICK u : u = SlotsOf(call[r].state)
    OBVIOUS
  <2>2. u \in SlotVectors /\ VectorOK(u) /\ \E kept : v = Retain(u, kept)
    BY <1>1, <1>3, <2>1 DEF LiveSlots
  <2>3. QED
    BY <2>2, RetainKeepsOrder
<1>10. Owner[r] = opened[i].by
  BY DEF Carries
<1>11. SlotIn(w, i)
  BY <1>4, <1>6, <1>7, <1>8, <1>9, <1>10, PushKeepsAwaited
<1>12. w \in Rests /\ w = SlotsOf([rest |-> w])
  BY <1>4, <1>6, <1>8, PushPreAuthTyped, VectorsAreRests, FlowAssumption DEF SlotsOf
<1>13. QED
  BY <1>7, <1>11, <1>12, WrittenBack

LEMMA HandlerKept ==
  ASSUME BffSafe, OwnSafe, SerialSafe, VectorsSafe, SignedSafe, Onward,
         NEW r \in Requests, NEW i \in 1..Len(opened), Carries(r, i), Handler(r), Awaited(i)'
  PROVE  Kept(r, i)'
<1>1. /\ opened[i].attempt \notin closed' /\ call[r].key # NoKey /\ flow[r].rest \in Rests
      /\ flow \in [Requests -> Flow]
  <2>1. RouteTypes /\ opened'[i] = opened[i]
    BY TypeParts, GrowsKeeps DEF BffSafe, Onward
  <2>2. QED
    BY <2>1, OfHandler, CarriedByHandler DEF Awaited, RouteTypes
<1>2. PICK v : v = LiveSlots(call[r].state)
  OBVIOUS
<1>3. Ready(r) => SlotIn(v, i) /\ v \in SlotVectors
  BY <1>2, ReadyCarries
<1>4. \A x \in SlotVectors : x \in Rests /\ x = SlotsOf([rest |-> x])
  BY VectorsAreRests, FlowAssumption DEF SlotsOf
<1>5. PICK h : h = InHand(r)
  OBVIOUS
<1>6. SlotIn(h, i)
  BY <1>5, CarriedByHandler
<1>7. CASE CallbackStray(r)
  <2>1. Ready(r) /\ FinishChanged(r, WithSlots(call[r].state, v))
    BY <1>2, <1>7 DEF CallbackStray
  <2>2. QED
    BY <1>3, <1>4, <2>1, WrittenBack
<1>8. ASSUME NEW a \in Tokens, CallbackError(r, a) \/ \E code \in Attempts : CallbackStart(r, a, code)
      PROVE  Kept(r, i)'
  <2>1. Ready(r) /\ a \in closed'
    BY <1>8 DEF CallbackError, CallbackStart
  <2>2. PICK w : w = Without(v, a)
    OBVIOUS
  <2>3. SlotIn(w, i) /\ w \in SlotVectors
    BY <1>1, <1>3, <2>1, <2>2, OthersMatchKeeps
  <2>4. CASE CallbackError(r, a)
    <3>1. FinishChanged(r, WithSlots(call[r].state, w))
      BY <1>2, <2>2, <2>4 DEF CallbackError
    <3>2. QED
      BY <1>4, <2>3, <3>1, WrittenBack
  <2>5. CASE \E code \in Attempts : CallbackStart(r, a, code)
    <3>1. PICK slot, code : Suspend(r, "exchange", slot, w, code)
      BY <1>2, <2>2, <2>5 DEF CallbackStart
    <3>2. flow'[r].at = "exchange" /\ flow'[r].rest = w /\ UNCHANGED call
      BY <1>1, <2>5, <3>1 DEF Suspend, CallbackStart, vars
    <3>3. w = InHand(r)'
      BY <1>4, <2>3, <3>2 DEF InHand, SlotsOf
    <3>4. QED
      BY <2>3, <3>2, <3>3, SuspendKept
  <2>6. QED
    BY <1>8, <2>4, <2>5
<1>9. CASE Exchange(r) \/ LogoutStart(r) \/ Revoke(r)
  <2>1. UNCHANGED call
    BY <1>9 DEF Exchange, LogoutStart, Revoke, vars
  <2>2. h = InHand(r)'
    <3>1. CASE Exchange(r)
      <4>1. /\ flow'[r].at = "verify" /\ flow'[r].rest = flow[r].rest /\ flow[r].at = "exchange"
        BY <1>1, <3>1 DEF Exchange, Suspend
      <4>2. QED
        BY <1>5, <4>1 DEF InHand, SlotsOf
    <3>2. CASE LogoutStart(r) \/ Revoke(r)
      <4>1. /\ flow'[r].at \in {"revoke", "revoked"} /\ flow[r].at \in {"none", "revoke"}
        BY <1>1, <3>2, NoFlowTyped DEF LogoutStart, Revoke, Suspend, Ready
      <4>2. QED
        BY <1>5, <2>1, <4>1 DEF InHand, SlotsOf
    <3>3. QED
      BY <1>9, <3>1, <3>2
  <2>3. QED
    BY <1>6, <2>1, <2>2, SuspendKept
<1>10. CASE CallbackFail(r)
  <2>1. flow[r].at \in {"exchange", "verify"} /\ FinishChanged(r, WithSlots(call[r].state, flow[r].rest))
    BY <1>10 DEF CallbackFail
  <2>2. h = SlotsOf([rest |-> flow[r].rest])
    BY <1>5, <2>1 DEF InHand, SlotsOf
  <2>3. QED
    BY <1>1, <1>6, <2>1, <2>2, WrittenBack
<1>11. ~(LogoutFinish(r) \/ (Me(r) /\ Discard(r)))
  <2> SUFFICES ASSUME LogoutFinish(r) \/ (Me(r) /\ Discard(r)) PROVE FALSE
    OBVIOUS
  <2>1. Discard(r) /\ flow[r].at \in {"none", "revoke", "revoked"}
    BY NoFlowTyped DEF LogoutFinish, Me, Ready
  <2>2. h = SlotsOf(call[r].state)
    BY <1>5, <2>1 DEF InHand
  <2>3. QED
    BY <1>1, <1>6, <2>1, <2>2 DEF Discard, SlotIn
<1>12. CASE Me(r)
  <2>1. FinishUnchanged(r) /\ UNCHANGED <<jar, reply>>
    BY <1>11, <1>12 DEF Me, Ends
  <2>2. QED
    BY <2>1, UnchangedKept
<1>13. ASSUME NEW a \in Tokens, NEW up \in StepUps, Login(r, a, up) PROVE Kept(r, i)'
  BY <1>13, LoginKept
<1>14. CASE CallbackFinish(r)
  BY <1>14, FinishKept
<1>15. ~LogoutFinish(r)
  BY <1>11
<1>16. QED
  BY <1>7, <1>8, <1>9, <1>10, <1>12, <1>13, <1>14, <1>15 DEF Handler

\* A login route opens an attempt, with its slot in what it writes.
LEMMA LoginOpens ==
  ASSUME BffSafe, SignedSafe, Onward, NEW r \in Requests, NEW a \in Tokens, NEW up \in StepUps,
         Login(r, a, up), NEW i, i = Len(opened) + 1, Awaited(i)'
  PROVE  Owner[r] = opened'[i].by /\ Kept(r, i)'
<1>1. /\ call[r].state \in State /\ now \in 0..MaxNow /\ now \in Instants /\ now \in Int
      /\ Safe /\ RouteTypes /\ CallSafe(call[r]) /\ MintedPast /\ CallSigned(r)
      /\ LiveSlots(call[r].state) \in SlotVectors /\ call[r].pc = "handling"
  BY TypeParts, OfHandler, OfRequest DEF BffSafe, Safe, TypeOK, SignedSafe, Login, Ready, Instants
<1>2. PICK slot : slot = [attempt |-> a, started |-> now, stepUp |-> up]
  OBVIOUS
<1>3. PICK v : v = LiveSlots(call[r].state)
  OBVIOUS
<1>4. PICK w : w = PushPreAuth(v, slot)
  OBVIOUS
<1>5. PICK o : o = [attempt |-> a, by |-> Owner[r], at |-> now, stepUp |-> up, as |-> call[r].state.sub]
  OBVIOUS
<1>6. PICK s : s = WithSlots(call[r].state, w)
  OBVIOUS
<1>7. FinishChanged(r, s) /\ opened' = Append(opened, o) /\ UNCHANGED <<now, minted>>
  BY <1>2, <1>3, <1>4, <1>5, <1>6 DEF Login, storeVars
<1>8. i \in 1..Len(opened') /\ opened'[i] = o
  BY <1>1, <1>7, LenProperties, AppendProperties DEF RouteTypes
<1>9. /\ slot \in Slot /\ slot.attempt = a
      /\ opened'[i].attempt = a /\ opened'[i].by = Owner[r] /\ opened'[i].at = now
  BY <1>1, <1>2, <1>5, <1>8 DEF Slot
<1>10. w \in SlotVectors /\ w \in Rests /\ w # NoRest /\ a \in AttemptsIn(w)
  BY <1>1, <1>3, <1>4, <1>9, PushPreAuthTyped, PushIs, VectorsAreRests, FlowAssumption
<1>11. s \in State /\ s = [call[r].state EXCEPT !.rest = w]
  BY <1>1, <1>6, <1>10, WithSlotsFacts
<1>12. w = SlotsOf(s) /\ s.rest = w
  BY <1>1, <1>10, <1>11 DEF SlotsOf, State
<1>13. SlotIn(w, i)'
  BY <1>9, <1>10 DEF SlotIn, AttemptsIn
<1>14. PICK b : b = Owner[r]
  OBVIOUS
<1>15. CASE call[r].key # NoKey
  <2>1. ~LifetimeEnded(b)
    <3> SUFFICES ASSUME NEW t \in Tokens, BeganBy(t, b), minted[t] # None, minted[t] + MaxLifetime <= now
                 PROVE  FALSE
      BY DEF LifetimeEnded
    <3>1. BeganBy(t, b)' /\ minted'[t] = minted[t] /\ now' = now
      BY <1>1, <1>7, BegunForGood DEF Onward
    <3>2. \A u \in Tokens : ~(BeganBy(u, b)' /\ minted'[u] # None /\ minted'[u] + MaxLifetime <= now')
      <4>1. PICK c : c = opened'[i].by
        OBVIOUS
      <4>2. c = b
        BY <1>9, <1>14, <4>1
      <4>3. \A u \in Tokens : ~(BeganBy(u, c)' /\ minted'[u] # None /\ minted'[u] + MaxLifetime <= now')
        BY <4>1 DEF Awaited, LifetimeEnded, BeganBy
      <4>4. QED
        BY <4>2, <4>3
    <3>3. QED
      BY <3>1, <3>2
  <2>2. SignedInBy(call[r].state, b)
    BY <1>1, <1>14 DEF CallSigned
  <2>3. b = opened'[i].by /\ opened'[i].at \in Instants /\ opened'[i].at <= now
    BY <1>1, <1>9, <1>14
  <2>4. Kept(r, i)'
    BY <1>1, <1>6, <1>7, <1>8, <1>10, <1>12, <1>13, <1>15, <2>1, <2>2, <2>3, SlotWriteKept
  <2>5. QED
    BY <1>9, <2>4
<1>16. CASE call[r].key = NoKey
  <2>1. call[r].state = EmptyState
    BY <1>1, <1>16 DEF CallSafe, CopyDescends
  <2>2. ~HasSub(s) /\ s # EmptyState
    BY <1>1, <1>10, <1>11, <1>12, <2>1 DEF HasSub, EmptyState
  <2>3. StartSave(r, s)
    BY <1>7, <1>16, <2>2 DEF FinishChanged
  <2>4. PICK e : e = EffectiveExpiry(s, now)
    OBVIOUS
  <2>5. e # None
    <3>1. e \in Int
      BY <1>1, <2>2, <2>4, ExpiryAssumption DEF EffectiveExpiry, AtMost
    <3>2. QED
      BY <3>1, ExpiryAssumption
  <2>6. Lasting(e, i)'
    <3>1. SignedInBy(s, b)'
      BY <2>2 DEF SignedInBy
    <3>2. b = opened'[i].by /\ opened'[i].at \in Instants /\ opened'[i].at <= now
      BY <1>1, <1>9, <1>14
    <3>3. QED
      BY <1>8, <1>11, <2>4, <2>5, <3>1, <3>2, WrittenLasts
  <2>7. Kept(r, i)'
    BY <1>11, <1>12, <1>13, <2>2, <2>3, <2>4, <2>6, SavedKept
  <2>8. QED
    BY <1>9, <2>7
<1>17. QED
  BY <1>15, <1>16

-----------------------------------------------------------------------------
(* The slot of an awaited attempt survives.                                  *)

LEMMA AwaitedStaysKept ==
  ASSUME OneAtATime, NoFaults, BffSafe, OwnSafe, SerialSafe, VectorsSafe, SignedSafe, Onward,
         [BffNext]_bffVars, NEW r \in Requests, RowHeld(r), NEW i \in 1..Len(opened),
         Carries(r, i), Awaited(i)'
  PROVE  Kept(r, i)'
<1>1. Kept(r, i)
  BY DEF Carries
<1>2. CASE Send(r)
  BY <1>1, <1>2, SendKept
<1>3. CASE Handler(r)
  BY <1>3, HandlerKept
<1>4. CASE Serve(r)
  BY <1>4, ServeKept
<1>5. CASE Deliver(r)
  BY <1>1, <1>5, DeliverKept
<1>6. CASE ~(Send(r) \/ Handler(r) \/ Serve(r) \/ Deliver(r))
  <2>1. \A k \in Keys : Holds(Owner[r], k) => rows'[k] = rows[k]
    BY <1>6, HeldRowsStay
  <2>2. QED
    BY <1>1, <1>6, <2>1, BystanderStays, KeptStays
<1>7. QED
  BY <1>2, <1>3, <1>4, <1>5, <1>6

LEMMA KeptStep ==
  ASSUME OneAtATime, NoFaults, BffSafe, OwnSafe, SerialSafe, VectorsSafe, SignedSafe, KeptSafe,
         [BffNext]_bffVars
  PROVE  KeptSafe'
<1>1. Onward /\ RouteTypes
  BY StepsOnward, TypeParts DEF BffSafe
<1>2. ASSUME NEW r \in Requests PROVE RowHeld(r)'
  BY <1>2, HeldStep DEF KeptSafe
<1>3. ASSUME NEW i \in 1..Len(opened) PROVE SlotKept(i)'
  <2>1. PICK r \in Requests : Owner[r] = opened[i].by /\ (Awaited(i) => Kept(r, i))
    BY DEF KeptSafe, SlotKept
  <2>2. Owner[r] = opened'[i].by
    BY <1>1, <2>1, GrowsKeeps DEF Onward
  <2>3. ASSUME Awaited(i)' PROVE Kept(r, i)'
    <3>1. Awaited(i)
      BY <1>1, <2>3, AwaitedBefore
    <3>2. Carries(r, i) /\ RowHeld(r)
      BY <2>1, <3>1 DEF Carries, VectorsSafe, KeptSafe
    <3>3. QED
      BY <1>1, <2>3, <3>2, AwaitedStaysKept
  <2>4. QED
    BY <2>2, <2>3 DEF SlotKept
<1>4. ASSUME NEW i \in 1..Len(opened'), i \notin 1..Len(opened) PROVE SlotKept(i)'
  <2>1. opened' # opened
    BY <1>4
  <2>2. PICK r \in Requests, a \in Tokens, up \in StepUps : Login(r, a, up)
    BY <2>1
    DEF BffNext, Handler, CallbackStray, CallbackError, CallbackStart, Exchange, CallbackFail,
        CallbackFinish, LogoutStart, Revoke, LogoutFinish, Me, Serve, Send, Deliver, CutOff,
        Authenticate, Environment, bffVars
  <2>3. i = Len(opened) + 1
    <3>1. PICK o \in Opened : opened' = Append(opened, o)
      BY <1>1, <2>1 DEF Onward, Grows
    <3>2. Len(opened) \in Nat /\ Len(opened') = Len(opened) + 1
      BY <1>1, <3>1, LenProperties, AppendProperties DEF RouteTypes
    <3>3. QED
      BY <1>4, <3>2
  <2>4. Awaited(i)' => Owner[r] = opened'[i].by /\ Kept(r, i)'
    BY <1>1, <2>2, <2>3, LoginOpens
  <2>5. Owner[r] = opened'[i].by
    <3>1. PICK o : o = [attempt |-> a, by |-> Owner[r], at |-> now, stepUp |-> up,
                        as |-> call[r].state.sub]
      OBVIOUS
    <3>2. opened' = Append(opened, o) /\ o.by = Owner[r]
      BY <2>2, <3>1 DEF Login
    <3>3. opened'[i] = o
      BY <1>1, <2>3, <3>2, LenProperties, AppendProperties DEF RouteTypes
    <3>4. QED
      BY <3>2, <3>3
  <2>6. QED
    BY <2>4, <2>5 DEF SlotKept
<1>5. \A i \in 1..Len(opened') : SlotKept(i)'
  BY <1>3, <1>4
<1>6. QED
  BY <1>2, <1>5 DEF KeptSafe

LEMMA KeptInit == BffInit => KeptSafe
<1> SUFFICES ASSUME BffInit PROVE KeptSafe
  OBVIOUS
<1>1. \A r \in Requests : RowHeld(r)
  BY DEF BffInit, Init, RowHeld, Idle
<1>2. Len(opened) = 0
  BY DEF BffInit
<1>3. QED
  BY <1>1, <1>2 DEF KeptSafe

LEMMA KeptSurvives ==
  ASSUME OneAtATime, BffSafe, KeptSafe
  PROVE  SlotsSurvive
<1> SUFFICES ASSUME NEW i \in 1..Len(opened), Quiet(opened[i].by), Awaited(i)
             PROVE  /\ jar[opened[i].by] \in Keys /\ rows[jar[opened[i].by]] # NoRow
                    /\ opened[i].attempt \in AttemptsIn(SlotsOf(rows[jar[opened[i].by]].state))
  BY DEF SlotsSurvive
<1>1. PICK r \in Requests : Owner[r] = opened[i].by /\ Kept(r, i)
  BY DEF KeptSafe, SlotKept
<1>2. call[r].pc = "idle" /\ reply[r] = Nothing
  BY <1>1 DEF Quiet, Idle
<1>3. KeptIn(jar[opened[i].by], i)
  BY <1>1, <1>2 DEF Kept
<1>4. QED
  BY <1>3 DEF KeptIn, SlotIn

\* A login attempt can be completed for as long as it may take: its slot is in the
\* session of its browser until its callback, a logout, MaxSlots newer attempts, its
\* time or the end of the browser's login ends it.  The requests of one browser must
\* not overlap (each writes back the slots it read), nothing may cut a request off (an
\* answer that is lost leaves the browser with the key of a deleted row), and nobody
\* may delete the expired row a signed-in handler is about to write (do-not-resurrect).
THEOREM RoutesSlotsSurvive ==
  ASSUME OneAtATime, NoFaults, LegacyHasNoSlots
  PROVE  BffSpec => []SlotsSurvive
<1>1. NoAborts /\ DeletesSucceed
  BY DEF NoFaults, NoAborts, DeletesSucceed
<1>2. /\ BffInit => VectorsSafe
      /\ BffSafe /\ OwnSafe /\ SerialSafe /\ [BffNext]_bffVars => SerialSafe'
  BY <1>1, VectorsInit, SerialStep
<1>3. BffSafe /\ OwnSafe /\ SerialSafe /\ VectorsSafe /\ SignedSafe /\ KeptSafe /\ [BffNext]_bffVars
        => KeptSafe'
  BY KeptStep
<1>4. BffSafe /\ KeptSafe => SlotsSurvive
  BY KeptSurvives
<1>5. BffSpec => []BffSafe /\ []OwnSafe
  BY RoutesSafe, RoutesOwn
<1>6. QED
  BY <1>2, <1>3, <1>4, <1>5, SerialInit, VectorsStep, SignedInit, SignedStep, KeptInit, PTL DEF BffSpec
=============================================================================
