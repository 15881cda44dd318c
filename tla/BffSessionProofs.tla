--------------------------- MODULE BffSessionProofs ---------------------------
(***************************************************************************)
(* The routes do to the store only what the store was verified against:    *)
(* BffSpec implies the specification of DbSessionStore, for all values of  *)
(* the constants.                                                          *)
(***************************************************************************)
EXTENDS BffSession, DbSessionStoreProofs, SelectionProofs

-----------------------------------------------------------------------------
(* The slot vectors. *)

\* A slot vector is a sequence of at most MaxSlots slots.
LEMMA SlotVectorsAreSeqs ==
  \A v : v \in SlotVectors <=> v \in Seq(Slot) /\ Len(v) <= MaxSlots
<1>1. ASSUME NEW v \in SlotVectors PROVE v \in Seq(Slot) /\ Len(v) <= MaxSlots
  <2>1. PICK n \in 0..MaxSlots : v \in [1..n -> Slot]
    BY DEF SlotVectors
  <2>2. n \in Nat /\ n <= MaxSlots
    BY FlowAssumption
  <2>3. v \in Seq(Slot)
    <3>1. v \in UNION {[1..m -> Slot] : m \in Nat}
      BY <2>1, <2>2, Zenon
    <3>2. QED
      BY <3>1, SeqDef, Zenon
  <2>4. Len(v) \in Nat /\ 1..Len(v) = 1..n
    BY <2>1, <2>3, LenProperties
  <2>5. Len(v) = n
    BY <2>2, <2>4
  <2>6. QED
    BY <2>2, <2>3, <2>5
<1>2. ASSUME NEW v \in Seq(Slot), Len(v) <= MaxSlots PROVE v \in SlotVectors
  <2>1. Len(v) \in 0..MaxSlots /\ v \in [1..Len(v) -> Slot]
    BY <1>2, FlowAssumption
  <2>2. QED
    BY <2>1 DEF SlotVectors
<1>3. QED
  BY <1>1, <1>2

LEMMA SlotsOfTyped == \A s \in State : SlotsOf(s) \in SlotVectors
<1>1. << >> \in SlotVectors
  <2>1. << >> \in Seq(Slot) /\ Len(<< >>) = 0 /\ 0 <= MaxSlots
    BY FlowAssumption
  <2>2. QED
    BY <2>1, SlotVectorsAreSeqs, Zenon
<1>2. QED
  BY <1>1, FlowAssumption DEF SlotsOf, State

LEMMA RetainKeepsVectors ==
  ASSUME NEW v \in SlotVectors, NEW kept
  PROVE  Retain(v, kept) \in SlotVectors
<1>1. v \in Seq(Slot) /\ Len(v) <= MaxSlots /\ Len(v) \in Nat
  BY SlotVectorsAreSeqs
<1>2. Retain(v, kept) \in Seq(Slot) /\ Len(Retain(v, kept)) <= Len(v)
  BY <1>1, RetainTyped
<1>3. Len(Retain(v, kept)) \in Nat
  BY <1>2
<1>4. QED
  BY <1>1, <1>2, <1>3, SlotVectorsAreSeqs, FlowAssumption

\* prune_expired, take_matching and push_pre_auth leave slot vectors.
LEMMA HelpersTyped ==
  /\ \A s \in State : LiveSlots(s) \in SlotVectors
  /\ \A v \in SlotVectors : \A a : Without(v, a) \in SlotVectors
BY SlotsOfTyped, RetainKeepsVectors DEF LiveSlots, Without

LEMMA PushPreAuthTyped ==
  ASSUME NEW v \in SlotVectors, NEW slot \in Slot
  PROVE  PushPreAuth(v, slot) \in SlotVectors
<1> DEFINE n == Len(v)
           m == IF n < MaxSlots THEN 1 ELSE n - MaxSlots + 2
           kept == SubSeq(v, m, n)
<1>1. v \in Seq(Slot) /\ n \in Nat /\ n <= MaxSlots /\ MaxSlots \in Nat \ {0}
  BY SlotVectorsAreSeqs, FlowAssumption
<1> HIDE DEF n
<1>2. m \in Int /\ m >= 1 /\ (IF m <= n THEN n - m + 1 ELSE 0) < MaxSlots
  <2>1. CASE n < MaxSlots
    BY <1>1, <2>1
  <2>2. CASE ~(n < MaxSlots)
    <3>1. n = MaxSlots /\ m = 2
      BY <1>1, <2>2
    <3>2. QED
      BY <1>1, <3>1
  <2>3. QED
    BY <2>1, <2>2
<1>3. \A i \in m..n : v[i] \in Slot
  <2>1. \A i \in 1..Len(v) : v[i] \in Slot
    BY <1>1, ElementOfSeq
  <2>2. \A i \in m..n : i \in 1..n
    BY <1>1, <1>2
  <2>3. QED
    BY <2>1, <2>2 DEF n
<1> HIDE DEF m
<1>4. kept \in Seq(Slot) /\ Len(kept) = IF m <= n THEN n - m + 1 ELSE 0
  BY <1>1, <1>2, <1>3, SubSeqProperties
<1> HIDE DEF kept
<1>5. Append(kept, slot) \in Seq(Slot) /\ Len(Append(kept, slot)) = Len(kept) + 1
  BY <1>4, AppendProperties
<1>6. Len(Append(kept, slot)) <= MaxSlots
  BY <1>1, <1>2, <1>4, <1>5
<1>7. PushPreAuth(v, slot) = Append(kept, slot)
  BY DEF PushPreAuth, kept, m, n
<1>8. QED
  BY <1>5, <1>6, <1>7, SlotVectorsAreSeqs

\* A session with other slots is a session, and one the operation "rest" leads to.
LEMMA WithSlotsFacts ==
  ASSUME NEW s \in State, NEW v \in Rests
  PROVE  /\ WithSlots(s, v) \in State
         /\ WithSlots(s, v) = [s EXCEPT !.rest = v]
         /\ WithSlots(s, v) \in AppResults(s, "rest")
<1>1. WithSlots(s, v) = [s EXCEPT !.rest = v]
  BY DEF WithSlots
<1>2. [s EXCEPT !.rest = v] \in AppResults(s, "rest")
  BY DEF AppResults
<1>3. QED
  BY <1>1, <1>2 DEF State

LEMMA VectorsAreRests == SlotVectors \subseteq Rests
BY FlowAssumption

-----------------------------------------------------------------------------
(* Every end of a handler is one the store model knows. *)

BffSafe == Safe /\ BffTypeOK /\ OneLoginPerCode

\* What the invariant says of request r alone.
LEMMA OfHandler ==
  ASSUME BffSafe, NEW r \in Requests
  PROVE  /\ call[r].state \in State /\ SlotsOf(call[r].state) \in SlotVectors
         /\ LiveSlots(call[r].state) \in SlotVectors
         /\ flow[r] \in Flow /\ flow[r].rest \in Rests /\ FlowOK(r)
         /\ now \in 0..MaxNow /\ Owner[r] \in Browsers
<1>1. Safe /\ BffTypeOK /\ OneLoginPerCode
  BY DEF BffSafe
<1>2. call[r].state \in State /\ now \in Nat
  BY <1>1, OfRequest DEF Instants
<1>3. now <= MaxNow /\ FlowOK(r) /\ flow[r] \in Flow /\ Owner[r] \in Browsers
  BY <1>1, FlowAssumption DEF OneLoginPerCode, BffTypeOK
<1>4. now \in 0..MaxNow
  BY <1>2, <1>3, StoreAssumption
<1>5. flow[r].rest \in Rests
  BY <1>3 DEF Flow
<1>6. QED
  BY <1>2, <1>3, <1>4, <1>5, SlotsOfTyped, HelpersTyped

\* A handler that ends by writing slots back.
LEMMA SlotWriteIsChange ==
  ASSUME BffSafe, NEW r \in Requests, NEW v \in Rests,
         call[r].pc = "handling",
         FinishChanged(r, WithSlots(call[r].state, v)),
         UNCHANGED <<now, rows, birth, minted>>
  PROVE  HandleChanged(r)
<1>1. WithSlots(call[r].state, v) \in AppResults(call[r].state, "rest")
  BY OfHandler, WithSlotsFacts
<1>2. QED
  BY <1>1, FlowAssumption DEF HandleChanged

LEMMA LoginIsChange ==
  ASSUME BffSafe, NEW r \in Requests, NEW a \in Tokens, NEW up \in StepUps, Login(r, a, up)
  PROVE  HandleChanged(r)
<1> DEFINE slot == [attempt |-> a, started |-> now, stepUp |-> up]
           v == PushPreAuth(LiveSlots(call[r].state), slot)
<1>1. slot \in Slot
  BY OfHandler DEF Slot
<1>2. v \in Rests
  BY <1>1, OfHandler, PushPreAuthTyped, VectorsAreRests
<1>3. /\ call[r].pc = "handling" /\ FinishChanged(r, WithSlots(call[r].state, v))
      /\ UNCHANGED <<now, rows, birth, minted>>
  BY DEF Login, Ready, storeVars
<1> HIDE DEF v
<1>4. QED
  BY <1>2, <1>3, SlotWriteIsChange

LEMMA RefusalIsChange ==
  ASSUME BffSafe, NEW r \in Requests,
         CallbackStray(r) \/ CallbackFail(r) \/ \E a \in Tokens : CallbackError(r, a)
  PROVE  HandleChanged(r)
<1>1. CASE CallbackStray(r)
  <2>1. LiveSlots(call[r].state) \in Rests
    BY OfHandler, VectorsAreRests
  <2>2. QED
    BY <1>1, <2>1, SlotWriteIsChange DEF CallbackStray, Ready, storeVars
<1>2. CASE CallbackFail(r)
  <2>1. call[r].pc = "handling"
    BY <1>2, OfHandler DEF CallbackFail, FlowOK
  <2>2. QED
    BY <1>2, <2>1, OfHandler, SlotWriteIsChange DEF CallbackFail, storeVars
<1>3. CASE \E a \in Tokens : CallbackError(r, a)
  <2>1. PICK a \in Tokens : CallbackError(r, a)
    BY <1>3
  <2>2. Without(LiveSlots(call[r].state), a) \in Rests
    BY OfHandler, HelpersTyped, VectorsAreRests
  <2>3. QED
    BY <2>1, <2>2, SlotWriteIsChange DEF CallbackError, Ready, storeVars
<1>4. QED
  BY <1>1, <1>2, <1>3

\* The end of the callback is the login of the store model: the code stands for
\* tokens nobody has, the subject is the provider's.
LEMMA FinishIsLogin ==
  ASSUME BffSafe, NEW r \in Requests, CallbackFinish(r)
  PROVE  HandleLogin(r)
<1> DEFINE t == flow[r].code
           u == answer[flow[r].code].sub
           x == flow[r].rest
<1>1. call[r].pc = "handling" /\ t \in Tokens /\ minted[t] = None /\ answer[t] # None
  BY OfHandler DEF CallbackFinish, FlowOK
<1>2. u \in Subjects
  BY <1>1 DEF BffSafe, BffTypeOK
<1>3. x \in Rests /\ WithSlots(call[r].state, x) = [call[r].state EXCEPT !.rest = x]
  BY OfHandler, WithSlotsFacts
<1>4. /\ minted' = [minted EXCEPT ![t] = now]
      /\ FinishRenewed(r, LoggedIn(WithSlots(call[r].state, x), u, t, now))
      /\ UNCHANGED <<now, rows, birth>>
  BY DEF CallbackFinish
<1> HIDE DEF t, u, x
<1>5. QED
  BY <1>1, <1>2, <1>3, <1>4 DEF HandleLogin

\* Every step of a handler.
LEMMA HandlerRefines ==
  ASSUME BffSafe, NEW r \in Requests, Handler(r)
  PROVE  HandlerStep(r) \/ UNCHANGED vars
<1>1. CASE \E a \in Tokens, up \in StepUps : Login(r, a, up)
  BY <1>1, LoginIsChange DEF HandlerStep
<1>2. CASE CallbackStray(r) \/ CallbackFail(r) \/ \E a \in Tokens : CallbackError(r, a)
  BY <1>2, RefusalIsChange DEF HandlerStep
<1>3. CASE CallbackFinish(r)
  BY <1>3, FinishIsLogin DEF HandlerStep
<1>4. CASE LogoutFinish(r)
  <2>1. call[r].pc = "handling"
    BY <1>4, OfHandler DEF LogoutFinish, FlowOK
  <2>2. QED
    BY <1>4, <2>1 DEF LogoutFinish, HandlerStep, HandlePurge, storeVars
<1>5. CASE Me(r)
  BY <1>5 DEF Me, Ready, HandlerStep, HandlePurge, HandleUnchanged, storeVars
<1>6. CASE \/ \E a \in Tokens, code \in Attempts : CallbackStart(r, a, code)
           \/ Exchange(r) \/ LogoutStart(r) \/ Revoke(r)
  BY <1>6 DEF CallbackStart, Exchange, LogoutStart, Revoke
<1>7. QED
  BY <1>1, <1>2, <1>3, <1>4, <1>5, <1>6 DEF Handler

\* Every step of the system is a step of the store, or none.
LEMMA BffStepRefines == BffSafe /\ [BffNext]_bffVars => [Next]_vars
<1> SUFFICES ASSUME BffSafe, [BffNext]_bffVars PROVE [Next]_vars
  OBVIOUS
<1>1. ASSUME NEW r \in Requests, Send(r) PROVE Next
  <2>1. jar[Owner[r]] \in Keys \cup {NoKey}
    BY OfHandler DEF BffSafe, BffTypeOK
  <2>2. QED
    BY <1>1, <2>1 DEF Send, Next
<1>2. ASSUME NEW r \in Requests, Handler(r) PROVE [Next]_vars
  BY <1>2, HandlerRefines DEF Next
<1>3. ASSUME NEW r \in Requests, Serve(r) PROVE Next
  BY <1>3 DEF Serve, Next
<1>4. ASSUME NEW r \in Requests, Deliver(r) \/ CutOff(r) PROVE [Next]_vars
  BY <1>4 DEF Deliver, CutOff, Next
<1>5. ASSUME NEW a \in Tokens, Authenticate(a) PROVE UNCHANGED vars
  BY <1>5 DEF Authenticate
<1>6. CASE Environment
  BY <1>6 DEF Environment, Next
<1>7. CASE UNCHANGED bffVars
  BY <1>7 DEF bffVars
<1>8. QED
  BY <1>1, <1>2, <1>3, <1>4, <1>5, <1>6, <1>7 DEF BffNext

-----------------------------------------------------------------------------
(* The invariant of the suspended handlers is preserved. *)

Opened == [attempt : Tokens, by : Browsers, at : Instants, stepUp : BOOLEAN,
           as : Subjects \cup {NoSub}]

\* The types of what the routes add to the store.
RouteTypes ==
  /\ jar \in [Browsers -> Keys \cup {NoKey}]
  /\ reply \in [Requests -> Keys \cup {NoKey, Nothing}]
  /\ flow \in [Requests -> Flow]
  /\ opened \in Seq(Opened)
  /\ closed \subseteq Tokens /\ redeemed \subseteq Tokens /\ revoked \subseteq Tokens
  /\ answer \in [Tokens -> [sub : Subjects, authAt : AuthTimes] \cup {None}]

LEMMA TypeParts == (BffTypeOK <=> TypeOK /\ RouteTypes) /\ (BffTypeOK' <=> TypeOK' /\ RouteTypes')
BY DEF BffTypeOK, RouteTypes, Opened

\* A step for request r moves no other request, and no key is forgotten.
LEMMA OnlyCall ==
  ASSUME NEW r \in Requests, call \in [Requests -> Call],
         (\E k \in Keys \cup {NoKey} : Begin(r, k)) \/ StoreStep(r) \/ HandlerStep(r) \/ Abort(r)
  PROVE  \A q \in Requests \ {r} : call'[q] = call[q]
<1>1. ASSUME NEW c, call' = [call EXCEPT ![r] = c]
      PROVE  \A q \in Requests \ {r} : call'[q] = call[q]
  BY <1>1
<1>2. SUFFICES \E c : call' = [call EXCEPT ![r] = c]
  BY <1>1
<1>3. ASSUME NEW p, NEW k, NEW s, NEW e, Goto(r, p, k, s, e)
      PROVE  \E c : call' = [call EXCEPT ![r] = c]
  BY <1>3 DEF Goto
<1>4. ASSUME Return(r) PROVE \E c : call' = [call EXCEPT ![r] = c]
  BY <1>4 DEF Return
<1>5. ASSUME NoSession(r) PROVE \E c : call' = [call EXCEPT ![r] = c]
  BY <1>3, <1>5 DEF NoSession
<1>6. ASSUME NEW s, StartSave(r, s) PROVE \E c : call' = [call EXCEPT ![r] = c]
  BY <1>3, <1>6 DEF StartSave
<1>7. ASSUME NEW k, NEW s, StartUpdate(r, k, s) PROVE \E c : call' = [call EXCEPT ![r] = c]
  BY <1>3, <1>7 DEF StartUpdate
<1>8. ASSUME NEW s, FinishChanged(r, s) PROVE \E c : call' = [call EXCEPT ![r] = c]
  BY <1>4, <1>6, <1>7, <1>8 DEF FinishChanged
<1>9. ASSUME NEW s, FinishRenewed(r, s) PROVE \E c : call' = [call EXCEPT ![r] = c]
  BY <1>3, <1>6, <1>9 DEF FinishRenewed
<1>10. ASSUME FinishUnchanged(r) \/ FinishPurged(r) PROVE \E c : call' = [call EXCEPT ![r] = c]
  BY <1>3, <1>4, <1>10 DEF FinishUnchanged, FinishPurged
<1>11. CASE \E k \in Keys \cup {NoKey} : Begin(r, k)
  BY <1>3, <1>5, <1>11 DEF Begin
<1>12. CASE HandlerStep(r)
  BY <1>8, <1>9, <1>10, <1>12
  DEF HandlerStep, HandleUnchanged, HandleChanged, HandleLogin, HandlePurge
<1>13. CASE LoadGet(r) \/ LoadCheck(r) \/ LoadDelete(r)
  BY <1>3, <1>5, <1>13 DEF LoadGet, LoadCheck, LoadDelete
<1>14. CASE Insert(r) \/ SaveRefused(r) \/ DeadDelete(r) \/ PurgeDelete(r) \/ TtlDelete(r)
              \/ Touch(r) \/ Abort(r)
  BY <1>4, <1>14 DEF Insert, SaveRefused, DeadDelete, PurgeDelete, TtlDelete, Touch, Abort
<1>15. CASE UpdateRow(r) \/ RenewDelete(r)
  BY <1>3, <1>4, <1>6, <1>15 DEF UpdateRow, RenewDelete
<1>16. CASE TtlGet(r) \/ TtlCheck(r)
  BY <1>3, <1>4, <1>16 DEF TtlGet, TtlCheck
<1>17. QED
  BY <1>11, <1>12, <1>13, <1>14, <1>15, <1>16 DEF StoreStep

\* Births are for good; only Insert makes one.
LEMMA StoreStepBirths ==
  ASSUME Safe, NEW r \in Requests, StoreStep(r)
  PROVE  /\ UNCHANGED <<now, minted>> /\ call[r].pc # "handling"
         /\ \/ UNCHANGED birth
            \/ \E k \in Keys : /\ birth' = [birth EXCEPT ![k] = call[r].state]
                               /\ call[r].state # None
<1>1. CASE Insert(r)
  <2>1. call[r].state # None
    BY OfRequest, StateFacts
  <2>2. QED
    BY <1>1, <2>1 DEF Insert, FreshKeys
<1>2. CASE ~Insert(r)
  BY <1>2 DEF StoreStep, LoadGet, LoadCheck, LoadDelete, SaveRefused, UpdateRow, DeadDelete,
     RenewDelete, PurgeDelete, TtlGet, TtlCheck, TtlDelete, Touch
<1>3. QED
  BY <1>1, <1>2

LEMMA IssuedForGood ==
  ASSUME Safe, NEW r \in Requests, StoreStep(r) \/ UNCHANGED birth
  PROVE  \A k \in Keys : Issued(k) => Issued(k)'
<1>1. birth \in [Keys -> State \cup {None}]
  BY DEF Safe, TypeOK
<1>2. QED
  BY <1>1, StoreStepBirths DEF Issued

\* Set-Cookie names a key that was issued.
LEMMA SetCookieIssued ==
  ASSUME Safe, NEW r \in Requests, StoreStep(r)
  PROVE  /\ SetCookie(r) \in Keys \cup {NoKey, Nothing}
         /\ SetCookie(r) \in Keys => birth'[SetCookie(r)] # None
<1>1. birth \in [Keys -> State \cup {None}]
  BY DEF Safe, TypeOK
<1>2. CASE birth' # birth
  <2>1. PICK k \in Keys : birth' = [birth EXCEPT ![k] = call[r].state] /\ call[r].state # None
    BY <1>2, StoreStepBirths
  <2>2. /\ birth'[k] # birth[k] /\ birth'[k] # None
        /\ \A j \in Keys : birth'[j] # birth[j] => j = k
    BY <1>1, <1>2, <2>1
  <2>3. (CHOOSE j \in Keys : birth'[j] # birth[j]) = k
    BY <2>2
  <2>4. SetCookie(r) = Nothing \/ SetCookie(r) = k
    BY <1>2, <2>3 DEF SetCookie
  <2>5. QED
    BY <2>2, <2>4, FlowAssumption
<1>3. CASE birth' = birth
  <2>1. \/ SetCookie(r) \in {Nothing, NoKey}
        \/ SetCookie(r) = call[r].key /\ call[r].pc \in KeyPcs
    BY <1>3 DEF SetCookie, KeyPcs
  <2>2. call[r].pc \in KeyPcs => call[r].key \in Keys /\ Issued(call[r].key)
    BY OfRequest, StoreAssumption DEF CallSafe, CopyDescends
  <2>3. QED
    BY <1>3, <2>1, <2>2, StoreAssumption, FlowAssumption DEF Issued
<1>4. QED
  BY <1>2, <1>3

\* A step in which only request r moves, and not to the verification of a code,
\* leaves the handlers as they should be.
LEMMA FlowsKept ==
  ASSUME BffSafe, NEW r \in Requests,
         \A q \in Requests \ {r} : call'[q] = call[q] /\ flow'[q] = flow[q],
         flow'[r].at # "verify",
         flow'[r].at # "none" => call'[r].pc = "handling",
         flow'[r].at = "exchange" => flow'[r].code \in Tokens,
         redeemed \subseteq redeemed',
         \A t \in Tokens : answer[t] # None => answer'[t] # None,
         \A t \in Tokens : \/ minted'[t] = minted[t]
                           \/ flow[r].at = "verify" /\ flow[r].code = t
  PROVE  \A q \in Requests : FlowOK(q)'
<1>1. \A q \in Requests : FlowOK(q)
  BY DEF BffSafe, OneLoginPerCode
<1>2. FlowOK(r)'
  BY DEF FlowOK
<1>3. ASSUME NEW q \in Requests \ {r} PROVE FlowOK(q)'
  <2>1. FlowOK(q) /\ call'[q] = call[q] /\ flow'[q] = flow[q]
    BY <1>1
  <2>2. CASE flow[q].at # "verify"
    BY <2>1, <2>2 DEF FlowOK
  <2>3. CASE flow[q].at = "verify"
    <3>1. /\ call[q].pc = "handling" /\ flow[q].code \in Tokens /\ flow[q].code \in redeemed
          /\ answer[flow[q].code] # None /\ minted[flow[q].code] = None
          /\ \A p \in Requests : flow[p].at = "verify" /\ flow[p].code = flow[q].code => p = q
      BY <2>1, <2>3 DEF FlowOK
    <3>2. minted'[flow[q].code] = None
      BY <3>1
    <3>3. \A p \in Requests : flow'[p].at = "verify" /\ flow'[p].code = flow'[q].code => p = q
      BY <2>1, <3>1
    <3>4. QED
      BY <2>1, <3>1, <3>2, <3>3 DEF FlowOK
  <2>4. QED
    BY <2>2, <2>3
<1>4. QED
  BY <1>2, <1>3

LEMMA SuspendTyped ==
  ASSUME RouteTypes, NEW r \in Requests, NEW at \in FlowPcs, NEW slot \in Slot \cup {None},
         NEW rest \in Rests, NEW code \in Tokens \cup {NoTok}, Suspend(r, at, slot, rest, code)
  PROVE  flow' \in [Requests -> Flow]
BY DEF RouteTypes, Suspend, Flow

LEMMA NoFlowTyped == NoFlow \in Flow /\ NoFlow.at = "none"
BY StateAssumption DEF NoFlow, Flow, FlowPcs

LEMMA AttemptsTyped ==
  /\ \A v \in SlotVectors : AttemptsIn(v) \subseteq Tokens
  /\ \A v \in SlotVectors : \A a : Matching(v, a) \subseteq Slot
  /\ RouteTypes => Attempts \subseteq Tokens
<1>1. \A v \in SlotVectors : \A i \in DOMAIN v : v[i] \in Slot
  BY DEF SlotVectors
<1>2. RouteTypes => \A i \in 1..Len(opened) : opened[i] \in Opened
  BY ElementOfSeq DEF RouteTypes
<1>3. ASSUME NEW v \in SlotVectors PROVE AttemptsIn(v) \subseteq Tokens
  BY <1>1 DEF AttemptsIn, Slot
<1>4. ASSUME NEW v \in SlotVectors, NEW a PROVE Matching(v, a) \subseteq Slot
  BY <1>1 DEF Matching
<1>5. RouteTypes => Attempts \subseteq Tokens
  BY <1>2 DEF Attempts, Opened
<1>6. QED
  BY <1>3, <1>4, <1>5

LEMMA HandlerTypes ==
  ASSUME BffSafe, NEW r \in Requests, Handler(r)
  PROVE  RouteTypes'
<1> USE DEF idpVars
<1>1. RouteTypes /\ Safe
  BY TypeParts DEF BffSafe
<1>2. /\ call[r].state \in State /\ SlotsOf(call[r].state) \in SlotVectors
      /\ LiveSlots(call[r].state) \in SlotVectors /\ flow[r] \in Flow /\ FlowOK(r)
      /\ now \in Instants /\ Owner[r] \in Browsers
  BY <1>1, OfHandler, OfRequest
<1>3. ASSUME Ends(r) PROVE flow' \in [Requests -> Flow] /\ UNCHANGED reply
  BY <1>1, <1>3, NoFlowTyped DEF Ends, RouteTypes
<1>4. ASSUME NEW a \in Tokens, NEW up \in StepUps, Login(r, a, up) PROVE RouteTypes'
  <2> DEFINE o == [attempt |-> a, by |-> Owner[r], at |-> now, stepUp |-> up,
                   as |-> call[r].state.sub]
  <2>1. up \in BOOLEAN
    BY FlowAssumption, Zenon
  <2>2. o \in Opened
    BY <1>2, <2>1 DEF Opened, State
  <2>3. opened' = Append(opened, o) /\ Ends(r) /\ UNCHANGED <<jar, closed, idpVars>>
    BY <1>4 DEF Login
  <2> HIDE DEF o
  <2>4. opened' \in Seq(Opened)
    BY <1>1, <2>2, <2>3, AppendProperties DEF RouteTypes
  <2>5. QED
    BY <1>1, <1>3, <2>3, <2>4 DEF RouteTypes
<1>5. CASE CallbackStray(r) \/ CallbackFail(r) \/ CallbackFinish(r)
  BY <1>1, <1>3, <1>5 DEF CallbackStray, CallbackFail, CallbackFinish, RouteTypes
<1>6. ASSUME NEW a \in Tokens, CallbackError(r, a) PROVE RouteTypes'
  BY <1>1, <1>3, <1>6 DEF CallbackError, RouteTypes
<1>7. ASSUME NEW a \in Tokens, NEW code \in Attempts, CallbackStart(r, a, code)
      PROVE  RouteTypes'
  <2> DEFINE v == LiveSlots(call[r].state)
  <2>1. PICK slot \in Matching(v, a) : Suspend(r, "exchange", slot, Without(v, a), code)
    BY <1>7 DEF CallbackStart
  <2>2. slot \in Slot /\ Without(v, a) \in Rests /\ code \in Tokens
    BY <1>1, <1>2, AttemptsTyped, HelpersTyped, VectorsAreRests
  <2> HIDE DEF v
  <2>3. flow' \in [Requests -> Flow]
    BY <1>1, <2>1, <2>2, SuspendTyped DEF FlowPcs
  <2>4. QED
    BY <1>1, <1>7, <2>3 DEF CallbackStart, RouteTypes
<1>8. CASE Exchange(r)
  <2>1. flow[r].code \in Tokens
    BY <1>2, <1>8 DEF Exchange, FlowOK
  <2>2. flow' \in [Requests -> Flow]
    BY <1>1, <1>2, <1>8, SuspendTyped DEF Exchange, Flow, FlowPcs
  <2>3. QED
    BY <1>1, <1>8, <2>1, <2>2 DEF Exchange, RouteTypes
<1>9. CASE LogoutStart(r) \/ Revoke(r)
  <2>1. flow[r].code \in Tokens \cup {NoTok} /\ call[r].state.tok \in Tokens \cup {NoTok}
    BY <1>2 DEF Flow, State
  <2>2. flow' \in [Requests -> Flow]
    BY <1>1, <1>9, <2>1, StateAssumption, SuspendTyped DEF LogoutStart, Revoke, FlowPcs
  <2>3. QED
    BY <1>1, <1>9, <2>1, <2>2 DEF LogoutStart, Revoke, RouteTypes
<1>10. CASE LogoutFinish(r) \/ Me(r)
  <2>1. closed' \subseteq Tokens
    BY <1>1, <1>2, <1>10, AttemptsTyped DEF LogoutFinish, Me, Discard, RouteTypes
  <2>2. QED
    BY <1>1, <1>3, <1>10, <2>1 DEF LogoutFinish, Me, RouteTypes
<1>11. QED
  BY <1>4, <1>5, <1>6, <1>7, <1>8, <1>9, <1>10 DEF Handler

\* The steps of handlers keep what the invariant says of codes.
LEMMA HandlerFlows ==
  ASSUME BffSafe, NEW r \in Requests, Handler(r)
  PROVE  /\ \A q \in Requests : FlowOK(q)'
         /\ \A t \in Tokens : minted'[t] # None => t \in redeemed'
<1> USE DEF idpVars, storeVars
<1>1. /\ RouteTypes /\ Safe /\ call \in [Requests -> Call]
      /\ minted \in [Tokens -> Instants \cup {None}]
      /\ \A t \in Tokens : minted[t] # None => t \in redeemed
      /\ \A q \in Requests : FlowOK(q)
  BY TypeParts DEF BffSafe, OneLoginPerCode, Safe, TypeOK
<1>2. FlowOK(r) /\ flow[r] \in Flow
  BY OfHandler
<1>3. \A q \in Requests \ {r} : call'[q] = call[q]
  BY <1>1, HandlerRefines, OnlyCall DEF vars
<1>4. ASSUME NEW f, flow' = [flow EXCEPT ![r] = f]
      PROVE  flow'[r] = f /\ \A q \in Requests \ {r} : flow'[q] = flow[q]
  BY <1>1, <1>4 DEF RouteTypes
<1>5. ASSUME Ends(r) PROVE flow'[r].at = "none" /\ \A q \in Requests \ {r} : flow'[q] = flow[q]
  BY <1>4, <1>5, NoFlowTyped DEF Ends
<1>6. ASSUME NEW at, NEW slot, NEW rest, NEW code, Suspend(r, at, slot, rest, code)
      PROVE  /\ flow'[r].at = at /\ flow'[r].code = code
             /\ \A q \in Requests \ {r} : flow'[q] = flow[q]
  BY <1>4, <1>6 DEF Suspend
<1>7. ASSUME Ends(r), UNCHANGED <<answer, redeemed>>,
             \A t \in Tokens : \/ minted'[t] = minted[t]
                               \/ flow[r].at = "verify" /\ flow[r].code = t
      PROVE  \A q \in Requests : FlowOK(q)'
  BY <1>3, <1>5, <1>7, FlowsKept
<1>8. CASE \/ CallbackStray(r) \/ CallbackFail(r) \/ LogoutFinish(r) \/ Me(r)
           \/ \E a \in Tokens : CallbackError(r, a)
           \/ \E a \in Tokens, up \in StepUps : Login(r, a, up)
  <2>1. Ends(r) /\ UNCHANGED <<answer, redeemed, minted>>
    BY <1>8 DEF CallbackStray, CallbackFail, LogoutFinish, Me, CallbackError, Login
  <2>2. QED
    BY <1>1, <1>7, <2>1
<1>9. CASE CallbackFinish(r)
  <2>1. /\ flow[r].at = "verify" /\ flow[r].code \in Tokens /\ flow[r].code \in redeemed
        /\ minted' = [minted EXCEPT ![flow[r].code] = now]
        /\ Ends(r) /\ UNCHANGED <<answer, redeemed>>
    BY <1>2, <1>9 DEF CallbackFinish, FlowOK
  <2>2. \A t \in Tokens : minted'[t] = minted[t] \/ t = flow[r].code
    BY <1>1, <2>1
  <2>3. QED
    BY <1>1, <1>7, <2>1, <2>2
<1>10. ASSUME NEW at \in {"exchange", "revoke", "revoked"}, NEW slot, NEW rest, NEW code,
              Suspend(r, at, slot, rest, code), at = "exchange" => code \in Tokens,
              call[r].pc = "handling", UNCHANGED <<vars, answer, redeemed>>
       PROVE  /\ \A q \in Requests : FlowOK(q)'
              /\ \A t \in Tokens : minted'[t] # None => t \in redeemed'
  <2>1. /\ flow'[r].at = at /\ flow'[r].code = code
        /\ \A q \in Requests \ {r} : flow'[q] = flow[q]
    BY <1>6, <1>10, Zenon
  <2>2. UNCHANGED <<minted, call>>
    BY <1>10 DEF vars
  <2>3. QED
    BY <1>1, <1>3, <1>10, <2>1, <2>2, FlowsKept
<1>11. CASE \E a \in Tokens, code \in Attempts : CallbackStart(r, a, code)
  <2>1. PICK a \in Tokens, code \in Attempts : CallbackStart(r, a, code)
    BY <1>11
  <2>2. code \in Tokens
    BY <1>1, AttemptsTyped
  <2>3. QED
    BY <1>10, <2>1, <2>2 DEF CallbackStart, Ready
<1>12. CASE LogoutStart(r) \/ Revoke(r)
  BY <1>2, <1>10, <1>12 DEF LogoutStart, Revoke, Ready, FlowOK
<1>13. CASE Exchange(r)
  <2> DEFINE code == flow[r].code
  <2>1. /\ flow[r].at = "exchange" /\ code \in Tokens /\ call[r].pc = "handling"
        /\ answer[code] # None /\ code \notin redeemed /\ redeemed' = redeemed \cup {code}
        /\ UNCHANGED <<call, minted, answer>>
    BY <1>2, <1>13 DEF Exchange, FlowOK, vars
  <2>2. /\ flow'[r].at = "verify" /\ flow'[r].code = code
        /\ \A q \in Requests \ {r} : flow'[q] = flow[q]
    <3>1. Suspend(r, "verify", flow[r].slot, flow[r].rest, code)
      BY <1>13 DEF Exchange
    <3>2. QED
      BY <1>6, <3>1, Zenon
  <2> HIDE DEF code
  <2>3. minted[code] = None
    BY <1>1, <2>1
  <2>4. \A q \in Requests : flow[q].at = "verify" => flow[q].code # code
    BY <1>1, <2>1 DEF FlowOK
  <2>5. FlowOK(r)'
    BY <2>1, <2>2, <2>3, <2>4 DEF FlowOK
  <2>6. ASSUME NEW q \in Requests \ {r} PROVE FlowOK(q)'
    <3>1. FlowOK(q)
      BY <1>1
    <3>2. flow'[q] = flow[q] /\ call'[q] = call[q]
      BY <1>3, <2>2
    <3>3. flow[q].at = "verify" => \A p \in Requests :
            flow'[p].at = "verify" /\ flow'[p].code = flow[q].code => p = q
      BY <2>2, <2>4, <3>1 DEF FlowOK
    <3>4. QED
      BY <2>1, <3>1, <3>2, <3>3 DEF FlowOK
  <2>7. QED
    BY <1>1, <2>1, <2>5, <2>6
<1>14. QED
  BY <1>8, <1>9, <1>11, <1>12, <1>13 DEF Handler

LEMMA BffSafeInit == BffInit => BffSafe
<1> SUFFICES ASSUME BffInit PROVE BffSafe
  OBVIOUS
<1>1. Safe
  BY SafeInit DEF BffInit
<1>2. opened \in Seq(Opened) /\ opened = << >>
  BY DEF BffInit
<1>3. RouteTypes
  BY <1>2, NoFlowTyped DEF BffInit, RouteTypes
<1>4. now = 0 /\ \A t \in Tokens : minted[t] = None
  BY DEF BffInit, Init
<1>5. OneLoginPerCode
  BY <1>4, StoreAssumption, FlowAssumption, NoFlowTyped DEF BffInit, OneLoginPerCode, FlowOK
<1>6. QED
  BY <1>1, <1>3, <1>5, TypeParts DEF BffSafe, Safe

\* The steps outside the handlers.
LEMMA SendKeeps ==
  ASSUME BffSafe, NEW r \in Requests, Send(r)
  PROVE  RouteTypes' /\ OneLoginPerCode'
<1>1. RouteTypes /\ Safe /\ OneLoginPerCode /\ call \in [Requests -> Call] /\ FlowOK(r)
  BY TypeParts, OfHandler DEF BffSafe, Safe, TypeOK
<1>2. /\ call[r].pc = "idle" /\ UNCHANGED <<now, rows, birth, minted>>
      /\ UNCHANGED <<jar, reply, flow, opened, closed, answer, redeemed, revoked>>
  BY DEF Send, Begin, idpVars
<1>3. \A q \in Requests \ {r} : call'[q] = call[q]
  <2>1. jar[Owner[r]] \in Keys \cup {NoKey}
    BY <1>1, OfHandler DEF RouteTypes
  <2>2. QED
    BY <1>1, <2>1, OnlyCall DEF Send
<1>4. flow[r].at = "none"
  BY <1>1, <1>2 DEF FlowOK
<1>5. \A q \in Requests : FlowOK(q)'
  BY <1>2, <1>3, <1>4, FlowsKept
<1>6. QED
  BY <1>1, <1>2, <1>5 DEF RouteTypes, OneLoginPerCode, Issued

LEMMA ServeKeeps ==
  ASSUME BffSafe, NEW r \in Requests, Serve(r)
  PROVE  RouteTypes' /\ OneLoginPerCode'
<1>1. RouteTypes /\ Safe /\ OneLoginPerCode /\ call \in [Requests -> Call] /\ FlowOK(r)
  BY TypeParts, OfHandler DEF BffSafe, Safe, TypeOK
<1>2. /\ StoreStep(r) /\ reply' = [reply EXCEPT ![r] = SetCookie(r)]
      /\ UNCHANGED <<jar, flow, opened, closed, answer, redeemed, revoked>>
  BY DEF Serve, idpVars
<1>3. /\ UNCHANGED <<now, minted>> /\ flow[r].at = "none"
      /\ \A k \in Keys : Issued(k) => Issued(k)'
  BY <1>1, <1>2, StoreStepBirths, IssuedForGood DEF FlowOK
<1>4. \A q \in Requests : FlowOK(q)'
  <2>1. \A q \in Requests \ {r} : call'[q] = call[q]
    BY <1>1, <1>2, OnlyCall
  <2>2. QED
    BY <1>2, <1>3, <2>1, FlowsKept
<1>5. /\ reply' \in [Requests -> Keys \cup {NoKey, Nothing}]
      /\ \A q \in Requests : reply'[q] \in Keys => birth'[reply'[q]] # None
  <2>1. /\ SetCookie(r) \in Keys \cup {NoKey, Nothing}
        /\ SetCookie(r) \in Keys => birth'[SetCookie(r)] # None
    BY <1>1, <1>2, SetCookieIssued
  <2>2. /\ reply' \in [Requests -> Keys \cup {NoKey, Nothing}] /\ reply'[r] = SetCookie(r)
        /\ \A q \in Requests \ {r} : reply'[q] = reply[q]
    BY <1>1, <1>2, <2>1 DEF RouteTypes
  <2>3. QED
    BY <1>1, <1>3, <2>1, <2>2 DEF OneLoginPerCode, Issued
<1>6. \A b \in Browsers : jar'[b] # NoKey => birth'[jar'[b]] # None
  BY <1>1, <1>2, <1>3 DEF RouteTypes, OneLoginPerCode, Issued
<1>7. QED
  BY <1>1, <1>2, <1>3, <1>4, <1>5, <1>6 DEF RouteTypes, OneLoginPerCode, Issued

LEMMA DeliverKeeps ==
  ASSUME BffSafe, NEW r \in Requests, Deliver(r)
  PROVE  RouteTypes' /\ OneLoginPerCode'
<1>1. RouteTypes /\ OneLoginPerCode /\ Owner[r] \in Browsers
  BY TypeParts, OfHandler DEF BffSafe
<1>2. /\ reply[r] # Nothing
      /\ jar' = [jar EXCEPT ![Owner[r]] = reply[r]]
      /\ reply' = [reply EXCEPT ![r] = Nothing]
      /\ UNCHANGED <<now, rows, birth, minted, call>>
      /\ UNCHANGED <<flow, opened, closed, answer, redeemed, revoked>>
  BY DEF Deliver, vars, idpVars
<1>3. reply[r] \in Keys \cup {NoKey} /\ (reply[r] # NoKey => Issued(reply[r]))
  BY <1>1, <1>2 DEF RouteTypes, OneLoginPerCode
<1>4. RouteTypes'
  BY <1>1, <1>2, <1>3 DEF RouteTypes
<1>5. \A b \in Browsers : jar'[b] # NoKey => Issued(jar'[b])
  BY <1>1, <1>2, <1>3 DEF RouteTypes, OneLoginPerCode
<1>6. \A q \in Requests : reply'[q] \in Keys => Issued(reply'[q])
  BY <1>1, <1>2, FlowAssumption DEF RouteTypes, OneLoginPerCode
<1>7. QED
  BY <1>1, <1>2, <1>4, <1>5, <1>6 DEF OneLoginPerCode, FlowOK, Issued

LEMMA CutOffKeeps ==
  ASSUME BffSafe, NEW r \in Requests, CutOff(r)
  PROVE  RouteTypes' /\ OneLoginPerCode'
<1>1. RouteTypes /\ OneLoginPerCode /\ Safe /\ call \in [Requests -> Call]
  BY TypeParts DEF BffSafe, Safe, TypeOK
<1>2. /\ UNCHANGED reply \/ reply' = [reply EXCEPT ![r] = Nothing]
      /\ flow' = [flow EXCEPT ![r] = NoFlow]
      /\ UNCHANGED <<now, rows, birth, minted>>
      /\ UNCHANGED <<jar, opened, closed, answer, redeemed, revoked>>
  BY DEF CutOff, Abort, vars, idpVars
<1>3. \A q \in Requests \ {r} : call'[q] = call[q]
  BY <1>1, OnlyCall DEF CutOff, vars
<1>4. /\ flow' \in [Requests -> Flow] /\ flow'[r].at = "none"
      /\ \A q \in Requests \ {r} : flow'[q] = flow[q]
  BY <1>1, <1>2, NoFlowTyped DEF RouteTypes
<1>5. \A q \in Requests : FlowOK(q)'
  BY <1>2, <1>3, <1>4, FlowsKept
<1>6. /\ reply' \in [Requests -> Keys \cup {NoKey, Nothing}]
      /\ \A q \in Requests : reply'[q] \in Keys => Issued(reply'[q])
  BY <1>1, <1>2, FlowAssumption DEF RouteTypes, OneLoginPerCode
<1>7. QED
  BY <1>1, <1>2, <1>4, <1>5, <1>6 DEF RouteTypes, OneLoginPerCode, Issued

LEMMA OutsideKeeps ==
  ASSUME BffSafe, (\E a \in Tokens : Authenticate(a)) \/ Environment \/ UNCHANGED bffVars
  PROVE  RouteTypes' /\ OneLoginPerCode'
<1>1. RouteTypes /\ OneLoginPerCode
  BY TypeParts DEF BffSafe
<1>2. CASE \E a \in Tokens : Authenticate(a)
  <2>1. PICK a \in Tokens, u \in Subjects, t \in AuthTimes :
          answer' = [answer EXCEPT ![a] = [sub |-> u, authAt |-> t]]
    BY <1>2 DEF Authenticate
  <2>2. /\ UNCHANGED <<now, rows, birth, minted, call>>
        /\ UNCHANGED <<jar, reply, flow, opened, closed, redeemed, revoked>>
    BY <1>2 DEF Authenticate, vars
  <2>3. [sub |-> u, authAt |-> t] # None
    BY FlowAssumption
  <2>4. RouteTypes' /\ \A b \in Tokens : answer[b] # None => answer'[b] # None
    BY <1>1, <2>1, <2>2, <2>3 DEF RouteTypes
  <2>5. QED
    BY <1>1, <2>2, <2>4 DEF OneLoginPerCode, FlowOK, Issued
<1>3. CASE Environment \/ UNCHANGED bffVars
  <2>1. /\ UNCHANGED <<birth, minted, call>> /\ now' <= MaxNow
        /\ UNCHANGED <<jar, reply, flow, opened, closed, answer, redeemed, revoked>>
    <3>1. now \in Nat /\ MaxNow \in Nat /\ now <= MaxNow
      BY <1>1, StoreAssumption DEF BffSafe, Safe, TypeOK, Instants, OneLoginPerCode
    <3>2. QED
      BY <1>3, <3>1 DEF Environment, Tick, Sweep, bffVars, vars, idpVars
  <2>2. QED
    BY <1>1, <2>1 DEF RouteTypes, OneLoginPerCode, FlowOK, Issued
<1>4. QED
  BY <1>2, <1>3

LEMMA HandlerKeeps ==
  ASSUME BffSafe, NEW r \in Requests, Handler(r)
  PROVE  RouteTypes' /\ OneLoginPerCode'
<1>1. RouteTypes /\ OneLoginPerCode
  BY TypeParts DEF BffSafe
<1>2. UNCHANGED <<now, birth, jar, reply>>
  BY HandlerRefines
  DEF Handler, Login, CallbackStray, CallbackError, CallbackStart, Exchange, CallbackFail,
      CallbackFinish, LogoutStart, Revoke, LogoutFinish, Me, Ends, storeVars, vars
<1>3. QED
  BY <1>1, <1>2, HandlerTypes, HandlerFlows DEF OneLoginPerCode, RouteTypes, Issued

LEMMA BffSafeStep == BffSafe /\ [BffNext]_bffVars => BffSafe'
<1> SUFFICES ASSUME BffSafe, [BffNext]_bffVars PROVE BffSafe'
  OBVIOUS
<1>1. Safe'
  BY BffStepRefines, SafeStep DEF BffSafe
<1>2. RouteTypes' /\ OneLoginPerCode'
  BY SendKeeps, HandlerKeeps, ServeKeeps, DeliverKeeps, CutOffKeeps, OutsideKeeps DEF BffNext
<1>3. QED
  BY <1>1, <1>2, TypeParts DEF BffSafe, Safe

-----------------------------------------------------------------------------
(* The theorems. *)

\* The invariant of the routes: the store's, the types, and one login per code.
THEOREM RoutesSafe == BffSpec => []BffSafe
BY BffSafeInit, BffSafeStep, PTL DEF BffSpec

\* The routes implement the store's model of handlers: whatever callbacks, logins,
\* logouts and browsers interleave, with all their awaits, every handler ends as
\* unchanged, as a change of slots, as a purge, or as one new login under a new key.
THEOREM BffImplementsStore == BffSpec => StoreSpec
<1>1. BffInit => Init
  BY DEF BffInit
<1>2. QED
  BY <1>1, RoutesSafe, BffStepRefines, PTL DEF BffSpec, StoreSpec, Spec

\* From the code exchange to the end of the callback one handler works with a code,
\* and a code makes one login.
THEOREM BffOneLoginPerCode == BffSpec => []OneLoginPerCode
<1>1. BffSafe => OneLoginPerCode
  BY DEF BffSafe
<1>2. QED
  BY <1>1, RoutesSafe, PTL

\* Every reachable state of the routes, browsers and provider is well typed.
THEOREM BffTyped == BffSpec => []BffTypeOK
<1>1. BffSafe => BffTypeOK
  BY DEF BffSafe
<1>2. QED
  BY <1>1, RoutesSafe, PTL
=============================================================================
