------------------------------- MODULE OidcRp -------------------------------
(***************************************************************************)
(* OidcRp: the cached provider metadata with the key set in it, refreshed  *)
(* when it is older than the TTL and, when a token does not validate, by   *)
(* force; and the handlers that use it concurrently.                       *)
(*                                                                         *)
(* The code asks only how long ago something happened, so time is a set of *)
(* ages that grow with Tick and stop at the largest value that matters.    *)
(* The provider's keys are generations 0, 1, 2 ...; a document served in   *)
(* generation g holds the keys of g and of the generation before.          *)
(***************************************************************************)
EXTENDS Integers, FiniteSets

CONSTANTS
  Callers,         \* handlers under way
  Nobody,          \* no caller
  JwksTtl,         \* jwks_ttl (900 s)
  ForcedInterval,  \* FORCED_REFRESH_MIN_INTERVAL (60 s)
  FetchLimit,      \* HTTP_TIMEOUT (10 s): how long the provider may take to serve
                   \* the document, and how long the document may be on its way
  MaxGeneration    \* bound on the provider's key rotations

ASSUME RpAssumption ==
  /\ Nobody \notin Callers
  /\ JwksTtl \in Nat /\ ForcedInterval \in Nat /\ FetchLimit \in Nat
  /\ 2 * FetchLimit < ForcedInterval /\ ForcedInterval <= JwksTtl
  /\ MaxGeneration \in Nat

VARIABLES
  generation,    \* the provider's current signing key
  cached,        \* RpInner: the generation its document was served in
  refreshAge,    \* last_refresh.elapsed()
  forcedAge,     \* last_forced_refresh.elapsed(); None is long ago
  holder,        \* who holds the write guard of last_forced_refresh
  task,          \* task[c]: what handler c is doing
  cachedAge,     \* how long ago the cached document was served (history)
  lapsed         \* the last scheduled fetch brought nothing (history)

vars == <<generation, cached, refreshAge, forcedAge, holder, task, cachedAge, lapsed>>
history == <<cachedAge, lapsed>>

Generations == 0..MaxGeneration

\* Ages stop growing here: every comparison made with them is settled.
Old == JwksTtl + FetchLimit + 1
Ages == 0..Old
Older(age) == IF age < Old THEN age + 1 ELSE age

Pcs == {"idle", "client", "fetch", "answer", "take", "exchange", "validate", "force"}

\* why: what the client or the fetch is for, the first validation, the forced
\* refresh or the retry; age: of the fetch, then of the document it brings.
Task ==
  [pc : Pcs, why : {"first", "forced", "retry"}, got : Generations,
   age : Ages, have : Generations, signed : Generations]

Idle == [pc |-> "idle", why |-> "first", got |-> 0, age |-> 0, have |-> 0, signed |-> 0]

\* discover: the document was fetched a moment ago; nothing was forced yet.
Init ==
  /\ generation = 0 /\ cached = 0
  /\ refreshAge = 0 /\ forcedAge = Old
  /\ holder = Nobody
  /\ task = [c \in Callers |-> Idle]
  /\ cachedAge = 0
  /\ lapsed = FALSE

Go(c, t) == task' = [task EXCEPT ![c] = t]
To(c, pc) == Go(c, [task[c] EXCEPT !.pc = pc])

Refreshing == {c \in Callers : task[c].pc \in {"fetch", "answer"}}
Forcing == {c \in Refreshing : task[c].why = "forced"}

-----------------------------------------------------------------------------
(* client(). *)

\* A handler asks for the client.
Begin(c) ==
  /\ task[c].pc = "idle"
  /\ To(c, "client")
  /\ UNCHANGED <<generation, cached, refreshAge, forcedAge, holder, history>>

Fetch(c) == Go(c, [task[c] EXCEPT !.pc = "fetch", !.age = 0])

\* Mutant: the clock is left to run while the fetch is under way.
StartFetch_ClockRuns(c) == Fetch(c) /\ UNCHANGED refreshAge

\* The clock starts again before the fetch, so that everybody else goes on with
\* the cached document.
StartFetch(c) == Fetch(c) /\ refreshAge' = 0

\* Mutant: every request starts the clock again.
RefreshIfStale_Touches(c) ==
  /\ task[c].pc = "client"
  /\ refreshAge' = 0
  /\ IF refreshAge < JwksTtl THEN To(c, "take") ELSE Fetch(c)
  /\ UNCHANGED <<generation, cached, forcedAge, holder, history>>

\* Somebody else may hold the write guard of last_refresh at this moment.
Contended(c) == \E d \in Callers \ {c} : task[d].pc \in {"client", "answer"}

\* refresh_if_stale: fetch when the TTL is over, unless somebody holds the guard.
RefreshIfStale(c) ==
  /\ task[c].pc = "client"
  /\ \/ /\ refreshAge < JwksTtl \/ Contended(c)
        /\ To(c, "take") /\ UNCHANGED refreshAge
     \/ refreshAge >= JwksTtl /\ StartFetch(c)
  /\ UNCHANGED <<generation, cached, forcedAge, holder, history>>

\* client(): the cached client as it is at this moment.  Only a callback has a
\* token to validate with it; a login or a logout is done.
Take(c) ==
  /\ task[c].pc = "take"
  /\ \/ task[c].why = "first" /\ Go(c, Idle)
     \/ Go(c, [task[c] EXCEPT
                 !.pc = IF task[c].why = "first" THEN "exchange" ELSE "validate",
                 !.have = cached])
  /\ UNCHANGED <<generation, cached, refreshAge, forcedAge, holder, history>>

-----------------------------------------------------------------------------
(* refresh_metadata(). *)

\* The provider serves the document.
Served(c) ==
  /\ task[c].pc = "fetch"
  /\ Go(c, [task[c] EXCEPT !.pc = "answer", !.got = generation, !.age = 0])
  /\ UNCHANGED <<generation, cached, refreshAge, forcedAge, holder, history>>

Release(c) == holder' = IF holder = c THEN Nobody ELSE holder

\* The callback takes the client again, through client().
Retry(c) == Go(c, [task[c] EXCEPT !.pc = "client", !.why = "retry"])

\* The document replaces the cached one, whichever was served first.  A forced
\* refresh starts the other clock too, unless its guard is taken that moment.
Install(c) ==
  /\ task[c].pc = "answer"
  /\ cached' = task[c].got /\ cachedAge' = task[c].age /\ lapsed' = FALSE
  /\ IF c \in Forcing
     THEN /\ Retry(c)
          /\ \/ refreshAge' = 0
             \/ Contended(c) /\ UNCHANGED refreshAge
     ELSE To(c, "take") /\ UNCHANGED refreshAge
  /\ Release(c)
  /\ UNCHANGED <<generation, forcedAge>>

\* Mutant: a forced refresh that failed starts the TTL clock as well.
FetchFail_Forgives(c) ==
  /\ c \in Refreshing
  /\ IF c \in Forcing
     THEN Go(c, Idle) /\ refreshAge' = 0 /\ UNCHANGED lapsed
     ELSE To(c, "take") /\ lapsed' = TRUE /\ UNCHANGED refreshAge
  /\ Release(c)
  /\ UNCHANGED <<generation, cached, forcedAge, cachedAge>>

\* No document came: a scheduled refresh goes on with the cached one, a forced
\* one ends the login.
FetchFail(c) ==
  /\ c \in Refreshing
  /\ IF c \in Forcing
     THEN Go(c, Idle) /\ UNCHANGED lapsed
     ELSE To(c, "take") /\ lapsed' = TRUE
  /\ Release(c)
  /\ UNCHANGED <<generation, cached, refreshAge, forcedAge, cachedAge>>

-----------------------------------------------------------------------------
(* The callback. *)

\* exchange_code: the provider signs the token with its key of the moment.
Exchange(c) ==
  /\ task[c].pc = "exchange"
  /\ Go(c, [task[c] EXCEPT !.pc = "validate", !.signed = generation])
  /\ UNCHANGED <<generation, cached, refreshAge, forcedAge, holder, history>>

Knows(t) == t.signed \in {t.have - 1, t.have}

\* The token is valid; or it is not, for its key or for another reason, and the
\* first failure forces a refresh.
Validate(c) ==
  /\ task[c].pc = "validate"
  /\ \/ Knows(task[c]) /\ Go(c, Idle)
     \/ task[c].why = "first" /\ To(c, "force")
     \/ task[c].why = "retry" /\ Go(c, Idle)
  /\ UNCHANGED <<generation, cached, refreshAge, forcedAge, holder, history>>

\* Another forced refresh is under way, or one was tried a moment ago.
ForceRefused == holder # Nobody \/ forcedAge < ForcedInterval

\* force_refresh_for_retry, up to its fetch.
ForceRefresh(c) ==
  /\ task[c].pc = "force"
  /\ IF ForceRefused
     THEN Go(c, Idle) /\ UNCHANGED <<forcedAge, holder>>
     ELSE /\ forcedAge' = 0 /\ holder' = c
          /\ Go(c, [task[c] EXCEPT !.pc = "fetch", !.why = "forced", !.age = 0])
  /\ UNCHANGED <<generation, cached, refreshAge, history>>

\* Mutant: the guard is not given back.
Cancel_KeepsGuard(c) ==
  /\ task[c].pc # "idle"
  /\ Go(c, Idle)
  /\ lapsed' = (lapsed \/ c \in Refreshing \ Forcing)
  /\ UNCHANGED <<generation, cached, refreshAge, forcedAge, holder, cachedAge>>

\* The client hangs up and the handler is dropped, its guard with it.
Cancel(c) ==
  /\ task[c].pc # "idle"
  /\ Go(c, Idle)
  /\ lapsed' = (lapsed \/ c \in Refreshing \ Forcing)
  /\ Release(c)
  /\ UNCHANGED <<generation, cached, refreshAge, forcedAge, cachedAge>>

-----------------------------------------------------------------------------
(* The provider and the clock. *)

Rotate ==
  /\ generation < MaxGeneration
  /\ generation' = generation + 1
  /\ UNCHANGED <<cached, refreshAge, forcedAge, holder, task, history>>

\* A fetch cannot outlast its timeouts.
Tick ==
  /\ \A c \in Refreshing : task[c].age < FetchLimit
  /\ refreshAge' = Older(refreshAge) /\ forcedAge' = Older(forcedAge)
  /\ cachedAge' = Older(cachedAge)
  /\ task' = [c \in Callers |->
                IF c \in Refreshing THEN [task[c] EXCEPT !.age = Older(@)] ELSE task[c]]
  /\ UNCHANGED <<generation, cached, holder, lapsed>>

Step(c) ==
  \/ RefreshIfStale(c) \/ Take(c) \/ Exchange(c) \/ Validate(c) \/ ForceRefresh(c)

Next ==
  \/ \E c \in Callers :
       Begin(c) \/ Step(c) \/ Served(c) \/ Install(c) \/ FetchFail(c) \/ Cancel(c)
  \/ Rotate
  \/ Tick

Spec == Init /\ [][Next]_vars

Starts(c) == RefreshIfStale(c) /\ task'[c].pc = "fetch"

\* Requests keep coming and are served, time passes, and not every fetch is lost.
\* The guard of last_refresh is taken by try_write, which does not fail for
\* everybody: one of those who meet a stale document fetches in the end.
Fairness ==
  /\ WF_vars(Tick)
  /\ \A c \in Callers : WF_vars(Begin(c)) /\ WF_vars(Step(c))
  /\ SF_vars(\E c \in Callers : Starts(c))
  /\ SF_vars(\E c \in Callers : Served(c))
  /\ SF_vars(\E c \in Callers : Install(c))

FairSpec == Spec /\ Fairness

-----------------------------------------------------------------------------
(* Properties. *)

\* Types; and the write guard of last_forced_refresh is held by the handler that
\* is making a forced refresh, for exactly as long as it makes it, hung-up
\* clients and failed fetches included.
RpTypeOK ==
  /\ generation \in Generations /\ cached \in Generations
  /\ refreshAge \in Ages /\ forcedAge \in Ages /\ cachedAge \in Ages
  /\ task \in [Callers -> Task]
  /\ lapsed \in BOOLEAN
  /\ holder \in Callers \cup {Nobody}
  /\ Forcing = {holder} \ {Nobody}

\* No stampede: however many handlers meet a stale document or a token that does
\* not validate, at most one scheduled and one forced refresh are on the network
\* (refresh_if_stale's clock, force_refresh_for_retry's guard and interval).
AtMostTwoFetches ==
  /\ Cardinality(Forcing) <= 1
  /\ Cardinality(Refreshing \ Forcing) <= 1

\* A retired provider key is not trusted for longer than the clock of the TTL
\* says: unless a scheduled refresh is under way or came to nothing, the cached
\* document is no older than last_refresh and the time it took to arrive.
CacheAgeBounded ==
  lapsed \/ Refreshing # Forcing \/ cachedAge <= refreshAge + FetchLimit \/ refreshAge = Old

\* The JWKS is refreshed without a restart: whatever the provider rotates to, the
\* cached document catches up with it, and again after every later rotation.
KeysArrive == []<>(cached = generation)

-----------------------------------------------------------------------------
(* The inductive invariant behind the safety properties. *)

Scheduled == Refreshing \ Forcing

\* A handler is there for a forced refresh only while it makes it.
ForcedIsFetching == \A c \in Callers : task[c].why = "forced" => c \in Refreshing

\* How long ago the fetch of t began, at most.
BegunWithin(t) == IF t.pc = "answer" THEN FetchLimit + t.age ELSE t.age

\* No fetch outlasts its timeouts, and the clock of the TTL, started before a
\* scheduled fetch, has not run for longer than that fetch has.
FetchesAreYoung ==
  /\ \A c \in Refreshing : task[c].age <= FetchLimit
  /\ \A c \in Scheduled : refreshAge <= BegunWithin(task[c])

OneScheduled == \A c, d \in Scheduled : c = d

RpSafe ==
  /\ RpTypeOK
  /\ ForcedIsFetching
  /\ FetchesAreYoung
  /\ OneScheduled
  /\ CacheAgeBounded
=============================================================================
