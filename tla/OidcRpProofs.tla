---------------------------- MODULE OidcRpProofs ----------------------------
(***************************************************************************)
(* Proofs about OidcRp, for any number of handlers, any TTLs the           *)
(* assumption allows and any number of rotations of the provider's keys.   *)
(***************************************************************************)
EXTENDS OidcRp, FiniteSetTheorems, TLAPS

\* Time passes by one, up to the age that settles every comparison.
LEMMA OlderFacts ==
  ASSUME NEW a \in Ages
  PROVE  /\ Older(a) \in Ages
         /\ a < Old => Older(a) = a + 1
         /\ a = Old => Older(a) = Old
BY RpAssumption DEF Older, Ages, Old

LEMMA AgeFacts == 0 \in Ages /\ Old \in Ages /\ FetchLimit < Old /\ Old \in Nat
BY RpAssumption DEF Ages, Old

LEMMA IdleFacts == Idle \in Task /\ Idle.pc = "idle" /\ Idle.why = "first"
BY RpAssumption, AgeFacts DEF Idle, Task, Pcs, Generations

LEMMA RpSafeInit == Init => RpSafe
<1> SUFFICES ASSUME Init PROVE RpSafe
  OBVIOUS
<1>1. task \in [Callers -> Task] /\ \A c \in Callers : task[c] = Idle
  BY IdleFacts DEF Init
<1>2. Refreshing = {} /\ Forcing = {} /\ \A c \in Callers : task[c].why = "first"
  BY <1>1, IdleFacts DEF Refreshing, Forcing
<1>3. RpTypeOK
  <2>1. generation \in Generations /\ cached \in Generations
    BY RpAssumption DEF Init, Generations
  <2>2. Forcing = {holder} \ {Nobody} /\ holder \in Callers \cup {Nobody}
    BY <1>2 DEF Init
  <2>3. QED
    BY <1>1, <2>1, <2>2, AgeFacts DEF Init, RpTypeOK
<1>4. QED
  BY <1>2, <1>3, RpAssumption
  DEF RpSafe, ForcedIsFetching, FetchesAreYoung, OneScheduled, Scheduled, CacheAgeBounded, Init

-----------------------------------------------------------------------------
(* One handler moves on: what becomes of the sets of those that refresh.     *)

LEMMA CallerMoves ==
  ASSUME task \in [Callers -> Task], NEW c \in Callers, NEW t \in Task, Go(c, t)
  PROVE  /\ task' \in [Callers -> Task] /\ task'[c] = t
         /\ \A d \in Callers \ {c} : task'[d] = task[d]
         /\ Refreshing' \ {c} = Refreshing \ {c}
         /\ Forcing' \ {c} = Forcing \ {c}
         /\ Scheduled' \ {c} = Scheduled \ {c}
         /\ c \in Refreshing' <=> t.pc \in {"fetch", "answer"}
         /\ c \in Forcing' <=> t.pc \in {"fetch", "answer"} /\ t.why = "forced"
<1>1. /\ task' \in [Callers -> Task] /\ task'[c] = t
      /\ \A d \in Callers \ {c} : task'[d] = task[d]
  BY DEF Go
<1>2. QED
  BY <1>1 DEF Refreshing, Forcing, Scheduled

\* What a handler that is about to move on is made of.
LEMMA TaskFacts ==
  ASSUME RpSafe, NEW c \in Callers
  PROVE  /\ task \in [Callers -> Task] /\ task[c] \in Task
         /\ \A pc \in Pcs :
              LET t == [task[c] EXCEPT !.pc = pc]
              IN  t \in Task /\ t.pc = pc /\ t.why = task[c].why
         /\ c \in Refreshing <=> task[c].pc \in {"fetch", "answer"}
         /\ c \in Forcing <=> c \in Refreshing /\ task[c].why = "forced"
         /\ c \notin Refreshing => task[c].why # "forced"
         /\ c \in Forcing <=> holder = c
         /\ generation \in Generations /\ cached \in Generations /\ 0 \in Ages
<1>1. /\ task \in [Callers -> Task] /\ task[c] \in Task
      /\ generation \in Generations /\ cached \in Generations /\ 0 \in Ages
  BY AgeFacts DEF RpSafe, RpTypeOK
<1>2. \A pc \in Pcs : LET t == [task[c] EXCEPT !.pc = pc]
                      IN  t \in Task /\ t.pc = pc /\ t.why = task[c].why
  BY <1>1 DEF Task
<1>3. /\ c \in Refreshing <=> task[c].pc \in {"fetch", "answer"}
      /\ c \in Forcing <=> c \in Refreshing /\ task[c].why = "forced"
      /\ c \notin Refreshing => task[c].why # "forced"
  BY DEF RpSafe, ForcedIsFetching, Refreshing, Forcing
<1>4. c \in Forcing <=> holder = c
  BY RpAssumption DEF RpSafe, RpTypeOK
<1>5. QED
  BY <1>1, <1>2, <1>3, <1>4

\* A handler moves on outside of a refresh, before or after it.
LEMMA QuietMoves ==
  ASSUME RpSafe, NEW c \in Callers, NEW t \in Task, Go(c, t),
         c \notin Refreshing, t.pc \notin {"fetch", "answer"}, t.why # "forced",
         UNCHANGED <<generation, cached, refreshAge, forcedAge, holder, history>>
  PROVE  RpSafe'
<1>0. task \in [Callers -> Task] /\ c \notin Forcing /\ c \notin Scheduled
  BY TaskFacts DEF Scheduled
<1>1. /\ task' \in [Callers -> Task] /\ task'[c] = t
      /\ \A d \in Callers \ {c} : task'[d] = task[d]
      /\ Refreshing' = Refreshing /\ Forcing' = Forcing /\ Scheduled' = Scheduled
  BY <1>0, CallerMoves DEF Scheduled
<1>2. RpTypeOK'
  BY <1>1 DEF RpSafe, RpTypeOK, history, Generations, Ages, Old
<1>3. ForcedIsFetching'
  BY <1>1 DEF RpSafe, ForcedIsFetching
<1>5. FetchesAreYoung' /\ OneScheduled'
  <2>1. \A d \in Refreshing : task'[d] = task[d]
    BY <1>1 DEF Refreshing
  <2>2. QED
    BY <1>1, <2>1 DEF RpSafe, FetchesAreYoung, OneScheduled, Scheduled, BegunWithin
<1>6. CacheAgeBounded'
  BY <1>1 DEF RpSafe, CacheAgeBounded, history, Old
<1>7. QED
  BY <1>2, <1>3, <1>5, <1>6 DEF RpSafe

LEMMA QuietStepsKeepSafe ==
  ASSUME RpSafe, NEW c \in Callers,
         \/ Begin(c) \/ Take(c) \/ Exchange(c) \/ Validate(c)
         \/ RefreshIfStale(c) /\ To(c, "take") /\ UNCHANGED refreshAge
         \/ ForceRefresh(c) /\ ForceRefused
  PROVE  RpSafe'
<1> DEFINE same == UNCHANGED <<generation, cached, refreshAge, forcedAge, holder, history>>
<1>0. /\ task[c] \in Task /\ generation \in Generations /\ cached \in Generations
      /\ c \notin Refreshing => task[c].why # "forced"
      /\ task[c].pc \notin {"fetch", "answer"} => c \notin Refreshing
  BY TaskFacts
<1>1. ASSUME NEW pc \in Pcs \ {"fetch", "answer"}, To(c, pc), same, c \notin Refreshing PROVE RpSafe'
  BY <1>0, <1>1, TaskFacts, QuietMoves, ZenonT(30) DEF To
<1>2. ASSUME Go(c, Idle), same, c \notin Refreshing PROVE RpSafe'
  BY <1>2, QuietMoves, IdleFacts
<1>3. CASE Begin(c)
  BY <1>3, <1>0, <1>1 DEF Begin, Pcs
<1>4. CASE Take(c)
  <2> DEFINE t == [task[c] EXCEPT
                     !.pc = IF task[c].why = "first" THEN "exchange" ELSE "validate",
                     !.have = cached]
  <2>1. t \in Task /\ t.pc \notin {"fetch", "answer"} /\ t.why = task[c].why
    BY <1>0 DEF Task, Pcs
  <2>2. Go(c, Idle) \/ Go(c, t)
    BY <1>4 DEF Take
  <2>3. same /\ c \notin Refreshing
    BY <1>0, <1>4 DEF Take
  <2> HIDE DEF t
  <2>4. QED
    BY <2>1, <2>2, <2>3, <1>0, <1>2, QuietMoves
<1>5. CASE Exchange(c)
  <2> DEFINE t == [task[c] EXCEPT !.pc = "validate", !.signed = generation]
  <2>1. t \in Task /\ t.pc \notin {"fetch", "answer"} /\ t.why = task[c].why
    BY <1>0 DEF Task, Pcs
  <2>2. Go(c, t) /\ same /\ c \notin Refreshing
    BY <1>0, <1>5 DEF Exchange
  <2> HIDE DEF t
  <2>3. QED
    BY <2>1, <2>2, <1>0, QuietMoves
<1>6. CASE Validate(c)
  BY <1>6, <1>0, <1>1, <1>2 DEF Validate, Pcs
<1>7. CASE RefreshIfStale(c) /\ To(c, "take") /\ UNCHANGED refreshAge
  BY <1>7, <1>0, <1>1 DEF RefreshIfStale, Pcs
<1>8. CASE ForceRefresh(c) /\ ForceRefused
  BY <1>8, <1>0, <1>2 DEF ForceRefresh
<1>9. QED
  BY <1>3, <1>4, <1>5, <1>6, <1>7, <1>8

-----------------------------------------------------------------------------
(* The refresh. *)

\* A scheduled refresh begins.  The TTL is over, so no other is under way: the
\* clock has run for longer than any fetch may last.
LEMMA StartFetchKeepsSafe ==
  ASSUME RpSafe, NEW c \in Callers, RefreshIfStale(c), refreshAge >= JwksTtl, StartFetch(c)
  PROVE  RpSafe'
<1> DEFINE t == [task[c] EXCEPT !.pc = "fetch", !.age = 0]
<1>0. /\ task \in [Callers -> Task] /\ task[c] \in Task /\ 0 \in Ages
      /\ c \notin Refreshing /\ c \notin Forcing /\ task[c].why # "forced"
  BY TaskFacts DEF RefreshIfStale
<1>1. t \in Task /\ t.pc = "fetch" /\ t.age = 0 /\ t.why # "forced"
  BY <1>0 DEF Task, Pcs
<1>2. Go(c, t) /\ refreshAge' = 0 /\ UNCHANGED <<generation, cached, forcedAge, holder, history>>
  BY DEF RefreshIfStale, StartFetch, Fetch
<1> HIDE DEF t
<1>3. /\ task' \in [Callers -> Task] /\ task'[c] = t
      /\ \A d \in Callers \ {c} : task'[d] = task[d]
      /\ Refreshing' = Refreshing \cup {c} /\ Forcing' = Forcing
      /\ Scheduled' = Scheduled \cup {c}
  BY <1>0, <1>1, <1>2, CallerMoves DEF Scheduled
<1>4. Scheduled = {}
  <2> SUFFICES ASSUME NEW d \in Scheduled PROVE FALSE
    OBVIOUS
  <2>1. d \in Callers /\ d \in Refreshing /\ task[d].age <= FetchLimit /\ task[d].age \in Nat
    BY DEF RpSafe, RpTypeOK, FetchesAreYoung, Scheduled, Refreshing, Task, Ages
  <2>2. refreshAge <= BegunWithin(task[d])
    BY DEF RpSafe, FetchesAreYoung
  <2>3. refreshAge \in Nat
    BY DEF RpSafe, RpTypeOK, Ages
  <2>4. QED
    BY <2>1, <2>2, <2>3, RpAssumption DEF BegunWithin
<1>5. RpTypeOK'
  BY <1>2, <1>3, AgeFacts DEF RpSafe, RpTypeOK, history, Generations, Ages, Old
<1>6. ForcedIsFetching'
  BY <1>3 DEF RpSafe, ForcedIsFetching
<1>7. FetchesAreYoung' /\ OneScheduled'
  <2>1. \A d \in Refreshing : task'[d] = task[d]
    BY <1>0, <1>3 DEF Refreshing
  <2>2. \A d \in Refreshing' : task'[d].age <= FetchLimit
    BY <1>1, <1>3, <2>1, RpAssumption DEF RpSafe, FetchesAreYoung
  <2>3. Scheduled' = {c} /\ refreshAge' <= BegunWithin(t)
    BY <1>1, <1>2, <1>3, <1>4 DEF BegunWithin
  <2>4. QED
    BY <1>3, <2>2, <2>3 DEF FetchesAreYoung, OneScheduled, BegunWithin
<1>8. CacheAgeBounded'
  BY <1>0, <1>3 DEF CacheAgeBounded
<1>9. QED
  BY <1>5, <1>6, <1>7, <1>8 DEF RpSafe

\* A forced refresh begins: its guard was free.
LEMMA ForceKeepsSafe ==
  ASSUME RpSafe, NEW c \in Callers, ForceRefresh(c), ~ForceRefused
  PROVE  RpSafe'
<1> DEFINE t == [task[c] EXCEPT !.pc = "fetch", !.why = "forced", !.age = 0]
<1>0. /\ task \in [Callers -> Task] /\ task[c] \in Task /\ 0 \in Ages
      /\ c \notin Refreshing /\ c \notin Forcing /\ c \notin Scheduled
  BY TaskFacts DEF ForceRefresh, Scheduled
<1>1. t \in Task /\ t.pc = "fetch" /\ t.age = 0 /\ t.why = "forced"
  BY <1>0 DEF Task, Pcs
<1>2. /\ Go(c, t) /\ forcedAge' = 0 /\ holder' = c /\ holder = Nobody
      /\ UNCHANGED <<generation, cached, refreshAge, history>>
  BY DEF ForceRefresh, ForceRefused
<1> HIDE DEF t
<1>3. /\ task' \in [Callers -> Task] /\ task'[c] = t
      /\ \A d \in Callers \ {c} : task'[d] = task[d]
      /\ Refreshing' = Refreshing \cup {c} /\ Forcing' = Forcing \cup {c}
      /\ Scheduled' = Scheduled
  BY <1>0, <1>1, <1>2, CallerMoves DEF Scheduled
<1>4. RpTypeOK'
  BY <1>2, <1>3, AgeFacts, RpAssumption DEF RpSafe, RpTypeOK, history, Generations, Ages, Old
<1>5. ForcedIsFetching'
  BY <1>3 DEF RpSafe, ForcedIsFetching
<1>7. FetchesAreYoung' /\ OneScheduled'
  <2>1. \A d \in Refreshing : task'[d] = task[d]
    BY <1>0, <1>3 DEF Refreshing
  <2>2. \A d \in Refreshing' : task'[d].age <= FetchLimit
    BY <1>1, <1>3, <2>1, RpAssumption DEF RpSafe, FetchesAreYoung
  <2>3. \A d \in Scheduled : refreshAge' <= BegunWithin(task'[d])
    BY <1>2, <2>1 DEF RpSafe, FetchesAreYoung, Scheduled
  <2>4. QED
    BY <1>3, <2>2, <2>3 DEF RpSafe, FetchesAreYoung, OneScheduled, BegunWithin
<1>8. Refreshing # Forcing => Refreshing' # Forcing'
  BY <1>0, <1>3
<1>9. CacheAgeBounded'
  BY <1>2, <1>8 DEF RpSafe, CacheAgeBounded, history, Old
<1>10. QED
  BY <1>4, <1>5, <1>7, <1>9 DEF RpSafe

LEMMA ServedKeepsSafe ==
  ASSUME RpSafe, NEW c \in Callers, Served(c)
  PROVE  RpSafe'
<1> DEFINE t == [task[c] EXCEPT !.pc = "answer", !.got = generation, !.age = 0]
<1>0. /\ task \in [Callers -> Task] /\ task[c] \in Task /\ 0 \in Ages
      /\ generation \in Generations
      /\ c \in Refreshing /\ task[c].pc = "fetch"
      /\ c \in Forcing <=> task[c].why = "forced"
  BY TaskFacts DEF Served
<1>1. t \in Task /\ t.pc = "answer" /\ t.age = 0 /\ t.why = task[c].why
  BY <1>0 DEF Task, Pcs
<1>2. Go(c, t) /\ UNCHANGED <<generation, cached, refreshAge, forcedAge, holder, history>>
  BY DEF Served
<1> HIDE DEF t
<1>3. /\ task' \in [Callers -> Task] /\ task'[c] = t
      /\ \A d \in Callers \ {c} : task'[d] = task[d]
      /\ Refreshing' = Refreshing /\ Forcing' = Forcing /\ Scheduled' = Scheduled
  BY <1>0, <1>1, <1>2, CallerMoves DEF Scheduled
<1>4. RpTypeOK'
  BY <1>2, <1>3 DEF RpSafe, RpTypeOK, history, Generations, Ages, Old
<1>5. ForcedIsFetching'
  BY <1>1, <1>3 DEF RpSafe, ForcedIsFetching
<1>6. c \in Scheduled => refreshAge <= FetchLimit
  <2>1. refreshAge \in Nat /\ task[c].age \in Nat /\ task[c].age <= FetchLimit
    BY <1>0 DEF RpSafe, RpTypeOK, FetchesAreYoung, Task, Ages
  <2>2. c \in Scheduled => refreshAge <= task[c].age
    BY <1>0 DEF RpSafe, FetchesAreYoung, BegunWithin
  <2>3. QED
    BY <2>1, <2>2, RpAssumption
<1>7. FetchesAreYoung' /\ OneScheduled'
  <2>1. \A d \in Refreshing \ {c} : task'[d] = task[d]
    BY <1>3 DEF Refreshing
  <2>2. \A d \in Refreshing' : task'[d].age <= FetchLimit
    BY <1>1, <1>3, <2>1, RpAssumption DEF RpSafe, FetchesAreYoung
  <2>3. c \in Scheduled => refreshAge <= BegunWithin(t)
    BY <1>1, <1>6, RpAssumption DEF BegunWithin
  <2>4. \A d \in Scheduled : refreshAge' <= BegunWithin(task'[d])
    BY <1>2, <1>3, <2>1, <2>3 DEF RpSafe, FetchesAreYoung, Scheduled
  <2>5. QED
    BY <1>3, <2>2, <2>4 DEF RpSafe, FetchesAreYoung, OneScheduled, BegunWithin
<1>8. CacheAgeBounded'
  BY <1>2, <1>3 DEF RpSafe, CacheAgeBounded, history, Old
<1>9. QED
  BY <1>4, <1>5, <1>7, <1>8 DEF RpSafe

\* A handler that refreshes stops doing so: the guard it may hold goes with it,
\* and what the others' fetches rely on does not change, except that the clock
\* of the TTL may start again.
LEMMA RefreshEnds ==
  ASSUME RpSafe, NEW c \in Refreshing, NEW t \in Task, Go(c, t), Release(c),
         t.pc \notin {"fetch", "answer"}, t.why # "forced",
         UNCHANGED <<generation, forcedAge>>, cached' \in Generations,
         cachedAge' \in Ages, lapsed' \in BOOLEAN,
         refreshAge' \in {refreshAge, 0}, CacheAgeBounded'
  PROVE  RpSafe'
<1>0. c \in Callers /\ task \in [Callers -> Task]
  BY DEF Refreshing, RpSafe, RpTypeOK
<1>1. /\ task' \in [Callers -> Task] /\ task'[c] = t
      /\ \A d \in Callers \ {c} : task'[d] = task[d]
      /\ Refreshing' = Refreshing \ {c} /\ Forcing' = Forcing \ {c}
      /\ Scheduled' = Scheduled \ {c}
  BY <1>0, CallerMoves DEF Scheduled
<1>2. holder' \in Callers \cup {Nobody} /\ {holder'} \ {Nobody} = Forcing'
  BY <1>0, <1>1, RpAssumption DEF RpSafe, RpTypeOK, Release
<1>3. RpTypeOK'
  BY <1>1, <1>2, AgeFacts DEF RpSafe, RpTypeOK, Generations, Ages, Old
<1>4. ForcedIsFetching'
  BY <1>1 DEF RpSafe, ForcedIsFetching
<1>5. \A d \in Refreshing : BegunWithin(task[d]) >= 0
  BY RpAssumption DEF RpSafe, RpTypeOK, Refreshing, Task, Ages, BegunWithin
<1>6. FetchesAreYoung' /\ OneScheduled'
  <2>1. \A d \in Refreshing' : d \in Refreshing /\ task'[d] = task[d]
    BY <1>1 DEF Refreshing
  <2>2. \A d \in Scheduled' : refreshAge' <= BegunWithin(task'[d])
    BY <1>1, <1>5, <2>1 DEF RpSafe, FetchesAreYoung, Scheduled
  <2>3. QED
    BY <1>1, <2>1, <2>2 DEF RpSafe, FetchesAreYoung, OneScheduled, BegunWithin
<1>7. QED
  BY <1>3, <1>4, <1>6 DEF RpSafe

LEMMA InstallKeepsSafe ==
  ASSUME RpSafe, NEW c \in Callers, Install(c)
  PROVE  RpSafe'
<1>1. c \in Refreshing /\ task[c] \in Task /\ task[c].age <= FetchLimit
  BY TaskFacts DEF Install, RpSafe, FetchesAreYoung
<1>2. /\ cached' = task[c].got /\ cachedAge' = task[c].age /\ lapsed' = FALSE
      /\ refreshAge' \in {refreshAge, 0} /\ Release(c) /\ UNCHANGED <<generation, forcedAge>>
  BY DEF Install
<1>3. CacheAgeBounded'
  <2>1. refreshAge \in Nat /\ task[c].age \in Nat
    BY <1>1 DEF RpSafe, RpTypeOK, Task, Ages
  <2>2. cachedAge' <= refreshAge' + FetchLimit
    BY <1>1, <1>2, <2>1, RpAssumption
  <2>3. QED
    BY <2>2 DEF CacheAgeBounded
<1>4. PICK t \in Task : Go(c, t) /\ t.pc \in {"client", "take"} /\ t.why # "forced"
  <2>1. CASE c \in Forcing
    <3> DEFINE t == [task[c] EXCEPT !.pc = "client", !.why = "retry"]
    <3>1. t \in Task /\ t.pc = "client" /\ t.why = "retry"
      BY <1>1 DEF Task, Pcs
    <3>2. Go(c, t)
      BY <2>1 DEF Install, Retry
    <3>3. QED
      BY <3>1, <3>2
  <2>2. CASE c \notin Forcing
    <3> DEFINE t == [task[c] EXCEPT !.pc = "take"]
    <3>0. task[c] \in Task /\ task[c].why # "forced"
      BY <1>1, <2>2, TaskFacts
    <3>1. t \in Task /\ t.pc = "take" /\ t.why # "forced"
      BY <3>0 DEF Task, Pcs
    <3>2. Go(c, t)
      BY <2>2 DEF Install, To
    <3> HIDE DEF t
    <3>3. QED
      BY <3>1, <3>2
  <2>3. QED
    BY <2>1, <2>2
<1>5. cached' \in Generations /\ cachedAge' \in Ages
  BY <1>1, <1>2 DEF Task
<1>6. QED
  BY <1>1, <1>2, <1>3, <1>4, <1>5, RefreshEnds

\* A refresh that brought nothing, or whose handler was dropped.
LEMMA FailuresKeepSafe ==
  ASSUME RpSafe, NEW c \in Callers, FetchFail(c) \/ Cancel(c)
  PROVE  RpSafe'
<1>1. /\ Release(c) /\ UNCHANGED <<generation, cached, refreshAge, forcedAge, cachedAge>>
      /\ lapsed' \in BOOLEAN
      /\ lapsed => lapsed'
      /\ c \in Scheduled => lapsed'
      /\ c \notin Scheduled => lapsed' = lapsed
  BY DEF FetchFail, Cancel, RpSafe, RpTypeOK, Scheduled
<1>2. Go(c, Idle) \/ (c \notin Forcing /\ To(c, "take"))
  BY DEF FetchFail, Cancel
<1>3. PICK t \in Task : Go(c, t) /\ t.pc \in {"idle", "take"} /\ t.why # "forced"
  <2>1. CASE Go(c, Idle)
    BY <2>1, IdleFacts
  <2>2. CASE c \notin Forcing /\ To(c, "take")
    <3> DEFINE t == [task[c] EXCEPT !.pc = "take"]
    <3>0. task[c] \in Task /\ task[c].why # "forced"
      BY <2>2, TaskFacts
    <3>1. t \in Task /\ t.pc = "take" /\ t.why # "forced"
      BY <3>0 DEF Task, Pcs
    <3>2. Go(c, t)
      BY <2>2 DEF To
    <3> HIDE DEF t
    <3>3. QED
      BY <3>1, <3>2
  <2>3. QED
    BY <1>2, <2>1, <2>2
<1>4. CASE c \in Refreshing
  <2>1. Refreshing' = Refreshing \ {c} /\ Forcing' = Forcing \ {c}
    BY <1>3, CallerMoves, TaskFacts
  <2>2. Forcing \subseteq Refreshing
    BY DEF Forcing
  <2>3. CacheAgeBounded'
    <3>1. CASE c \in Scheduled
      BY <1>1, <3>1 DEF CacheAgeBounded
    <3>2. CASE c \notin Scheduled
      <4>1. c \in Forcing
        BY <1>4, <3>2 DEF Scheduled
      <4>2. Refreshing # Forcing => Refreshing' # Forcing'
        BY <2>1, <2>2, <4>1
      <4>3. QED
        BY <1>1, <3>2, <4>2 DEF RpSafe, CacheAgeBounded, Old
    <3>3. QED
      BY <3>1, <3>2
  <2>4. cached' \in Generations /\ cachedAge' \in Ages
    BY <1>1 DEF RpSafe, RpTypeOK
  <2>5. QED
    BY <1>1, <1>3, <1>4, <2>3, <2>4, RefreshEnds
<1>5. CASE c \notin Refreshing
  <2>1. holder # c /\ c \notin Scheduled
    BY <1>5, TaskFacts DEF Scheduled
  <2>2. UNCHANGED <<generation, cached, refreshAge, forcedAge, holder, history>>
    BY <1>1, <2>1 DEF Release, history
  <2>3. QED
    BY <1>3, <1>5, <2>2, QuietMoves
<1>6. QED
  BY <1>4, <1>5

-----------------------------------------------------------------------------
(* The environment. *)

LEMMA TickKeepsSafe ==
  ASSUME RpSafe, Tick
  PROVE  RpSafe'
<1>1. /\ task \in [Callers -> Task]
      /\ refreshAge \in Ages /\ forcedAge \in Ages /\ cachedAge \in Ages
      /\ refreshAge' = Older(refreshAge) /\ forcedAge' = Older(forcedAge)
      /\ cachedAge' = Older(cachedAge)
      /\ UNCHANGED <<generation, cached, holder, lapsed>>
  BY DEF Tick, RpSafe, RpTypeOK
<1>2. \A c \in Refreshing : /\ c \in Callers /\ task[c].age \in Nat
                            /\ task[c].age < FetchLimit
                            /\ Older(task[c].age) = task[c].age + 1
                            /\ Older(task[c].age) \in Ages
  <2> SUFFICES ASSUME NEW c \in Refreshing
               PROVE  /\ c \in Callers /\ task[c].age \in Nat
                      /\ task[c].age < FetchLimit
                      /\ Older(task[c].age) = task[c].age + 1
                      /\ Older(task[c].age) \in Ages
    OBVIOUS
  <2>1. c \in Callers /\ task[c].age \in Ages /\ task[c].age < FetchLimit
    BY <1>1 DEF Tick, Refreshing, Task
  <2>2. task[c].age \in Nat /\ task[c].age < Old
    BY <2>1, AgeFacts, RpAssumption DEF Ages
  <2>3. QED
    BY <2>1, <2>2, OlderFacts
<1>3. \A c \in Callers :
        /\ task'[c] \in Task /\ task'[c].pc = task[c].pc /\ task'[c].why = task[c].why
        /\ c \in Refreshing => task'[c].age = task[c].age + 1
  BY <1>1, <1>2 DEF Tick, Task
<1>4. task' \in [Callers -> Task]
  BY <1>3 DEF Tick
<1>5. Refreshing' = Refreshing /\ Forcing' = Forcing /\ Scheduled' = Scheduled
  BY <1>3 DEF Refreshing, Forcing, Scheduled
<1>6. refreshAge' \in Ages /\ forcedAge' \in Ages /\ cachedAge' \in Ages
  BY <1>1, OlderFacts
<1>7. RpTypeOK'
  BY <1>1, <1>4, <1>5, <1>6 DEF RpSafe, RpTypeOK, Generations, Ages, Old
<1>8. ForcedIsFetching'
  BY <1>3, <1>5 DEF RpSafe, ForcedIsFetching
<1>9. refreshAge' <= refreshAge + 1
  BY <1>1, AgeFacts DEF Older, Ages
<1>10. FetchesAreYoung' /\ OneScheduled'
  <2>1. \A c \in Refreshing : task'[c].age <= FetchLimit
    BY <1>2, <1>3, RpAssumption
  <2>2. ASSUME NEW c \in Scheduled PROVE refreshAge' <= BegunWithin(task'[c])
    <3>1. c \in Refreshing /\ c \in Callers
      BY <1>2 DEF Scheduled
    <3>2. refreshAge <= BegunWithin(task[c])
      BY DEF RpSafe, FetchesAreYoung
    <3>3. refreshAge \in Int /\ refreshAge' \in Int /\ task[c].age \in Nat
      BY <1>1, <1>2, <1>6, <3>1 DEF Ages
    <3>4. task'[c].age = task[c].age + 1 /\ task'[c].pc = task[c].pc
      BY <1>3, <3>1
    <3>5. QED
      BY <1>9, <3>2, <3>3, <3>4, RpAssumption DEF BegunWithin
  <2>3. QED
    BY <1>5, <2>1, <2>2 DEF RpSafe, FetchesAreYoung, OneScheduled, BegunWithin
<1>11. CacheAgeBounded'
  <2>1. cachedAge <= refreshAge + FetchLimit => cachedAge' <= refreshAge' + FetchLimit \/ refreshAge' = Old
    BY <1>1, AgeFacts, RpAssumption DEF Older, Ages
  <2>2. refreshAge = Old => refreshAge' = Old
    BY <1>1, OlderFacts
  <2>3. QED
    BY <1>1, <1>5, <2>1, <2>2 DEF RpSafe, CacheAgeBounded, Old
<1>12. QED
  BY <1>7, <1>8, <1>10, <1>11 DEF RpSafe

LEMMA RotateKeepsSafe ==
  ASSUME RpSafe, Rotate \/ UNCHANGED vars
  PROVE  RpSafe'
<1>1. /\ UNCHANGED <<cached, refreshAge, forcedAge, holder, task, history>>
      /\ generation' \in Generations
  BY RpAssumption DEF Rotate, vars, history, RpSafe, RpTypeOK, Generations
<1>2. Refreshing' = Refreshing /\ Forcing' = Forcing /\ Scheduled' = Scheduled
  BY <1>1 DEF Refreshing, Forcing, Scheduled
<1>3. QED
  BY <1>1, <1>2 DEF RpSafe, RpTypeOK, ForcedIsFetching, FetchesAreYoung, OneScheduled,
     BegunWithin, CacheAgeBounded, history, Generations, Ages, Old

LEMMA RpSafeStep == RpSafe /\ [Next]_vars => RpSafe'
<1> SUFFICES ASSUME RpSafe, [Next]_vars PROVE RpSafe'
  OBVIOUS
<1>1. ASSUME NEW c \in Callers, Step(c) PROVE RpSafe'
  <2>1. CASE RefreshIfStale(c)
    BY <2>1, QuietStepsKeepSafe, StartFetchKeepsSafe DEF RefreshIfStale
  <2>2. CASE ForceRefresh(c)
    BY <2>2, QuietStepsKeepSafe, ForceKeepsSafe
  <2>3. QED
    BY <1>1, <2>1, <2>2, QuietStepsKeepSafe DEF Step
<1>2. ASSUME NEW c \in Callers,
             Begin(c) \/ Step(c) \/ Served(c) \/ Install(c) \/ FetchFail(c) \/ Cancel(c)
      PROVE  RpSafe'
  BY <1>1, <1>2, QuietStepsKeepSafe, ServedKeepsSafe, InstallKeepsSafe, FailuresKeepSafe
<1>3. QED
  BY <1>2, TickKeepsSafe, RotateKeepsSafe DEF Next

-----------------------------------------------------------------------------
(* The theorems. *)

\* The inductive invariant of the metadata cache, for any number of handlers.
THEOREM RpSafety == Spec => []RpSafe
BY RpSafeInit, RpSafeStep, PTL DEF Spec

\* The guard of the forced refresh is held by the handler that makes one, for as
\* long as it makes it: no failure and no dropped handler leaves it behind.
THEOREM RpGuardIsGivenBack == Spec => []RpTypeOK
<1>1. RpSafe => RpTypeOK
  BY DEF RpSafe
<1>2. QED
  BY <1>1, RpSafety, PTL

\* However many handlers there are, at most two documents are being fetched.
THEOREM RpAtMostTwoFetches == Spec => []AtMostTwoFetches
<1>1. RpSafe => AtMostTwoFetches
  <2> SUFFICES ASSUME RpSafe PROVE AtMostTwoFetches
    OBVIOUS
  <2>1. ASSUME NEW S, \A x, y \in S : x = y PROVE Cardinality(S) <= 1
    <3>1. CASE S = {}
      BY <3>1, FS_EmptySet
    <3>2. CASE S # {}
      <4>1. PICK x \in S : S = {x}
        BY <2>1, <3>2
      <4>2. QED
        BY <4>1, FS_Singleton
    <3>3. QED
      BY <3>1, <3>2
  <2>2. \A c, d \in Forcing : c = d
    BY DEF RpSafe, RpTypeOK
  <2>3. QED
    BY <2>1, <2>2 DEF AtMostTwoFetches, RpSafe, OneScheduled, Scheduled
<1>2. QED
  BY <1>1, RpSafety, PTL

\* Unless a scheduled refresh is under way or failed, the cached document is at
\* most a fetch older than the clock of the TTL says.
THEOREM RpCacheAgeBounded == Spec => []CacheAgeBounded
<1>1. RpSafe => CacheAgeBounded
  BY DEF RpSafe
<1>2. QED
  BY <1>1, RpSafety, PTL
=============================================================================
