------------------------- MODULE StringFactoryProofs -------------------------
(***************************************************************************)
(* The counts of the string cache are right, for any number of threads,     *)
(* constants and strings; the parts of a string are what join puts together *)
(* again, for any string and delimiter; and a number is read back from its  *)
(* text, for any width of the integers.                                     *)
(***************************************************************************)
EXTENDS StringFactory, StringSplit, StringNumbers, FiniteSetTheorems, SequenceTheorems, TLAPS

Inside == {"get find", "release find", "count", "uncount", "unlock get", "unlock release"}
Locked == \A t \in Threads : pc[t] \in Inside <=> lock = t

\* A constant is one thread's while a call for it is going on.
Getting == {"get", "get find", "count"}
Releasing == {"release", "release find", "uncount"}
Calling == Getting \cup Releasing \cup {"unlock get", "unlock release", "return"}
OneCaller ==
  /\ \A t \in Threads : pc[t] \in Calling <=> doing[t] # None
  /\ \A t, u \in Threads : doing[t] # None /\ doing[t] = doing[u] => t = u

\* What a call has found out still holds when it acts on it.
CallsKnow ==
  \A t \in Threads :
    /\ pc[t] \in Calling \cup {"idle"} => uses[t] \in Factories
    /\ pc[t] \in Getting => points[doing[t]] = None
    /\ pc[t] \in Releasing => points[doing[t]] = Entry(t)
    /\ pc[t] \in {"count", "uncount"} => found[t] = (Count(Entry(t)) > 0)

Registering == \A t \in Threads : pc[t] = "use" => stringFactory \in Factories
IInv ==
  /\ TypeOK /\ Locked /\ OneCaller /\ CallsKnow /\ Registering
  /\ CountsExact /\ NoneDangles /\ ReleasesSucceed

USE NamesAssumption

-----------------------------------------------------------------------------
LEMMA Initially == Init => IInv
<1> SUFFICES ASSUME Init PROVE IInv
  OBVIOUS
<1>1. TypeOK
  BY DEF Init, TypeOK, Places
<1>2. Locked /\ OneCaller /\ CallsKnow /\ Registering
  BY DEF Init, Locked, Inside, OneCaller, CallsKnow, Calling, Getting, Releasing, Registering
<1>3. CountsExact
  <2>1. \A f \in Factories, s \in Strings : cache[f][s] = 0 /\ PointersTo(<<f, s>>) = {}
    BY DEF Init, PointersTo
  <2> QED BY <2>1, FS_EmptySet DEF CountsExact
<1>4. NoneDangles /\ ReleasesSucceed
  BY DEF Init, NoneDangles, ReleasesSucceed
<1> QED BY <1>1, <1>2, <1>3, <1>4 DEF IInv

\* Steps that touch neither the cache nor what engines have.
Quiet == cache' = cache /\ points' = points /\ failed' = failed

LEMMA QuietCounts ==
  ASSUME IInv, Quiet PROVE (CountsExact /\ NoneDangles /\ ReleasesSucceed)'
BY DEF IInv, Quiet, CountsExact, PointersTo, NoneDangles, ReleasesSucceed

-----------------------------------------------------------------------------
LEMMA RegisterSafe ==
  ASSUME IInv, NEW t \in Threads, LookForFactory(t) \/ MakeFactory(t) \/ UseFactory(t)
  PROVE  IInv'
<1>0. TypeOK /\ Locked /\ OneCaller /\ CallsKnow /\ Registering
  BY DEF IInv
<1>1. Quiet /\ lock' = lock /\ doing' = doing /\ want' = want /\ found' = found /\ over' = over /\ deleted' = deleted
  BY DEF LookForFactory, MakeFactory, UseFactory, Quiet, static, request
<1>2. TypeOK'
  <2>1. pc' \in [Threads -> Places]
    BY <1>0 DEF TypeOK, LookForFactory, MakeFactory, UseFactory, Go, Places
  <2>2. /\ uses' \in [Threads -> Factories \cup {None}]
        /\ made' \subseteq Factories /\ stringFactory' \in made' \cup {None} /\ deleted \subseteq made'
    BY <1>0 DEF TypeOK, LookForFactory, MakeFactory, UseFactory, static
  <2> QED BY <1>0, <1>1, <2>1, <2>2, Zenon DEF TypeOK, Quiet
<1>3. \A u \in Threads : u # t => pc'[u] = pc[u] /\ uses'[u] = uses[u]
  BY <1>0 DEF TypeOK, LookForFactory, MakeFactory, UseFactory, Go, static
<1>4. pc[t] \in {"unregistered", "make", "use"} /\ pc'[t] \in {"make", "use", "idle"}
  BY <1>0 DEF TypeOK, LookForFactory, MakeFactory, UseFactory, Go
<1>5. Registering'
  BY <1>0, <1>3 DEF TypeOK, Registering, LookForFactory, MakeFactory, UseFactory, Go, static
<1>6. pc'[t] = "idle" => uses'[t] \in Factories
  BY <1>0, <1>4 DEF TypeOK, Registering, LookForFactory, MakeFactory, UseFactory, Go, static
<1>7. Locked' /\ OneCaller'
  BY <1>0, <1>1, <1>3, <1>4 DEF Locked, Inside, OneCaller, Calling, Getting, Releasing
<1>8. CallsKnow'
  BY <1>0, <1>1, <1>3, <1>4, <1>6 DEF CallsKnow, Calling, Getting, Releasing, Quiet, Entry, Count
<1> QED BY <1>1, <1>2, <1>5, <1>7, <1>8, QuietCounts DEF IInv

LEMMA CallGetSafe ==
  ASSUME IInv, NEW t \in Threads, NEW c \in Constants, NEW s \in Strings, CallGet(t, c, s)
  PROVE  IInv'
<1>0. TypeOK /\ Locked /\ OneCaller /\ CallsKnow /\ Registering
  BY DEF IInv
<1>1. Quiet /\ UNCHANGED <<stringFactory, made, deleted, over, uses, lock, found>>
  BY DEF CallGet, Quiet, static
<1>2. TypeOK'
  BY <1>0, <1>1 DEF TypeOK, Quiet, CallGet, Go, Places
<1>3. \A u \in Threads : u # t => pc'[u] = pc[u] /\ doing'[u] = doing[u] /\ want'[u] = want[u]
  BY <1>0 DEF TypeOK, CallGet, Go
<1>4. pc[t] = "idle" /\ pc'[t] = "get" /\ doing'[t] = c /\ points[c] = None
  BY <1>0 DEF TypeOK, CallGet, Go
<1>5. \A u \in Threads : doing[u] # c
  BY DEF CallGet, Working
<1>6. Locked' /\ Registering'
  BY <1>0, <1>1, <1>3, <1>4 DEF Locked, Inside, Registering
<1>7. OneCaller'
  <2>1. pc'[t] \in Calling /\ c # None
    BY <1>4 DEF Calling, Getting
  <2> QED BY <1>0, <1>3, <1>4, <1>5, <2>1 DEF OneCaller
<1>8. CallsKnow'
  <2>1. uses' = uses /\ points' = points /\ cache' = cache /\ found' = found
    BY <1>1 DEF Quiet
  <2>2. pc'[t] \notin Releasing /\ pc'[t] \notin {"count", "uncount"}
    BY <1>4 DEF Releasing
  <2>3. uses[t] \in Factories
    BY <1>0, <1>4 DEF CallsKnow
  <2>4. pc[t] \notin Calling /\ doing'[t] = c /\ points[c] = None
    BY <1>4 DEF Calling, Getting, Releasing
  <2> SUFFICES ASSUME NEW u \in Threads
               PROVE  /\ pc'[u] \in Calling \cup {"idle"} => uses[u] \in Factories
                      /\ pc'[u] \in Getting => points[doing'[u]] = None
                      /\ pc'[u] \in Releasing => points[doing'[u]] = <<uses[u], want'[u]>>
                      /\ pc'[u] \in {"count", "uncount"} =>
                           found[u] = (cache[uses[u]][want'[u]] > 0)
    BY <2>1 DEF CallsKnow, Entry, Count
  <2>5. CASE u = t
    BY <2>2, <2>3, <2>4, <2>5
  <2>6. CASE u # t
    <3>1. pc'[u] = pc[u] /\ doing'[u] = doing[u] /\ want'[u] = want[u]
      BY <1>3, <2>6
    <3>2. /\ pc[u] \in Calling \cup {"idle"} => uses[u] \in Factories
          /\ pc[u] \in Getting => points[doing[u]] = None
          /\ pc[u] \in Releasing => points[doing[u]] = <<uses[u], want[u]>>
          /\ pc[u] \in {"count", "uncount"} => found[u] = (cache[uses[u]][want[u]] > 0)
      BY <1>0 DEF CallsKnow, Entry, Count
    <3> QED BY <3>1, <3>2, Zenon
  <2> QED BY <2>5, <2>6
<1> QED BY <1>1, <1>2, <1>6, <1>7, <1>8, QuietCounts DEF IInv

LEMMA CallReleaseSafe ==
  ASSUME IInv, NEW t \in Threads, NEW c \in Constants, CallRelease(t, c)
  PROVE  IInv'
<1>0. TypeOK /\ Locked /\ OneCaller /\ CallsKnow /\ Registering
  BY DEF IInv
<1>1. Quiet /\ UNCHANGED <<stringFactory, made, deleted, over, uses, lock, found>>
  BY DEF CallRelease, Quiet, static
<1>2. points[c] \in Factories \X Strings /\ points[c] = <<uses[t], points[c][2]>>
  BY <1>0 DEF TypeOK, CallRelease
<1>3. TypeOK'
  BY <1>0, <1>1, <1>2 DEF TypeOK, Quiet, CallRelease, Go, Places
<1>4. \A u \in Threads : u # t => pc'[u] = pc[u] /\ doing'[u] = doing[u] /\ want'[u] = want[u]
  BY <1>0 DEF TypeOK, CallRelease, Go
<1>5. /\ pc[t] = "idle" /\ pc'[t] = "release" /\ doing'[t] = c /\ want'[t] = points[c][2]
  BY <1>0 DEF TypeOK, CallRelease, Go
<1>6. \A u \in Threads : doing[u] # c
  BY DEF CallRelease, Working
<1>7. Locked' /\ Registering'
  BY <1>0, <1>1, <1>4, <1>5 DEF Locked, Inside, Registering
<1>8. OneCaller'
  <2>1. pc'[t] \in Calling /\ c # None
    BY <1>5 DEF Calling, Releasing
  <2> QED BY <1>0, <1>4, <1>5, <1>6, <2>1 DEF OneCaller
<1>9. CallsKnow'
  <2>1. uses' = uses /\ points' = points /\ cache' = cache /\ found' = found
    BY <1>1 DEF Quiet
  <2>2. pc'[t] \notin Getting /\ pc'[t] \notin {"count", "uncount"}
    BY <1>5 DEF Getting
  <2>3. uses[t] \in Factories
    BY <1>0, <1>5 DEF CallsKnow
  <2>4. doing'[t] = c /\ points[c] = <<uses[t], want'[t]>>
    BY <1>2, <1>5
  <2> SUFFICES ASSUME NEW u \in Threads
               PROVE  /\ pc'[u] \in Calling \cup {"idle"} => uses[u] \in Factories
                      /\ pc'[u] \in Getting => points[doing'[u]] = None
                      /\ pc'[u] \in Releasing => points[doing'[u]] = <<uses[u], want'[u]>>
                      /\ pc'[u] \in {"count", "uncount"} =>
                           found[u] = (cache[uses[u]][want'[u]] > 0)
    BY <2>1 DEF CallsKnow, Entry, Count
  <2>5. CASE u = t
    BY <2>2, <2>3, <2>4, <2>5
  <2>6. CASE u # t
    <3>1. pc'[u] = pc[u] /\ doing'[u] = doing[u] /\ want'[u] = want[u]
      BY <1>4, <2>6
    <3>2. /\ pc[u] \in Calling \cup {"idle"} => uses[u] \in Factories
          /\ pc[u] \in Getting => points[doing[u]] = None
          /\ pc[u] \in Releasing => points[doing[u]] = <<uses[u], want[u]>>
          /\ pc[u] \in {"count", "uncount"} => found[u] = (cache[uses[u]][want[u]] > 0)
      BY <1>0 DEF CallsKnow, Entry, Count
    <3> QED BY <3>1, <3>2, Zenon
  <2> QED BY <2>5, <2>6
<1> QED BY <1>1, <1>3, <1>7, <1>8, <1>9, QuietCounts DEF IInv

LEMMA LockSafe ==
  ASSUME IInv, NEW t \in Threads,
         AcquireExclusiveLock(t) \/ ReleaseExclusiveLock(t) \/ Find(t) \/ Return(t)
  PROVE  IInv'
<1>0. TypeOK /\ Locked /\ OneCaller /\ CallsKnow /\ Registering
  BY DEF IInv
<1>1. Quiet /\ UNCHANGED <<stringFactory, made, deleted, over, uses, want>>
  BY DEF AcquireExclusiveLock, ReleaseExclusiveLock, Find, Return, Quiet, static, request
<1>2. TypeOK'
  <2>1. pc' \in [Threads -> Places]
    BY <1>0 DEF TypeOK, AcquireExclusiveLock, ReleaseExclusiveLock, Find, Return, Go, Places
  <2>2. lock' \in Threads \cup {None} /\ doing' \in [Threads -> Constants \cup {None}]
    BY <1>0 DEF TypeOK, AcquireExclusiveLock, ReleaseExclusiveLock, Find, Return, request
  <2>3. found' \in [Threads -> BOOLEAN]
    <3>1. (Count(Entry(t)) > 0) \in BOOLEAN
      OBVIOUS
    <3> QED BY <1>0, <3>1, Zenon DEF TypeOK, AcquireExclusiveLock, ReleaseExclusiveLock, Find, Return
  <2> QED BY <1>0, <1>1, <2>1, <2>2, <2>3, Zenon DEF TypeOK, Quiet
<1>3. \A u \in Threads : u # t => pc'[u] = pc[u] /\ doing'[u] = doing[u] /\ found'[u] = found[u]
  BY <1>0 DEF TypeOK, AcquireExclusiveLock, ReleaseExclusiveLock, Find, Return, request, Go
<1>4. /\ pc[t] \in Getting <=> pc'[t] \in Getting
      /\ pc[t] \in Releasing <=> pc'[t] \in Releasing
      /\ pc[t] \in Calling
      /\ pc'[t] \in Calling => doing'[t] = doing[t]
      /\ pc'[t] \notin Calling => pc'[t] = "idle" /\ doing'[t] = None
      /\ pc'[t] # "use"
  BY <1>0 DEF TypeOK, AcquireExclusiveLock, ReleaseExclusiveLock, Find, Return, request, Go,
              Calling, Getting, Releasing
<1>5. pc'[t] \in {"count", "uncount"} => found'[t] = (Count(Entry(t)) > 0)
  BY <1>0 DEF TypeOK, AcquireExclusiveLock, ReleaseExclusiveLock, Find, Return, Go
<1>6. Locked'
  <2>1. CASE AcquireExclusiveLock(t)
    <3>1. lock = None /\ lock' = t /\ pc'[t] \in Inside
      BY <1>0, <2>1 DEF TypeOK, AcquireExclusiveLock, Go, Inside
    <3> QED BY <1>0, <1>3, <3>1 DEF Locked
  <2>2. CASE ReleaseExclusiveLock(t)
    <3>1. pc[t] \in Inside /\ lock' = None /\ pc'[t] \notin Inside
      BY <1>0, <2>2 DEF TypeOK, ReleaseExclusiveLock, Go, Inside
    <3> QED BY <1>0, <1>3, <3>1 DEF Locked
  <2>3. CASE Find(t) \/ Return(t)
    <3>1. lock' = lock /\ (pc[t] \in Inside <=> pc'[t] \in Inside)
      BY <1>0, <2>3 DEF TypeOK, Find, Return, Go, Inside
    <3> QED BY <1>0, <1>3, <3>1 DEF Locked
  <2> QED BY <2>1, <2>2, <2>3
<1>7. OneCaller'
  BY <1>0, <1>3, <1>4 DEF OneCaller
<1>8. Registering'
  BY <1>0, <1>1, <1>3, <1>4 DEF Registering
<1>9. CallsKnow'
  BY <1>0, <1>1, <1>3, <1>4, <1>5 DEF CallsKnow, Quiet, Entry, Count, Getting, Releasing
<1> QED BY <1>1, <1>2, <1>6, <1>7, <1>8, <1>9, QuietCounts DEF IInv

-----------------------------------------------------------------------------
\* What the two calls that change the cache have in common.
LEMMA ChangeSafe ==
  ASSUME IInv, NEW t \in Threads, pc[t] \in {"count", "uncount"},
         pc' = [pc EXCEPT ![t] = IF pc[t] = "count" THEN "unlock get" ELSE "unlock release"],
         UNCHANGED <<static, lock, request, found>>,
         cache' \in [Factories -> [Strings -> Nat]],
         points' \in [Constants -> (Factories \X Strings) \cup {None, Dangling}],
         failed' \in BOOLEAN,
         \A c \in Constants : c # doing[t] => points'[c] = points[c]
  PROVE  (TypeOK /\ Locked /\ OneCaller /\ CallsKnow /\ Registering)'
<1>0. TypeOK /\ Locked /\ OneCaller /\ CallsKnow /\ Registering
  BY DEF IInv
<1>1. UNCHANGED <<stringFactory, made, deleted, over, uses, lock, doing, want, found>>
  BY DEF static, request
<1>2. pc' \in [Threads -> Places]
  BY <1>0 DEF TypeOK, Places
<1>3. TypeOK'
  BY <1>0, <1>1, <1>2, Zenon DEF TypeOK
<1>4. /\ pc'[t] \in {"unlock get", "unlock release"}
      /\ \A u \in Threads : u # t => pc'[u] = pc[u]
  BY <1>0 DEF TypeOK
<1>5. Locked' /\ Registering'
  BY <1>0, <1>1, <1>4 DEF Locked, Inside, Registering
<1>6. OneCaller'
  BY <1>0, <1>1, <1>4 DEF OneCaller, Calling, Getting, Releasing
<1>7. \A u \in Threads : u # t => pc[u] \notin {"count", "uncount"}
  <2>1. lock = t
    BY <1>0 DEF Locked, Inside
  <2>2. \A u \in Threads : pc[u] \in {"count", "uncount"} => lock = u
    BY <1>0 DEF Locked, Inside
  <2> QED BY <2>1, <2>2
<1>8. \A u \in Threads : u # t /\ pc[u] \in Calling => points'[doing[u]] = points[doing[u]]
  <2> SUFFICES ASSUME NEW u \in Threads, u # t, pc[u] \in Calling
               PROVE  points'[doing[u]] = points[doing[u]]
    OBVIOUS
  <2>1. pc[t] \in Calling
    BY DEF Calling, Getting, Releasing
  <2>2. doing[u] # None /\ doing[t] # None /\ doing[u] # doing[t]
    BY <1>0, <2>1 DEF OneCaller
  <2>3. doing[u] \in Constants
    BY <1>0, <2>2 DEF TypeOK
  <2> QED BY <2>2, <2>3
<1>9. uses[t] \in Factories
  BY <1>0 DEF CallsKnow, Calling, Getting, Releasing
<1>10. CallsKnow'
  <2>1. pc'[t] \notin Getting \cup Releasing \cup {"count", "uncount"}
    BY <1>4 DEF Getting, Releasing
  <2>2. Getting \subseteq Calling /\ Releasing \subseteq Calling
    BY DEF Calling
  <2> QED BY <1>0, <1>1, <1>4, <1>7, <1>8, <1>9, <2>1, <2>2 DEF CallsKnow, Entry
<1> QED BY <1>3, <1>5, <1>6, <1>10

LEMMA CountUpSafe == ASSUME IInv, NEW t \in Threads, CountUp(t) PROVE IInv'
<1>0. TypeOK /\ OneCaller /\ CallsKnow /\ CountsExact /\ NoneDangles /\ ReleasesSucceed
  BY DEF IInv
<1>1. PICK e : e = Entry(t)
  OBVIOUS
<1>2. PICK d : d = doing[t]
  OBVIOUS
<1>3. PICK n : n = Count(e)
  OBVIOUS
<1>4. pc[t] = "count" /\ d \in Constants /\ points[d] = None
  <2>1. pc[t] = "count"
    BY DEF CountUp, Go
  <2>2. pc[t] \in Calling /\ pc[t] \in Getting
    BY <2>1 DEF Calling, Getting
  <2>3. d # None /\ points[d] = None
    BY <1>0, <1>2, <2>2 DEF OneCaller, CallsKnow
  <2>4. doing[t] \in Constants \cup {None}
    BY <1>0 DEF TypeOK
  <2> QED BY <1>2, <2>1, <2>3, <2>4
<1>5. uses[t] \in Factories /\ want[t] \in Strings /\ e = <<uses[t], want[t]>> /\ e \in Factories \X Strings
  BY <1>0, <1>1, <1>4 DEF TypeOK, CallsKnow, Calling, Getting, Entry
<1>6. n \in Nat /\ n = cache[uses[t]][want[t]]
  BY <1>0, <1>3, <1>5 DEF TypeOK, Count
<1>7. found[t] = (n > 0) /\ (~(n > 0) => n + 1 = 1)
  <2>1. found[t] = (n > 0)
    BY <1>0, <1>1, <1>3, <1>4 DEF CallsKnow
  <2>2. ~(n > 0) => n + 1 = 1
    BY <1>6
  <2> QED BY <2>1, <2>2
<1>8. cache' = [cache EXCEPT ![uses[t]][want[t]] = n + 1]
  <2>1. cache' = IF found[t] THEN WithCount(e, n + 1) ELSE WithCount(e, 1)
    BY <1>1, <1>3 DEF CountUp
  <2>2. ~found[t] => n + 1 = 1
    BY <1>7, Zenon
  <2>3. cache' = WithCount(e, n + 1)
    BY <2>1, <2>2
  <2> QED BY <1>5, <2>3 DEF WithCount
<1>9. points' = [points EXCEPT ![d] = e]
  BY <1>1, <1>2 DEF CountUp
<1>10. points' \in [Constants -> (Factories \X Strings) \cup {None, Dangling}]
  BY <1>0, <1>5, <1>9 DEF TypeOK
<1>11. cache' \in [Factories -> [Strings -> Nat]]
  BY <1>0, <1>5, <1>6, <1>8 DEF TypeOK
<1>12. (TypeOK /\ Locked /\ OneCaller /\ CallsKnow /\ Registering)'
  <2>1. \A c \in Constants : c # d => points'[c] = points[c]
    BY <1>0, <1>9 DEF TypeOK
  <2>2. failed' \in BOOLEAN /\ pc' = [pc EXCEPT ![t] = "unlock get"] /\ UNCHANGED <<static, lock, request, found>>
    BY <1>0 DEF TypeOK, CountUp, Go
  <2> QED BY <1>2, <1>4, <1>10, <1>11, <2>1, <2>2, ChangeSafe
<1>13. CountsExact'
  <2> SUFFICES ASSUME NEW f \in Factories, NEW s \in Strings
               PROVE  cache'[f][s] = Cardinality({c \in Constants : points'[c] = <<f, s>>})
    BY DEF CountsExact, PointersTo
  <2>1. cache[f][s] = Cardinality(PointersTo(<<f, s>>))
    BY <1>0 DEF CountsExact
  <2>2. CASE <<f, s>> = e
    <3>1. {c \in Constants : points'[c] = <<f, s>>} = PointersTo(<<f, s>>) \cup {d} /\ d \notin PointersTo(<<f, s>>)
      BY <1>0, <1>4, <1>9, <2>2 DEF TypeOK, PointersTo
    <3>2. IsFiniteSet(PointersTo(<<f, s>>))
      BY ConstantsAssumption, FS_Subset DEF PointersTo
    <3>3. Cardinality(PointersTo(<<f, s>>) \cup {d}) = Cardinality(PointersTo(<<f, s>>)) + 1
      BY <3>1, <3>2, FS_AddElement
    <3>4. cache'[f][s] = n + 1 /\ cache[f][s] = n
      BY <1>0, <1>5, <1>6, <1>8, <2>2 DEF TypeOK
    <3> QED BY <2>1, <3>1, <3>3, <3>4
  <2>3. CASE <<f, s>> # e
    <3>1. {c \in Constants : points'[c] = <<f, s>>} = PointersTo(<<f, s>>)
      BY <1>0, <1>4, <1>9, <2>3 DEF TypeOK, PointersTo
    <3>2. cache'[f][s] = cache[f][s]
      BY <1>0, <1>5, <1>8, <2>3 DEF TypeOK
    <3> QED BY <2>1, <3>1, <3>2
  <2> QED BY <2>2, <2>3
<1>14. NoneDangles' /\ ReleasesSucceed'
  <2>1. e # Dangling /\ failed' = failed
    BY <1>5 DEF CountUp
  <2> QED BY <1>0, <1>9, <2>1 DEF TypeOK, NoneDangles, ReleasesSucceed
<1> QED BY <1>12, <1>13, <1>14 DEF IInv

LEMMA CountDownSafe == ASSUME IInv, NEW t \in Threads, CountDown(t) PROVE IInv'
<1>0. TypeOK /\ OneCaller /\ CallsKnow /\ CountsExact /\ NoneDangles /\ ReleasesSucceed
  BY DEF IInv
<1>1. PICK e : e = Entry(t)
  OBVIOUS
<1>2. PICK d : d = doing[t]
  OBVIOUS
<1>3. PICK n : n = Count(e)
  OBVIOUS
<1>4. pc[t] = "uncount" /\ d \in Constants /\ points[d] = e
  <2>1. pc[t] = "uncount"
    BY DEF CountDown, Go
  <2>2. pc[t] \in Calling /\ pc[t] \in Releasing
    BY <2>1 DEF Calling, Releasing
  <2>3. d # None /\ points[d] = e
    BY <1>0, <1>1, <1>2, <2>2 DEF OneCaller, CallsKnow
  <2>4. doing[t] \in Constants \cup {None}
    BY <1>0 DEF TypeOK
  <2> QED BY <1>2, <2>1, <2>3, <2>4
<1>5. uses[t] \in Factories /\ want[t] \in Strings /\ e = <<uses[t], want[t]>> /\ e \in Factories \X Strings
  <2>1. pc[t] \in Calling
    BY <1>4 DEF Calling, Releasing
  <2>2. uses[t] \in Factories
    BY <1>0, <2>1 DEF CallsKnow
  <2> QED BY <1>0, <1>1, <2>2 DEF TypeOK, Entry
<1>6. n \in Nat /\ n = cache[uses[t]][want[t]]
  BY <1>0, <1>3, <1>5 DEF TypeOK, Count
<1>7. n = Cardinality(PointersTo(e)) /\ d \in PointersTo(e) /\ IsFiniteSet(PointersTo(e))
  <2>1. n = Cardinality(PointersTo(e))
    BY <1>0, <1>5, <1>6 DEF CountsExact
  <2> QED BY <1>4, <2>1, ConstantsAssumption, FS_Subset DEF PointersTo
<1>8. Cardinality(PointersTo(e) \ {d}) = n - 1 /\ IsFiniteSet(PointersTo(e) \ {d})
  BY <1>7, FS_RemoveElement
<1>9. n > 0
  <2>1. n - 1 \in Nat
    BY <1>8, FS_CardinalityType
  <2> QED BY <1>6, <2>1
<1>10. found[t]
  <2>1. found[t] = (n > 0)
    BY <1>0, <1>1, <1>3, <1>4 DEF CallsKnow
  <2> QED BY <1>9, <2>1
<1>11. /\ cache' = [cache EXCEPT ![uses[t]][want[t]] = n - 1]
       /\ points' = IF n = 1 THEN Erased(Left(t), e) ELSE Left(t)
       /\ failed' = failed
  <2>1. /\ cache' = WithCount(e, n - 1)
        /\ points' = IF n = 1 THEN Erased(Left(t), e) ELSE Left(t)
        /\ failed' = failed
    BY <1>1, <1>3, <1>10 DEF CountDown
  <2> QED BY <1>5, <2>1 DEF WithCount
<1>12. Left(t) = [points EXCEPT ![d] = None] /\ Left(t) \in [Constants -> (Factories \X Strings) \cup {None, Dangling}]
  BY <1>0, <1>2, <1>4 DEF TypeOK, Left
\* The last pointer to an entry leaves none to dangle.
<1>13. points' = Left(t)
  <2>1. CASE n = 1
    <3>1. PointersTo(e) \ {d} = {}
      BY <1>8, <2>1, FS_EmptySet
    <3>2. e # None
      BY <1>5
    <3>3. \A c \in Constants : Left(t)[c] # e
      BY <1>0, <1>12, <3>1, <3>2 DEF TypeOK, PointersTo
    <3>4. Erased(Left(t), e) = Left(t)
      BY <1>12, <3>3 DEF Erased
    <3> QED BY <1>11, <2>1, <3>4
  <2>2. CASE n # 1
    BY <1>11, <2>2
  <2> QED BY <2>1, <2>2
<1>14. cache' \in [Factories -> [Strings -> Nat]]
  <2>1. n - 1 \in Nat
    BY <1>6, <1>9
  <2> QED BY <1>0, <1>5, <1>11, <2>1 DEF TypeOK
<1>15. (TypeOK /\ Locked /\ OneCaller /\ CallsKnow /\ Registering)'
  <2>1. \A c \in Constants : c # d => points'[c] = points[c]
    BY <1>0, <1>12, <1>13 DEF TypeOK
  <2>2. pc' = [pc EXCEPT ![t] = "unlock release"] /\ UNCHANGED <<static, lock, request, found>>
    BY DEF CountDown, Go
  <2>3. failed' \in BOOLEAN
    BY <1>0, <1>11 DEF TypeOK
  <2> QED BY <1>2, <1>4, <1>12, <1>13, <1>14, <2>1, <2>2, <2>3, ChangeSafe
<1>16. CountsExact'
  <2> SUFFICES ASSUME NEW f \in Factories, NEW s \in Strings
               PROVE  cache'[f][s] = Cardinality({c \in Constants : points'[c] = <<f, s>>})
    BY DEF CountsExact, PointersTo
  <2>1. CASE <<f, s>> = e
    <3>1. e # None
      BY <1>5
    <3>2. {c \in Constants : points'[c] = <<f, s>>} = PointersTo(e) \ {d}
      BY <1>0, <1>12, <1>13, <2>1, <3>1 DEF TypeOK, PointersTo
    <3>3. cache'[f][s] = n - 1
      BY <1>0, <1>5, <1>11, <2>1 DEF TypeOK
    <3> QED BY <1>8, <3>2, <3>3
  <2>2. CASE <<f, s>> # e
    <3>1. <<f, s>> # None
      OBVIOUS
    <3>2. {c \in Constants : points'[c] = <<f, s>>} = PointersTo(<<f, s>>)
      BY <1>0, <1>4, <1>12, <1>13, <2>2, <3>1 DEF TypeOK, PointersTo
    <3>3. cache'[f][s] = cache[f][s]
      BY <1>0, <1>5, <1>11, <2>2 DEF TypeOK
    <3>4. cache[f][s] = Cardinality(PointersTo(<<f, s>>))
      BY <1>0 DEF CountsExact
    <3> QED BY <3>2, <3>3, <3>4
  <2> QED BY <2>1, <2>2
<1>17. NoneDangles' /\ ReleasesSucceed'
  BY <1>0, <1>11, <1>12, <1>13 DEF TypeOK, NoneDangles, ReleasesSucceed
<1> QED BY <1>15, <1>16, <1>17 DEF IInv

-----------------------------------------------------------------------------
LEMMA CleanupSafe == ASSUME IInv, Cleanup PROVE IInv'
<1>0. TypeOK /\ Locked /\ OneCaller /\ CallsKnow /\ Registering
  BY DEF IInv
<1>1. Quiet /\ UNCHANGED <<made, uses, lock, pc, doing, want, found>>
  BY DEF Cleanup, Quiet, request
<1>2. stringFactory' \in made \cup {None} /\ deleted' \subseteq made /\ over' \in BOOLEAN
  BY <1>0 DEF TypeOK, Cleanup
<1>3. TypeOK'
  BY <1>0, <1>1, <1>2, Zenon DEF TypeOK, Quiet
<1>4. (Locked /\ OneCaller /\ CallsKnow)'
  BY <1>0, <1>1 DEF Locked, OneCaller, CallsKnow, Quiet, Entry, Count
<1>5. Registering'
  BY <1>1 DEF Cleanup, Registering
<1> QED BY <1>1, <1>3, <1>4, <1>5, QuietCounts DEF IInv

LEMMA StepSafe == ASSUME IInv, [Next]_vars PROVE IInv'
<1>1. ASSUME NEW t \in Threads, Proceed(t) PROVE IInv'
  BY <1>1, RegisterSafe, LockSafe, CountUpSafe, CountDownSafe DEF Proceed
<1>2. ASSUME NEW t \in Threads, LookForFactory(t) PROVE IInv'
  BY <1>2, RegisterSafe
<1>3. ASSUME NEW t \in Threads, NEW c \in Constants,
             CallRelease(t, c) \/ \E s \in Strings : CallGet(t, c, s)
      PROVE  IInv'
  BY <1>3, CallReleaseSafe, CallGetSafe
<1>4. CASE Cleanup
  BY <1>4, CleanupSafe
<1>5. CASE UNCHANGED vars
  <2>0. TypeOK /\ Locked /\ OneCaller /\ CallsKnow /\ Registering
    BY DEF IInv
  <2>1. /\ UNCHANGED <<stringFactory, made, deleted, over, uses, lock, pc, doing, want, found>>
        /\ Quiet
    BY <1>5 DEF vars, Quiet
  <2>2. TypeOK'
    BY <2>0, <2>1, Zenon DEF TypeOK, Quiet
  <2>3. (Locked /\ OneCaller /\ Registering)'
    BY <2>0, <2>1 DEF Locked, OneCaller, Registering
  <2>4. CallsKnow'
    BY <2>0, <2>1 DEF CallsKnow, Quiet, Entry, Count
  <2> QED BY <2>1, <2>2, <2>3, <2>4, QuietCounts DEF IInv
<1> QED BY <1>1, <1>2, <1>3, <1>4, <1>5 DEF Next

-----------------------------------------------------------------------------
\* The inductive invariant: the counts are exact, nothing dangles, and what a call
\* has found out is still so when it acts on it.
THEOREM CacheCounted == Spec => []IInv
BY Initially, StepSafe, PTL DEF Spec

\* Every variable has its type.
THEOREM TypeCorrect == Spec => []TypeOK
<1>1. IInv => TypeOK
  BY DEF IInv
<1> QED BY <1>1, CacheCounted, PTL

\* GetStringConstant and ReleaseStringConstant keep the count of an entry the number
\* of pointers to it, however the calls of any number of threads interleave.
THEOREM CountsKept == Spec => []CountsExact
<1>1. IInv => CountsExact
  BY DEF IInv
<1> QED BY <1>1, CacheCounted, PTL

\* ReleaseStringConstant never erases an entry another engine has a pointer to.
THEOREM PointersStay == Spec => []NoneDangles
<1>1. IInv => NoneDangles
  BY DEF IInv
<1> QED BY <1>1, CacheCounted, PTL

\* ReleaseStringConstant finds what GetStringConstant of the same factory gave out.
THEOREM ReleasesAlwaysSucceed == Spec => []ReleasesSucceed
<1>1. IInv => ReleasesSucceed
  BY DEF IInv
<1> QED BY <1>1, CacheCounted, PTL

\* All of this together, which is what the run of the factory checks.
THEOREM FactorySafe == Spec => []CountsRight
<1>1. TypeOK /\ CountsExact /\ NoneDangles /\ ReleasesSucceed => CountsRight
  BY DEF CountsRight
<1> QED BY <1>1, TypeCorrect, CountsKept, PointersStay, ReleasesAlwaysSucceed, PTL

-----------------------------------------------------------------------------
\* A factory is deleted only when the process ends, and then no thread is on its way
\* to a new pointer, or to a new factory.
Ended ==
  /\ deleted # {} => over
  /\ over => \A t \in Threads : pc[t] \notin Getting \cup {"make", "use"}

Outliving == IInv /\ Ended /\ FactoryOutlivesPointers

LEMMA EndedKept == ASSUME IInv, Ended, [Next]_vars PROVE Ended'
<1>0. TypeOK
  BY DEF IInv
<1>1. ASSUME NEW t \in Threads, Proceed(t) PROVE Ended'
  <2>1. over' = over /\ deleted' = deleted
    BY <1>1 DEF Proceed, MakeFactory, UseFactory, AcquireExclusiveLock, Find, CountUp, CountDown,
                ReleaseExclusiveLock, Return, static
  <2>2. /\ \A u \in Threads : u # t => pc'[u] = pc[u]
        /\ pc'[t] \in Getting \cup {"make", "use"} => pc[t] \in Getting \cup {"make", "use"}
    BY <1>0, <1>1 DEF TypeOK, Proceed, MakeFactory, UseFactory, AcquireExclusiveLock, Find,
                      CountUp, CountDown, ReleaseExclusiveLock, Return, Go, Getting
  <2> QED BY <2>1, <2>2 DEF Ended
<1>2. ASSUME NEW t \in Threads,
             LookForFactory(t) \/ \E c \in Constants, s \in Strings : CallGet(t, c, s)
      PROVE  Ended'
  BY <1>2 DEF Ended, LookForFactory, CallGet, static
<1>3. ASSUME NEW t \in Threads, NEW c \in Constants, CallRelease(t, c) PROVE Ended'
  <2>1. over' = over /\ deleted' = deleted
    BY <1>3 DEF CallRelease, static
  <2>2. /\ \A u \in Threads : u # t => pc'[u] = pc[u]
        /\ pc'[t] \notin Getting \cup {"make", "use"}
    BY <1>0, <1>3 DEF TypeOK, CallRelease, Go, Getting
  <2> QED BY <2>1, <2>2 DEF Ended
<1>4. CASE Cleanup
  <2>1. over' /\ pc' = pc /\ \A t \in Threads : pc[t] \in {"unregistered", "idle"}
    BY <1>4 DEF Cleanup
  <2> QED BY <2>1 DEF Ended, Getting
<1>5. CASE UNCHANGED vars
  BY <1>5 DEF vars, Ended
<1> QED BY <1>1, <1>2, <1>3, <1>4, <1>5 DEF Next

\* A new pointer is had only before the end, and what is deleted then has no entries.
LEMMA OutlivingKept ==
  ASSUME IInv, Ended, FactoryOutlivesPointers, [Next]_vars PROVE FactoryOutlivesPointers'
<1>0. TypeOK /\ CallsKnow /\ CountsExact /\ OneCaller
  BY DEF IInv
<1>1. CASE points' = points /\ deleted' = deleted
  BY <1>1 DEF FactoryOutlivesPointers
<1>2. ASSUME NEW t \in Threads, CountUp(t) PROVE FactoryOutlivesPointers'
  <2>1. pc[t] = "count" /\ deleted' = deleted
    BY <1>2 DEF CountUp, Go, static
  <2>2. deleted' = {}
    BY <2>1 DEF Ended, Getting
  <2> QED BY <2>2 DEF FactoryOutlivesPointers
<1>3. ASSUME NEW t \in Threads, CountDown(t) PROVE FactoryOutlivesPointers'
  <2>1. \A c \in Constants : points'[c] \in {points[c], None, Dangling}
    <3>1. CASE ~found[t]
      BY <1>3, <3>1 DEF CountDown
    <3>2. CASE found[t]
      <4>1. points' = Left(t) \/ points' = Erased(Left(t), Entry(t))
        BY <1>3, <3>2 DEF CountDown
      <4>2. \A c \in Constants : Left(t)[c] \in {points[c], None}
        BY <1>0 DEF TypeOK, Left
      <4>3. \A c \in Constants : Erased(Left(t), Entry(t))[c] \in {Left(t)[c], Dangling}
        BY DEF Erased
      <4> QED BY <4>1, <4>2, <4>3
    <3> QED BY <3>1, <3>2
  <2>2. deleted' = deleted
    BY <1>3 DEF CountDown, static
  <2> QED BY <2>1, <2>2 DEF FactoryOutlivesPointers
<1>4. CASE Cleanup
  <2>1. deleted = {} /\ points' = points
    BY <1>4 DEF Cleanup, Ended
  <2>2. CASE deleted' = deleted
    BY <2>1, <2>2 DEF FactoryOutlivesPointers
  <2>3. CASE deleted' # deleted
    <3>1. deleted' = {stringFactory} /\ stringFactory \in Factories /\ Deletes(stringFactory)
      BY <1>0, <1>4, <2>1, <2>3 DEF Cleanup, TypeOK
    <3>2. \A s \in Strings : PointersTo(<<stringFactory, s>>) = {}
      <4> SUFFICES ASSUME NEW s \in Strings PROVE PointersTo(<<stringFactory, s>>) = {}
        OBVIOUS
      <4>1. Cardinality(PointersTo(<<stringFactory, s>>)) = 0
        BY <1>0, <3>1 DEF CountsExact, Deletes
      <4>2. IsFiniteSet(PointersTo(<<stringFactory, s>>))
        BY ConstantsAssumption, FS_Subset DEF PointersTo
      <4> QED BY <4>1, <4>2, FS_EmptySet
    <3>3. \A c \in Constants : points[c] \notin {None, Dangling} =>
            points[c] = <<points[c][1], points[c][2]>> /\ points[c][2] \in Strings
      BY <1>0 DEF TypeOK
    <3>4. \A c \in Constants : points[c] \notin {None, Dangling} => points[c][1] # stringFactory
      BY <3>2, <3>3 DEF PointersTo
    <3> QED BY <2>1, <3>1, <3>4 DEF FactoryOutlivesPointers
  <2> QED BY <2>2, <2>3
<1>5. ASSUME NEW t \in Threads, Proceed(t) PROVE
        (points' = points /\ deleted' = deleted) \/ CountUp(t) \/ CountDown(t)
  BY <1>5 DEF Proceed, MakeFactory, UseFactory, AcquireExclusiveLock, Find, ReleaseExclusiveLock,
              Return, static
<1>6. ASSUME NEW t \in Threads,
             \/ LookForFactory(t)
             \/ \E c \in Constants : CallRelease(t, c) \/ \E s \in Strings : CallGet(t, c, s)
      PROVE  points' = points /\ deleted' = deleted
  BY <1>6 DEF LookForFactory, CallRelease, CallGet, static
<1>7. CASE UNCHANGED vars
  BY <1>1, <1>7 DEF vars
<1> QED BY <1>1, <1>2, <1>3, <1>4, <1>5, <1>6, <1>7 DEF Next

\* ~CStdStringFactoryCleaner never deletes a factory an engine has a pointer of: the
\* factory it deletes is empty, and no call that could fill it is under way.
THEOREM FactoryOutlives == Spec => []FactoryOutlivesPointers
<1>1. Init => Ended /\ FactoryOutlivesPointers
  BY DEF Init, Ended, FactoryOutlivesPointers
<1>2. Outliving /\ [Next]_vars => Outliving'
  BY StepSafe, EndedKept, OutlivingKept DEF Outliving
<1>3. Spec => []Outliving
  BY Initially, <1>1, <1>2, PTL DEF Spec, Outliving
<1>4. Outliving => FactoryOutlivesPointers
  BY DEF Outliving
<1> QED BY <1>3, <1>4, PTL

HIDE NamesAssumption

-----------------------------------------------------------------------------
(* Induction over the numbers, without an operator as a parameter.          *)
\* Induction for a set of numbers: of what is missing, some interval below would be
\* the smallest.
LEMMA Induct ==
  ASSUME NEW S \in SUBSET Nat, 0 \in S, \A n \in S : n + 1 \in S
  PROVE  S = Nat
<1> SUFFICES ASSUME S # Nat PROVE FALSE
  OBVIOUS
<1> DEFINE T == {0 .. x : x \in Nat \ S}
<1>1. T \subseteq FiniteSubsetsOf(Nat) /\ T # {}
  <2>1. ASSUME NEW x \in Nat PROVE 0 .. x \in FiniteSubsetsOf(Nat)
    <3>1. IsFiniteSet(0 .. x) /\ 0 .. x \subseteq Nat
      BY FS_Interval
    <3> QED
      BY <3>1 DEF FiniteSubsetsOf
  <2> QED
    BY <2>1
<1>2. PICK I \in T : \A J \in T : <<J, I>> \notin StrictSubsetOrdering(Nat)
  <2> HIDE DEF T
  <2> QED
    BY <1>1, WFMin, FS_StrictSubsetOrderingWellFounded
<1>3. PICK x \in Nat \ S : I = 0 .. x
  OBVIOUS
<1>4. x - 1 \in Nat \ S
  OBVIOUS
<1>5. 0 .. x - 1 \in T /\ 0 .. x - 1 \subseteq I /\ 0 .. x - 1 # I /\ I \subseteq Nat
  BY <1>3, <1>4
<1> QED
  BY <1>2, <1>5 DEF StrictSubsetOrdering

LEMMA LeastOf ==
  ASSUME NEW S \in SUBSET Nat, S # {}
  PROVE  Min(S) \in S /\ \A x \in S : Min(S) <= x
<1> DEFINE Below == {n \in Nat : \A m \in 0 .. n : m \notin S}
<1>1. \E x \in S : \A y \in S : x <= y
  <2> SUFFICES ASSUME \A x \in S : \E y \in S : y < x PROVE FALSE
    OBVIOUS
  <2>1. 0 \in Below
    OBVIOUS
  <2>2. ASSUME NEW n \in Below PROVE n + 1 \in Below
    <3>1. n + 1 \notin S
      OBVIOUS
    <3> QED
      BY <3>1
  <2>3. Below = Nat
    <3> HIDE DEF Below
    <3>1. Below \in SUBSET Nat
      BY DEF Below
    <3> QED
      BY <2>1, <2>2, <3>1, Induct
  <2>4. PICK x \in S : x \in Nat
    OBVIOUS
  <2>5. x \in Below
    BY <2>3, <2>4
  <2>6. x \in 0 .. x
    BY <2>4
  <2> QED
    BY <2>5, <2>6
<1> QED
  BY <1>1 DEF Min

-----------------------------------------------------------------------------
(* split and join.                                                          *)
\* What FindFrom finds.
LEMMA Found ==
  ASSUME NEW s \in Seq(Chars), NEW d \in Seq(Chars), NEW p \in Nat
  PROVE  LET at == FindFrom(s, d, p) IN
         \/ at = -1 /\ \A q \in p .. Len(s) - Len(d) : ~IsAt(s, d, q)
         \/ /\ at \in p .. Len(s) - Len(d) /\ IsAt(s, d, at)
            /\ \A q \in p .. at - 1 : ~IsAt(s, d, q)
<1> DEFINE places == {q \in p .. Len(s) - Len(d) : IsAt(s, d, q)}
<1>1. places \in SUBSET Nat
  OBVIOUS
<1>2. CASE places = {}
  BY <1>2 DEF FindFrom
<1>3. CASE places # {}
  <2>1. Min(places) \in places /\ \A x \in places : Min(places) <= x
    <3> HIDE DEF places
    <3> QED
      BY <1>1, <1>3, LeastOf
  <2>2. FindFrom(s, d, p) = Min(places)
    BY <1>3 DEF FindFrom
  <2>3. PICK m \in Nat : m = Min(places)
    BY <1>1, <2>1
  <2>4. m \in p .. Len(s) - Len(d) /\ IsAt(s, d, m)
    BY <2>1, <2>3
  <2>5. ASSUME NEW q \in p .. m - 1 PROVE ~IsAt(s, d, q)
    <3>1. q < m /\ q \in p .. Len(s) - Len(d)
      BY <2>4
    <3> QED
      BY <2>1, <2>3, <3>1
  <2> HIDE DEF places
  <2> QED
    BY <2>2, <2>3, <2>4, <2>5
<1> QED
  BY <1>2, <1>3

LEMMA NotCut ==
  ASSUME NEW s \in Seq(Chars), \A i \in 1 .. Len(s) : s[i] # NUL
  PROVE  UpToNul(s) = s
BY DEF UpToNul, CString, SelectInSeq

-----------------------------------------------------------------------------
\* Any such texts agree with what join makes: the recursion has one solution.
LEMMA JoinOf ==
  ASSUME NEW d \in Seq(Chars), NEW parts \in Seq(Seq(Chars)),
         NEW k \in Nat, Len(parts) = k + 1,
         NEW f \in [0 .. k -> Seq(Chars)], f[0] = <<>>,
         \A n \in 1 .. k : f[n] = f[n - 1] \o parts[n] \o d
  PROVE  StringJoin(parts, d) = f[k] \o parts[k + 1]
<1> DEFINE Step(j, n) == IF n = 0 THEN <<>>
                         ELSE j[n - 1] \o parts[n] \o (IF n < Len(parts) THEN d ELSE <<>>)
           IsJoin(j) == j = [n \in 0 .. Len(parts) |-> Step(j, n)]
           whole == f[k] \o parts[k + 1]
           g == [n \in 0 .. k + 1 |-> IF n = k + 1 THEN whole ELSE f[n]]
<1>1. whole \in Seq(Chars) /\ whole \o <<>> = whole
  <2>1. f[k] \in Seq(Chars)
    OBVIOUS
  <2>2. k + 1 \in 1 .. Len(parts)
    OBVIOUS
  <2>3. parts[k + 1] \in Seq(Chars)
    BY <2>2, ElementOfSeq
  <2>4. whole \in Seq(Chars)
    BY <2>1, <2>3, ConcatProperties
  <2> QED
    BY <2>4, ConcatEmptySeq
<1> HIDE DEF whole
<1>2. g[k + 1] = whole
  OBVIOUS
<1>3. ASSUME NEW n \in 0 .. k PROVE g[n] = f[n]
  OBVIOUS
<1>4. IsJoin(g)
  <2> HIDE DEF g
  <2>1. ASSUME NEW n \in 0 .. k + 1 PROVE g[n] = Step(g, n)
    <3>1. CASE n = 0
      BY <3>1, <1>3
    <3>2. CASE n \in 1 .. k
      <4>1. f[n] = f[n - 1] \o parts[n] \o d
        BY <3>2
      <4>2. n \in 0 .. k /\ n - 1 \in 0 .. k /\ n < Len(parts) /\ n # 0
        BY <3>2
      <4>3. g[n] = f[n] /\ g[n - 1] = f[n - 1]
        BY <1>3, <4>2
      <4> QED
        BY <4>1, <4>2, <4>3
    <3>3. CASE n = k + 1
      <4>1. g[n] = whole /\ g[n - 1] = f[k] /\ ~(n < Len(parts)) /\ n # 0
        BY <1>2, <1>3, <3>3
      <4>2. Step(g, n) = (f[k] \o parts[k + 1]) \o <<>>
        BY <3>3, <4>1
      <4>3. Step(g, n) = whole \o <<>>
        BY <4>2 DEF whole
      <4> HIDE DEF Step
      <4> QED
        BY <1>1, <4>1, <4>3
    <3> QED
      BY <3>1, <3>2, <3>3
  <2>2. g = [n \in 0 .. k + 1 |-> g[n]]
    BY DEF g
  <2> HIDE DEF Step
  <2> QED
    BY <2>1, <2>2
<1>5. ASSUME NEW j, IsJoin(j) PROVE j[k + 1] = whole
  <2> DEFINE Agree == {n \in Nat : n <= k => j[n] = f[n]}
  <2>1. ASSUME NEW n \in 0 .. k + 1 PROVE j[n] = Step(j, n)
    <3> HIDE DEF Step
    <3> QED
      BY <1>5
  <2>2. 0 \in Agree
    <3>1. j[0] = Step(j, 0)
      <4> HIDE DEF Step, IsJoin
      <4>1. 0 \in 0 .. k + 1
        OBVIOUS
      <4> QED
        BY <2>1, <4>1
    <3>2. j[0] = <<>>
      BY <3>1
    <3> QED
      BY <3>2
  <2>3. ASSUME NEW n \in Agree PROVE n + 1 \in Agree
    <3>1. CASE n + 1 <= k
      <4>1. n + 1 \in 0 .. k + 1 /\ n + 1 # 0 /\ n + 1 < Len(parts) /\ (n + 1) - 1 = n
        BY <3>1
      <4>2. j[n + 1] = j[n] \o parts[n + 1] \o d
        BY <2>1, <4>1
      <4>3. f[n + 1] = f[(n + 1) - 1] \o parts[n + 1] \o d
        <5>1. n + 1 \in 1 .. k
          BY <3>1
        <5> QED
          BY <5>1
      <4>4. j[n] = f[n]
        BY <3>1
      <4>5. j[n + 1] = f[n + 1]
        BY <4>1, <4>2, <4>3, <4>4
      <4> QED
        BY <4>5
    <3> QED
      BY <3>1
  <2>4. Agree = Nat
    <3> HIDE DEF Agree
    <3>1. Agree \in SUBSET Nat
      BY DEF Agree
    <3> QED
      BY <2>2, <2>3, <3>1, Induct
  <2>5. k \in Agree
    BY <2>4
  <2>6. j[k] = f[k]
    BY <2>5
  <2>7. k + 1 \in 0 .. k + 1 /\ k + 1 # 0 /\ ~(k + 1 < Len(parts)) /\ (k + 1) - 1 = k
    OBVIOUS
  <2>8. j[k + 1] = (f[k] \o parts[k + 1]) \o <<>>
    BY <2>1, <2>6, <2>7
  <2> HIDE DEF Step, IsJoin
  <2> QED
    BY <2>8, <1>1 DEF whole
<1>6. StringJoin(parts, d) = (CHOOSE j : IsJoin(j))[k + 1]
  BY DEF StringJoin
<1> HIDE DEF IsJoin
<1>7. IsJoin(CHOOSE j : IsJoin(j))
  BY <1>4
<1> QED
  BY <1>5, <1>6, <1>7 DEF whole

-----------------------------------------------------------------------------
\* A string without the character 0, which UpToNul would cut.
NoNul == \A i \in DOMAIN str : str[i] # NUL

\* f[n] is the text that the first n parts make, each with its delimiter.
Makes(f, n, parts, d) ==
  f[0] = <<>> /\ \A i \in 1 .. n : f[i] = f[i - 1] \o parts[i] \o d

\* The parts and their delimiters are the string before prev.
Passed ==
  /\ prev \in 0 .. Len(str)
  /\ \E f \in [0 .. Len(array) -> Seq(Chars)] :
       Makes(f, Len(array), array, delim) /\ f[Len(array)] = SubSeq(str, 1, prev)

Bare(part, d) == \A p \in 0 .. Len(part) - Len(d) : ~IsAt(part, d, p)
AllBare == \A i \in 1 .. Len(array) : Bare(array[i], delim)

SplitIInv ==
  /\ str \in Seq(Chars) /\ delim \in Seq(Chars) /\ array \in Seq(Seq(Chars))
  /\ phase = "splitting" => Passed /\ (delim # <<>> => AllBare)
  /\ phase = "split" => delim # <<>> /\ (NoNul => AllBare /\ PartsJoin)

\* A delimiter in a part of a string is one in the string.
LEMMA AtInPart ==
  ASSUME NEW s \in Seq(Chars), NEW d \in Seq(Chars), d # <<>>,
         NEW a \in 0 .. Len(s), NEW b \in a .. Len(s),
         NEW p \in 0 .. b - a - Len(d), IsAt(SubSeq(s, a + 1, b), d, p)
  PROVE  IsAt(s, d, a + p)
<1>1. PICK k \in Nat : k = Len(d) /\ k > 0
  BY EmptySeq
<1>2. PICK n \in Nat : n = Len(s)
  OBVIOUS
<1>3. /\ a + 1 \in 1 .. Len(s) /\ b \in 1 .. Len(s)
      /\ p + 1 \in 1 .. b - (a + 1) + 1 /\ p + k \in 1 .. b - (a + 1) + 1
  BY <1>1, <1>2
<1>4. SubSeq(SubSeq(s, a + 1, b), p + 1, p + k) = SubSeq(s, (a + 1) + (p + 1) - 1, (a + 1) + (p + k) - 1)
  BY <1>3, SubSeqOfSubSeq
<1>5. (a + 1) + (p + 1) - 1 = (a + p) + 1 /\ (a + 1) + (p + k) - 1 = (a + p) + k
  BY <1>1, <1>2
<1> QED
  BY <1>1, <1>4, <1>5 DEF IsAt

\* What is before the first delimiter has none.
LEMMA BareBefore ==
  ASSUME NEW s \in Seq(Chars), NEW d \in Seq(Chars), d # <<>>,
         NEW a \in 0 .. Len(s), NEW b \in a .. Len(s),
         \A q \in a .. b - Len(d) : ~IsAt(s, d, q)
  PROVE  Bare(SubSeq(s, a + 1, b), d)
<1>1. PICK k \in Nat : k = Len(d)
  OBVIOUS
<1>2. \A i \in a + 1 .. b : s[i] \in Chars
  OBVIOUS
<1>3. Len(SubSeq(s, a + 1, b)) = b - a
  <2>1. Len(SubSeq(s, a + 1, b)) = IF a + 1 <= b THEN b - (a + 1) + 1 ELSE 0
    BY <1>2, SubSeqProperties
  <2> QED
    BY <2>1
<1> SUFFICES ASSUME NEW p \in 0 .. (b - a) - k, IsAt(SubSeq(s, a + 1, b), d, p) PROVE FALSE
  BY <1>1, <1>3 DEF Bare
<1>4. IsAt(s, d, a + p)
  BY <1>1, AtInPart
<1>5. a + p \in a .. b - k
  BY <1>1
<1> QED
  BY <1>1, <1>4, <1>5

LEMMA SplitTexts == \A s \in Texts : s \in Seq(Chars)
BY MaxLengthAssumption DEF Texts

LEMMA SplitInitially == SplitInit => SplitIInv
BY DEF SplitInit, SplitIInv

LEMMA SplitStarts ==
  ASSUME SplitIInv, NEW s \in Texts, NEW d \in Delimiters, StringSplit(s, d)
  PROVE  SplitIInv'
<1>1. s \in Seq(Chars) /\ d \in Seq(Chars)
  BY SplitTexts, DelimitersAssumption
<1>2. SubSeq(s, 1, 0) = <<>>
  BY SubSeqEmpty
<1> DEFINE f == [n \in 0 .. 0 |-> <<>>]
<1>3. f \in [0 .. 0 -> Seq(Chars)] /\ f[0] = <<>> /\ Makes(f, 0, <<>>, d)
  BY DEF Makes
<1>4. Passed'
  <2> HIDE DEF f
  <2> QED
    BY <1>1, <1>2, <1>3 DEF StringSplit, Passed
<1> QED
  BY <1>1, <1>4 DEF StringSplit, SplitIInv, AllBare

LEMMA NextPartKeeps ==
  ASSUME SplitIInv, NextPart
  PROVE  SplitIInv'
<1> USE DEF SplitIInv
<1>1. /\ str \in Seq(Chars) /\ delim \in Seq(Chars) /\ array \in Seq(Seq(Chars))
      /\ Passed /\ (delim # <<>> => AllBare)
  BY DEF NextPart
<1>2. PICK k \in Nat : k = Len(delim)
  BY <1>1
<1>3. PICK n \in Nat : n = Len(str)
  BY <1>1
<1>4. PICK a \in 0 .. n : a = prev
  BY <1>1, <1>3 DEF Passed
<1>5. PICK b \in a .. n - k : b = pos /\ IsAt(str, delim, b) /\ \A q \in a .. b - 1 : ~IsAt(str, delim, q)
  <2>1. LET at == FindFrom(str, delim, a) IN
         \/ at = -1 /\ \A q \in a .. Len(str) - Len(delim) : ~IsAt(str, delim, q)
         \/ /\ at \in a .. Len(str) - Len(delim) /\ IsAt(str, delim, at)
            /\ \A q \in a .. at - 1 : ~IsAt(str, delim, q)
    BY <1>1, <1>4, Found
  <2> QED
    BY <2>1, <1>2, <1>3, <1>4 DEF NextPart, pos
<1> DEFINE part == SubSeq(str, a + 1, b)
<1>6. PICK m \in Nat : m = Len(array)
  BY <1>1
<1>7. part \in Seq(Chars)
  <2>1. \A i \in a + 1 .. b : str[i] \in Chars
    BY <1>1, <1>3
  <2> QED
    BY <2>1, SubSeqProperties
<1>8. array' = Append(array, part) /\ prev' = b + k /\ UNCHANGED <<str, delim, phase>>
  BY <1>2, <1>4, <1>5 DEF NextPart
<1> HIDE DEF part
<1>9. /\ array' \in Seq(Seq(Chars)) /\ Len(array') = m + 1 /\ array'[m + 1] = part
      /\ \A i \in 1 .. m : array'[i] = array[i]
  BY <1>1, <1>6, <1>7, <1>8, AppendProperties
<1>10. Passed'
  <2>1. PICK f \in [0 .. m -> Seq(Chars)] : Makes(f, m, array, delim) /\ f[m] = SubSeq(str, 1, a)
    BY <1>1, <1>4, <1>6 DEF Passed
  <2> DEFINE now == SubSeq(str, 1, b + k)
             g == [i \in 0 .. m + 1 |-> IF i = m + 1 THEN now ELSE f[i]]
  <2>2. now = f[m] \o part \o delim
    <3>0. /\ 1 \in 1 .. Len(str) + 1 /\ a \in 1 - 1 .. Len(str) /\ b \in a .. Len(str)
          /\ b \in 1 - 1 .. Len(str) /\ b + k \in b .. Len(str)
      BY <1>3
    <3>1. f[m] \o part = SubSeq(str, 1, b)
      <4>1. SubSeq(str, 1, a) \o SubSeq(str, a + 1, b) = SubSeq(str, 1, b)
        BY <1>1, <3>0, ConcatAdjacentSubSeq
      <4> QED
        BY <4>1, <2>1 DEF part
    <3>2. SubSeq(str, b + 1, b + k) = delim
      BY <1>2, <1>5 DEF IsAt
    <3>3. SubSeq(str, 1, b) \o SubSeq(str, b + 1, b + k) = SubSeq(str, 1, b + k)
      BY <1>1, <3>0, ConcatAdjacentSubSeq
    <3> QED
      BY <3>1, <3>2, <3>3
  <2>3. now \in Seq(Chars)
    <3>1. \A i \in 1 .. b + k : str[i] \in Chars
      BY <1>1, <1>3
    <3> QED
      BY <3>1, SubSeqProperties
  <2> HIDE DEF now
  <2>4. g \in [0 .. m + 1 -> Seq(Chars)] /\ g[m + 1] = now /\ \A i \in 0 .. m : g[i] = f[i]
    BY <2>3
  <2> HIDE DEF g
  <2>5. g[0] = <<>>
    BY <2>1, <2>4 DEF Makes
  <2>6. ASSUME NEW i \in 1 .. m + 1 PROVE g[i] = g[i - 1] \o array'[i] \o delim
    <3>1. CASE i = m + 1
      <4>1. i - 1 = m /\ m \in 0 .. m
        BY <3>1
      <4>2. g[i] = now /\ g[i - 1] = f[m] /\ array'[i] = part
        BY <3>1, <4>1, <2>4, <1>9
      <4> QED
        BY <4>2, <2>2
    <3>2. CASE i \in 1 .. m
      <4>1. f[i] = f[i - 1] \o array[i] \o delim
        BY <2>1, <3>2 DEF Makes
      <4>2. i - 1 \in 0 .. m /\ i \in 0 .. m
        BY <3>2
      <4> QED
        BY <4>1, <4>2, <2>4, <1>9, <3>2
    <3>3. i = m + 1 \/ i \in 1 .. m
      OBVIOUS
    <3> QED
      BY <3>1, <3>2, <3>3
  <2>7. Makes(g, m + 1, array', delim) /\ g[m + 1] = SubSeq(str, 1, b + k)
    BY <2>4, <2>5, <2>6 DEF Makes, now
  <2>8. b + k \in 0 .. Len(str)
    BY <1>3
  <2> QED
    BY <1>8, <1>9, <2>4, <2>7, <2>8 DEF Passed
<1>11. ASSUME delim # <<>> PROVE AllBare'
  <2>1. \A q \in a .. b - k : ~IsAt(str, delim, q)
    <3>1. k > 0
      BY <1>1, <1>2, <1>11, EmptySeq
    <3> QED
      BY <3>1, <1>5
  <2>2. Bare(part, delim)
    BY <1>1, <1>2, <1>3, <1>11, <2>1, BareBefore DEF part
  <2>3. \A i \in 1 .. m : Bare(array[i], delim)
    BY <1>1, <1>6, <1>11 DEF AllBare
  <2>4. ASSUME NEW i \in 1 .. m + 1 PROVE Bare(array'[i], delim)
    BY <2>2, <2>3, <1>9
  <2> QED
    BY <2>4, <1>8, <1>9 DEF AllBare
<1> QED
  BY <1>1, <1>8, <1>9, <1>10, <1>11 DEF NextPart

LEMMA LastPartKeeps ==
  ASSUME SplitIInv, LastPart
  PROVE  SplitIInv'
<1>1. /\ str \in Seq(Chars) /\ delim \in Seq(Chars) /\ array \in Seq(Seq(Chars))
      /\ Passed /\ (delim # <<>> => AllBare)
  BY DEF LastPart, SplitIInv
<1>2. PICK k \in Nat : k = Len(delim)
  BY <1>1
<1>3. PICK n \in Nat : n = Len(str)
  BY <1>1
<1>4. PICK a \in 0 .. n : a = prev
  BY <1>1, <1>3 DEF Passed
<1>5. \A q \in a .. n - k : ~IsAt(str, delim, q)
  <2>1. LET at == FindFrom(str, delim, a) IN
         \/ at = -1 /\ \A q \in a .. Len(str) - Len(delim) : ~IsAt(str, delim, q)
         \/ /\ at \in a .. Len(str) - Len(delim) /\ IsAt(str, delim, at)
            /\ \A q \in a .. at - 1 : ~IsAt(str, delim, q)
    BY <1>1, <1>4, Found
  <2> QED
    BY <2>1, <1>2, <1>3, <1>4 DEF LastPart, pos
<1>6. delim # <<>>
  <2> SUFFICES ASSUME delim = <<>> PROVE FALSE
    OBVIOUS
  <2>1. k = 0 /\ a \in a .. n - k
    BY <1>2
  <2>2. SubSeq(str, a + 1, a + 0) = <<>>
    BY SubSeqEmpty
  <2>3. IsAt(str, delim, a)
    BY <1>2, <2>1, <2>2 DEF IsAt
  <2> QED
    BY <1>5, <2>1, <2>3
<1> DEFINE part == SubSeq(str, a + 1, n)
<1>7. PICK m \in Nat : m = Len(array)
  BY <1>1
<1>8. /\ part \in Seq(Chars)
      /\ Len(part) = n - a /\ \A i \in 1 .. n - a : part[i] = str[a + i]
  <2>1. \A i \in a + 1 .. n : str[i] \in Chars
    BY <1>1, <1>3
  <2>2. /\ part \in Seq(Chars)
        /\ Len(part) = IF a + 1 <= n THEN n - (a + 1) + 1 ELSE 0
        /\ \A i \in 1 .. n - (a + 1) + 1 : part[i] = str[(a + 1) + i - 1]
    BY <2>1, SubSeqProperties
  <2>3. n - (a + 1) + 1 = n - a
    OBVIOUS
  <2>4. ASSUME NEW i \in 1 .. n - a PROVE part[i] = str[a + i]
    <3>1. (a + 1) + i - 1 = a + i
      OBVIOUS
    <3> QED
      BY <2>2, <2>3, <3>1
  <2>5. Len(part) = n - a
    BY <2>2
  <2> HIDE DEF part
  <2> QED
    BY <2>2, <2>4, <2>5
<1>9. array' = Append(array, UpToNul(part)) /\ UNCHANGED <<str, delim, prev>> /\ phase' = "split"
  BY <1>3, <1>4 DEF LastPart
<1>10. UpToNul(part) \in Seq(Chars)
  <2> DEFINE nuls == {i \in 1 .. Len(part) : part[i] = NUL}
  <2>1. CASE nuls = {}
    BY <2>1, <1>8 DEF UpToNul, CString, SelectInSeq
  <2>2. CASE nuls # {}
    <3> HIDE DEF part
    <3>1. nuls \in SUBSET Nat
      BY <1>8
    <3>2. Min(nuls) \in nuls
      <4> HIDE DEF nuls
      <4> QED
        BY <2>2, <3>1, LeastOf
    <3>3. PICK c \in 1 .. Len(part) : c = Min(nuls)
      BY <3>2
    <3>4. CString(part) = c /\ c # 0
      BY <2>2, <3>3, <1>8 DEF CString, SelectInSeq
    <3>5. \A i \in 1 .. c - 1 : part[i] \in Chars
      BY <1>8
    <3>6. SubSeq(part, 1, c - 1) \in Seq(Chars)
      BY <3>5, <1>8, SubSeqProperties
    <3> QED
      BY <3>4, <3>6 DEF UpToNul
  <2> QED
    BY <2>1, <2>2
<1>11. array' \in Seq(Seq(Chars)) /\ Len(array') = m + 1
       /\ array'[m + 1] = UpToNul(part) /\ \A i \in 1 .. m : array'[i] = array[i]
  <2> HIDE DEF part
  <2> QED
    BY <1>1, <1>7, <1>9, <1>10, AppendProperties
<1>12. ASSUME NoNul PROVE UpToNul(part) = part
  <2>1. ASSUME NEW i \in 1 .. n - a PROVE part[i] # NUL
    <3>1. part[i] = str[a + i] /\ a + i \in 1 .. Len(str)
      BY <1>8, <1>3
    <3> QED
      BY <3>1, <1>1, <1>12 DEF NoNul
  <2> HIDE DEF part
  <2> QED
    BY <1>8, <2>1, NotCut
<1>13. ASSUME NoNul PROVE AllBare'
  <2>1. Bare(part, delim)
    BY <1>1, <1>2, <1>3, <1>5, <1>6, BareBefore
  <2>2. \A i \in 1 .. m : Bare(array[i], delim)
    BY <1>1, <1>6, <1>7 DEF AllBare
  <2> HIDE DEF part
  <2>3. \A i \in 1 .. m + 1 : Bare(array'[i], delim)
    BY <2>1, <2>2, <1>11, <1>12, <1>13
  <2> QED
    BY <2>3, <1>9, <1>11 DEF AllBare
<1>14. ASSUME NoNul PROVE StringJoin(array', delim) = str
  <2>1. PICK f \in [0 .. m -> Seq(Chars)] : Makes(f, m, array, delim) /\ f[m] = SubSeq(str, 1, a)
    BY <1>1, <1>4, <1>7 DEF Passed
  <2>2. \A i \in 1 .. m : f[i] = f[i - 1] \o array'[i] \o delim
    BY <2>1, <1>11 DEF Makes
  <2>3. f[0] = <<>>
    BY <2>1 DEF Makes
  <2> HIDE DEF part
  <2>4. StringJoin(array', delim) = f[m] \o array'[m + 1]
    BY <1>1, <1>11, <2>2, <2>3, JoinOf
  <2>5. SubSeq(str, 1, a) \o SubSeq(str, a + 1, n) = SubSeq(str, 1, n)
    <3>1. 1 \in 1 .. Len(str) + 1 /\ a \in 1 - 1 .. Len(str) /\ n \in a .. Len(str)
      BY <1>3
    <3> QED
      BY <1>1, <3>1, ConcatAdjacentSubSeq
  <2>6. SubSeq(str, 1, n) = str
    BY <1>1, <1>3, SubSeqFull
  <2> QED
    BY <2>1, <2>4, <2>5, <2>6, <1>11, <1>12, <1>14 DEF part
<1> HIDE DEF part
<1>15. NoNul' <=> NoNul
  BY <1>9 DEF NoNul
<1> QED
  BY <1>1, <1>6, <1>9, <1>11, <1>13, <1>14, <1>15 DEF SplitIInv, PartsJoin

\* What split takes apart, join puts together, and no delimiter is left in a part, for
\* strings without the character 0 (which ends the last part, a known deviation).
THEOREM SplitsRight == SplitSpec => [](NoNul => SplitRight)
<1>1. SplitInit => SplitIInv
  BY SplitInitially
<1>2. SplitIInv /\ [SplitNext]_splitVars => SplitIInv'
  <2> SUFFICES ASSUME SplitIInv, [SplitNext]_splitVars PROVE SplitIInv'
    OBVIOUS
  <2>1. ASSUME NEW s \in Texts, NEW d \in Delimiters, StringSplit(s, d) PROVE SplitIInv'
    BY <2>1, SplitStarts
  <2>2. CASE NextPart
    BY <2>2, NextPartKeeps
  <2>3. CASE LastPart
    BY <2>3, LastPartKeeps
  <2>4. CASE Crash
    BY <2>4 DEF Crash, SplitIInv
  <2>5. CASE UNCHANGED splitVars
    BY <2>5 DEF splitVars, SplitIInv, Passed, AllBare, NoNul, PartsJoin
  <2> QED
    BY <2>1, <2>2, <2>3, <2>4, <2>5 DEF SplitNext, Turn
<1>3. SplitIInv => (NoNul => SplitRight)
  <2>1. SplitIInv => DOMAIN array = 1 .. Len(array)
    BY LenProperties DEF SplitIInv
  <2>2. SplitIInv /\ NoNul => PartsJoin
    BY DEF SplitIInv, PartsJoin
  <2>3. SplitIInv /\ NoNul => PartsHaveNoDelimiter
    BY <2>1 DEF SplitIInv, PartsHaveNoDelimiter, AllBare, Bare
  <2> QED
    BY <2>2, <2>3 DEF SplitRight
<1> QED
  BY <1>1, <1>2, <1>3, PTL DEF SplitSpec

-----------------------------------------------------------------------------
(* Recursive functions: what satisfies a recursion is its function.         *)
\* A recursion over 0 .. k has a solution.
Solvable(T, first, k, G) ==
  \E f \in [0 .. k -> T] : f[0] = first /\ \A n \in 1 .. k : f[n] = G[<<n, f[n - 1]>>]
LEMMA Solution ==
  ASSUME NEW T, NEW first \in T, NEW k \in Nat, NEW G \in [Nat \X T -> T]
  PROVE  Solvable(T, first, k, G)
<1> DEFINE Solves(f, m) == f[0] = first /\ \A n \in 1 .. m : f[n] = G[<<n, f[n - 1]>>]
           Solved == {m \in Nat : \E f \in [0 .. m -> T] : Solves(f, m)}
<1>1. 0 \in Solved
  <2>1. [n \in 0 .. 0 |-> first] \in [0 .. 0 -> T] /\ Solves([n \in 0 .. 0 |-> first], 0)
    OBVIOUS
  <2> HIDE DEF Solves
  <2> QED
    BY <2>1
<1>2. ASSUME NEW m \in Solved PROVE m + 1 \in Solved
  <2>1. PICK f \in [0 .. m -> T] : Solves(f, m)
    OBVIOUS
  <2> DEFINE next == G[<<m + 1, f[m]>>]
             g == [n \in 0 .. m + 1 |-> IF n = m + 1 THEN next ELSE f[n]]
  <2>2. next \in T
    <3>1. f[m] \in T /\ m + 1 \in Nat
      OBVIOUS
    <3>2. <<m + 1, f[m]>> \in Nat \X T
      BY <3>1
    <3> QED
      BY <3>2
  <2> HIDE DEF next
  <2>3. g \in [0 .. m + 1 -> T] /\ g[m + 1] = next
    BY <2>2
  <2>4. ASSUME NEW n \in 0 .. m PROVE g[n] = f[n]
    OBVIOUS
  <2> HIDE DEF g
  <2>5. ASSUME NEW n \in 1 .. m + 1 PROVE g[n] = G[<<n, g[n - 1]>>]
    <3>1. CASE n = m + 1
      <4>1. n - 1 = m /\ g[m] = f[m]
        BY <2>4, <3>1
      <4> QED
        BY <4>1, <3>1, <2>3 DEF next
    <3>2. CASE n \in 1 .. m
      <4>1. f[n] = G[<<n, f[n - 1]>>]
        BY <2>1, <3>2
      <4>2. g[n] = f[n] /\ g[n - 1] = f[n - 1]
        BY <2>4, <3>2
      <4> QED
        BY <4>1, <4>2
    <3>3. n = m + 1 \/ n \in 1 .. m
      OBVIOUS
    <3> QED
      BY <3>1, <3>2, <3>3
  <2>6. g[0] = first
    BY <2>1, <2>4
  <2>7. Solves(g, m + 1)
    BY <2>5, <2>6
  <2> HIDE DEF Solves
  <2> QED
    BY <2>3, <2>7
<1>3. Solved = Nat
  <2> HIDE DEF Solved
  <2>1. Solved \in SUBSET Nat
    BY DEF Solved
  <2> QED
    BY <1>1, <1>2, <2>1, Induct
<1>4. k \in Solved
  BY <1>3
<1> QED
  BY <1>4 DEF Solvable

\* And only one.
LEMMA OneSolution ==
  ASSUME NEW k \in Nat, NEW f, NEW j, f[0] = j[0],
         \A n \in 1 .. k : j[n - 1] = f[n - 1] => j[n] = f[n]
  PROVE  \A n \in 0 .. k : j[n] = f[n]
<1> DEFINE Agree == {n \in Nat : n <= k => j[n] = f[n]}
<1>1. 0 \in Agree
  OBVIOUS
<1>2. ASSUME NEW n \in Agree PROVE n + 1 \in Agree
  <2>1. CASE n + 1 <= k
    <3>1. n + 1 \in 1 .. k /\ (n + 1) - 1 = n /\ j[n] = f[n]
      BY <2>1
    <3>2. j[n + 1] = f[n + 1]
      BY <3>1
    <3> QED
      BY <3>2
  <2> QED
    BY <2>1
<1>3. Agree = Nat
  <2> HIDE DEF Agree
  <2>1. Agree \in SUBSET Nat
    BY DEF Agree
  <2> QED
    BY <1>1, <1>2, <2>1, Induct
<1> SUFFICES ASSUME NEW n \in 0 .. k PROVE j[n] = f[n]
  OBVIOUS
<1>4. n \in Agree
  BY <1>3
<1> QED
  BY <1>4


-----------------------------------------------------------------------------
(* Numbers.                                                                 *)
LEMMA Euclid ==
  ASSUME NEW y \in Int, NEW S \in Nat \ {0}
  PROVE  y \div S \in Int /\ y % S \in 0 .. S - 1 /\ y = S * (y \div S) + (y % S)
OBVIOUS
LEMMA Only ==
  ASSUME NEW S \in Nat \ {0}, NEW q \in Int, NEW p \in Int, S * (q - p) < S, S * (p - q) < S
  PROVE  p = q
<1>1. CASE q - p >= 1
  <2>1. S * (q - p) >= S * 1
    BY <1>1
  <2> QED BY <2>1
<1>2. CASE p - q >= 1
  <2>1. S * (p - q) >= S * 1
    BY <1>2
  <2> QED BY <2>1
<1> QED BY <1>1, <1>2
LEMMA Rest ==
  ASSUME NEW y \in Int, NEW S \in Nat \ {0}, NEW q \in Int, NEW r \in 0 .. S - 1, y = S * q + r
  PROVE  y % S = r /\ y \div S = q
<1>1. PICK p \in Int, t \in 0 .. S - 1 : p = y \div S /\ t = y % S /\ y = S * p + t
  BY Euclid
<1>2. S * (q - p) = t - r /\ S * (p - q) = r - t
  BY <1>1
<1>3. p = q
  BY <1>1, <1>2, Only
<1> QED BY <1>1, <1>3

LEMMA PowerOf ==
  ASSUME NEW b \in Nat, NEW n \in Nat, NEW f \in [0 .. n -> Nat],
         f[0] = 1, \A k \in 1 .. n : f[k] = b * f[k - 1]
  PROVE  Power(b, n) = f[n]
<1> DEFINE Next1(j, k) == IF k = 0 THEN 1 ELSE b * j[k - 1]
           IsPower(j) == j = [k \in 0 .. n |-> Next1(j, k)]
<1>1. IsPower(f)
  <2>1. ASSUME NEW k \in 0 .. n PROVE f[k] = Next1(f, k)
    OBVIOUS
  <2>2. f = [k \in 0 .. n |-> f[k]]
    OBVIOUS
  <2> HIDE DEF Next1
  <2> QED
    BY <2>1, <2>2
<1>2. ASSUME NEW j, IsPower(j) PROVE j[n] = f[n]
  <2>1. ASSUME NEW k \in 0 .. n PROVE j[k] = Next1(j, k) /\ f[k] = Next1(f, k)
    <3> HIDE DEF Next1
    <3> QED
      BY <1>1, <1>2
  <2>2. j[0] = f[0]
    <3>1. j[0] = Next1(j, 0) /\ f[0] = Next1(f, 0)
      BY <2>1
    <3> QED
      BY <3>1
  <2>3. ASSUME NEW k \in 1 .. n, j[k - 1] = f[k - 1] PROVE j[k] = f[k]
    <3>1. k \in 0 .. n /\ k # 0
      OBVIOUS
    <3>2. j[k] = Next1(j, k) /\ f[k] = Next1(f, k)
      BY <2>1, <3>1
    <3> QED
      BY <2>3, <3>1, <3>2
  <2> HIDE DEF Next1, IsPower
  <2>4. f[0] = j[0] /\ \A k \in 1 .. n : j[k - 1] = f[k - 1] => j[k] = f[k]
    BY <2>2, <2>3
  <2>5. \A k \in 0 .. n : j[k] = f[k]
    BY <2>4, OneSolution, ZenonT(60)
  <2> QED
    BY <2>5
<1>3. Power(b, n) = (CHOOSE j : IsPower(j))[n]
  BY DEF Power
<1> HIDE DEF IsPower
<1>4. IsPower(CHOOSE j : IsPower(j))
  BY <1>1
<1> QED
  BY <1>2, <1>3, <1>4

LEMMA PowerStep ==
  ASSUME NEW b \in Nat \ {0}, NEW n \in Nat
  PROVE  /\ Power(b, 0) = 1 /\ Power(b, n) \in Nat \ {0} /\ Power(b, n + 1) \in Nat \ {0}
         /\ Power(b, n + 1) = b * Power(b, n)
<1> DEFINE Positive == Nat \ {0}
           G == [x \in Nat \X Positive |-> b * x[2]]
<1>1. 1 \in Positive /\ n + 1 \in Nat
  OBVIOUS
<1>2. G \in [Nat \X Positive -> Positive]
  <2>1. ASSUME NEW x \in Nat \X Positive PROVE b * x[2] \in Positive
    <3>1. PICK c \in Nat : c = x[2] /\ c > 0
      OBVIOUS
    <3>2. b * c > 0 /\ b * c \in Nat
      <4>1. b * c >= b * 1 /\ b * c \in Int
        BY <3>1
      <4> QED
        BY <4>1
    <3> QED
      BY <3>1, <3>2
  <2> QED
    BY <2>1
<1>3. PICK f \in [0 .. n + 1 -> Positive] : f[0] = 1 /\ \A k \in 1 .. n + 1 : f[k] = G[<<k, f[k - 1]>>]
  <2> HIDE DEF G, Positive
  <2>1. Solvable(Positive, 1, n + 1, G)
    BY <1>1, <1>2, Solution
  <2> QED
    BY <2>1 DEF Solvable
<1>4. ASSUME NEW k \in 1 .. n + 1 PROVE f[k] = b * f[k - 1]
  <2>1. f[k - 1] \in Positive /\ k \in Nat
    OBVIOUS
  <2>2. <<k, f[k - 1]>> \in Nat \X Positive
    BY <2>1
  <2>3. G[<<k, f[k - 1]>>] = b * f[k - 1]
    BY <2>2
  <2> HIDE DEF G
  <2> QED
    BY <1>3, <2>3
<1>5. Power(b, n + 1) = f[n + 1]
  <2>1. f \in [0 .. n + 1 -> Nat]
    OBVIOUS
  <2> QED
    BY <1>1, <1>3, <1>4, <2>1, PowerOf
<1> DEFINE g == [k \in 0 .. n |-> f[k]]
<1>6. g \in [0 .. n -> Nat] /\ g[0] = 1 /\ g[n] = f[n] /\ \A k \in 1 .. n : g[k] = b * g[k - 1]
  <2>1. ASSUME NEW k \in 1 .. n PROVE g[k] = b * g[k - 1]
    <3>1. k \in 1 .. n + 1 /\ k \in 0 .. n /\ k - 1 \in 0 .. n
      OBVIOUS
    <3> QED
      BY <1>4, <3>1
  <2>2. g \in [0 .. n -> Nat] /\ g[0] = 1 /\ g[n] = f[n]
    BY <1>3
  <2> HIDE DEF g
  <2> QED
    BY <2>1, <2>2
<1>7. Power(b, n) = f[n]
  <2> HIDE DEF g
  <2>1. Power(b, n) = g[n]
    BY <1>6, PowerOf
  <2> QED
    BY <1>6, <2>1
<1>8. Power(b, 0) = 1
  <2>1. [k \in 0 .. 0 |-> 1] \in [0 .. 0 -> Nat] /\ [k \in 0 .. 0 |-> 1][0] = 1
    OBVIOUS
  <2> DEFINE one == [k \in 0 .. 0 |-> 1]
  <2> HIDE DEF one
  <2>2. \A k \in 1 .. 0 : one[k] = b * one[k - 1]
    <3> SUFFICES ASSUME NEW k \in 1 .. 0 PROVE FALSE
      OBVIOUS
    <3>1. k \in Int /\ 1 <= k /\ k <= 0
      OBVIOUS
    <3> QED
      BY <3>1
  <2>3. Power(b, 0) = one[0]
    BY <2>1, <2>2, PowerOf DEF one
  <2> QED
    BY <2>1, <2>3 DEF one
<1>9. f[n] \in Positive /\ f[n + 1] \in Positive /\ f[n + 1] = b * f[n]
  <2>1. n + 1 \in 1 .. n + 1 /\ (n + 1) - 1 = n
    OBVIOUS
  <2>2. f[n + 1] = b * f[(n + 1) - 1]
    BY <1>4, <2>1
  <2> QED
    BY <2>1, <2>2
<1> QED
  BY <1>5, <1>7, <1>8, <1>9

LEMMA PowersGrow ==
  ASSUME NEW b \in Nat \ {0, 1}, NEW n \in Nat
  PROVE  Power(2, n) <= Power(b, n)
<1> DEFINE Less == {m \in Nat : Power(2, m) <= Power(b, m)}
<1>1. 0 \in Less
  BY PowerStep
<1>2. ASSUME NEW m \in Less PROVE m + 1 \in Less
  <2>1. PICK p \in Nat, q \in Nat : p = Power(2, m) /\ q = Power(b, m) /\ p <= q
    BY PowerStep
  <2>2. Power(2, m + 1) = 2 * p /\ Power(b, m + 1) = b * q
    BY <2>1, PowerStep
  <2>3. 2 * p <= b * q
    <3>1. 2 * q <= b * q
      OBVIOUS
    <3> QED
      BY <2>1, <3>1
  <2> QED
    BY <2>2, <2>3
<1>3. Less = Nat
  <2> HIDE DEF Less
  <2>1. Less \in SUBSET Nat
    BY DEF Less
  <2> QED
    BY <1>1, <1>2, <2>1, Induct
<1>4. n \in Less
  BY <1>3
<1> QED
  BY <1>4

\* One more digit: what is left of the next power is a multiple and a digit.
LEMMA DivStep ==
  ASSUME NEW x \in Nat, NEW P \in Nat \ {0}, NEW b \in Nat \ {0}
  PROVE  x \div P = b * (x \div (b * P)) + ((x \div P) % b)
<1>1. b * P \in Nat \ {0}
  <2>1. b * P > 0 /\ b * P \in Nat
    OBVIOUS
  <2> QED
    BY <2>1
<1>2. PICK q \in Int, r \in 0 .. P - 1 : q = x \div P /\ x = P * q + r
  BY Euclid
<1>3. PICK c \in Int, d \in 0 .. b - 1 : c = q \div b /\ d = q % b /\ q = b * c + d
  BY Euclid
<1>4. x = (b * P) * c + (P * d + r)
  <2>1. P * q = P * (b * c) + P * d
    BY <1>3
  <2>2. P * (b * c) = (b * P) * c
    OBVIOUS
  <2>3. x = ((b * P) * c + P * d) + r
    BY <1>2, <2>1, <2>2
  <2>4. (b * P) * c \in Int /\ P * d \in Int
    OBVIOUS
  <2> QED
    BY <2>3, <2>4
<1>5. P * d + r \in 0 .. (b * P) - 1
  <2>1. P * d <= P * (b - 1) /\ P * d >= 0
    OBVIOUS
  <2>2. P * (b - 1) = b * P - P
    OBVIOUS
  <2>3. P * d \in Int /\ b * P \in Int
    OBVIOUS
  <2> QED
    BY <2>1, <2>2, <2>3
<1>6. PICK S \in Nat \ {0} : S = b * P
  BY <1>1
<1>7. PICK e \in 0 .. S - 1 : e = P * d + r
  BY <1>5, <1>6
<1>8. x = S * c + e
  BY <1>4, <1>6, <1>7
<1>9. x \div S = c
  BY <1>8, Rest
<1> QED
  BY <1>2, <1>3, <1>6, <1>9

LEMMA RadixStep ==
  ASSUME NEW b \in {10, 16}, NEW n \in Nat
  PROVE  /\ Power(b, 0) = 1 /\ Power(b, n) \in Nat \ {0} /\ Power(b, n + 1) \in Nat \ {0}
         /\ Power(b, n + 1) = b * Power(b, n)
<1>1. b \in Nat \ {0}
  OBVIOUS
<1> QED
  BY <1>1, PowerStep

-----------------------------------------------------------------------------
(* Integers of Bits bits.                                                   *)
LEMMA SizeIsEven == \E h \in Nat \ {0} : Size = 2 * h /\ Size \div 2 = h
<1>1. Bits - 1 \in Nat /\ (Bits - 1) + 1 = Bits
  BY WidthAssumption
<1>2. PICK h \in Nat \ {0} : h = Power(2, Bits - 1)
  BY <1>1, PowerStep
<1>3. Size = 2 * h
  <2>1. Power(2, (Bits - 1) + 1) = 2 * h
    BY <1>1, <1>2, PowerStep
  <2> QED
    BY <1>1, <2>1 DEF Size
<1>4. (2 * h) \div 2 = h
  BY Rest
<1> QED
  BY <1>3, <1>4

Wrap(k, x) == IF k = "int" THEN Signed(x) ELSE Unsigned(x)
Same(y, w) == \E m \in Int : y = w + Size * m

LEMMA Wraps ==
  ASSUME NEW k \in {"int", "uint"}, NEW y \in Int
  PROVE  Wrap(k, y) \in Values(k) /\ Wrap(k, y) \in Int /\ Same(y, Wrap(k, y))
<1>1. PICK h \in Nat \ {0} : Size = 2 * h /\ Size \div 2 = h
  BY SizeIsEven
<1>2. PICK S \in Nat \ {0} : S = Size /\ S = 2 * h
  BY <1>1
<1>3. CASE k = "int"
  <2>0. PICK z \in Int : z = y + h
    OBVIOUS
  <2>1. PICK q \in Int, r \in 0 .. S - 1 : r = z % S /\ z = S * q + r
    BY Euclid
  <2>2. Wrap(k, y) = r - h
    BY <1>1, <1>2, <1>3, <2>0, <2>1 DEF Wrap, Signed
  <2>3. r - h \in -h .. h - 1 /\ y = (r - h) + S * q
    BY <1>2, <2>0, <2>1
  <2>4. Same(y, r - h)
    BY <1>2, <2>3 DEF Same
  <2>5. r - h \in Values(k) /\ r - h \in Int
    BY <1>1, <1>3, <2>3 DEF Values
  <2> QED
    BY <2>2, <2>4, <2>5
<1>4. CASE k = "uint"
  <2>1. PICK q \in Int, r \in 0 .. S - 1 : r = y % S /\ y = S * q + r
    BY Euclid
  <2>2. Wrap(k, y) = r
    BY <1>2, <1>4, <2>1 DEF Wrap, Unsigned
  <2>3. y = r + S * q
    BY <2>1
  <2>4. Same(y, r)
    BY <1>2, <2>3 DEF Same
  <2>5. r \in Values(k) /\ r \in Int
    BY <1>2, <1>4 DEF Values
  <2> QED
    BY <2>2, <2>4, <2>5
<1> QED
  BY <1>3, <1>4

LEMMA WrapsTo ==
  ASSUME NEW k \in {"int", "uint"}, NEW y \in Int, NEW w \in Values(k), Same(y, w)
  PROVE  Wrap(k, y) = w
<1>1. PICK h \in Nat \ {0} : Size = 2 * h /\ Size \div 2 = h
  BY SizeIsEven
<1>2. PICK S \in Nat \ {0} : S = Size /\ S = 2 * h
  BY <1>1
<1>3. PICK m \in Int : y = w + S * m
  BY <1>2 DEF Same
<1>4. CASE k = "int"
  <2>1. w \in -h .. h - 1
    BY <1>1, <1>4 DEF Values
  <2>2. y + h = S * m + (w + h) /\ w + h \in 0 .. S - 1
    BY <1>2, <1>3, <2>1
  <2>3. (y + h) % S = w + h
    <3>1. PICK r \in 0 .. S - 1 : r = w + h
      BY <2>2
    <3>2. PICK z \in Int : z = y + h
      OBVIOUS
    <3>3. z = S * m + r
      BY <2>2, <3>1, <3>2
    <3>4. z % S = r
      BY <3>3, Rest
    <3> QED
      BY <3>1, <3>2, <3>4
  <2> QED
    BY <1>1, <1>2, <1>4, <2>1, <2>3 DEF Wrap, Signed
<1>5. CASE k = "uint"
  <2>1. w \in 0 .. S - 1
    BY <1>2, <1>5 DEF Values
  <2>2. y = S * m + w
    BY <1>3, <2>1
  <2>3. y % S = w
    BY <2>1, <2>2, Rest
  <2> QED
    BY <1>2, <1>5, <2>3 DEF Wrap, Unsigned
<1> QED
  BY <1>4, <1>5

\* Wrapping around on the way makes no difference in the end.
LEMMA WrapsLate ==
  ASSUME NEW k \in {"int", "uint"}, NEW y \in Int, NEW b \in Int, NEW d \in Int
  PROVE  Wrap(k, Wrap(k, y) * b + d) = Wrap(k, y * b + d)
<1>1. PICK S \in Int : S = Size
  BY SizeIsEven
<1>2. PICK v \in Int : v = Wrap(k, y)
  BY Wraps
<1>3. PICK m \in Int : y = v + S * m
  BY <1>1, <1>2, Wraps DEF Same
<1>4. PICK z \in Int : z = v * b + d
  OBVIOUS
<1>5. y * b + d = z + S * (m * b)
  <2>1. y * b = v * b + (S * m) * b
    BY <1>3
  <2>2. (S * m) * b = S * (m * b)
    OBVIOUS
  <2> QED
    BY <1>4, <2>1, <2>2
<1>6. PICK w \in Int : w = Wrap(k, z) /\ w \in Values(k)
  BY Wraps
<1>7. PICK n \in Int : z = w + S * n
  BY <1>1, <1>6, Wraps DEF Same
<1>8. y * b + d = w + S * (n + m * b)
  BY <1>5, <1>7
<1>9. Wrap(k, y * b + d) = w
  <2>1. PICK u \in Int, t \in Int : u = y * b + d /\ t = n + m * b
    OBVIOUS
  <2>2. Same(u, w)
    BY <1>1, <1>8, <2>1 DEF Same
  <2> QED
    BY <1>6, <2>1, <2>2, WrapsTo
<1> QED
  BY <1>2, <1>4, <1>6, <1>9

-----------------------------------------------------------------------------
(* Digits and characters.                                                   *)
IsDigits(num, x, b) ==
  /\ Len(num) \in Nat \ {0} /\ num \in [1 .. Len(num) -> 0 .. b - 1]
  /\ x < Power(b, Len(num))
  /\ \A i \in 1 .. Len(num) : num[i] = (x \div Power(b, Len(num) - i)) % b

LEMMA DigitsOf ==
  ASSUME NEW b \in {10, 16}, NEW x \in 0 .. Size - 1
  PROVE  IsDigits(Digits(x, b), x, b)
<1>1. Size \in Nat /\ x \in Nat /\ Bits \in Nat \ {0}
  BY SizeIsEven, WidthAssumption
<1> DEFINE Enough == {n \in 1 .. Bits : x < Power(b, n)}
<1>2. Bits \in Enough
  <2>1. Power(2, Bits) <= Power(b, Bits)
    BY <1>1, PowersGrow
  <2>2. Power(b, Bits) \in Nat
    BY <1>1, RadixStep
  <2> QED
    BY <1>1, <2>1, <2>2 DEF Size
<1>3. Enough \in SUBSET Nat
  OBVIOUS
<1>4. Min(Enough) \in Enough /\ \A n \in Enough : Min(Enough) <= n
  <2> HIDE DEF Enough
  <2> QED
    BY <1>2, <1>3, LeastOf
<1> DEFINE Fits(n) == x < Power(b, n) /\ \A k \in 1 .. n - 1 : x >= Power(b, k)
           n == CHOOSE n \in 1 .. Bits : Fits(n)
<1>5. \E m \in 1 .. Bits : Fits(m)
  <2>1. PICK m \in 1 .. Bits : m = Min(Enough)
    BY <1>4
  <2>2. x < Power(b, m)
    BY <1>4, <2>1
  <2>3. ASSUME NEW k \in 1 .. m - 1 PROVE x >= Power(b, k)
    <3>1. k \notin Enough /\ k \in 1 .. Bits /\ Power(b, k) \in Nat
      <4>1. k \in 1 .. Bits /\ k < m /\ k \in Nat
        BY <1>1
      <4>2. Power(b, k) \in Nat
        BY <4>1, RadixStep
      <4> HIDE DEF Enough
      <4> QED
        BY <1>4, <2>1, <4>1, <4>2
    <3> QED
      BY <1>1, <3>1
  <2> QED
    BY <2>2, <2>3
<1>6. n \in 1 .. Bits /\ Fits(n)
  <2> HIDE DEF Fits
  <2> QED
    BY <1>5
<1>7. Digits(x, b) = [i \in 1 .. n |-> (x \div Power(b, n - i)) % b]
  BY DEF Digits
<1> HIDE DEF n
<1>8. PICK m \in Nat \ {0} : m = n /\ x < Power(b, m)
  BY <1>1, <1>6
<1>9. ASSUME NEW i \in 1 .. m PROVE (x \div Power(b, m - i)) % b \in 0 .. b - 1
  <2>1. PICK P \in Nat \ {0} : P = Power(b, m - i)
    <3>1. m - i \in Nat
      OBVIOUS
    <3> QED
      BY <3>1, RadixStep
  <2>2. PICK q \in Int : q = x \div P
    BY <1>1, Euclid
  <2>3. b \in Nat \ {0}
    OBVIOUS
  <2>4. q % b \in 0 .. b - 1
    BY <2>3, Euclid
  <2> QED
    BY <2>1, <2>2, <2>4
<1> DEFINE num == [i \in 1 .. m |-> (x \div Power(b, m - i)) % b]
<1>10. num \in [1 .. m -> 0 .. b - 1]
  BY <1>9
<1>11. \A i \in 1 .. m : num[i] = (x \div Power(b, m - i)) % b
  OBVIOUS
<1> HIDE DEF num
<1>12. Len(num) = m
  BY <1>10
<1>13. Digits(x, b) = num
  BY <1>7, <1>8 DEF num
<1> QED
  BY <1>8, <1>10, <1>11, <1>12, <1>13 DEF IsDigits

\* The number that the first j digits stand for.
Lead(x, b, n, j) == IF j < 0 THEN 0 ELSE x \div Power(b, n - j)

LEMMA LeadStep ==
  ASSUME NEW b \in {10, 16}, NEW x \in Nat, NEW n \in Nat \ {0}, x < Power(b, n)
  PROVE  /\ Lead(x, b, n, 0) = 0 /\ Lead(x, b, n, n) = x
         /\ \A j \in 0 .. n - 1 :
              /\ Lead(x, b, n, j) \in Int
              /\ Lead(x, b, n, j + 1) = Lead(x, b, n, j) * b + ((x \div Power(b, n - (j + 1))) % b)
<1>1. Lead(x, b, n, 0) = 0
  <2>1. PICK P \in Nat \ {0} : P = Power(b, n)
    BY RadixStep
  <2>2. x = P * 0 + x /\ x \in 0 .. P - 1
    BY <2>1
  <2>3. x \div P = 0
    BY <2>2, Rest
  <2> QED
    BY <2>1, <2>3 DEF Lead
<1>2. Lead(x, b, n, n) = x
  <2>1. Power(b, n - n) = 1
    BY RadixStep
  <2>2. x \div 1 = x
    BY Rest
  <2> QED
    BY <2>1, <2>2 DEF Lead
<1>3. ASSUME NEW j \in 0 .. n - 1
      PROVE  /\ Lead(x, b, n, j) \in Int
             /\ Lead(x, b, n, j + 1) = Lead(x, b, n, j) * b + ((x \div Power(b, n - (j + 1))) % b)
  <2>1. PICK i \in Nat : i = n - (j + 1) /\ n - j = i + 1
    <3>1. n - (j + 1) \in Nat
      OBVIOUS
    <3> QED
      BY <3>1
  <2>2. PICK P \in Nat \ {0} : P = Power(b, i) /\ Power(b, i + 1) = b * P
    BY RadixStep
  <2>3. x \div P = b * (x \div (b * P)) + ((x \div P) % b)
    <3>1. b \in Nat \ {0}
      OBVIOUS
    <3> QED
      BY <3>1, DivStep
  <2>4. Lead(x, b, n, j) = x \div (b * P) /\ Lead(x, b, n, j + 1) = x \div P
    BY <2>1, <2>2 DEF Lead
  <2>5. x \div (b * P) \in Int
    <3>1. PICK Q \in Nat \ {0} : Q = b * P
      BY <2>2, RadixStep
    <3> QED
      BY <3>1, Euclid
  <2>6. b * (x \div (b * P)) = (x \div (b * P)) * b
    BY <2>5
  <2> QED
    BY <2>1, <2>2, <2>3, <2>4, <2>5, <2>6
<1> QED
  BY <1>1, <1>2, <1>3

LEMMA DigitsDiffer ==
  /\ \A i, j \in 1 .. 16 : SmallDigits[i] = SmallDigits[j] => i = j
  /\ \A i, j \in 1 .. 16 : LargeDigits[i] = LargeDigits[j] => i = j
  /\ \A i, j \in 1 .. 16 : LargeDigits[i] = SmallDigits[j] => i = j
  /\ \A i \in 1 .. 16 : /\ SmallDigits[i] \notin {" ", "+", "-", "NUL"}
                       /\ LargeDigits[i] \notin {" ", "+", "-", "NUL"}
<1>1. \A i, j \in 1 .. 16 : SmallDigits[i] = SmallDigits[j] => i = j
  BY DEF SmallDigits
<1>2. \A i, j \in 1 .. 16 : LargeDigits[i] = LargeDigits[j] => i = j
  BY DEF LargeDigits
<1>3. \A i, j \in 1 .. 16 : LargeDigits[i] = SmallDigits[j] => i = j
  BY DEF SmallDigits, LargeDigits
<1>4. \A i \in 1 .. 16 : SmallDigits[i] \notin {" ", "+", "-", "NUL"}
  <2>1. \A i \in 1 .. 16 : SmallDigits[i] \in
           {"0", "1", "2", "3", "4", "5", "6", "7", "8", "9", "a", "b", "c", "d", "e", "f"}
    BY DEF SmallDigits
  <2>2. \A c \in {"0", "1", "2", "3", "4", "5", "6", "7", "8", "9", "a", "b", "c", "d", "e", "f"} :
           c # " " /\ c # "+" /\ c # "-" /\ c # "NUL"
    OBVIOUS
  <2> QED
    BY <2>1, <2>2
<1>5. \A i \in 1 .. 16 : LargeDigits[i] \notin {" ", "+", "-", "NUL"}
  <2>1. \A i \in 1 .. 16 : LargeDigits[i] \in
           {"0", "1", "2", "3", "4", "5", "6", "7", "8", "9", "A", "B", "C", "D", "E", "F"}
    BY DEF LargeDigits
  <2>2. \A c \in {"0", "1", "2", "3", "4", "5", "6", "7", "8", "9", "A", "B", "C", "D", "E", "F"} :
           c # " " /\ c # "+" /\ c # "-" /\ c # "NUL"
    OBVIOUS
  <2> QED
    BY <2>1, <2>2
<1> QED
  BY <1>1, <1>2, <1>3, <1>4, <1>5

\* A character that stands for the digit d.
Stands(c, d) == c = SmallDigits[d + 1] \/ c = LargeDigits[d + 1]

LEMMA DigitRead ==
  ASSUME NEW d \in 0 .. 15, NEW c, Stands(c, d)
  PROVE  DigitValue(c) = d
<1>1. PICK e \in 1 .. 16 : e = d + 1
  OBVIOUS
<1> DEFINE small == CHOOSE i \in 1 .. 16 : SmallDigits[i] = c
           large == CHOOSE i \in 1 .. 16 : LargeDigits[i] = c
           IsSmall == \E i \in 1 .. 16 : SmallDigits[i] = c
<1>2. DigitValue(c) = IF IsSmall THEN small - 1 ELSE large - 1
  BY DEF DigitValue
<1>3. CASE IsSmall
  <2>1. c = SmallDigits[e]
    BY <1>1, <1>3, DigitsDiffer DEF Stands
  <2>2. small = e
    BY <2>1, DigitsDiffer
  <2> HIDE DEF small, large, IsSmall
  <2> QED
    BY <1>1, <1>2, <1>3, <2>2
<1>4. CASE ~IsSmall
  <2>1. c = LargeDigits[e]
    BY <1>1, <1>4 DEF Stands
  <2>2. large = e
    BY <2>1, DigitsDiffer
  <2> HIDE DEF small, large, IsSmall
  <2> QED
    BY <1>1, <1>2, <1>4, <2>2
<1> QED
  BY <1>3, <1>4

-----------------------------------------------------------------------------
(* The text of a number.                                                    *)
Options == SUBSET {"l", "0", "+", " ", "h", "H"}
Radix(o) == IF IsHex(o) THEN 16 ELSE 10
Magnitude(v, o) == IF IsHex(o) THEN Unsigned(v) ELSE IF v < 0 THEN -v ELSE v
Letters ==
  {SmallDigits[i] : i \in 1 .. 16} \cup {LargeDigits[i] : i \in 1 .. 16} \cup {" ", "+", "-"}

\* The characters that are no digits, as symbols for the provers.
Space == " "
Minus == "-"
Plus == "+"
Zero == "0"
Nul == "NUL"

(* A text t: m characters of a sign, z zeros, the digits num and spaces.     *)
Shape(t, m, z, num, minus) ==
  /\ m \in {0, 1} /\ z \in Nat /\ Len(num) \in Nat \ {0} /\ t \in Seq(Letters)
  /\ m + z + Len(num) <= Len(t)
  /\ m = 1 => t[1] \in {Minus, Plus}
  /\ minus = (m = 1 /\ t[1] = Minus)
  /\ \A i \in 1 .. z : t[m + i] = Zero
  /\ \A i \in 1 .. Len(num) : Stands(t[m + z + i], num[i])
  /\ \A i \in m + z + Len(num) + 1 .. Len(t) : t[i] = Space

LEMMA MarksDiffer ==
  /\ Space # Minus /\ Space # Plus /\ Minus # Plus
  /\ {Space, Minus, Plus, Zero} \subseteq Letters /\ Zero = SmallDigits[1]
  /\ \A i \in 1 .. 16 : /\ SmallDigits[i] \notin {Space, Minus, Plus, Nul}
                       /\ LargeDigits[i] \notin {Space, Minus, Plus, Nul}
<1>1. Space # Minus /\ Space # Plus /\ Minus # Plus
  BY DEF Space, Minus, Plus
<1>2. Zero = SmallDigits[1]
  BY DEF Zero, SmallDigits
<1>3. {Space, Minus, Plus, Zero} \subseteq Letters
  BY <1>2 DEF Letters, Space, Minus, Plus
<1>4. \A i \in 1 .. 16 : /\ SmallDigits[i] \notin {Space, Minus, Plus, Nul}
                          /\ LargeDigits[i] \notin {Space, Minus, Plus, Nul}
  BY DigitsDiffer DEF Space, Minus, Plus, Nul
<1> QED
  BY <1>1, <1>2, <1>3, <1>4

LEMMA ValuesTyped ==
  ASSUME NEW k \in {"int", "uint"}, NEW v \in Values(k), NEW o \in Options
  PROVE  /\ v \in Int /\ Magnitude(v, o) \in 0 .. Size - 1 /\ Radix(o) \in {10, 16}
         /\ IsHex(o) => Same(Magnitude(v, o), v)
         /\ (~IsHex(o) /\ v < 0) => k = "int" /\ Magnitude(v, o) = -v
         /\ (~IsHex(o) /\ ~(v < 0)) => Magnitude(v, o) = v
<1>1. PICK h \in Nat \ {0} : Size = 2 * h /\ Size \div 2 = h
  BY SizeIsEven
<1>2. PICK S \in Nat \ {0} : S = Size /\ S = 2 * h
  BY <1>1
<1>3. v \in Int /\ (k = "int" => v \in -h .. h - 1) /\ (k = "uint" => v \in 0 .. S - 1)
  BY <1>1, <1>2 DEF Values
<1>4. CASE IsHex(o)
  <2>1. PICK q \in Int, r \in 0 .. S - 1 : r = v % S /\ v = S * q + r
    BY <1>3, Euclid
  <2>2. Magnitude(v, o) = r
    BY <1>2, <1>4, <2>1 DEF Magnitude, Unsigned
  <2>3. r = v + S * (-q)
    <3>1. S * (-q) = -(S * q)
      OBVIOUS
    <3>2. PICK w \in Int : w = S * q
      OBVIOUS
    <3> QED
      BY <1>3, <2>1, <3>1, <3>2
  <2>4. Same(r, v)
    <3>1. PICK n \in Int : n = -q
      OBVIOUS
    <3>2. r = v + S * n
      BY <2>3, <3>1
    <3> QED
      BY <1>2, <3>2 DEF Same
  <2> QED
    BY <1>2, <1>3, <1>4, <2>2, <2>4 DEF Radix
<1>5. CASE ~IsHex(o)
  BY <1>2, <1>3, <1>5 DEF Radix, Magnitude
<1> QED
  BY <1>4, <1>5

\* The text of three pieces.
Pieced(t, a, b, c, l, m, n) ==
  /\ t \in Seq(Letters) /\ Len(t) = l + m + n
  /\ \A i \in 1 .. l : t[i] = a[i]
  /\ \A i \in 1 .. m : t[l + i] = b[i]
  /\ \A i \in 1 .. n : t[l + m + i] = c[i]

LEMMA TwoPieces ==
  ASSUME NEW a \in Seq(Letters), NEW b \in Seq(Letters)
  PROVE  /\ a \o b \in Seq(Letters)
         /\ Len(a \o b) = Len(a) + Len(b)
         /\ \A i \in 1 .. Len(a) + Len(b) : (a \o b)[i] = IF i <= Len(a) THEN a[i] ELSE b[i - Len(a)]
BY ConcatProperties

LEMMA Pieces ==
  ASSUME NEW a \in Seq(Letters), NEW b \in Seq(Letters), NEW c \in Seq(Letters),
         NEW l \in Nat, NEW m \in Nat, NEW n \in Nat, Len(a) = l, Len(b) = m, Len(c) = n
  PROVE  Pieced(a \o b \o c, a, b, c, l, m, n)
<1> DEFINE u == a \o b
           t == a \o b \o c
<1>2. /\ u \in Seq(Letters) /\ Len(u) = l + m
      /\ \A i \in 1 .. l + m : u[i] = IF i <= l THEN a[i] ELSE b[i - l]
  <2>1. /\ a \o b \in Seq(Letters)
        /\ Len(a \o b) = Len(a) + Len(b)
        /\ \A i \in 1 .. Len(a) + Len(b) : (a \o b)[i] = IF i <= Len(a) THEN a[i] ELSE b[i - Len(a)]
    BY TwoPieces
  <2> QED
    BY <2>1
<1>0. t = u \o c
  OBVIOUS
<1> HIDE DEF u, t
<1>3. /\ t \in Seq(Letters) /\ Len(t) = (l + m) + n
      /\ \A i \in 1 .. (l + m) + n : t[i] = IF i <= l + m THEN u[i] ELSE c[i - (l + m)]
  <2>1. /\ u \o c \in Seq(Letters)
        /\ Len(u \o c) = Len(u) + Len(c)
        /\ \A i \in 1 .. Len(u) + Len(c) : (u \o c)[i] = IF i <= Len(u) THEN u[i] ELSE c[i - Len(u)]
    BY <1>2, TwoPieces
  <2> QED
    BY <1>0, <1>2, <2>1
<1>4. ASSUME NEW i \in 1 .. l PROVE t[i] = a[i]
  BY <1>2, <1>3
<1>5. ASSUME NEW i \in 1 .. m PROVE t[l + i] = b[i]
  <2>1. l + i \in 1 .. (l + m) + n /\ l + i \in 1 .. l + m /\ l + i <= l + m /\ ~(l + i <= l) /\ (l + i) - l = i
    OBVIOUS
  <2> QED
    BY <1>2, <1>3, <2>1
<1>6. ASSUME NEW i \in 1 .. n PROVE t[(l + m) + i] = c[i]
  <2>1. (l + m) + i \in 1 .. (l + m) + n /\ ~((l + m) + i <= l + m) /\ ((l + m) + i) - (l + m) = i
    OBVIOUS
  <2> QED
    BY <1>3, <2>1
<1>7. Pieced(t, a, b, c, l, m, n)
  BY <1>3, <1>4, <1>5, <1>6 DEF Pieced
<1> QED
  BY <1>7 DEF t

LEMMA FillOf ==
  ASSUME NEW c \in Letters, NEW n \in Nat
  PROVE  /\ [i \in 1 .. n |-> c] \in Seq(Letters) /\ Len([i \in 1 .. n |-> c]) = n
         /\ \A j \in 1 .. n : [i \in 1 .. n |-> c][j] = c
OBVIOUS

(* What is put before the digits.                                            *)
LEMMA PrefixOf ==
  ASSUME NEW k \in {"int", "uint"}, NEW v \in Values(k), NEW o \in Options
  PROVE  /\ Prefix(k, v, o) \in Seq(Letters) /\ Len(Prefix(k, v, o)) \in {0, 1}
         /\ Len(Prefix(k, v, o)) = 1 => k = "int" /\ Prefix(k, v, o)[1] \in {Minus, Plus, Space}
         /\ (~IsHex(o) /\ v < 0) = (Len(Prefix(k, v, o)) = 1 /\ Prefix(k, v, o)[1] = Minus)
<1> DEFINE hex == IsHex(o)
<1>1. v \in Int /\ (~hex /\ v < 0 => k = "int")
  BY ValuesTyped
<1>2. \A c \in {Minus, Plus, Space} : /\ <<c>> \in Seq(Letters) /\ Len(<<c>>) = 1 /\ <<c>>[1] = c
  BY MarksDiffer
<1>3. <<>> \in Seq(Letters) /\ Len(<<>>) = 0
  OBVIOUS
<1>4. Prefix(k, v, o) =
        IF hex \/ k = "uint" THEN <<>>
        ELSE IF v < 0 THEN <<Minus>> ELSE IF "+" \in o THEN <<Plus>> ELSE IF " " \in o THEN <<Space>> ELSE <<>>
  BY DEF Prefix, Minus, Plus, Space
<1> HIDE DEF hex
<1>5. CASE hex \/ k = "uint"
  <2>1. Prefix(k, v, o) = <<>> /\ ~(~hex /\ v < 0)
    BY <1>1, <1>4, <1>5
  <2> QED
    BY <1>3, <2>1 DEF hex
<1>6. CASE ~hex /\ k = "int" /\ v < 0
  <2>1. Prefix(k, v, o) = <<Minus>>
    BY <1>4, <1>6
  <2> QED
    BY <1>2, <1>6, <2>1 DEF hex
<1>7. CASE ~hex /\ k = "int" /\ ~(v < 0)
  <2>1. Prefix(k, v, o) \in {<<Plus>>, <<Space>>, <<>>}
    BY <1>4, <1>7
  <2>2. ~(~hex /\ v < 0)
    BY <1>7
  <2>3. CASE Prefix(k, v, o) = <<>>
    BY <1>3, <2>2, <2>3 DEF hex
  <2>4. CASE Prefix(k, v, o) = <<Plus>>
    BY <1>2, <1>7, <2>2, <2>4, MarksDiffer DEF hex
  <2>5. CASE Prefix(k, v, o) = <<Space>>
    BY <1>2, <1>7, <2>2, <2>5, MarksDiffer DEF hex
  <2> QED
    BY <2>1, <2>3, <2>4, <2>5
<1> QED
  BY <1>5, <1>6, <1>7

\* The text that Format makes of a number, one that does not start with a space.
LEMMA FormatShape ==
  ASSUME NEW k \in {"int", "uint"}, NEW v \in Values(k), NEW o \in Options, NEW width \in Nat,
         NEW t, t = Format(k, v, o, width), t[1] # Space
  PROVE  \E m \in {0, 1}, z \in Nat :
           /\ Shape(t, m, z, Number(k, v, o), ~IsHex(o) /\ v < 0)
           /\ m = 1 => k = "int"
<1> DEFINE num == Number(k, v, o)
           pre == Prefix(k, v, o)
           b == Radix(o)
<1>1. num = Digits(Magnitude(v, o), b)
  BY DEF Number, Magnitude, Radix
<1>2. IsDigits(num, Magnitude(v, o), b) /\ b \in {10, 16}
  <2>1. Magnitude(v, o) \in 0 .. Size - 1 /\ b \in {10, 16}
    BY ValuesTyped
  <2> HIDE DEF num, b
  <2> QED
    BY <1>1, <2>1, DigitsOf
<1> HIDE DEF num, b
<1>3. PICK n \in Nat \ {0} : n = Len(num)
  BY <1>2 DEF IsDigits
<1>4. \A i \in 1 .. n : num[i] \in 0 .. 15
  <2>1. num \in [1 .. n -> 0 .. b - 1]
    BY <1>2, <1>3 DEF IsDigits
  <2>2. \A i \in 1 .. n : num[i] \in 0 .. b - 1
    BY <2>1
  <2>3. 0 .. b - 1 \subseteq 0 .. 15
    BY <1>2
  <2> QED
    BY <2>2, <2>3
<1>5. DOMAIN num = 1 .. n
  BY <1>2, <1>3 DEF IsDigits
<1> DEFINE chars == [i \in 1 .. n |-> (IF "h" \in o THEN SmallDigits ELSE LargeDigits)[num[i] + 1]]
<1>6. ASSUME NEW i \in 1 .. n PROVE chars[i] \in Letters /\ Stands(chars[i], num[i])
  <2>0. num[i] \in 0 .. 15
    BY <1>4
  <2>1. PICK e \in 1 .. 16 : e = num[i] + 1
    BY <2>0
  <2>2. chars[i] = IF "h" \in o THEN SmallDigits[e] ELSE LargeDigits[e]
    BY <2>1
  <2> HIDE DEF chars
  <2> QED
    BY <2>1, <2>2 DEF Stands, Letters
<1>7. chars \in Seq(Letters) /\ Len(chars) = n
  <2>1. chars \in [1 .. n -> Letters]
    <3>1. chars = [i \in 1 .. n |-> chars[i]]
      OBVIOUS
    <3> HIDE DEF chars
    <3> QED
      BY <1>6, <3>1
  <2> HIDE DEF chars
  <2> QED
    BY <2>1
<1>8. PICK minus \in BOOLEAN : minus = (~IsHex(o) /\ v < 0)
  OBVIOUS
<1>9. PICK l \in {0, 1} :
        /\ pre \in Seq(Letters) /\ Len(pre) = l
        /\ l = 1 => k = "int" /\ pre[1] \in {Minus, Plus, Space}
        /\ minus = (l = 1 /\ pre[1] = Minus)
  <2> HIDE DEF pre
  <2> QED
    BY <1>8, PrefixOf DEF pre
<1>10. PICK f \in Nat : f = IF width > l + n THEN width - (l + n) ELSE 0
  <2>1. (IF width > l + n THEN width - (l + n) ELSE 0) \in Nat
    OBVIOUS
  <2> QED
    BY <2>1
<1> DEFINE spaces == [i \in 1 .. f |-> Space]
           zeros == [i \in 1 .. f |-> Zero]
<1>11. t = IF "l" \in o THEN pre \o chars \o spaces
           ELSE IF "0" \in o THEN pre \o zeros \o chars
           ELSE spaces \o pre \o chars
  <2>2. [i \in DOMAIN Number(k, v, o) |->
           (IF "h" \in o THEN SmallDigits ELSE LargeDigits)[Number(k, v, o)[i] + 1]] = chars
    BY <1>5 DEF num
  <2> HIDE DEF chars
  <2>3. Len(Prefix(k, v, o)) + Len(chars) = l + n
    BY <1>7, <1>9
  <2>4. spaces = [i \in 1 .. f |-> " "] /\ zeros = [i \in 1 .. f |-> "0"]
    BY DEF Space, Zero
  <2> HIDE DEF pre, spaces, zeros
  <2> QED
    BY <1>10, <2>2, <2>3, <2>4 DEF Format, pre
<1>12. /\ spaces \in Seq(Letters) /\ Len(spaces) = f /\ \A i \in 1 .. f : spaces[i] = Space
       /\ zeros \in Seq(Letters) /\ Len(zeros) = f /\ \A i \in 1 .. f : zeros[i] = Zero
  BY MarksDiffer, FillOf
<1> HIDE DEF chars, pre, spaces, zeros
<1>13. PICK z \in {0, f} :
         /\ t \in Seq(Letters) /\ l + z + n <= Len(t)
         /\ l = 1 => t[1] = pre[1]
         /\ \A i \in 1 .. z : t[l + i] = Zero
         /\ \A i \in 1 .. n : t[l + z + i] = chars[i]
         /\ \A i \in l + z + n + 1 .. Len(t) : t[i] = Space
  <2>1. CASE "l" \in o
    <3>1. t = pre \o chars \o spaces
      BY <1>11, <2>1
    <3>2. /\ t \in Seq(Letters) /\ Len(t) = l + n + f
          /\ \A i \in 1 .. l : t[i] = pre[i]
          /\ \A i \in 1 .. n : t[l + i] = chars[i]
          /\ \A i \in 1 .. f : t[l + n + i] = spaces[i]
      <4>1. Pieced(pre \o chars \o spaces, pre, chars, spaces, l, n, f)
        BY <1>7, <1>9, <1>12, Pieces
      <4> QED
        BY <3>1, <4>1 DEF Pieced
    <3>3. ASSUME NEW i \in l + n + 1 .. l + n + f PROVE t[i] = Space
      <4>1. PICK j \in 1 .. f : i = l + n + j
        <5>1. i - (l + n) \in 1 .. f /\ i = l + n + (i - (l + n))
          OBVIOUS
        <5> QED
          BY <5>1
      <4> QED
        BY <1>12, <3>2, <4>1
    <3>4. l + 0 + n = l + n
      OBVIOUS
    <3>5. \A i \in 1 .. n : t[l + 0 + i] = chars[i]
      BY <3>2
    <3>6. \A i \in 1 .. 0 : t[l + i] = Zero
      OBVIOUS
    <3>7. \A i \in l + 0 + n + 1 .. Len(t) : t[i] = Space
      BY <3>2, <3>3, <3>4
    <3>8. l = 1 => t[1] = pre[1]
      BY <3>2
    <3>9. t \in Seq(Letters) /\ l + 0 + n <= Len(t)
      BY <3>2
    <3> QED
      BY <3>5, <3>6, <3>7, <3>8, <3>9
  <2>2. CASE "l" \notin o /\ "0" \in o
    <3>1. t = pre \o zeros \o chars
      BY <1>11, <2>2
    <3>2. /\ t \in Seq(Letters) /\ Len(t) = l + f + n
          /\ \A i \in 1 .. l : t[i] = pre[i]
          /\ \A i \in 1 .. f : t[l + i] = zeros[i]
          /\ \A i \in 1 .. n : t[l + f + i] = chars[i]
      <4>1. Pieced(pre \o zeros \o chars, pre, zeros, chars, l, f, n)
        BY <1>7, <1>9, <1>12, Pieces
      <4> QED
        BY <3>1, <4>1 DEF Pieced
    <3>3. \A i \in 1 .. f : t[l + i] = Zero
      BY <1>12, <3>2
    <3>4. Len(t) = l + f + n /\ l + f + n \in Nat /\ l + f + n + 1 .. l + f + n = {}
      BY <3>2
    <3>5. l = 1 => t[1] = pre[1]
      BY <3>2
    <3>6. \A i \in l + f + n + 1 .. Len(t) : t[i] = Space
      BY <3>4
    <3>7. t \in Seq(Letters) /\ l + f + n <= Len(t)
      BY <3>2, <3>4
    <3> QED
      BY <3>2, <3>3, <3>5, <3>6, <3>7
  <2>3. CASE "l" \notin o /\ "0" \notin o
    <3>1. t = spaces \o pre \o chars
      BY <1>11, <2>3
    <3>2. /\ t \in Seq(Letters) /\ Len(t) = f + l + n
          /\ \A i \in 1 .. f : t[i] = spaces[i]
          /\ \A i \in 1 .. l : t[f + i] = pre[i]
          /\ \A i \in 1 .. n : t[f + l + i] = chars[i]
      <4>1. Pieced(spaces \o pre \o chars, spaces, pre, chars, f, l, n)
        BY <1>7, <1>9, <1>12, Pieces
      <4> QED
        BY <3>1, <4>1 DEF Pieced
    <3>3. f = 0
      <4> SUFFICES ASSUME f # 0 PROVE FALSE
        OBVIOUS
      <4>1. 1 \in 1 .. f
        OBVIOUS
      <4> QED
        BY <1>12, <3>2, <4>1
    <3>4. /\ t \in Seq(Letters) /\ Len(t) = l + n
          /\ \A i \in 1 .. l : t[i] = pre[i]
          /\ \A i \in 1 .. n : t[l + i] = chars[i]
      BY <3>2, <3>3
    <3> QED
      BY <3>3, <3>4
  <2> QED
    BY <2>1, <2>2, <2>3
<1>14. l = 1 => t[1] \in {Minus, Plus}
  BY <1>9, <1>13
<1>15. minus = (l = 1 /\ t[1] = Minus)
  BY <1>9, <1>13
<1>16. \A i \in 1 .. n : Stands(t[l + z + i], num[i])
  BY <1>6, <1>13
<1>17. Shape(t, l, z, num, minus)
  BY <1>3, <1>13, <1>14, <1>15, <1>16 DEF Shape
<1> QED
  BY <1>8, <1>9, <1>17 DEF num

-----------------------------------------------------------------------------
(* Parsing.                                                                 *)
DigitAt(num, z, e) == IF e < z THEN 0 ELSE num[e - z + 1]

\* The n digits num of x, and the characters of a text of the shape above.
Numeral(num, n, x, b) ==
  /\ n = Len(num) /\ x < Power(b, n)
  /\ \A i \in 1 .. n : num[i] \in 0 .. b - 1 /\ num[i] = (x \div Power(b, n - i)) % b
Spelled(t, m, z, num, n, b) ==
  /\ \A e \in m .. m + z + n - 1 :
       DigitAt(num, z, e - m) \in 0 .. b - 1 /\ Stands(t[e + 1], DigitAt(num, z, e - m))
  /\ \A i \in 1 .. m + z + n : t[i] # Space
  /\ m = 0 => t[1] # Minus /\ t[1] # Plus

LEMMA ShapeChars ==
  ASSUME NEW t, NEW m \in {0, 1}, NEW z \in Nat, NEW num, NEW minus, NEW n \in Nat \ {0}, NEW x \in Nat,
         NEW b \in {10, 16}, Numeral(num, n, x, b), Shape(t, m, z, num, minus)
  PROVE  Spelled(t, m, z, num, n, b)
<1>0. n = Len(num) /\ \A i \in 1 .. n : num[i] \in 0 .. b - 1
  BY DEF Numeral
<1>1. /\ \A i \in 1 .. z : t[m + i] = Zero
      /\ \A i \in 1 .. n : Stands(t[m + z + i], num[i])
      /\ m = 1 => t[1] \in {Minus, Plus}
  BY <1>0 DEF Shape
<1>2. Stands(Zero, 0)
  BY MarksDiffer DEF Stands
<1>3. ASSUME NEW e \in m .. m + z + n - 1
      PROVE  DigitAt(num, z, e - m) \in 0 .. b - 1 /\ Stands(t[e + 1], DigitAt(num, z, e - m))
  <2>1. CASE e - m < z
    <3>1. e - m + 1 \in 1 .. z /\ m + (e - m + 1) = e + 1
      BY <2>1
    <3>2. t[e + 1] = Zero
      BY <1>1, <3>1
    <3>3. DigitAt(num, z, e - m) = 0
      BY <2>1 DEF DigitAt
    <3> QED
      BY <1>2, <3>2, <3>3
  <2>2. CASE ~(e - m < z)
    <3>1. PICK i \in 1 .. n : i = e - m - z + 1
      <4>1. e - m - z + 1 \in 1 .. n
        BY <2>2
      <4> QED
        BY <4>1
    <3>2. m + z + i = e + 1
      BY <3>1
    <3>3. DigitAt(num, z, e - m) = num[i]
      BY <2>2, <3>1 DEF DigitAt
    <3>4. Stands(t[m + z + i], num[i])
      BY <1>1
    <3>5. num[i] \in 0 .. b - 1
      BY <1>0
    <3> QED
      BY <3>2, <3>3, <3>4, <3>5
  <2> QED
    BY <2>1, <2>2
<1>4. ASSUME NEW c, NEW d \in 0 .. b - 1, Stands(c, d)
      PROVE  c # Space /\ c # Minus /\ c # Plus
  <2>1. d + 1 \in 1 .. 16
    OBVIOUS
  <2> QED
    BY <1>4, <2>1, MarksDiffer DEF Stands
<1>5. \A e \in m .. m + z + n - 1 : t[e + 1] # Space /\ t[e + 1] # Minus /\ t[e + 1] # Plus
  BY <1>3, <1>4
<1>6. ASSUME NEW i \in 1 .. m + z + n PROVE t[i] # Space
  <2>1. CASE i \in m + 1 .. m + z + n
    <3>1. i - 1 \in m .. m + z + n - 1 /\ (i - 1) + 1 = i
      BY <2>1
    <3> QED
      BY <1>5, <3>1
  <2>2. CASE i \notin m + 1 .. m + z + n
    <3>1. m = 1 /\ i = 1
      BY <2>2
    <3> QED
      BY <1>1, <3>1, MarksDiffer
  <2> QED
    BY <2>1, <2>2
<1>7. m = 0 => t[1] # Minus /\ t[1] # Plus
  <2> SUFFICES ASSUME m = 0 PROVE t[1] # Minus /\ t[1] # Plus
    OBVIOUS
  <2>1. 0 \in m .. m + z + n - 1 /\ 0 + 1 = 1
    OBVIOUS
  <2> QED
    BY <1>5, <2>1
<1> QED
  BY <1>3, <1>6, <1>7 DEF Spelled

\* How far a parse is: x, of n digits, is what the digits stand for.
Parsing(m, z, n, x, minus) ==
  /\ stage \in {"called", "sign", "digits", "parsed"}
  /\ stage \in {"called", "sign"} => end = 0 /\ res = 0 /\ sign = FALSE
  /\ stage = "sign" => kind = "int"
  /\ stage = "digits" =>
       end \in m .. m + z + n /\ sign = minus /\ res = Wrap(kind, Lead(x, base, n, end - m - z))
  /\ stage = "parsed" => byteCount = m + z + n /\ res = value

NumberIInv ==
  /\ kind \in {"int", "uint"} /\ value \in Values(kind) /\ options \in Options
  /\ base = Radix(options) /\ text[1] # Space =>
       \E m \in {0, 1}, z \in Nat :
         /\ Shape(text, m, z, Number(kind, value, options), ~IsHex(options) /\ value < 0)
         /\ m = 1 => kind = "int"
         /\ Parsing(m, z, Len(Number(kind, value, options)), Magnitude(value, options),
                    ~IsHex(options) /\ value < 0)

\* The text of a call has its shape.
LEMMA NumberInitIInv == NumberInit => NumberIInv
<1> SUFFICES ASSUME NumberInit PROVE NumberIInv
  OBVIOUS
<1>1. PICK k \in {"int", "uint"}, o \in SUBSET {"l", "0", "+", " ", "h", "H"}, width \in Widths, b \in Bases :
        \E v \in Values(k) : Call(k, v, o, width, b)
  BY DEF NumberInit
<1>2. PICK v \in Values(k) : Call(k, v, o, width, b)
  BY <1>1
<1>3. /\ kind = k /\ value = v /\ options = o /\ text = Format(k, v, o, width)
      /\ end = 0 /\ sign = FALSE /\ res = 0 /\ stage = "called"
  BY <1>2, Zenon DEF Call
<1>4. o \in Options /\ width \in Nat
  BY WidthAssumption DEF Options
<1>5. \A m, z, n, x, minus : Parsing(m, z, n, x, minus)
  BY <1>3 DEF Parsing
<1>6. ASSUME text[1] # Space
      PROVE  \E m \in {0, 1}, z \in Nat :
               /\ Shape(text, m, z, Number(k, v, o), ~IsHex(o) /\ v < 0)
               /\ m = 1 => k = "int"
  BY <1>3, <1>4, <1>6, FormatShape
<1> QED
  BY <1>3, <1>4, <1>5, <1>6 DEF NumberIInv

\* What a number and its digits are.
LEMMA NumberTyped ==
  ASSUME NEW k \in {"int", "uint"}, NEW v \in Values(k), NEW o \in Options
  PROVE  /\ Radix(o) \in {10, 16} /\ Magnitude(v, o) \in Nat /\ Len(Number(k, v, o)) \in Nat \ {0}
         /\ Numeral(Number(k, v, o), Len(Number(k, v, o)), Magnitude(v, o), Radix(o))
<1> DEFINE num == Number(k, v, o)
           x == Magnitude(v, o)
           b == Radix(o)
<1>1. num = Digits(x, b)
  BY DEF Number, Magnitude, Radix
<1>2. x \in 0 .. Size - 1 /\ b \in {10, 16}
  BY ValuesTyped
<1>3. x \in Nat
  <2>1. Size \in Nat
    BY SizeIsEven
  <2> HIDE DEF x
  <2> QED
    BY <1>2, <2>1
<1> HIDE DEF num, x, b
<1>4. IsDigits(num, x, b)
  BY <1>1, <1>2, DigitsOf
<1>5. num \in [1 .. Len(num) -> 0 .. b - 1]
  BY <1>4 DEF IsDigits
<1>6. \A i \in 1 .. Len(num) : num[i] \in 0 .. b - 1
  BY <1>5
<1>7. Numeral(num, Len(num), x, b) /\ Len(num) \in Nat \ {0}
  BY <1>4, <1>6 DEF IsDigits, Numeral
<1> QED
  BY <1>2, <1>3, <1>7 DEF num, x, b

\* One more digit is read.
ReadsOn(k, x, b, n, num, z, j) ==
  Wrap(k, Wrap(k, Lead(x, b, n, j - z)) * b + DigitAt(num, z, j)) = Wrap(k, Lead(x, b, n, (j + 1) - z))

LEMMA ReadOn ==
  ASSUME NEW k \in {"int", "uint"}, NEW b \in {10, 16}, NEW x \in Nat, NEW n \in Nat \ {0},
         NEW num, Numeral(num, n, x, b), NEW z \in Nat, NEW j \in 0 .. z + n - 1
  PROVE  ReadsOn(k, x, b, n, num, z, j)
<1> USE DEF ReadsOn
<1>0. /\ x < Power(b, n)
      /\ \A i \in 1 .. n : num[i] \in 0 .. b - 1 /\ num[i] = (x \div Power(b, n - i)) % b
  BY DEF Numeral
<1>1. Lead(x, b, n, 0) = 0
  BY <1>0, LeadStep
<1>2. CASE j < z
  <2>1. Lead(x, b, n, j - z) = 0
    BY <1>2 DEF Lead
  <2>2. Lead(x, b, n, (j + 1) - z) = 0
    <3>1. CASE (j + 1) - z = 0
      BY <1>1, <3>1
    <3>2. CASE (j + 1) - z < 0
      BY <3>2 DEF Lead
    <3> QED
      BY <1>2, <3>1, <3>2
  <2>3. DigitAt(num, z, j) = 0
    BY <1>2 DEF DigitAt
  <2>4. Wrap(k, Wrap(k, 0) * b + 0) = Wrap(k, 0 * b + 0)
    <3>1. \A y, d \in Int : Wrap(k, Wrap(k, y) * b + d) = Wrap(k, y * b + d)
      <4>1. b \in Int
        OBVIOUS
      <4> QED
        BY <4>1, WrapsLate
    <3> QED
      BY <3>1
  <2>5. 0 * b + 0 = 0
    OBVIOUS
  <2> QED
    BY <2>1, <2>2, <2>3, <2>4, <2>5
<1>3. CASE ~(j < z)
  <2>1. PICK l \in 0 .. n - 1 : l = j - z
    <3>1. j - z \in 0 .. n - 1
      BY <1>3
    <3> QED
      BY <3>1
  <2>2. (j + 1) - z = l + 1 /\ j - z + 1 = l + 1 /\ l + 1 \in 1 .. n
    BY <2>1
  <2>3. PICK y \in Int : y = Lead(x, b, n, l)
    BY <1>0, LeadStep
  <2>4. DigitAt(num, z, j) = num[l + 1]
    BY <1>3, <2>2 DEF DigitAt
  <2>5. PICK d \in 0 .. b - 1 : d = num[l + 1] /\ d = (x \div Power(b, n - (l + 1))) % b
    BY <1>0, <2>2
  <2>6. Lead(x, b, n, l + 1) = y * b + d
    BY <1>0, <2>3, <2>5, LeadStep
  <2>7. Wrap(k, Wrap(k, y) * b + d) = Wrap(k, y * b + d)
    <3>1. b \in Int /\ d \in Int
      OBVIOUS
    <3> QED
      BY <3>1, WrapsLate
  <2> QED
    BY <2>1, <2>2, <2>3, <2>4, <2>5, <2>6, <2>7
<1> QED
  BY <1>2, <1>3

LEMMA ZeroStays == ASSUME NEW k \in {"int", "uint"} PROVE Wrap(k, 0) = 0
<1>1. PICK h \in Nat \ {0} : Size = 2 * h /\ Size \div 2 = h
  BY SizeIsEven
<1>2. 0 \in Values(k)
  BY <1>1 DEF Values
<1>3. Same(0, 0)
  BY <1>1 DEF Same
<1> QED
  BY <1>2, <1>3, WrapsTo

\* Which characters are digits of a base.
LEMMA DigitSeen ==
  ASSUME NEW b \in {10, 16}
  PROVE  /\ \A c \in {Space, Nul} : ~(\E i \in 1 .. b : c \in {SmallDigits[i], LargeDigits[i]})
         /\ \A d \in 0 .. b - 1 : \A c : Stands(c, d) =>
              (\E i \in 1 .. b : c \in {SmallDigits[i], LargeDigits[i]})
<1>1. ASSUME NEW c \in {Space, Nul}, NEW i \in 1 .. b PROVE c \notin {SmallDigits[i], LargeDigits[i]}
  <2>1. i \in 1 .. 16
    OBVIOUS
  <2> QED
    BY <2>1, MarksDiffer
<1>2. ASSUME NEW d \in 0 .. b - 1, NEW c, Stands(c, d)
      PROVE  \E i \in 1 .. b : c \in {SmallDigits[i], LargeDigits[i]}
  <2>1. d + 1 \in 1 .. b
    OBVIOUS
  <2> QED
    BY <1>2, <2>1 DEF Stands
<1> QED
  BY <1>1, <1>2

\* The step of a parse, of the number x with the digits num in the text t.
LEMMA ParsingGoesOn ==
  ASSUME NumberNext, kind \in {"int", "uint"}, value \in Values(kind),
         NEW m \in {0, 1}, NEW z \in Nat, NEW num, NEW n \in Nat \ {0},
         NEW x \in Nat, NEW minus \in BOOLEAN, Shape(text, m, z, num, minus), m = 1 => kind = "int",
         base \in {10, 16}, Numeral(num, n, x, base),
         IF minus THEN value = -x ELSE Same(x, value),
         Parsing(m, z, n, x, minus)
  PROVE  Parsing(m, z, n, x, minus)'
<1>0. PICK k \in {"int", "uint"} : k = kind
  OBVIOUS
<1>1. PICK v \in Values(k), b \in {10, 16} : k = kind /\ b = base /\ v = value
  BY <1>0
<1>15. Numeral(num, n, x, b) /\ n = Len(num) /\ x < Power(b, n)
  BY <1>1 DEF Numeral
<1>2. /\ \A e \in m .. m + z + n - 1 :
           DigitAt(num, z, e - m) \in 0 .. b - 1 /\ Stands(text[e + 1], DigitAt(num, z, e - m))
      /\ \A i \in 1 .. m + z + n : text[i] # Space
      /\ m = 0 => text[1] # Minus /\ text[1] # Plus
  <2>1. Spelled(text, m, z, num, n, b)
    BY <1>15, ShapeChars, ZenonT(30)
  <2> QED
    BY <2>1 DEF Spelled
<1>3. PICK l \in Nat : l = Len(text) /\ m + z + n <= l /\ \A i \in m + z + n + 1 .. l : text[i] = Space
  BY <1>15 DEF Shape
<1>4. /\ m = 1 => text[1] \in {Minus, Plus}
      /\ minus = (m = 1 /\ text[1] = Minus)
  BY DEF Shape
<1>5. Char = IF end < l THEN text[end + 1] ELSE Nul
  BY <1>3, Zenon DEF Char, Nul
<1>6. \A j : Lead(x, b, n, j) = Lead(x, base, n, j)
  BY <1>1
<1>7. Lead(x, b, n, 0) = 0 /\ Lead(x, b, n, n) = x
  BY <1>15, LeadStep
<1>8. \A y \in Int : Wrapped(y) = Wrap(k, y)
  BY <1>1, Zenon DEF Wrapped, Wrap
<1>9. IsDigit <=> \E i \in 1 .. b : Char \in {SmallDigits[i], LargeDigits[i]}
  BY <1>1, Zenon DEF IsDigit
<1>10. Lead(x, b, n, 0 - z) = 0
  <2>1. CASE z = 0
    BY <1>7, <2>1
  <2>2. CASE z # 0
    BY <2>2 DEF Lead
  <2> QED
    BY <2>1, <2>2
<1>11. CASE Enter
  <2>1. /\ stage = "called" /\ end' = end /\ res' = res /\ sign' = sign /\ kind' = kind /\ base' = base
        /\ byteCount' = byteCount /\ value' = value
        /\ stage' = IF kind = "int" THEN "sign" ELSE "digits"
    BY <1>11 DEF Enter
  <2>2. end = 0 /\ res = 0 /\ sign = FALSE
    BY <2>1 DEF Parsing
  <2>3. CASE k = "int"
    BY <1>1, <2>1, <2>2, <2>3 DEF Parsing
  <2>4. CASE k = "uint"
    <3>1. m = 0 /\ ~minus
      BY <1>1, <1>4, <2>4
    <3>2. Wrap(k, Lead(x, b, n, 0 - 0 - z)) = 0
      <4>1. 0 - 0 - z = 0 - z
        OBVIOUS
      <4> QED
        BY <1>10, <4>1, ZeroStays
    <3>3. 0 \in m .. m + z + n
      BY <3>1
    <3>4. stage' = "digits" /\ sign' = minus /\ end' = 0 /\ res' = 0 /\ kind' = k /\ base' = b
      BY <1>1, <2>1, <2>2, <2>4, <3>1
    <3> QED
      BY <3>1, <3>2, <3>3, <3>4 DEF Parsing
  <2> QED
    BY <2>3, <2>4
<1>12. CASE Sign
  <2>1. /\ stage = "sign" /\ stage' = "digits" /\ res' = res /\ kind' = kind /\ base' = base
        /\ byteCount' = byteCount /\ value' = value
    BY <1>12 DEF Sign
  <2>2. sign' = (Char = Minus) /\ end' = end + (IF Char \in {Minus, Plus} THEN 1 ELSE 0)
    BY <1>12, Zenon DEF Sign, Minus, Plus
  <2>3. end = 0 /\ res = 0
    BY <2>1 DEF Parsing
  <2>4. Char = text[1]
    <3>1. end < l /\ end + 1 = 1
      BY <1>3, <2>3
    <3> QED
      BY <1>5, <3>1
  <2>5. end' = m
    <3>1. Char \in {Minus, Plus} <=> m = 1
      BY <1>2, <1>4, <2>4
    <3>2. CASE m = 1
      BY <2>2, <2>3, <3>1, <3>2
    <3>3. CASE m = 0
      BY <2>2, <2>3, <3>1, <3>3
    <3> QED
      BY <3>2, <3>3
  <2>6. sign' = minus
    BY <1>2, <1>4, <2>2, <2>4
  <2>7. Wrap(k, Lead(x, b, n, m - m - z)) = 0
    <3>1. m - m - z = 0 - z
      OBVIOUS
    <3> QED
      BY <1>10, <3>1, ZeroStays
  <2>8. res' = 0 /\ kind' = k /\ base' = b /\ m \in m .. m + z + n
    BY <1>1, <2>1, <2>3
  <2> QED
    BY <2>1, <2>5, <2>6, <2>7, <2>8 DEF Parsing
<1>13. CASE Digit
  <2>1. /\ stage = "digits" /\ IsDigit /\ stage' = stage /\ kind' = kind /\ base' = base /\ sign' = sign
        /\ res' = Wrapped(res * base + DigitValue(Char)) /\ end' = end + 1 /\ value' = value
    BY <1>13 DEF Digit
  <2>2. end \in m .. m + z + n /\ sign = minus /\ res = Wrap(kind, Lead(x, base, n, end - m - z))
    BY <2>1 DEF Parsing
  <2>3. PICK e \in m .. m + z + n : e = end
    BY <2>2
  <2>4. e # m + z + n
    <3> SUFFICES ASSUME e = m + z + n PROVE FALSE
      OBVIOUS
    <3>1. Char \in {Space, Nul}
      <4>1. CASE e < l
        <5>1. e + 1 \in m + z + n + 1 .. l
          BY <4>1
        <5> QED
          BY <1>3, <1>5, <2>3, <4>1, <5>1
      <4>2. CASE ~(e < l)
        BY <1>5, <2>3, <4>2
      <4> QED
        BY <4>1, <4>2
    <3> QED
      BY <1>9, <2>1, <3>1, DigitSeen
  <2>5. e \in m .. m + z + n - 1 /\ e < l
    BY <1>3, <2>4
  <2>6. PICK d \in 0 .. b - 1 : d = DigitAt(num, z, e - m) /\ Stands(text[e + 1], d)
    BY <1>2, <2>5
  <2>7. DigitValue(Char) = d
    <3>1. d \in 0 .. 15
      OBVIOUS
    <3> QED
      BY <1>5, <2>3, <2>5, <2>6, <3>1, DigitRead
  <2>8. PICK j \in 0 .. z + n - 1 : j = e - m
    <3>1. e - m \in 0 .. z + n - 1
      BY <2>5
    <3> QED
      BY <3>1
  <2>9. Wrap(k, Wrap(k, Lead(x, b, n, j - z)) * b + DigitAt(num, z, j)) = Wrap(k, Lead(x, b, n, (j + 1) - z))
    <3>1. ReadsOn(k, x, b, n, num, z, j)
      BY <1>15, ReadOn
    <3> QED
      BY <3>1 DEF ReadsOn
  <2>10. res = Wrap(k, Lead(x, b, n, j - z))
    BY <1>1, <2>2, <2>3, <2>8
  <2>11. res' = Wrap(k, res * b + d)
    <3>1. res \in Int
      <4>1. Lead(x, b, n, j - z) \in Int
        <5>1. CASE j - z < 0
          BY <5>1 DEF Lead
        <5>2. CASE ~(j - z < 0)
          <6>1. j - z \in 0 .. n - 1
            BY <5>2
          <6> QED
            BY <1>15, <6>1, LeadStep
        <5> QED
          BY <5>1, <5>2
      <4> QED
        BY <2>10, <4>1, Wraps
    <3>2. PICK r \in Int : r = res
      BY <3>1
    <3>3. r * b + d \in Int
      OBVIOUS
    <3> QED
      BY <1>1, <1>8, <2>1, <2>7, <3>2, <3>3
  <2>12. res' = Wrap(k, Lead(x, b, n, (j + 1) - z))
    BY <2>6, <2>8, <2>9, <2>10, <2>11
  <2>13. end' = e + 1 /\ e + 1 \in m .. m + z + n /\ (e + 1) - m - z = (j + 1) - z
    BY <2>1, <2>3, <2>5, <2>8
  <2>14. kind' = k /\ base' = b /\ sign' = minus /\ stage' = "digits"
    BY <1>1, <2>1, <2>2
  <2> QED
    BY <2>12, <2>13, <2>14 DEF Parsing
<1>14. CASE Done
  <2>1. /\ stage = "digits" /\ ~IsDigit /\ stage' = "parsed" /\ byteCount' = end /\ value' = value
        /\ res' = (IF sign THEN Wrapped(-res) ELSE res)
    BY <1>14 DEF Done
  <2>2. end \in m .. m + z + n /\ sign = minus /\ res = Wrap(kind, Lead(x, base, n, end - m - z))
    BY <2>1 DEF Parsing
  <2>3. PICK e \in m .. m + z + n : e = end
    BY <2>2
  <2>4. e = m + z + n
    <3> SUFFICES ASSUME e # m + z + n PROVE FALSE
      OBVIOUS
    <3>1. e \in m .. m + z + n - 1 /\ e < l
      BY <1>3
    <3>2. PICK d \in 0 .. b - 1 : Stands(text[e + 1], d)
      BY <1>2, <3>1
    <3> QED
      BY <1>5, <1>9, <2>1, <2>3, <3>1, <3>2, DigitSeen
  <2>5. res = Wrap(k, x)
    <3>1. e - m - z = n
      BY <2>4
    <3> QED
      BY <1>1, <1>7, <2>2, <2>3, <3>1
  <2>6. res' = v
    <3>1. CASE minus
      <4>1. PICK r \in Int : r = res /\ Same(x, r)
        <5>1. x \in Int
          OBVIOUS
        <5>2. Wrap(k, x) \in Int /\ Same(x, Wrap(k, x))
          BY <5>1, Wraps
        <5> QED
          BY <2>5, <5>2
      <4>2. PICK q \in Int : x = r + Size * q
        BY <4>1 DEF Same
      <4>3. v = -x
        BY <1>1, <3>1
      <4>4. Same(-r, v)
        <5>1. PICK S \in Nat : S = Size
          BY SizeIsEven
        <5>2. PICK w \in Int : w = S * q
          OBVIOUS
        <5>3. -r = v + w
          BY <4>2, <4>3, <5>1, <5>2
        <5> QED
          BY <5>1, <5>2, <5>3 DEF Same
      <4>5. Wrap(k, -r) = v
        BY <4>4, WrapsTo
      <4> QED
        BY <1>8, <2>1, <2>2, <3>1, <4>1, <4>5
    <3>2. CASE ~minus
      <4>1. Same(x, v)
        BY <1>1, <3>2
      <4>2. Wrap(k, x) = v
        BY <4>1, WrapsTo
      <4> QED
        BY <2>1, <2>2, <2>5, <3>2, <4>2
    <3> QED
      BY <3>1, <3>2
  <2>7. byteCount' = m + z + n /\ res' = value'
    BY <1>1, <2>1, <2>3, <2>4, <2>6
  <2> QED
    BY <2>1, <2>7 DEF Parsing
<1> QED
  BY <1>11, <1>12, <1>13, <1>14 DEF NumberNext

LEMMA NumberStepIInv == NumberIInv /\ NumberNext => NumberIInv'
<1> SUFFICES ASSUME NumberIInv, NumberNext PROVE NumberIInv'
  OBVIOUS
<1>1. /\ kind' = kind /\ value' = value /\ options' = options /\ text' = text /\ base' = base
  BY DEF NumberNext, Enter, Sign, Digit, Done
<1>2. PICK k \in {"int", "uint"} : k = kind
  BY DEF NumberIInv
<1>3. PICK v \in Values(k), o \in Options : v = value /\ o = options
  BY <1>2 DEF NumberIInv
<1> DEFINE num == Number(k, v, o)
           x == Magnitude(v, o)
           n == Len(num)
           least == ~IsHex(o) /\ v < 0
<1>4. ASSUME base = Radix(o), text[1] # Space
      PROVE  \E m \in {0, 1}, z \in Nat :
               Shape(text, m, z, num, least) /\ (m = 1 => k = "int") /\ Parsing(m, z, n, x, least)'
  <2>1. PICK m \in {0, 1}, z \in Nat :
          Shape(text, m, z, num, least) /\ (m = 1 => k = "int") /\ Parsing(m, z, n, x, least)
    BY <1>2, <1>3, <1>4 DEF NumberIInv
  <2>2. base \in {10, 16} /\ x \in Nat /\ n \in Nat \ {0} /\ Numeral(num, n, x, base)
    BY <1>4, NumberTyped
  <2>3. IF least THEN value = -x ELSE Same(x, value)
    <3>1. v \in Int /\ (IsHex(o) => Same(x, v)) /\ (least => x = -v) /\ (~IsHex(o) /\ ~(v < 0) => x = v)
      BY ValuesTyped
    <3>2. CASE least
      BY <1>3, <3>1, <3>2
    <3>3. CASE IsHex(o)
      BY <1>3, <3>1, <3>3
    <3>4. CASE ~IsHex(o) /\ ~(v < 0)
      <4>1. Same(v, v)
        <5>1. PICK S \in Nat : S = Size
          BY SizeIsEven
        <5>2. v = v + S * 0
          BY <3>1
        <5> QED
          BY <5>1, <5>2 DEF Same
      <4> QED
        BY <1>3, <3>1, <3>4, <4>1
    <3> QED
      BY <3>2, <3>3, <3>4
  <2>4. PICK minus \in BOOLEAN : minus = least
    OBVIOUS
  <2> HIDE DEF num, x, n, least
  <2>5. Parsing(m, z, n, x, minus)'
    BY <1>2, <1>3, <2>1, <2>2, <2>3, <2>4, ParsingGoesOn
  <2> QED
    BY <2>1, <2>4, <2>5
<1> HIDE DEF num, x, n, least
<1>5. /\ kind' = k /\ value' = v /\ options' = o
  BY <1>1, <1>2, <1>3
<1>6. base' = Radix(options') /\ text'[1] # Space => base = Radix(o) /\ text[1] # Space
  BY <1>1, <1>3
<1> QED
  BY <1>1, <1>4, <1>5, <1>6 DEF NumberIInv, num, x, n, least

LEMMA NumberIInvReads == NumberIInv => ReadsBack
<1> SUFFICES ASSUME NumberIInv, stage = "parsed", base = Radix(options), text[1] # Space
             PROVE  /\ res = value
                    /\ \A i \in DOMAIN text : i > byteCount <=> text[i] = Space
  BY Zenon DEF ReadsBack, Radix, Space
<1>1. PICK k \in {"int", "uint"} : k = kind
  BY DEF NumberIInv
<1>2. PICK v \in Values(k), o \in Options : v = value /\ o = options
  BY <1>1 DEF NumberIInv
<1> DEFINE num == Number(k, v, o)
           x == Magnitude(v, o)
           n == Len(num)
           least == ~IsHex(o) /\ v < 0
<1>3. PICK m \in {0, 1}, z \in Nat : Shape(text, m, z, num, least) /\ Parsing(m, z, n, x, least)
  BY <1>1, <1>2 DEF NumberIInv
<1>4. base \in {10, 16} /\ x \in Nat /\ n \in Nat \ {0} /\ Numeral(num, n, x, base)
  BY <1>2, NumberTyped
<1> HIDE DEF num, x, n, least
<1>5. Spelled(text, m, z, num, n, base)
  BY <1>3, <1>4, ShapeChars
<1>6. byteCount = m + z + n /\ res = value
  BY <1>3 DEF Parsing
<1>7. /\ \A i \in 1 .. m + z + n : text[i] # Space
      /\ \A i \in m + z + n + 1 .. Len(text) : text[i] = Space
      /\ text \in Seq(Letters)
  BY <1>3, <1>5 DEF Spelled, Shape, n
<1>8. DOMAIN text = 1 .. Len(text) /\ Len(text) \in Nat
  BY <1>7
<1> QED
  BY <1>4, <1>6, <1>7, <1>8

\* For any width of the integers and any minimal length of the text, a number that is
\* formatted is parsed again as itself, in the base it was formatted in, and byteCount
\* says where in the text it ends.
THEOREM NumbersReadBack == NumberSpec => []ReadsBack
<1>1. NumberIInv /\ UNCHANGED numberVars => NumberIInv'
  BY DEF NumberIInv, numberVars, Parsing
<1> QED
  BY <1>1, NumberInitIInv, NumberStepIInv, NumberIInvReads, PTL DEF NumberSpec
=============================================================================
