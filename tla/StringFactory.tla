---------------------------- MODULE StringFactory ----------------------------
(***************************************************************************)
(* CStdStringFactory (3rd/scriptstdstring): string constants of scripts,    *)
(* shared by all engines of the process.  An engine asks for a constant and *)
(* keeps the pointer it gets to the key of an entry of stringCache; the     *)
(* entry counts the pointers given out and is erased with the last.  Calls  *)
(* come from any thread; the factory itself is made by the first thread     *)
(* that registers strings, and deleted when the process ends.               *)
(***************************************************************************)
EXTENDS Integers, FiniteSets

CONSTANTS
  Threads,
  Constants,  \* string constants of compiled scripts
  Strings,    \* what they may say
  Factories,  \* factories there may be
  None, Dangling

ASSUME ConstantsAssumption == IsFiniteSet(Constants)
ASSUME NamesAssumption ==
  /\ None \notin Threads \cup Constants \cup Factories /\ None # Dangling
  /\ \A f \in Factories, s \in Strings : <<f, s>> \notin {None, Dangling}

VARIABLES
  stringFactory, \* the static pointer, None before the first
  made,          \* factories made so far
  deleted,       \* factories deleted
  over,          \* whether static objects are being destroyed
  uses,          \* uses[t]: the factory the engine of t has registered, None before it has
  cache,         \* cache[f][s]: the count of the entry of s, 0 if there is none
  points,        \* points[c]: factory and entry the engine's pointer leads to
  lock,          \* the thread in the exclusive lock
  pc, doing, want, \* of each thread: where it is, and for which constant and string
  found,         \* found[t]: what find said
  failed         \* whether a release has returned an error

vars == <<stringFactory, made, deleted, over, uses, cache, points, lock, pc, doing, want, found, failed>>
static == <<stringFactory, made, deleted, over, uses>>
request == <<doing, want>>

-----------------------------------------------------------------------------
Go(t, from, to) == pc[t] = from /\ pc' = [pc EXCEPT ![t] = to]

(* GetStdStringFactorySingleton: no lock is taken.                          *)
LookForFactory(t) ==
  /\ ~over
  /\ Go(t, "unregistered", IF stringFactory = None THEN "make" ELSE "use")
  /\ UNCHANGED <<static, cache, points, lock, request, found, failed>>

MakeFactory(t) ==
  /\ Go(t, "make", "use")
  /\ \E f \in Factories \ made : made' = made \cup {f} /\ stringFactory' = f
  /\ UNCHANGED <<deleted, over, uses, cache, points, lock, request, found, failed>>

UseFactory(t) ==
  /\ Go(t, "use", "idle")
  /\ uses' = [uses EXCEPT ![t] = stringFactory]
  /\ UNCHANGED <<stringFactory, made, deleted, over, cache, points, lock, request, found, failed>>

-----------------------------------------------------------------------------
Entry(t) == <<uses[t], want[t]>>
Count(e) == cache[e[1]][e[2]]
WithCount(e, n) == [cache EXCEPT ![e[1]][e[2]] = n]

\* The engine calls for a constant it has no pointer for, or no more use for.
Working(c) == \E t \in Threads : doing[t] = c
CallGet(t, c, s) ==
  /\ ~over /\ points[c] = None /\ ~Working(c)
  /\ Go(t, "idle", "get")
  /\ doing' = [doing EXCEPT ![t] = c] /\ want' = [want EXCEPT ![t] = s]
  /\ UNCHANGED <<static, cache, points, lock, found, failed>>

CallRelease(t, c) ==
  /\ points[c] # None /\ points[c] # Dangling /\ points[c][1] = uses[t] /\ ~Working(c)
  /\ Go(t, "idle", "release")
  /\ doing' = [doing EXCEPT ![t] = c] /\ want' = [want EXCEPT ![t] = points[c][2]]
  /\ UNCHANGED <<static, cache, points, lock, found, failed>>

AcquireExclusiveLock(t) ==
  /\ lock = None
  /\ \/ Go(t, "get", "get find")
     \/ Go(t, "release", "release find")
  /\ lock' = t
  /\ UNCHANGED <<static, cache, points, request, found, failed>>

Find(t) ==
  /\ \/ Go(t, "get find", "count")
     \/ Go(t, "release find", "uncount")
  /\ found' = [found EXCEPT ![t] = Count(Entry(t)) > 0]
  /\ UNCHANGED <<static, cache, points, lock, request, failed>>

\* An entry that is found is not counted again.
CountUp_Once(t) ==
  /\ Go(t, "count", "unlock get")
  /\ cache' = IF found[t] THEN cache ELSE WithCount(Entry(t), 1)
  /\ points' = [points EXCEPT ![doing[t]] = Entry(t)]
  /\ UNCHANGED <<static, lock, request, found, failed>>

\* One more on an entry that is there, or a new one.
CountUp(t) ==
  /\ Go(t, "count", "unlock get")
  /\ cache' = IF found[t] THEN WithCount(Entry(t), Count(Entry(t)) + 1)
              ELSE WithCount(Entry(t), 1)
  /\ points' = [points EXCEPT ![doing[t]] = Entry(t)]
  /\ UNCHANGED <<static, lock, request, found, failed>>

\* One less, and the entry is erased with the last: pointers that are left to it
\* lead nowhere.
Left(t) == [points EXCEPT ![doing[t]] = None]
Erased(ps, e) == [c \in Constants |-> IF ps[c] = e THEN Dangling ELSE ps[c]]

CountDown(t) ==
  /\ Go(t, "uncount", "unlock release")
  /\ IF ~found[t]
     THEN failed' = TRUE /\ UNCHANGED <<cache, points>>
     ELSE /\ cache' = WithCount(Entry(t), Count(Entry(t)) - 1)
          /\ points' = IF Count(Entry(t)) = 1 THEN Erased(Left(t), Entry(t)) ELSE Left(t)
          /\ failed' = failed
  /\ UNCHANGED <<static, lock, request, found>>

\* The lock is kept when a constant is released.
ReleaseExclusiveLock_Get(t) ==
  /\ \/ Go(t, "unlock get", "return") /\ lock' = None
     \/ Go(t, "unlock release", "return") /\ lock' = lock
  /\ UNCHANGED <<static, cache, points, request, found, failed>>

ReleaseExclusiveLock(t) ==
  /\ \/ Go(t, "unlock get", "return")
     \/ Go(t, "unlock release", "return")
  /\ lock' = None
  /\ UNCHANGED <<static, cache, points, request, found, failed>>

\* The address of the key is taken after the lock is given back.
Return(t) ==
  /\ Go(t, "return", "idle")
  /\ doing' = [doing EXCEPT ![t] = None]
  /\ UNCHANGED <<static, want, cache, points, lock, found, failed>>

-----------------------------------------------------------------------------
\* Whatever is left in it.
Deletes_Always(f) == TRUE
Deletes(f) == \A s \in Strings : cache[f][s] = 0
\* ~CStdStringFactoryCleaner: engines may still release constants afterwards.
Cleanup ==
  /\ ~over /\ \A t \in Threads : pc[t] \in {"unregistered", "idle"}
  /\ over' = TRUE
  /\ IF stringFactory # None /\ Deletes(stringFactory)
     THEN deleted' = deleted \cup {stringFactory} /\ stringFactory' = None
     ELSE UNCHANGED <<deleted, stringFactory>>
  /\ UNCHANGED <<made, uses, cache, points, lock, pc, request, found, failed>>

Init ==
  /\ stringFactory = None /\ made = {} /\ deleted = {} /\ over = FALSE
  /\ uses = [t \in Threads |-> None]
  /\ cache = [f \in Factories |-> [s \in Strings |-> 0]]
  /\ points = [c \in Constants |-> None]
  /\ lock = None
  /\ pc = [t \in Threads |-> "unregistered"]
  /\ doing = [t \in Threads |-> None]
  /\ want \in [Threads -> Strings]
  /\ found = [t \in Threads |-> FALSE] /\ failed = FALSE

Proceed(t) ==
  \/ MakeFactory(t) \/ UseFactory(t)
  \/ AcquireExclusiveLock(t) \/ Find(t) \/ CountUp(t) \/ CountDown(t)
  \/ ReleaseExclusiveLock(t) \/ Return(t)
Next ==
  \/ \E t \in Threads :
       \/ Proceed(t)
       \/ LookForFactory(t)
       \/ \E c \in Constants : CallRelease(t, c) \/ \E s \in Strings : CallGet(t, c, s)
  \/ Cleanup

Spec == Init /\ [][Next]_vars
\* A thread in a call runs on, and is given the lock when it is free again and again.
FairSpec == Spec /\ \A t \in Threads : WF_vars(Proceed(t)) /\ SF_vars(AcquireExclusiveLock(t))

-----------------------------------------------------------------------------
Places ==
  {"unregistered", "make", "use", "idle", "get", "release", "get find", "release find",
   "count", "uncount", "unlock get", "unlock release", "return"}
TypeOK ==
  /\ made \subseteq Factories /\ stringFactory \in made \cup {None} /\ deleted \subseteq made
  /\ over \in BOOLEAN /\ failed \in BOOLEAN
  /\ uses \in [Threads -> Factories \cup {None}]
  /\ cache \in [Factories -> [Strings -> Nat]]
  /\ points \in [Constants -> (Factories \X Strings) \cup {None, Dangling}]
  /\ doing \in [Threads -> Constants \cup {None}]
  /\ lock \in Threads \cup {None} /\ pc \in [Threads -> Places]
  /\ want \in [Threads -> Strings] /\ found \in [Threads -> BOOLEAN]

\* The count of an entry is the number of pointers engines have to it, in every
\* interleaving of their calls (GetStringConstant, ReleaseStringConstant).
PointersTo(e) == {c \in Constants : points[c] = e}
CountsExact ==
  \A f \in Factories, s \in Strings : cache[f][s] = Cardinality(PointersTo(<<f, s>>))

\* No engine is left with a pointer to an entry that is erased: GetRawStringData
\* and the address taken after the lock is given back are safe.
NoneDangles == \A c \in Constants : points[c] # Dangling

\* "If it is not empty, it means that someone might still attempt to release
\* string constants": the factory of a pointer is there for as long as the pointer.
FactoryOutlivesPointers ==
  \A c \in Constants : points[c] \notin {None, Dangling} => points[c][1] \notin deleted

\* What was given out can be given back.
ReleasesSucceed == ~failed

\* Counts and pointers are in step, whatever threads do at once: what an engine
\* holds is there, and can be given back.
CountsRight == TypeOK /\ CountsExact /\ NoneDangles /\ ReleasesSucceed

\* Every call returns.
CallsReturn == \A t \in Threads : pc[t] \in {"get", "release"} ~> pc[t] = "idle"
=============================================================================
