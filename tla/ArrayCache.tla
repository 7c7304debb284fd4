----------------------------- MODULE ArrayCache ------------------------------
(***************************************************************************)
(* CScriptArray::Precache: the methods arrays of a type compare with are    *)
(* looked up once, by the first thread that makes an array of the type, and *)
(* kept as user data of the type.  Threads look for the cache without the   *)
(* lock, and again with it.                                                 *)
(***************************************************************************)
EXTENDS Integers, FiniteSets

CONSTANTS
  Threads,      \* threads that make arrays of one type
  Count,        \* GetMethodCount of the subtype
  Methods,      \* what methods there may be
  MemoryFails,  \* whether userAlloc may return null
  NoThread

ASSUME CountAssumption == Count \in Nat
ASSUME ThreadAssumption == NoThread \notin Threads
ASSUME MemoryAssumption == MemoryFails \in BOOLEAN

\* What a method says of itself, as far as Precache asks.
Method ==
  [name       : {"opCmp", "opEquals", "other"},
   params     : Nat,
   readOnly   : BOOLEAN,
   returns    : {"int", "bool", "reference", "other"},
   takes      : {"in", "const in", "handle", "const handle", "other"},
   ofSubtype  : BOOLEAN]
ASSUME MethodsAssumption == Methods \subseteq Method

Roles == {"opCmp", "opEquals"}
Unset == 0   \* no method
Codes == {"none", "multiple", "no function"}

VARIABLES
  methods,     \* the methods of the subtype, by index
  toConst,     \* whether the array holds handles to const
  lock,        \* the thread in the exclusive lock of the engine
  pc,          \* pc[t]
  at,          \* the loop variable of the thread in the lock
  building,    \* the cache being built: method and code of each role
  published,   \* the user data of the type: 0, or the number of the cache
  cache,       \* what the published cache holds
  allocated    \* caches allocated so far

vars == <<methods, toConst, lock, pc, at, building, published, cache, allocated>>

-----------------------------------------------------------------------------
\* A comparison method: one parameter of the subtype, by reference or by handle,
\* and the right result, no reference. With handles to const all must be const.
Matches(m, role, mustBeConst) ==
  /\ m.params = 1 /\ (mustBeConst => m.readOnly)
  /\ m.name = role
  /\ m.returns = IF role = "opCmp" THEN "int" ELSE "bool"
  /\ m.ofSubtype
  /\ m.takes \in IF mustBeConst THEN {"const in", "const handle"}
                 ELSE {"in", "const in", "handle", "const handle"}

Blank == [r \in Roles |-> [func |-> Unset, code |-> "none"]]

\* The last one that fits is taken.
Found_Last(entry, k) == [func |-> k, code |-> "none"]

\* A second method makes the choice ambiguous, and a third leaves it so.
Found(entry, k) ==
  IF entry.func # Unset \/ entry.code # "none"
  THEN [func |-> Unset, code |-> "multiple"]
  ELSE [entry EXCEPT !.func = k]

Looked(b, m, k) ==
  [r \in Roles |-> IF Matches(m, r, toConst) THEN Found(b[r], k) ELSE b[r]]

\* Nothing found is said so.
Closed(b) ==
  [r \in Roles |-> IF b[r].func = Unset /\ b[r].code = "none"
                   THEN [b[r] EXCEPT !.code = "no function"] ELSE b[r]]

-----------------------------------------------------------------------------
Go(t, from, to) == pc[t] = from /\ pc' = [pc EXCEPT ![t] = to]

\* The unlocked look.
Look(t) ==
  /\ Go(t, "look", IF published # 0 THEN "done" ELSE "wait")
  /\ UNCHANGED <<methods, toConst, lock, at, building, published, cache, allocated>>

AcquireLock(t) ==
  /\ lock = NoThread /\ Go(t, "wait", "look again")
  /\ lock' = t
  /\ UNCHANGED <<methods, toConst, at, building, published, cache, allocated>>

\* The lock is kept on one of the ways out.
Leave_Locked(t, from, to) ==
  /\ Go(t, from, to)
  /\ lock' = IF from = "look again" THEN lock ELSE NoThread
Leave(t, from, to) ==
  /\ Go(t, from, to)
  /\ lock' = NoThread

LookAgain(t) ==
  /\ pc[t] = "look again"
  /\ IF published # 0
     THEN Leave(t, "look again", "done") /\ UNCHANGED allocated
     ELSE Go(t, "look again", "allocate") /\ UNCHANGED <<lock, allocated>>
  /\ UNCHANGED <<methods, toConst, at, building, published, cache>>

Allocate(t) ==
  \/ /\ Go(t, "allocate", "scan")
     /\ allocated' = allocated + 1
     /\ at' = 1 /\ building' = Blank
     /\ UNCHANGED <<methods, toConst, lock, published, cache>>
  \/ /\ MemoryFails /\ Leave(t, "allocate", "without")
     /\ UNCHANGED <<methods, toConst, at, building, published, cache, allocated>>

Scan(t) ==
  /\ pc[t] = "scan" /\ at <= Count
  /\ building' = Looked(building, methods[at], at)
  /\ at' = at + 1
  /\ UNCHANGED <<methods, toConst, lock, pc, published, cache, allocated>>

\* Only a complete cache is shown to the others.
Publish(t) ==
  /\ at > Count /\ Go(t, "scan", "unlock")
  /\ published' = allocated /\ cache' = Closed(building)
  /\ UNCHANGED <<methods, toConst, lock, at, building, allocated>>

Unlock(t) ==
  /\ Leave(t, "unlock", "done")
  /\ UNCHANGED <<methods, toConst, at, building, published, cache, allocated>>

Init ==
  /\ methods \in [1 .. Count -> Methods] /\ toConst \in BOOLEAN
  /\ lock = NoThread /\ pc = [t \in Threads |-> "look"]
  /\ at = 1 /\ building = Blank
  /\ published = 0 /\ cache = Blank /\ allocated = 0

Step(t) ==
  Look(t) \/ AcquireLock(t) \/ LookAgain(t) \/ Allocate(t) \/ Scan(t) \/ Publish(t) \/ Unlock(t)
Next == \E t \in Threads : Step(t)

Spec == Init /\ [][Next]_vars
\* A thread runs on; a free lock is given to a thread that waits for it.
FairSpec == Spec /\ \A t \in Threads : WF_vars(Step(t)) /\ SF_vars(AcquireLock(t))

-----------------------------------------------------------------------------
Entry == [func : Nat, code : Codes]
TypeOK ==
  /\ methods \in [1 .. Count -> Methods] /\ toConst \in BOOLEAN
  /\ lock \in Threads \cup {NoThread}
  /\ pc \in [Threads -> {"look", "wait", "look again", "allocate", "scan", "unlock", "done", "without"}]
  /\ at \in 1 .. Count + 1
  /\ building \in [Roles -> Entry] /\ cache \in [Roles -> Entry]
  /\ published \in Nat /\ allocated \in Nat

\* "We need to make sure the cache is created only once, even if multiple threads
\* reach the same point at the same time": no other cache is ever allocated.
CreatedOnce == allocated <= 1

\* "Set the user data only at the end so others that retrieve it will know it is
\* complete": what is published is the one method that matches, or says that
\* there is none, or more than one.
Matching(r) == {k \in 1 .. Count : Matches(methods[k], r, toConst)}
Right(entry, matching) ==
  /\ entry.func # Unset => matching = {entry.func}
  /\ entry.func = Unset => entry.code # "none"
  /\ entry.code = "no function" <=> matching = {}
  /\ entry.code = "multiple" <=> \E j, k \in matching : j # k
PublishedComplete == published # 0 => \A r \in Roles : Right(cache[r], Matching(r))

\* A thread goes on to make its array outside the lock, and with the cache there
\* unless it had no memory for one and raised an exception.
DoneWithCache ==
  \A t \in Threads :
    /\ pc[t] \in {"done", "without"} => lock # t
    /\ pc[t] = "done" => published # 0

\* Threads that need the cache of a type make one between them, find it complete,
\* and leave the lock free.
CacheRight == TypeOK /\ CreatedOnce /\ PublishedComplete /\ DoneWithCache

\* A published cache is never changed or replaced: arrays hold on to it.
PublishedStays == [][published # 0 => published' = published /\ cache' = cache]_vars

\* No thread is kept waiting for ever, not even when memory fails another.
EveryThreadGoesOn == \A t \in Threads : <>(pc[t] \in {"done", "without"})
=============================================================================
