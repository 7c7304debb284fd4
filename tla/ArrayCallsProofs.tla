-------------------------- MODULE ArrayCallsProofs --------------------------
(***************************************************************************)
(* Proofs about arrays: the cache of a type and its threads, the verdict on *)
(* a template instance, the calls that compare elements, their storage, and *)
(* that what they show a script are the lists of ArrayList.                 *)
(***************************************************************************)
EXTENDS ArrayCache, ArraySort, ArrayTemplate, ScriptArray, FiniteSetTheorems, FunctionTheorems,
        SequenceTheorems, TLAPS

\* A thread between taking the lock and giving it back has it.
Inside == {"look again", "allocate", "scan", "unlock"}
Locked == \A t \in Threads : pc[t] \in Inside <=> lock = t

\* There is a cache while one is made and once one is published, and no other.
OneCache ==
  /\ published # 0 => allocated = 1
  /\ (published = 0 /\ \A t \in Threads : pc[t] # "scan") => allocated = 0
  /\ \A t \in Threads :
       /\ pc[t] = "allocate" => published = 0
       /\ pc[t] = "scan" => published = 0 /\ allocated = 1
       /\ pc[t] \in {"unlock", "done"} => published # 0

\* What the methods up to n say of a role.
MatchingTo(r, n) == {k \in 1 .. n : Matches(methods[k], r, toConst)}
RightTo(entry, matching) ==
  /\ entry.func # Unset => entry.code = "none" /\ matching = {entry.func}
  /\ entry.func = Unset =>
       \/ entry.code = "none" /\ matching = {}
       \/ entry.code = "multiple" /\ \E k, m \in matching : k # m
ScannedRight ==
  \A t \in Threads : pc[t] = "scan" => \A r \in Roles : RightTo(building[r], MatchingTo(r, at - 1))

IInv == TypeOK /\ Locked /\ OneCache /\ ScannedRight /\ PublishedComplete

-----------------------------------------------------------------------------
\* Looking at one more method keeps an entry right.
LEMMA OneMore ==
  ASSUME NEW entry \in Entry, NEW r \in Roles, NEW n \in Nat, RightTo(entry, MatchingTo(r, n))
  PROVE  LET next == IF Matches(methods[n + 1], r, toConst) THEN Found(entry, n + 1) ELSE entry
         IN next \in Entry /\ RightTo(next, MatchingTo(r, n + 1))
<1>1. CASE Matches(methods[n + 1], r, toConst)
  <2>1. MatchingTo(r, n + 1) = MatchingTo(r, n) \cup {n + 1}
    BY <1>1 DEF MatchingTo
  <2>2. n + 1 \notin MatchingTo(r, n) /\ n + 1 # 0
    BY DEF MatchingTo
  <2>3. CASE entry.func # Unset \/ entry.code # "none"
    <3>1. MatchingTo(r, n) # {}
      BY <2>3 DEF RightTo
    <3>2. \E k, m \in MatchingTo(r, n + 1) : k # m
      BY <2>1, <2>2, <3>1
    <3> QED BY <1>1, <2>3, <3>2 DEF Found, RightTo, Entry, Unset, Codes
  <2>4. CASE entry.func = Unset /\ entry.code = "none"
    <3>1. MatchingTo(r, n + 1) = {n + 1}
      BY <2>1, <2>4 DEF RightTo
    <3>2. Found(entry, n + 1) = [func |-> n + 1, code |-> "none"]
      BY <2>4 DEF Found, Entry
    <3>3. Found(entry, n + 1) \in Entry
      <4>1. \A k \in Nat : [func |-> k, code |-> "none"] \in Entry
        BY DEF Entry, Codes
      <4> QED BY <3>2, <4>1
    <3>4. PICK e : e = Found(entry, n + 1)
      OBVIOUS
    <3>5. e.func = n + 1 /\ e.code = "none"
      BY <3>2, <3>4
    <3>6. RightTo(e, MatchingTo(r, n + 1))
      BY <2>2, <3>1, <3>5 DEF RightTo, Unset
    <3> QED BY <1>1, <3>3, <3>4, <3>6
  <2> QED BY <2>3, <2>4
<1>2. CASE ~Matches(methods[n + 1], r, toConst)
  <2>1. MatchingTo(r, n + 1) = MatchingTo(r, n)
    BY <1>2 DEF MatchingTo
  <2> QED BY <1>2, <2>1 DEF RightTo
<1> QED BY <1>1, <1>2

\* An entry right for all methods is right once what was not found is said so.
LEMMA CloseEntry ==
  ASSUME Count \in Nat, NEW b \in [Roles -> Entry], NEW r \in Roles, RightTo(b[r], MatchingTo(r, Count))
  PROVE  Closed(b)[r] \in Entry /\ Right(Closed(b)[r], Matching(r))
<1>1. MatchingTo(r, Count) = Matching(r)
  BY DEF MatchingTo, Matching
<1>2. CASE b[r].func = Unset /\ b[r].code = "none"
  <2>1. Closed(b)[r] = [b[r] EXCEPT !.code = "no function"]
    BY <1>2 DEF Closed
  <2>2. Closed(b)[r] = [func |-> Unset, code |-> "no function"]
    BY <1>2, <2>1 DEF Entry
  <2>3. Matching(r) = {}
    BY <1>1, <1>2 DEF RightTo
  <2>4. [func |-> Unset, code |-> "no function"] \in Entry
    BY DEF Entry, Unset, Codes
  <2>5. PICK e : e = [func |-> Unset, code |-> "no function"]
    OBVIOUS
  <2>6. e.func = Unset /\ e.code = "no function"
    BY <2>5
  <2>7. Right(e, Matching(r))
    BY <2>3, <2>6 DEF Right
  <2> QED BY <2>2, <2>4, <2>5, <2>7
<1>3. CASE ~(b[r].func = Unset /\ b[r].code = "none")
  <2>1. Closed(b)[r] = b[r]
    BY <1>3 DEF Closed
  <2>2. PICK e : e = b[r]
    OBVIOUS
  <2>3. RightTo(e, MatchingTo(r, Count)) /\ e \in Entry
    BY <2>2
  <2>4. CASE e.func # Unset
    <3>1. e.code = "none" /\ Matching(r) = {e.func}
      BY <1>1, <2>3, <2>4 DEF RightTo
    <3> QED BY <2>1, <2>2, <2>3, <2>4, <3>1 DEF Right
  <2>5. CASE e.func = Unset
    <3>1. e.code = "multiple" /\ \E k, m \in Matching(r) : k # m
      BY <1>1, <1>3, <2>2, <2>3, <2>5 DEF RightTo
    <3> QED BY <2>1, <2>2, <2>3, <2>5, <3>1 DEF Right
  <2> QED BY <2>4, <2>5
<1> QED BY <1>2, <1>3

\* The methods of a type stay what they are.
LEMMA SameMethods ==
  ASSUME methods' = methods, toConst' = toConst
  PROVE  /\ \A r, n : MatchingTo(r, n)' = MatchingTo(r, n)
         /\ \A r : Matching(r)' = Matching(r)
<1>1. ASSUME NEW r, NEW n PROVE MatchingTo(r, n)' = MatchingTo(r, n)
  BY DEF MatchingTo
<1>2. ASSUME NEW r PROVE Matching(r)' = Matching(r)
  BY DEF Matching
<1> QED BY <1>1, <1>2

-----------------------------------------------------------------------------
\* A cache that is made keeps TypeOK, and every other part of the invariant.
LEMMA Initially == ASSUME Count \in Nat PROVE Init => IInv
<1> SUFFICES ASSUME Count \in Nat, Init PROVE IInv
  OBVIOUS
<1>1. TypeOK
  BY DEF Init, TypeOK, Blank, Entry, Codes, Unset
<1>2. Locked /\ OneCache /\ ScannedRight /\ PublishedComplete
  BY ThreadAssumption DEF Init, Locked, Inside, OneCache, ScannedRight, PublishedComplete
<1> QED BY <1>1, <1>2 DEF IInv

-----------------------------------------------------------------------------
(* One step of a thread.                                                    *)
LEMMA LookSafe ==
  ASSUME Count \in Nat, IInv, NEW t \in Threads, Look(t)
  PROVE  IInv'
<1> USE DEF IInv
<1>1. TypeOK'
  BY DEF TypeOK, Look, Go
<1>2. Locked'
  BY DEF TypeOK, Locked, Inside, Look, Go
<1>3. OneCache'
  BY DEF TypeOK, OneCache, Look, Go
<1>4. ScannedRight'
  BY SameMethods DEF TypeOK, ScannedRight, Look, Go
<1>5. PublishedComplete'
  BY SameMethods DEF PublishedComplete, Look
<1> QED BY <1>1, <1>2, <1>3, <1>4, <1>5

LEMMA AcquireLockSafe ==
  ASSUME Count \in Nat, IInv, NEW t \in Threads, AcquireLock(t)
  PROVE  IInv'
<1> USE DEF IInv
<1>1. TypeOK'
  BY DEF TypeOK, AcquireLock, Go
<1>2. Locked'
  BY ThreadAssumption DEF TypeOK, Locked, Inside, AcquireLock, Go
<1>3. OneCache'
  BY DEF TypeOK, OneCache, AcquireLock, Go
<1>4. ScannedRight'
  BY SameMethods DEF TypeOK, ScannedRight, AcquireLock, Go
<1>5. PublishedComplete'
  BY SameMethods DEF PublishedComplete, AcquireLock
<1> QED BY <1>1, <1>2, <1>3, <1>4, <1>5

LEMMA LookAgainSafe ==
  ASSUME Count \in Nat, IInv, NEW t \in Threads, LookAgain(t)
  PROVE  IInv'
<1> USE DEF IInv
<1>1. TypeOK'
  BY DEF TypeOK, LookAgain, Leave, Go
<1>2. Locked'
  BY ThreadAssumption DEF TypeOK, Locked, Inside, LookAgain, Leave, Go
<1>3. OneCache'
  BY DEF TypeOK, OneCache, LookAgain, Leave, Go
<1>4. ScannedRight'
  BY SameMethods DEF TypeOK, ScannedRight, LookAgain, Leave, Go
<1>5. PublishedComplete'
  BY SameMethods DEF PublishedComplete, LookAgain
<1> QED BY <1>1, <1>2, <1>3, <1>4, <1>5

LEMMA AllocateSafe ==
  ASSUME Count \in Nat, IInv, NEW t \in Threads, Allocate(t)
  PROVE  IInv'
<1> USE DEF IInv
<1>1. CASE MemoryFails /\ Leave(t, "allocate", "without")
             /\ UNCHANGED <<methods, toConst, at, building, published, cache, allocated>>
  <2>1. TypeOK'
    BY <1>1 DEF TypeOK, Leave, Go
  <2>2. Locked'
    BY <1>1, ThreadAssumption DEF TypeOK, Locked, Inside, Leave, Go
  <2>3. OneCache'
    BY <1>1 DEF TypeOK, OneCache, Leave, Go
  <2>4. ScannedRight'
    BY <1>1, SameMethods DEF TypeOK, ScannedRight, Leave, Go
  <2>5. PublishedComplete'
    BY <1>1, SameMethods DEF PublishedComplete
  <2> QED BY <2>1, <2>2, <2>3, <2>4, <2>5
<1>2. CASE /\ Go(t, "allocate", "scan")
           /\ allocated' = allocated + 1
           /\ at' = 1 /\ building' = Blank
           /\ UNCHANGED <<methods, toConst, lock, published, cache>>
  <2>1. TypeOK'
    <3>1. building' \in [Roles -> Entry]
      <4>1. [func |-> Unset, code |-> "none"] \in Entry
        BY DEF Entry, Codes, Unset
      <4> QED BY <1>2, <4>1 DEF Blank
    <3>2. at' \in 1 .. Count + 1
      BY <1>2
    <3>3. pc' \in [Threads -> {"look", "wait", "look again", "allocate", "scan", "unlock", "done", "without"}]
      BY <1>2 DEF TypeOK, Go
    <3>4. allocated' \in Nat
      <4>1. allocated \in Nat
        BY Zenon DEF TypeOK
      <4> QED BY <1>2, <4>1
    <3> QED BY <1>2, <3>1, <3>2, <3>3, <3>4, Zenon DEF TypeOK
  <2>2. Locked'
    BY <1>2 DEF TypeOK, Locked, Inside, Go
  <2>3. published = 0 /\ \A s \in Threads : pc[s] # "scan"
    BY <1>2 DEF OneCache, Locked, Inside, Go
  <2>4. OneCache'
    <3>1. allocated = 0
      BY <2>3, Zenon DEF OneCache
    <3>2. allocated' = 1 /\ published' = 0
      BY <1>2, <2>3, <3>1
    <3>3. pc'[t] = "scan" /\ \A s \in Threads : s # t => pc'[s] = pc[s]
      BY <1>2 DEF TypeOK, Go
    <3>4. \A s \in Threads : pc[s] \notin {"unlock", "done"}
      BY <2>3, Zenon DEF OneCache
    <3> QED BY <3>2, <3>3, <3>4, Zenon DEF OneCache
  <2>5. \A r \in Roles : RightTo(Blank[r], MatchingTo(r, 0))
    BY DEF RightTo, MatchingTo, Blank, Unset
  <2>6. ScannedRight'
    BY <1>2, <2>5, SameMethods DEF ScannedRight
  <2>7. PublishedComplete'
    BY <1>2, SameMethods DEF PublishedComplete
  <2> QED BY <2>1, <2>2, <2>4, <2>6, <2>7
<1> QED BY <1>1, <1>2 DEF Allocate

LEMMA ScanSafe ==
  ASSUME Count \in Nat, IInv, NEW t \in Threads, Scan(t)
  PROVE  IInv'
<1>0. TypeOK /\ Locked /\ OneCache /\ ScannedRight /\ PublishedComplete
  BY DEF IInv
<1>1. at \in Nat \ {0} /\ at <= Count /\ at - 1 \in Nat /\ (at - 1) + 1 = at /\ at' = at + 1 /\ at' - 1 = at
  <2>1. at \in 1 .. Count + 1 /\ at <= Count /\ at' = at + 1
    BY <1>0, Zenon DEF TypeOK, Scan
  <2> QED BY <2>1
<1>2. ASSUME NEW r \in Roles
      PROVE  building'[r] \in Entry /\ RightTo(building'[r], MatchingTo(r, at))
  <2>1. building[r] \in Entry /\ RightTo(building[r], MatchingTo(r, at - 1))
    BY <1>0 DEF TypeOK, ScannedRight, Scan
  <2>2. building'[r] = IF Matches(methods[at], r, toConst) THEN Found(building[r], at) ELSE building[r]
    BY DEF Scan, Looked
  <2> QED BY <1>1, <2>1, <2>2, OneMore
<1>3. building' \in [Roles -> Entry]
  BY <1>2 DEF Scan, Looked
<1>4. TypeOK'
  <2>1. at' \in 1 .. Count + 1
    BY <1>1
  <2> QED BY <1>0, <1>3, <2>1, Zenon DEF TypeOK, Scan
<1>5. Locked' /\ OneCache'
  BY <1>0, Zenon DEF Locked, OneCache, Scan
<1>6. \A r \in Roles : RightTo(building'[r], MatchingTo(r, at - 1)')
  <2>1. at' - 1 = at /\ methods' = methods /\ toConst' = toConst
    BY <1>1 DEF Scan
  <2>2. ASSUME NEW r \in Roles PROVE MatchingTo(r, at - 1)' = MatchingTo(r, at)
    BY <2>1, Zenon DEF MatchingTo
  <2> QED BY <1>2, <2>2, Zenon
<1>7. ScannedRight'
  BY <1>6, Zenon DEF ScannedRight
<1>8. PublishedComplete'
  BY <1>0, SameMethods, Zenon DEF PublishedComplete, Scan
<1> QED BY <1>4, <1>5, <1>7, <1>8 DEF IInv

LEMMA PublishSafe ==
  ASSUME Count \in Nat, IInv, NEW t \in Threads, Publish(t)
  PROVE  IInv'
<1>0. TypeOK /\ Locked /\ OneCache /\ ScannedRight /\ PublishedComplete
  BY DEF IInv
<1>1. at - 1 = Count /\ allocated = 1 /\ published' = 1
  <2>1. at \in 1 .. Count + 1 /\ at > Count
    BY <1>0, Zenon DEF TypeOK, Publish
  <2>2. pc[t] = "scan" /\ published' = allocated
    BY Zenon DEF Publish, Go
  <2>3. allocated = 1
    BY <1>0, <2>2, Zenon DEF OneCache
  <2> QED BY <2>1, <2>2, <2>3
<1>2. \A r \in Roles : Closed(building)[r] \in Entry /\ Right(Closed(building)[r], Matching(r))
  <2>1. building \in [Roles -> Entry]
    BY <1>0, Zenon DEF TypeOK
  <2>2. ASSUME NEW r \in Roles PROVE RightTo(building[r], MatchingTo(r, Count))
    <3>1. RightTo(building[r], MatchingTo(r, at - 1))
      BY <1>0, Zenon DEF ScannedRight, Publish, Go
    <3> QED BY <1>1, <3>1, Zenon
  <2> QED BY <2>1, <2>2, CloseEntry
<1>3. Closed(building) \in [Roles -> Entry]
  BY <1>2 DEF Closed
<1>4. TypeOK'
  <2>1. pc' \in [Threads -> {"look", "wait", "look again", "allocate", "scan", "unlock", "done", "without"}]
    BY <1>0 DEF TypeOK, Publish, Go
  <2>2. published' \in Nat
    BY <1>1
  <2> QED BY <1>0, <1>3, <2>1, <2>2, Zenon DEF TypeOK, Publish
<1>5. Locked'
  BY <1>0 DEF TypeOK, Locked, Inside, Publish, Go
<1>6. \A s \in Threads : s # t => pc[s] \notin Inside
  BY <1>0 DEF Locked, Publish, Go, Inside
<1>7. /\ pc'[t] = "unlock" /\ \A s \in Threads : s # t => pc'[s] = pc[s]
      /\ allocated' = allocated
  BY <1>0 DEF TypeOK, Publish, Go
<1>8. published' # 0 /\ allocated' = 1
  BY <1>1, <1>7
<1>9. OneCache'
  BY <1>6, <1>7, <1>8, Zenon DEF OneCache, Inside
<1>10. ScannedRight'
  BY <1>6, <1>7, Zenon DEF ScannedRight, Inside
<1>11. PublishedComplete'
  BY <1>2, SameMethods, Zenon DEF PublishedComplete, Publish
<1> QED BY <1>4, <1>5, <1>9, <1>10, <1>11 DEF IInv

LEMMA UnlockSafe ==
  ASSUME Count \in Nat, IInv, NEW t \in Threads, Unlock(t)
  PROVE  IInv'
<1> USE DEF IInv
<1>1. TypeOK'
  BY DEF TypeOK, Unlock, Leave, Go
<1>2. Locked'
  BY ThreadAssumption DEF TypeOK, Locked, Inside, Unlock, Leave, Go
<1>3. OneCache'
  BY DEF TypeOK, OneCache, Unlock, Leave, Go
<1>4. ScannedRight'
  BY SameMethods DEF TypeOK, ScannedRight, Unlock, Leave, Go
<1>5. PublishedComplete'
  BY SameMethods DEF PublishedComplete, Unlock
<1> QED BY <1>1, <1>2, <1>3, <1>4, <1>5

LEMMA StutterSafe == ASSUME IInv, UNCHANGED vars PROVE IInv'
<1>1. TypeOK' /\ Locked' /\ OneCache'
  BY DEF IInv, vars, TypeOK, Locked, OneCache
<1>2. ScannedRight' /\ PublishedComplete'
  BY SameMethods DEF IInv, vars, ScannedRight, PublishedComplete
<1> QED BY <1>1, <1>2 DEF IInv

LEMMA StepSafe == ASSUME Count \in Nat PROVE IInv /\ [Next]_vars => IInv'
<1> SUFFICES ASSUME IInv, [Next]_vars PROVE IInv'
  OBVIOUS
<1>1. ASSUME NEW t \in Threads, Step(t) PROVE IInv'
  BY <1>1, LookSafe, AcquireLockSafe, LookAgainSafe, AllocateSafe, ScanSafe, PublishSafe, UnlockSafe
     DEF Step
<1> QED BY <1>1, StutterSafe DEF Next

-----------------------------------------------------------------------------
\* Whatever threads do, the lock is one thread's, there is one cache, and what is
\* made of it so far agrees with the methods looked at (Precache).
THEOREM CacheInvariant == Spec => []IInv
<1>1. Init => IInv
  BY CountAssumption, Initially
<1>2. IInv /\ [Next]_vars => IInv'
  BY CountAssumption, StepSafe
<1> QED BY <1>1, <1>2, PTL DEF Spec

\* Variables keep their types, for any number of threads and methods.
THEOREM TypeCorrect == Spec => []TypeOK
<1>1. IInv => TypeOK
  BY DEF IInv
<1> QED BY <1>1, CacheInvariant, PTL

\* "We need to make sure the cache is created only once" (scriptarray.cpp:1689).
THEOREM OnlyOneCache == Spec => []CreatedOnce
<1>1. IInv => CreatedOnce
  BY DEF IInv, OneCache, CreatedOnce
<1> QED BY <1>1, CacheInvariant, PTL

\* What threads find is complete, and right about all methods of the subtype
\* (scriptarray.cpp:1792).
THEOREM CompleteWhenSeen == Spec => []PublishedComplete
<1>1. IInv => PublishedComplete
  BY DEF IInv
<1> QED BY <1>1, CacheInvariant, PTL

\* No thread leaves with the lock, or without a cache it had the memory for.
THEOREM LeavesUnlocked == Spec => []DoneWithCache
<1>1. IInv => DoneWithCache
  BY DEF IInv, Locked, OneCache, DoneWithCache, Inside
<1> QED BY <1>1, CacheInvariant, PTL

\* A cache that has been published is neither changed nor replaced.
THEOREM NeverReplaced == Spec => PublishedStays
<1>1. IInv /\ [Next]_vars => [published # 0 => published' = published /\ cache' = cache]_vars
  <2> SUFFICES ASSUME IInv, Next, published # 0
               PROVE  published' = published /\ cache' = cache
    OBVIOUS
  <2>1. PICK t \in Threads : Step(t)
    BY DEF Next
  <2>2. ~Publish(t)
    BY DEF IInv, OneCache, Publish, Go
  <2> QED BY <2>1, <2>2 DEF Step, Look, AcquireLock, LookAgain, Allocate, Scan, Unlock
<1> QED BY <1>1, CacheInvariant, PTL DEF Spec, PublishedStays

\* All of this together, which is what the run of the cache checks.
THEOREM CacheSafe == Spec => []CacheRight
<1>1. TypeOK /\ CreatedOnce /\ PublishedComplete /\ DoneWithCache => CacheRight
  BY DEF CacheRight
<1> QED BY <1>1, TypeCorrect, OnlyOneCache, CompleteWhenSeen, LeavesUnlocked, PTL

-----------------------------------------------------------------------------
(* ScriptArrayTemplateCallback.                                             *)
\* What a script derives from is a class of a script that is not final, and a type
\* stays what it was declared as.
TypesRight ==
  \A t \in Declared :
    /\ types[t] \in Flags
    /\ types[t].parent # NoType =>
         /\ types[t].parent \in Declared
         /\ types[types[t].parent].script /\ ~types[types[t].parent].final

\* What was looked at when an array type was left out of garbage collection.
VerdictsRight ==
  \A t \in Types, handle \in BOOLEAN :
    verdict[t][handle] = "uncollected" =>
      /\ t \in Declared /\ ~types[t].gc
      /\ handle /\ types[t].script => types[t].final

TemplateInv ==
  /\ types \in [Types -> Flags \cup {NoType}]
  /\ verdict \in [Types -> [BOOLEAN -> {"unasked", "refused", "collected", "uncollected"}]]
  /\ TypesRight /\ VerdictsRight

LEMMA DeclareSafe == ASSUME TemplateInv, NEW t \in Types, Declare(t) PROVE TemplateInv'
<1>0. /\ types \in [Types -> Flags \cup {NoType}] /\ TypesRight /\ VerdictsRight
      /\ verdict' = verdict /\ types[t] = NoType
  BY DEF TemplateInv, Declare
<1>1. PICK f \in Flags : Possible(f) /\ types' = [types EXCEPT ![t] = f]
  BY DEF Declare
<1>2. /\ types' \in [Types -> Flags \cup {NoType}] /\ types'[t] = f
      /\ \A u \in Types : u # t => types'[u] = types[u]
  BY <1>0, <1>1
<1>3. \A u \in Declared : u \in Types /\ u # t /\ u \in Declared' /\ types'[u] = types[u]
  BY <1>0, <1>2 DEF Declared
<1>4. TypesRight'
  <2> SUFFICES ASSUME NEW u \in Declared'
               PROVE  /\ types'[u] \in Flags
                      /\ types'[u].parent # NoType =>
                           /\ types'[u].parent \in Declared'
                           /\ types'[types'[u].parent].script /\ ~types'[types'[u].parent].final
    BY DEF TypesRight
  <2>1. CASE u = t
    <3>1. f.parent # NoType => f.parent \in Declared /\ types[f.parent].script /\ ~types[f.parent].final
      BY <1>1 DEF Possible
    <3> QED BY <1>2, <1>3, <2>1, <3>1
  <2>2. CASE u # t
    <3>1. u \in Declared /\ types'[u] = types[u]
      BY <1>2, <2>2 DEF Declared
    <3>2. /\ types[u] \in Flags
          /\ types[u].parent # NoType =>
               /\ types[u].parent \in Declared
               /\ types[types[u].parent].script /\ ~types[types[u].parent].final
      BY <1>0, <3>1 DEF TypesRight
    <3> QED BY <1>3, <3>1, <3>2
  <2> QED BY <2>1, <2>2
<1>5. VerdictsRight'
  BY <1>0, <1>3 DEF VerdictsRight
<1> QED BY <1>0, <1>2, <1>4, <1>5 DEF TemplateInv

LEMMA InstantiateSafe ==
  ASSUME TemplateInv, NEW t \in Types, NEW handle \in BOOLEAN, Instantiate(t, handle)
  PROVE  TemplateInv'
<1>0. /\ TypesRight /\ VerdictsRight /\ types \in [Types -> Flags \cup {NoType}]
      /\ verdict \in [Types -> [BOOLEAN -> {"unasked", "refused", "collected", "uncollected"}]]
  BY DEF TemplateInv
<1>1. PICK f : f = types[t]
  OBVIOUS
<1>2. PICK v : v = CASE ~handle /\ ~CanBeMade(f) -> "refused"
                     [] (handle \/ CanBeMade(f)) /\ DontGarbageCollect(f, handle) -> "uncollected"
                     [] (handle \/ CanBeMade(f)) /\ ~DontGarbageCollect(f, handle) -> "collected"
  OBVIOUS
<1>3. /\ v \in {"refused", "collected", "uncollected"}
      /\ v = "uncollected" => DontGarbageCollect(f, handle)
  BY <1>2
<1>4. types' = types /\ f # NoType /\ verdict' = [verdict EXCEPT ![t][handle] = v]
  BY <1>1, <1>2 DEF Instantiate
<1>5. /\ verdict' \in [Types -> [BOOLEAN -> {"unasked", "refused", "collected", "uncollected"}]]
      /\ verdict'[t][handle] = v
      /\ \A u \in Types, h \in BOOLEAN : u # t \/ h # handle => verdict'[u][h] = verdict[u][h]
  BY <1>0, <1>3, <1>4
<1>6. t \in Declared /\ Declared' = Declared
  BY <1>1, <1>4 DEF Declared
<1>7. v = "uncollected" => ~types[t].gc /\ (handle /\ types[t].script => types[t].final)
  BY <1>1, <1>3 DEF DontGarbageCollect
<1>8. VerdictsRight'
  BY <1>0, <1>4, <1>5, <1>6, <1>7 DEF VerdictsRight
<1>9. TypesRight'
  BY <1>0, <1>4, <1>6 DEF TypesRight
<1> QED BY <1>0, <1>4, <1>5, <1>8, <1>9 DEF TemplateInv

\* Nothing derives from a class that is final, nor from what is no class of a script.
LEMMA OnlyItself ==
  ASSUME TemplateInv, NEW t \in Declared, types[t].script => types[t].final,
         NEW s \in Declared, Derives(s, t)
  PROVE  s = t
<1> SUFFICES ASSUME s # t PROVE FALSE
  OBVIOUS
<1>1. WithParents(Types \ {t})
  <2> SUFFICES ASSUME NEW u \in Types \ {t}, Parent(u) # NoType PROVE Parent(u) \in Types \ {t}
    BY DEF WithParents
  <2>1. u \in Declared /\ Parent(u) = types[u].parent
    BY DEF Parent
  <2>2. Parent(u) \in Declared /\ types[Parent(u)].script /\ ~types[Parent(u)].final
    BY <2>1 DEF TemplateInv, TypesRight
  <2> QED BY <2>2 DEF Declared
<1>2. s \in Types \ {t} /\ Types \ {t} \in SUBSET Types
  BY DEF Declared
<1>3. t \in Types \ {t}
  BY <1>1, <1>2 DEF Derives
<1> QED BY <1>3

\* What the collector has to know of array<T> is decided when T is first used, and is
\* still so when more classes have been compiled, for any set of types.
THEOREM TemplateInvariant == TemplateSpec => []TemplateInv
<1>1. TemplateInit => TemplateInv
  <2> SUFFICES ASSUME TemplateInit PROVE TemplateInv
    OBVIOUS
  <2>1. Declared = {} /\ \A t \in Types, handle \in BOOLEAN : verdict[t][handle] = "unasked"
    BY DEF TemplateInit, Declared
  <2>2. /\ types \in [Types -> Flags \cup {NoType}]
        /\ verdict \in [Types -> [BOOLEAN -> {"unasked", "refused", "collected", "uncollected"}]]
    BY DEF TemplateInit
  <2> QED BY <2>1, <2>2 DEF TemplateInv, TypesRight, VerdictsRight
<1>2. TemplateInv /\ [TemplateNext]_templateVars => TemplateInv'
  <2>1. ASSUME TemplateInv, TemplateNext PROVE TemplateInv'
    BY <2>1, DeclareSafe, InstantiateSafe DEF TemplateNext
  <2>2. ASSUME TemplateInv, UNCHANGED templateVars PROVE TemplateInv'
    BY <2>2 DEF templateVars, TemplateInv, TypesRight, VerdictsRight, Declared
  <2> QED BY <2>1, <2>2
<1> QED BY <1>1, <1>2, PTL DEF TemplateSpec

\* An array type the template callback leaves out of garbage collection never holds an
\* object that could refer back to the array, whatever is derived later.
THEOREM NeverLeaked == TemplateSpec => []NoLeakedCycle
<1>1. TemplateInv => NoLeakedCycle
  <2> SUFFICES ASSUME TemplateInv, NEW t \in Types, NEW handle \in BOOLEAN,
                      verdict[t][handle] = "uncollected", NEW s \in Holds(t, handle)
               PROVE  ~types[s].gc
    BY DEF NoLeakedCycle
  <2>1. t \in Declared /\ ~types[t].gc /\ (handle /\ types[t].script => types[t].final)
    BY DEF TemplateInv, VerdictsRight
  <2>2. CASE handle
    <3>1. s \in Declared /\ Derives(s, t)
      BY <2>2 DEF Holds
    <3> QED BY <2>1, <2>2, <3>1, OnlyItself
  <2>3. CASE ~handle
    BY <2>1, <2>3 DEF Holds
  <2> QED BY <2>2, <2>3
<1> QED BY <1>1, TemplateInvariant, PTL

-----------------------------------------------------------------------------
(* The calls that compare elements, whatever callbacks answer.              *)
CallTyped ==
  /\ call.op \in Calls
  /\ call.start \in 0 .. Bits32 - 1 /\ call.count \in 0 .. Bits32 - 1
  /\ call.other \in Lists[call.op] /\ before \in Lists[call.op]
  /\ lo \in Int /\ hi \in Int /\ i \in Int /\ j \in Int
  /\ stage \in {"call", "outer", "compare", "done", "undefined"}
  /\ nested \in BOOLEAN /\ aborted \in BOOLEAN /\ raised \in BOOLEAN
  /\ status \in {"none", "finished", "exception", "aborted"}
  /\ failed \subseteq {"exception", "aborted"}
  /\ stage = "call" => list = before /\ lo = 0 /\ hi = 0 /\ failed = {} /\ result = Nothing
  /\ stage = "compare" => call.op \in Insertions
  /\ call.op \notin Sorts => list = before
  /\ call.op \in Sorts => result = Nothing

\* While a call runs it has one context, if it needs one.
ContextHeld ==
  IF stage \in {"outer", "compare", "undefined"} /\ NeedsContext(call.op)
  THEN \/ nested /\ depth = 1 /\ requested = 0
       \/ ~nested /\ depth = 0 /\ requested = 1
  ELSE depth = 0 /\ requested = 0

\* What find has seen so far.
FindSoFar ==
  call.op = "find" =>
    /\ result \in Nothing .. Size(before) - 1
    /\ stage = "outer" =>
         /\ lo = call.start /\ hi = Size(before) /\ lo <= i
         /\ result # Nothing => result \in lo .. hi - 1 /\ i = hi /\ Same(list[result], call.value)
         /\ failed = {} => \A k \in lo .. hi - 1 :
              k < i /\ (result # Nothing => k < result) => ~Same(list[k], call.value)

\* What operator== has; one failure ends it.
EqualsSoFar ==
  call.op = "equals" =>
    /\ result \in {Nothing, 0, 1}
    /\ stage = "outer" =>
         /\ lo = 0 /\ hi = Size(before) /\ 0 <= i /\ Size(call.other) = hi
         /\ result = 1 => failed = {} /\ \A k \in 0 .. hi - 1 : k < i => Same(list[k], call.other[k])
         /\ result # 1 => result = 0 /\ i >= hi
         /\ result # 1 /\ failed = {} => \E k \in 0 .. hi - 1 : ~Same(list[k], call.other[k])
         /\ failed # {} => failed = {status}

ReturnsInv ==
  /\ CallTyped /\ ContextHeld /\ FindSoFar /\ EqualsSoFar
  /\ FindFindsFirst /\ EqualsComparesAll /\ AbortHandedOn

LEMMA ListsKnown ==
  \A c \in Calls : \A l \in Lists[c] : Size(l) \in Nat /\ DOMAIN l = 0 .. Size(l) - 1
<1> SUFFICES ASSUME NEW c \in Calls, NEW l \in Lists[c]
             PROVE  Size(l) \in Nat /\ DOMAIN l = 0 .. Size(l) - 1
  OBVIOUS
<1>1. IsFiniteSet(DOMAIN l) /\ l \in [0 .. Size(l) - 1 -> IF c = "sort" THEN Items ELSE Items \cup {Null}]
  BY ListsAssumption
<1> QED BY <1>1, FS_CardinalityType DEF Size

LEMMA SizeKnown ==
  ASSUME CallTyped
  PROVE  /\ Size(before) \in Nat /\ DOMAIN before = 0 .. Size(before) - 1
         /\ Size(call.other) \in Nat /\ DOMAIN call.other = 0 .. Size(call.other) - 1
         /\ call.op \notin Sorts => Size(list) = Size(before) /\ DOMAIN list = DOMAIN before
BY ListsKnown DEF CallTyped

LEMMA CallBegins == SortInit => ReturnsInv
<1> SUFFICES ASSUME SortInit PROVE ReturnsInv
  OBVIOUS
<1>1. PICK op \in Calls : call \in {c \in Arguments(op) : Sensible(c)}
  BY DEF SortInit
<1>2. /\ call.op = op /\ call.start \in Starts[op] /\ call.count \in Starts[op]
      /\ call.other \in Lists[op]
  BY <1>1 DEF Arguments
<1>3. call.start \in 0 .. Bits32 - 1 /\ call.count \in 0 .. Bits32 - 1
  BY <1>2, BitsAssumption
<1>4. CallTyped
  <2>1. /\ before \in Lists[call.op] /\ list = before
        /\ lo = 0 /\ hi = 0 /\ i = 0 /\ j = 0 /\ stage = "call" /\ failed = {} /\ result = Nothing
        /\ nested = FALSE /\ aborted = FALSE /\ raised = FALSE /\ status = "none"
    BY DEF SortInit
  <2>2. call.op \in Calls /\ call.other \in Lists[call.op]
    BY <1>2
  <2>3. lo \in Int /\ hi \in Int /\ i \in Int /\ j \in Int
    BY <2>1
  <2>4. stage \in {"call", "outer", "compare", "done", "undefined"}
    BY <2>1
  <2>5. nested \in BOOLEAN /\ aborted \in BOOLEAN /\ raised \in BOOLEAN
    BY <2>1
  <2>6. status \in {"none", "finished", "exception", "aborted"} /\ failed \subseteq {"exception", "aborted"}
    BY <2>1
  <2>7. stage # "compare"
    BY <2>1
  <2> QED BY <1>3, <2>1, <2>2, <2>3, <2>4, <2>5, <2>6, <2>7, Zenon DEF CallTyped
<1>5. Size(before) \in Nat
  BY <1>4, SizeKnown
<1>6. ContextHeld /\ FindSoFar /\ EqualsSoFar
  BY <1>5 DEF SortInit, ContextHeld, FindSoFar, EqualsSoFar, Nothing
<1>7. FindFindsFirst /\ EqualsComparesAll /\ AbortHandedOn
  BY DEF SortInit, FindFindsFirst, EqualsComparesAll, AbortHandedOn
<1> QED BY <1>4, <1>6, <1>7 DEF ReturnsInv

\* A step of the loop of a sort.
LEMMA SortStepReturns ==
  ASSUME ReturnsInv, call.op \in Sorts, stage \in {"outer", "compare"},
         stage' \in {"outer", "compare", "undefined"}, stage' = "compare" => call.op \in Insertions,
         UNCHANGED <<input, depth, requested, nested, aborted, result, raised>>,
         lo' \in Int /\ hi' \in Int /\ i' \in Int /\ j' \in Int,
         failed' \subseteq {"exception", "aborted"},
         status' \in {"none", "finished", "exception", "aborted"}
  PROVE  ReturnsInv'
<1>0. CallTyped /\ ContextHeld
  BY DEF ReturnsInv
<1>1. call' = call /\ before' = before /\ order' = order
  BY DEF input
<1>2. call.op \notin {"find", "equals"}
  BY DEF Sorts
<1>3. CallTyped'
  BY <1>0, <1>1 DEF CallTyped
<1>4. ContextHeld'
  BY <1>0, <1>1 DEF ContextHeld, NeedsContext
<1>5. (FindSoFar /\ EqualsSoFar /\ FindFindsFirst /\ EqualsComparesAll /\ AbortHandedOn)'
  BY <1>1, <1>2 DEF FindSoFar, EqualsSoFar, FindFindsFirst, EqualsComparesAll, AbortHandedOn
<1> QED BY <1>3, <1>4, <1>5 DEF ReturnsInv

LEMMA SortsReturn ==
  ASSUME ReturnsInv,
         TakeOut \/ ComparePrimitives \/ CompareByCallback \/ ReachedStart \/ StdSort
  PROVE  ReturnsInv'
<1>0. CallTyped
  BY DEF ReturnsInv
<1>1. CASE TakeOut
  <2>1. /\ call.op \in Sorts /\ stage = "outer" /\ stage' = "compare" /\ call.op \in Insertions
        /\ UNCHANGED <<input, depth, requested, nested, aborted, result, raised>>
        /\ lo' = lo /\ hi' = hi /\ i' = i /\ j' = i - 1 /\ failed' = failed /\ status' = status
    BY <1>1 DEF TakeOut, Insertions, Sorts, context
  <2>2. lo' \in Int /\ hi' \in Int /\ i' \in Int /\ j' \in Int
    BY <1>0, <2>1 DEF CallTyped
  <2> QED BY <1>0, <2>1, <2>2, SortStepReturns DEF CallTyped
<1>2. ASSUME Shift \/ PutBack, stage = "compare"
      PROVE  stage' \in {"outer", "compare"} /\ lo' \in Int /\ hi' \in Int /\ i' \in Int /\ j' \in Int
  BY <1>0, <1>2 DEF CallTyped, Shift, PutBack
<1>3. CASE ComparePrimitives \/ ReachedStart
  <2>1. /\ call.op \in Sorts /\ call.op \in Insertions /\ stage = "compare"
        /\ UNCHANGED <<input, depth, requested, nested, aborted, result, raised>>
        /\ (Shift \/ PutBack) /\ failed' = failed /\ status' = status
    BY <1>3 DEF ComparePrimitives, ReachedStart, Insertions, Sorts, context
  <2> QED BY <1>0, <1>2, <2>1, SortStepReturns DEF CallTyped
<1>4. ASSUME NEW answer, Execute(answer)
      PROVE  /\ failed' \subseteq {"exception", "aborted"}
             /\ status' \in {"none", "finished", "exception", "aborted"}
  BY <1>0, <1>4, FailuresAssumption DEF Execute, CallTyped
<1>5. CASE CompareByCallback
  <2>1. /\ call.op \in Sorts /\ call.op \in Insertions /\ stage = "compare"
        /\ UNCHANGED <<input, depth, requested, nested, aborted, result, raised>>
        /\ (Shift \/ PutBack)
    BY <1>5 DEF CompareByCallback, Insertions, Sorts
  <2>2. \E answer : Execute(answer)
    BY <1>5 DEF CompareByCallback
  <2> QED BY <1>2, <1>4, <2>1, <2>2, SortStepReturns
<1>6. CASE StdSort
  <2>1. /\ call.op \in Sorts /\ stage = "outer" /\ stage' \in {"outer", "undefined"}
        /\ UNCHANGED <<input, depth, requested, nested, aborted, result, raised>>
        /\ lo' = lo /\ hi' = hi /\ i' = hi /\ j' = j
    BY <1>6 DEF StdSort, Sorts
  <2>2. \E answer : Execute(answer)
    BY <1>6 DEF StdSort
  <2>3. lo' \in Int /\ hi' \in Int /\ i' \in Int /\ j' \in Int
    BY <1>0, <2>1 DEF CallTyped
  <2> QED BY <1>4, <2>1, <2>2, <2>3, SortStepReturns
<1> QED BY <1>1, <1>3, <1>5, <1>6

LEMMA RefuseReturns == ASSUME ReturnsInv, Refuse PROVE ReturnsInv'
<1>0. CallTyped /\ ContextHeld /\ stage = "call"
  BY DEF ReturnsInv, Refuse
<1>1. /\ call' = call /\ before' = before /\ order' = order /\ list' = list
      /\ lo' = lo /\ hi' = hi /\ i' = i /\ j' = j
      /\ UNCHANGED <<depth, requested, nested, status, failed, aborted>>
      /\ stage' = "done" /\ raised' \in BOOLEAN
      /\ result' = IF call.op = "equals" THEN 0 ELSE result
  BY DEF Refuse, input, loop, context
<1>2. CallTyped'
  <2>1. call.op \in Sorts => result' = Nothing
    BY <1>0, <1>1 DEF CallTyped, Sorts
  <2> QED BY <1>0, <1>1, <2>1 DEF CallTyped
<1>3. ContextHeld'
  BY <1>0, <1>1 DEF ContextHeld
<1>4. call.op = "equals" => Size(call.other) # Size(list)
  BY DEF Refuse, ReturnsAtOnce, NoMethod, Sorts
<1>5. call.op = "find" => raised'
  BY DEF Refuse, ReturnsAtOnce, NoMethod, Sorts
<1>6. FindSoFar' /\ FindFindsFirst'
  <2>1. call.op = "find" => result' = Nothing
    BY <1>0, <1>1 DEF CallTyped
  <2>2. Size(before) \in Nat
    BY <1>0, SizeKnown
  <2>3. Nothing \in Nothing .. Size(before) - 1
    BY <2>2 DEF Nothing
  <2> QED BY <1>1, <1>5, <2>1, <2>3 DEF FindSoFar, FindFindsFirst
<1>7. EqualsSoFar'
  BY <1>1 DEF EqualsSoFar
<1>9. EqualsComparesAll'
  BY <1>1, <1>4 DEF EqualsComparesAll, Size
<1>10. AbortHandedOn'
  BY <1>0, <1>1 DEF AbortHandedOn, CallTyped
<1> QED BY <1>2, <1>3, <1>6, <1>7, <1>9, <1>10 DEF ReturnsInv

\* Where the loops of find and operator== start, and that all bounds are numbers.
LEMMA BoundsKnown ==
  ASSUME CallTyped, NEW n \in Nat
  PROVE  LET b == Bounds(call.op, call.start, call.count, n)
         IN  /\ b.lo \in Int /\ b.hi \in Int
             /\ call.op = "find" => b.lo = call.start /\ b.hi = n
             /\ call.op = "equals" => b.lo = 0 /\ b.hi = n
<1>1. call.op \in {"sort", "sortObjects", "sortCallback", "find", "equals"}
  BY CallsAssumption DEF CallTyped
<1>2. PICK s \in Nat : s = call.start
  BY DEF CallTyped
<1>3. PICK c \in Nat : c = call.count
  BY DEF CallTyped
<1>4. Bits32 \in Nat /\ Bits32 > 0
  BY BitsAssumption DEF CallTyped
<1>5. ASSUME NEW m \in Nat PROVE AsInt(m) \in Int
  BY <1>4 DEF AsInt
<1>6. (s + c) % Bits32 \in Nat
  BY <1>4
<1>7. CallbackEnd(s, c, n) \in Int
  BY <1>4 DEF CallbackEnd, Least
<1>8. CASE call.op \in {"sort", "sortObjects"}
  BY <1>2, <1>3, <1>5, <1>6, <1>8 DEF Bounds
<1>9. CASE call.op = "sortCallback"
  BY <1>2, <1>3, <1>7, <1>9 DEF Bounds
<1>10. CASE call.op \in {"find", "equals"}
  BY <1>2, <1>10 DEF Bounds
<1> QED BY <1>1, <1>8, <1>9, <1>10

LEMMA BeginReturns == ASSUME ReturnsInv, Begin PROVE ReturnsInv'
<1>0. CallTyped /\ ContextHeld /\ stage = "call" /\ list = before /\ failed = {} /\ Size(before) \in Nat
  BY SizeKnown DEF ReturnsInv, Begin, CallTyped
<1>1. PICK b : b = Bounds(call.op, call.start, call.count, Size(list))
  OBVIOUS
<1>2. /\ call' = call /\ before' = before /\ order' = order /\ list' = list /\ j' = j
      /\ lo' = b.lo /\ hi' = b.hi /\ i' = (IF call.op \in Sorts THEN b.lo + 1 ELSE b.lo)
      /\ stage' = "outer" /\ result' = (IF call.op = "equals" THEN 1 ELSE Nothing)
      /\ UNCHANGED <<status, failed, aborted, raised>>
  BY <1>1 DEF Begin, input
<1>3. /\ b.lo \in Int /\ b.hi \in Int
      /\ call.op = "find" => b.lo = call.start /\ b.hi = Size(before)
      /\ call.op = "equals" => b.lo = 0 /\ b.hi = Size(before)
  BY <1>0, <1>1, BoundsKnown
<1>4. IF NeedsContext(call.op) THEN Acquire ELSE UNCHANGED <<depth, requested, nested>>
  BY DEF Begin
<1>5. depth = 0 /\ requested = 0
  BY <1>0 DEF ContextHeld
<1>6. nested' \in BOOLEAN
  BY <1>0, <1>4 DEF Acquire, CallTyped
<1>7. CallTyped'
  <2>1. lo' \in Int /\ hi' \in Int /\ i' \in Int
    BY <1>2, <1>3
  <2>2. call.op \in Sorts => result' = Nothing
    BY <1>2 DEF Sorts
  <2> QED BY <1>0, <1>2, <1>6, <2>1, <2>2 DEF CallTyped
<1>8. ContextHeld'
  <2>1. CASE NeedsContext(call.op)
    <3>1. \/ depth' = 1 /\ requested' = 0 /\ nested' = TRUE
          \/ depth' = 0 /\ requested' = 1 /\ nested' = FALSE
      BY <1>4, <1>5, <2>1 DEF Acquire
    <3>2. stage' \in {"outer", "compare"} /\ NeedsContext(call'.op)
      BY <1>2, <2>1 DEF NeedsContext
    <3>3. \/ nested' /\ depth' = 1 /\ requested' = 0
          \/ ~nested' /\ depth' = 0 /\ requested' = 1
      BY <3>1
    <3> QED BY <3>2, <3>3, Zenon DEF ContextHeld
  <2>2. CASE ~NeedsContext(call.op)
    BY <1>2, <1>4, <1>5, <2>2 DEF ContextHeld, NeedsContext
  <2> QED BY <2>1, <2>2
<1>9. FindSoFar'
  <2> SUFFICES ASSUME call.op = "find" PROVE FindSoFar'
    BY <1>2 DEF FindSoFar
  <2>1. lo' = call.start /\ hi' = Size(before) /\ i' = lo' /\ result' = Nothing /\ lo' \in Int
    BY <1>2, <1>3 DEF Sorts
  <2>2. Nothing \in Nothing .. Size(before) - 1
    BY <1>0 DEF Nothing
  <2>3. \A k \in lo' .. hi' - 1 : ~(k < i')
    BY <2>1
  <2>4. lo' <= i'
    BY <2>1
  <2> QED BY <1>2, <2>1, <2>2, <2>3, <2>4 DEF FindSoFar
<1>10. EqualsSoFar'
  <2> SUFFICES ASSUME call.op = "equals" PROVE EqualsSoFar'
    BY <1>2 DEF EqualsSoFar
  <2>1. lo' = 0 /\ hi' = Size(before) /\ i' = 0 /\ result' = 1 /\ Size(call.other) = hi'
    BY <1>0, <1>2, <1>3 DEF Sorts, Begin, ReturnsAtOnce
  <2> QED BY <1>0, <1>2, <2>1 DEF EqualsSoFar
<1>11. (FindFindsFirst /\ EqualsComparesAll /\ AbortHandedOn)'
  BY <1>2 DEF FindFindsFirst, EqualsComparesAll, AbortHandedOn
<1> QED BY <1>7, <1>8, <1>9, <1>10, <1>11 DEF ReturnsInv

\* How one comparison of find or operator== ends: with the answer, or without one.
LEMMA EqualsEnds ==
  ASSUME CallTyped, Equals
  PROVE  /\ \/ OnTrue(i) /\ failed' = failed /\ Same(list[i], Against(i))
            \/ OnFalse /\ failed' = failed /\ ~Same(list[i], Against(i))
            \/ OnFalse /\ failed' = failed \cup {status'}
         /\ status' \in {"none", "finished", "exception", "aborted"}
         /\ failed' \subseteq {"exception", "aborted"}
<1>1. PICK x : x = list[i]
  OBVIOUS
<1>2. PICK y : y = Against(i)
  OBVIOUS
<1>3. /\ status \in {"none", "finished", "exception", "aborted"} /\ failed \subseteq {"exception", "aborted"}
      /\ Failures \subseteq {"exception", "aborted"}
  BY FailuresAssumption DEF CallTyped
<1>4. \/ x = y /\ OnTrue(i) /\ UNCHANGED <<status, failed>>
      \/ x # y /\ ~call.method /\ OnFalse /\ UNCHANGED <<status, failed>>
      \/ x # y /\ call.method /\ x # Null /\ Execute(<<x, y>> \in order) /\ status' = "finished" /\ OnTrue(i)
      \/ x # y /\ call.method /\ x # Null /\ Execute(<<x, y>> \notin order) /\ OnFalse
      \/ x # y /\ call.method /\ x = Null /\ status' = "exception" /\ failed' = failed /\ OnFalse
  BY <1>1, <1>2 DEF Equals
<1>5. CASE x = y /\ OnTrue(i) /\ UNCHANGED <<status, failed>>
  BY <1>1, <1>2, <1>3, <1>5 DEF Same
<1>6. CASE x # y /\ call.method /\ x # Null /\ Execute(<<x, y>> \in order) /\ status' = "finished" /\ OnTrue(i)
  <2>1. failed' = failed /\ <<x, y>> \in order
    BY <1>3, <1>6 DEF Execute
  <2> QED BY <1>1, <1>2, <1>3, <1>6, <2>1 DEF Same
<1>7. CASE x # y /\ call.method /\ x # Null /\ Execute(<<x, y>> \notin order) /\ OnFalse
  <2>1. CASE status' = "finished" /\ failed' = failed /\ <<x, y>> \notin order
    BY <1>1, <1>2, <1>3, <1>7, <2>1 DEF Same
  <2>2. CASE \E f \in Failures : status' = f /\ failed' = failed \cup {f}
    BY <1>3, <1>7, <2>2
  <2> QED BY <1>7, <2>1, <2>2 DEF Execute
<1>8. CASE x # y /\ x = Null /\ status' = "exception" /\ failed' = failed /\ OnFalse
  BY <1>1, <1>2, <1>3, <1>8 DEF Same
<1>9. CASE x # y /\ ~call.method /\ OnFalse /\ UNCHANGED <<status, failed>>
  BY <1>1, <1>2, <1>3, <1>9 DEF Same
<1> QED BY <1>4, <1>5, <1>6, <1>7, <1>8, <1>9

LEMMA EqualsReturns == ASSUME ReturnsInv, Equals PROVE ReturnsInv'
<1>0. CallTyped /\ ContextHeld /\ stage = "outer" /\ call.op \notin Sorts /\ i < hi
  BY DEF ReturnsInv, Equals
<1>1. /\ call' = call /\ before' = before /\ order' = order /\ list' = list
      /\ lo' = lo /\ hi' = hi /\ j' = j /\ stage' = stage
      /\ UNCHANGED <<depth, requested, nested, aborted, raised>>
  BY DEF Equals, input
<1>2. /\ \/ OnTrue(i) /\ failed' = failed /\ Same(list[i], Against(i))
         \/ OnFalse /\ failed' = failed /\ ~Same(list[i], Against(i))
         \/ OnFalse /\ failed' = failed \cup {status'}
      /\ status' \in {"none", "finished", "exception", "aborted"}
      /\ failed' \subseteq {"exception", "aborted"}
  BY <1>0, EqualsEnds
<1>3. i' \in Int
  BY <1>0, <1>2 DEF CallTyped, OnTrue, OnFalse
<1>4. CallTyped'
  BY <1>0, <1>1, <1>2, <1>3 DEF CallTyped
<1>5. ContextHeld'
  BY <1>0, <1>1 DEF ContextHeld, NeedsContext
<1>6. i \in Int /\ lo \in Int /\ hi \in Int
  BY <1>0 DEF CallTyped
<1>7. \A x, y : Same(x, y)' = Same(x, y)
  BY <1>1 DEF Same
<1>8. FindSoFar'
  <2> SUFFICES ASSUME call.op = "find" PROVE FindSoFar'
    BY <1>1 DEF FindSoFar
  <2>1. /\ result \in Nothing .. Size(before) - 1
        /\ lo = call.start /\ hi = Size(before) /\ lo <= i /\ result = Nothing
        /\ failed = {} => \A k \in lo .. hi - 1 : k < i => ~Same(list[k], call.value)
    BY <1>0, <1>6 DEF ReturnsInv, FindSoFar
  <2>2. Size(before) \in Nat /\ Against(i) = call.value /\ call.start \in Nat
    BY <1>0, SizeKnown DEF Against, CallTyped
  <2>3. CASE OnTrue(i) /\ failed' = failed /\ Same(list[i], Against(i))
    <3>1. result' = i /\ i' = hi
      BY <2>3 DEF OnTrue
    <3>2. i \in lo .. hi - 1 /\ i \in Nothing .. Size(before) - 1 /\ lo <= hi
      BY <1>0, <1>6, <2>1, <2>2 DEF Nothing
    <3>3. failed' = {} => \A k \in lo .. hi - 1 : k < i => ~Same(list[k], call.value)
      BY <2>1, <2>3
    <3>4. Same(list[i], call.value)
      BY <2>2, <2>3
    <3>5. failed' = {} => \A k \in lo .. hi - 1 : k < result' => ~Same(list[k], call.value)
      BY <3>1, <3>3
    <3>6. result' # Nothing
      BY <3>1, <3>2, <1>6, <2>1, <2>2 DEF Nothing
    <3>7. /\ result' \in Nothing .. Size(before) - 1 /\ result' \in lo .. hi - 1 /\ i' = hi
          /\ Same(list[result'], call.value) /\ lo <= i'
      BY <3>1, <3>2, <3>4
    <3> QED BY <1>1, <1>7, <2>1, <3>5, <3>6, <3>7 DEF FindSoFar
  <2>4. CASE OnFalse /\ (failed' = {} => failed = {} /\ ~Same(list[i], Against(i)))
    <3>1. result' = Nothing /\ i' = i + 1
      BY <2>1, <2>4 DEF OnFalse
    <3>2. \A k \in lo .. hi - 1 : k < i + 1 => k < i \/ k = i
      BY <1>6
    <3>3. failed' = {} => \A k \in lo .. hi - 1 : k < i + 1 => ~Same(list[k], call.value)
      BY <2>1, <2>2, <2>4, <3>2
    <3>4. lo <= i + 1
      BY <1>6, <2>1
    <3> QED BY <1>1, <1>7, <2>1, <3>1, <3>3, <3>4 DEF FindSoFar
  <2> QED BY <1>2, <2>3, <2>4
<1>9. EqualsSoFar'
  <2> SUFFICES ASSUME call.op = "equals" PROVE EqualsSoFar'
    BY <1>1 DEF EqualsSoFar
  <2>1. /\ lo = 0 /\ hi = Size(before) /\ 0 <= i /\ Size(call.other) = hi /\ result = 1 /\ failed = {}
        /\ \A k \in 0 .. hi - 1 : k < i => Same(list[k], call.other[k])
    BY <1>0, <1>6 DEF ReturnsInv, EqualsSoFar
  <2>2. Against(i) = call.other[i] /\ i \in 0 .. hi - 1
    BY <1>0, <1>6, <2>1 DEF Against
  <2>3. CASE OnTrue(i) /\ failed' = failed /\ Same(list[i], Against(i))
    <3>1. result' = 1 /\ i' = i + 1
      BY <2>1, <2>3 DEF OnTrue
    <3>2. \A k \in 0 .. hi - 1 : k < i + 1 => k < i \/ k = i
      BY <1>6
    <3>3. \A k \in 0 .. hi - 1 : k < i + 1 => Same(list[k], call.other[k])
      BY <2>1, <2>2, <2>3, <3>2
    <3>4. 0 <= i + 1
      BY <1>6, <2>1
    <3> QED BY <1>1, <1>7, <2>1, <2>3, <3>1, <3>3, <3>4 DEF EqualsSoFar
  <2>4. CASE OnFalse /\ failed' = failed /\ ~Same(list[i], Against(i))
    <3>1. result' = 0 /\ i' = hi
      BY <2>4 DEF OnFalse
    <3>2. \E k \in 0 .. hi - 1 : ~Same(list[k], call.other[k])
      BY <2>2, <2>4
    <3> QED BY <1>1, <1>6, <1>7, <2>1, <2>4, <3>1, <3>2 DEF EqualsSoFar
  <2>5. CASE OnFalse /\ failed' = failed \cup {status'}
    <3>1. result' = 0 /\ i' = hi /\ failed' = {status'}
      BY <2>1, <2>5 DEF OnFalse
    <3>2. failed' # {} /\ result' # 1 /\ result' \in {Nothing, 0, 1} /\ 0 <= i' /\ i' >= hi
      <4>1. 0 <= hi /\ hi >= hi
        BY <1>0, <1>6, <2>1
      <4> QED BY <3>1, <4>1
    <3> QED BY <1>1, <2>1, <3>1, <3>2 DEF EqualsSoFar
  <2> QED BY <1>2, <2>3, <2>4, <2>5
<1>10. (FindFindsFirst /\ EqualsComparesAll /\ AbortHandedOn)'
  BY <1>0, <1>1 DEF FindFindsFirst, EqualsComparesAll, AbortHandedOn
<1> QED BY <1>4, <1>5, <1>8, <1>9, <1>10 DEF ReturnsInv

LEMMA FinishReturns == ASSUME ReturnsInv, Finish PROVE ReturnsInv'
<1>0. CallTyped /\ ContextHeld /\ FindSoFar /\ EqualsSoFar /\ stage = "outer" /\ i >= hi
  BY DEF ReturnsInv, Finish
<1>1. /\ call' = call /\ before' = before /\ order' = order /\ list' = list
      /\ lo' = lo /\ hi' = hi /\ i' = i /\ j' = j /\ stage' = "done"
      /\ UNCHANGED <<nested, status, failed, result, raised>>
  BY DEF Finish, input, loop
<1>2. aborted' \in BOOLEAN
  BY <1>0 DEF Finish, CallTyped
<1>3. CallTyped'
  BY <1>0, <1>1, <1>2 DEF CallTyped
<1>4. depth' = 0 /\ requested' = 0
  BY <1>0 DEF ContextHeld, Finish
<1>5. ContextHeld'
  BY <1>1, <1>4 DEF ContextHeld
<1>6. \A x, y : Same(x, y)' = Same(x, y)
  BY <1>1 DEF Same
<1>7. i \in Int /\ lo \in Int /\ hi \in Int /\ Size(before) \in Nat
  BY <1>0, SizeKnown DEF CallTyped
<1>8. FindSoFar' /\ FindFindsFirst'
  <2> SUFFICES ASSUME call.op = "find" PROVE FindSoFar' /\ FindFindsFirst'
    BY <1>1 DEF FindSoFar, FindFindsFirst
  <2>1. /\ result \in Nothing .. Size(before) - 1 /\ lo = call.start /\ hi = Size(before)
        /\ result # Nothing => result \in lo .. hi - 1 /\ Same(list[result], call.value)
        /\ failed = {} => \A k \in lo .. hi - 1 :
             k < i /\ (result # Nothing => k < result) => ~Same(list[k], call.value)
    BY <1>0 DEF FindSoFar
  <2>2. Size(list) = Size(before)
    BY <1>0, SizeKnown DEF Sorts
  <2>3. \A k \in lo .. hi - 1 : k < i
    BY <1>0, <1>7
  <2>4. result \in Int
    BY <1>7, <2>1 DEF Nothing
  <2>5. ASSUME failed = {}, NEW k \in lo .. hi - 1, Same(list[k], call.value)
        PROVE  result # Nothing /\ result <= k
    <3>1. ~(result # Nothing => k < result)
      BY <2>1, <2>3, <2>5
    <3> QED BY <1>7, <2>4, <3>1
  <2>6. FindSoFar'
    BY <1>1, <2>1 DEF FindSoFar
  <2>7. FindFindsFirst'
    BY <1>1, <1>6, <2>1, <2>2, <2>5 DEF FindFindsFirst
  <2> QED BY <2>6, <2>7
<1>9. (EqualsSoFar /\ EqualsComparesAll /\ AbortHandedOn)'
  <2> SUFFICES ASSUME call.op = "equals" PROVE (EqualsSoFar /\ EqualsComparesAll /\ AbortHandedOn)'
    BY <1>1 DEF EqualsSoFar, EqualsComparesAll, AbortHandedOn
  <2>1. /\ result \in {Nothing, 0, 1} /\ hi = Size(before) /\ Size(call.other) = hi
        /\ result = 1 => failed = {} /\ \A k \in 0 .. hi - 1 : k < i => Same(list[k], call.other[k])
        /\ result # 1 /\ failed = {} => \E k \in 0 .. hi - 1 : ~Same(list[k], call.other[k])
        /\ failed # {} => failed = {status}
    BY <1>0 DEF EqualsSoFar
  <2>2. Size(list) = hi /\ DOMAIN list = 0 .. hi - 1
    BY <1>0, <2>1, SizeKnown DEF Sorts
  <2>3. \A k \in 0 .. hi - 1 : k < i
    BY <1>0, <1>7
  <2>4. EqualsSoFar'
    BY <1>1, <2>1 DEF EqualsSoFar
  <2>5. EqualsComparesAll'
    BY <1>1, <1>6, <2>1, <2>2, <2>3 DEF EqualsComparesAll
  <2>6. nested => aborted' = (status = "aborted")
    BY <1>0 DEF Finish, NeedsContext
  <2>7. AbortHandedOn'
    BY <1>1, <2>1, <2>6 DEF AbortHandedOn
  <2> QED BY <2>4, <2>5, <2>7
<1> QED BY <1>3, <1>5, <1>8, <1>9 DEF ReturnsInv

\* Whatever callbacks answer, and however they end, find and operator== have seen what
\* their result says, and the context a call took is given back.
THEOREM CallInvariant == SortSpec => []ReturnsInv
<1>1. ReturnsInv /\ [SortNext]_sortVars => ReturnsInv'
  <2>1. ASSUME ReturnsInv, SortNext PROVE ReturnsInv'
    BY <2>1, RefuseReturns, BeginReturns, SortsReturn, EqualsReturns, FinishReturns DEF SortNext
  <2>2. ASSUME ReturnsInv, UNCHANGED sortVars PROVE ReturnsInv'
    <3>1. UNCHANGED <<call, before, order, list, lo, hi, i, j, stage, depth, requested, nested,
                      status, failed, aborted, result, raised>>
      BY <2>2 DEF sortVars, input, loop, context
    <3> QED BY <2>2, <3>1 DEF ReturnsInv, CallTyped, ContextHeld, FindSoFar, EqualsSoFar,
               FindFindsFirst, EqualsComparesAll, AbortHandedOn, Same
  <2> QED BY <2>1, <2>2
<1> QED BY <1>1, CallBegins, PTL DEF SortSpec

\* find and operator== return what they promise when their callbacks do, every call
\* gives its context back, and an abort while operator== compares is handed on.
THEOREM ReturnsWell == SortSpec => []ReturnsRight
<1>1. ReturnsInv => ReturnsRight
  BY DEF ReturnsInv, ReturnsRight, ContextHeld, ContextGivenBack
<1> QED BY <1>1, CallInvariant, PTL

-----------------------------------------------------------------------------
(* The sorts.                                                               *)
\* What a sort can be told and given: the known deviations are a start and a count
\* whose sum is no int (Sort compares signed), and 64-bit integers of more than an
\* int (Less compares what fits one).
Representable ==
  /\ call.op \in {"sort", "sortObjects"} => call.start + call.count < Bits32 \div 2
  /\ call.op = "sort" => \A x \in Elements : Low(x) = x

Listed ==
  /\ list \in [DOMAIN before -> Elements]
  /\ tmp \in Elements \cup {Null} /\ (stage = "compare" => tmp \in Elements)

\* What the properties promise of defined sorts, for all: an undefined one goes no further.
KeepsElements == \A x \in Items \cup {Null} : Occurrences(Whole, x) = Occurrences(before, x)
StaysInside == stage # "call" => \A k \in DOMAIN list : (k < lo \/ k >= hi) => list[k] = before[k]

\* The loops stay in the part that is sorted or searched.
InPart ==
  /\ stage \in {"outer", "compare"} => 0 <= lo /\ hi <= Size(before)
  /\ stage = "outer" /\ call.op \in Sorts => lo < i
  /\ stage = "compare" => lo < i /\ i < hi /\ lo - 1 <= j /\ j < i

\* The elements before i are in order, but for the gap at j + 1, and the element taken
\* out is to precede those after the gap.
Ordered ==
  (failed = {} /\ IsOrder /\ Defined) =>
    /\ stage = "outer" /\ call.op \in Sorts =>
         \A k, m \in lo .. hi - 1 : k < m /\ m < i => ~Precedes(list[m], list[k])
    /\ stage = "compare" =>
         /\ \A k, m \in lo .. i : k < m /\ k # j + 1 /\ m # j + 1 => ~Precedes(list[m], list[k])
         /\ \A m \in lo .. i : m > j + 1 => Precedes(tmp, list[m])

SortInv == Listed /\ InPart /\ KeepsElements /\ StaysInside /\ Ordered /\ SortSorts

LEMMA ElementsKnown ==
  ASSUME CallTyped
  PROVE  /\ Elements \subseteq Items \cup {Null}
         /\ call.op = "sort" => Elements \subseteq Items
         /\ before \in [DOMAIN before -> Elements]
         /\ DOMAIN before = 0 .. Size(before) - 1 /\ Size(before) \in Nat /\ IsFiniteSet(DOMAIN before)
<1>1. call.op \in Calls /\ before \in Lists[call.op]
  BY DEF CallTyped
<1>2. before \in [0 .. Size(before) - 1 -> IF call.op = "sort" THEN Items ELSE Items \cup {Null}]
  BY <1>1, ListsAssumption
<1>3. IsFiniteSet(DOMAIN before)
  BY <1>1, ListsAssumption
<1> QED BY <1>2, <1>3, SizeKnown DEF Elements

\* What does not change during a call.
LEMMA CallStays ==
  ASSUME call' = call, before' = before, order' = order
  PROVE  /\ Elements' = Elements /\ (IsOrder' <=> IsOrder) /\ (Representable' <=> Representable)
         /\ \A x, y : Precedes(x, y)' <=> Precedes(x, y)
<1>1. Elements' = Elements
  BY DEF Elements
<1>2. Compared' = Compared
  BY <1>1 DEF Compared
<1>3. IsOrder' <=> IsOrder
  BY <1>2 DEF IsOrder
<1>4. Representable' <=> Representable
  BY <1>1 DEF Representable, Low, AsInt
<1>5. ASSUME NEW x, NEW y PROVE Precedes(x, y)' <=> Precedes(x, y)
  BY DEF Precedes, CustomLess
<1> QED BY <1>1, <1>3, <1>4, <1>5

LEMMA DefinedStays ==
  ASSUME call' = call, before' = before, order' = order, lo' = lo, hi' = hi, failed' = failed
  PROVE  Defined' <=> Defined
<1>1. IsOrder' <=> IsOrder
  BY CallStays
<1>2. ASSUME NEW x, NEW y PROVE CustomLess(x, y, call.asc)' <=> CustomLess(x, y, call.asc)
  BY DEF CustomLess
<1>3. Consistent' <=> Consistent
  BY <1>1, <1>2 DEF Consistent
<1> QED BY <1>3 DEF Defined

\* What the insertion sorts compare by is an order.
LEMMA ComparedInOrder ==
  ASSUME CallTyped, IsOrder, call.op \in Insertions
  PROVE  \A x, y, z \in Elements :
           Precedes(x, y) => ~Precedes(y, x) /\ (Precedes(x, z) \/ Precedes(z, y))
<1>1. CASE call.op = "sort"
  <2>1. Elements \subseteq Int
    BY <1>1, ElementsKnown, ItemsAssumption
  <2>2. \A x, y : Precedes(x, y) <=> IF call.asc THEN x < y ELSE y < x
    BY <1>1 DEF Precedes
  <2> QED BY <2>1, <2>2
<1>2. CASE call.op = "sortCallback"
  <2>1. Compared = Elements
    BY <1>2 DEF Compared
  <2>2. \A x, y : Precedes(x, y) <=> <<x, y>> \in order
    BY <1>2 DEF Precedes
  <2> QED BY <2>1, <2>2 DEF IsOrder
<1> QED BY <1>1, <1>2 DEF Insertions

\* A list that is another one rearranged has each element as often.
LEMMA Rearranged ==
  ASSUME NEW D, IsFiniteSet(D), NEW l, NEW r, DOMAIN l = D, DOMAIN r = D,
         NEW p \in [D -> D], \A k, m \in D : p[k] = p[m] => k = m,
         \A k \in D : r[k] = l[p[k]], NEW x
  PROVE  Occurrences(r, x) = Occurrences(l, x)
<1>1. p \in Injection(D, D)
  BY Fun_IsInj
<1>2. p \in Surjection(D, D)
  BY <1>1, FS_Injection
<1> DEFINE A == {k \in DOMAIN r : r[k] = x}
           B == {k \in DOMAIN l : l[k] = x}
           q == [k \in A |-> p[k]]
<1>3. q \in [A -> B] /\ \A k, m \in A : q[k] = q[m] => k = m
  OBVIOUS
<1>4. \A m \in B : \E k \in A : q[k] = m
  <2> SUFFICES ASSUME NEW m \in B PROVE \E k \in A : q[k] = m
    OBVIOUS
  <2>1. PICK k \in D : p[k] = m
    BY <1>2, Fun_SurjectionProperties
  <2>2. k \in A
    BY <2>1
  <2> QED BY <2>1, <2>2
<1>5. q \in Bijection(A, B)
  <2>1. q \in Injection(A, B)
    BY <1>3, Fun_IsInj
  <2>2. q \in Surjection(A, B)
    BY <1>3, <1>4, Fun_IsSurj
  <2> QED BY <2>1, <2>2 DEF Bijection
<1>6. IsFiniteSet(A)
  BY FS_Subset
<1>7. Cardinality(B) = Cardinality(A)
  BY <1>5, <1>6, FS_Bijection DEF ExistsBijection
<1> QED BY <1>7 DEF Occurrences

LEMMA SortBegins == ASSUME SortInit PROVE SortInv
<1>1. /\ list = before /\ tmp = Null /\ stage = "call" /\ lo = 0 /\ hi = 0
  BY DEF SortInit
<1>2. CallTyped
  BY CallBegins DEF ReturnsInv
<1>3. Listed
  BY <1>1, <1>2, ElementsKnown DEF Listed
<1>4. InPart /\ KeepsElements /\ StaysInside /\ Ordered /\ SortSorts
  BY <1>1 DEF InPart, KeepsElements, Whole, StaysInside, Ordered, SortSorts
<1> QED BY <1>3, <1>4 DEF SortInv

LEMMA RefuseSorts == ASSUME ReturnsInv, SortInv, Refuse PROVE SortInv'
<1>0. CallTyped /\ Listed /\ KeepsElements /\ stage = "call" /\ list = before /\ lo = 0 /\ hi = 0
  BY DEF ReturnsInv, CallTyped, SortInv, Refuse
<1>1. /\ call' = call /\ before' = before /\ order' = order /\ list' = list
      /\ lo' = lo /\ hi' = hi /\ tmp' = tmp /\ stage' = "done"
  BY DEF Refuse, input, loop
<1>2. Listed'
  BY <1>0, <1>1, CallStays DEF Listed
<1>3. (InPart /\ Ordered)'
  BY <1>1 DEF InPart, Ordered
<1>4. KeepsElements'
  BY <1>0, <1>1 DEF KeepsElements, Whole, Occurrences
<1>5. StaysInside'
  BY <1>0, <1>1 DEF StaysInside
<1>6. SortSorts'
  BY <1>0, <1>1 DEF SortSorts
<1> QED BY <1>2, <1>3, <1>4, <1>5, <1>6 DEF SortInv

\* The part is in the list, if its ends are ints.
LEMMA PartKnown ==
  ASSUME CallTyped, Representable, ~ReturnsAtOnce, list = before,
         NEW b, b = Bounds(call.op, call.start, call.count, Size(list))
  PROVE  0 <= b.lo /\ b.hi <= Size(before)
<1>1. call.op \in {"sort", "sortObjects", "sortCallback", "find", "equals"}
  BY CallsAssumption DEF CallTyped
<1>2. PICK s \in Nat : s = call.start
  BY DEF CallTyped
<1>3. PICK c \in Nat : c = call.count
  BY DEF CallTyped
<1>4. PICK n \in Nat : n = Size(before)
  BY SizeKnown
<1>5. Bits32 \in Nat /\ Bits32 > 0 /\ Bits32 \div 2 \in Nat /\ Bits32 \div 2 <= Bits32
  BY BitsAssumption DEF CallTyped
<1>6. call.op \in Sorts => ~OutOfBounds(call.op, b, n)
  BY <1>4 DEF ReturnsAtOnce
<1>7. CASE call.op \in {"sort", "sortObjects"}
  <2>1. s + c < Bits32 \div 2
    BY <1>2, <1>3, <1>7 DEF Representable
  <2>2. b.lo = AsInt(s) /\ b.hi = AsInt((s + c) % Bits32)
    BY <1>2, <1>3, <1>7 DEF Bounds
  <2>3. (s + c) % Bits32 = s + c
    BY <1>5, <2>1
  <2>4. b.lo = s
    BY <1>5, <2>1, <2>2 DEF AsInt
  <2>5. b.hi = s + c
    BY <1>5, <2>1, <2>2, <2>3 DEF AsInt
  <2>6. ~(b.hi > n)
    BY <1>6, <1>7 DEF OutOfBounds, Sorts
  <2> QED BY <1>4, <2>4, <2>5, <2>6
<1>8. CASE call.op = "sortCallback"
  <2>1. b.lo = s /\ b.hi = CallbackEnd(s, c, n)
    BY <1>2, <1>3, <1>4, <1>8 DEF Bounds
  <2>2. CallbackEnd(s, c, n) <= n
    BY <1>5 DEF CallbackEnd, Least
  <2> QED BY <1>4, <2>1, <2>2
<1>9. CASE call.op = "find"
  BY <1>2, <1>4, <1>9 DEF Bounds
<1>10. CASE call.op = "equals"
  BY <1>4, <1>10 DEF Bounds
<1> QED BY <1>1, <1>7, <1>8, <1>9, <1>10

LEMMA BeginSorts == ASSUME ReturnsInv, Representable, SortInv, Begin PROVE SortInv'
<1>0. CallTyped /\ Listed /\ KeepsElements /\ stage = "call" /\ list = before /\ ~ReturnsAtOnce
  BY DEF ReturnsInv, CallTyped, SortInv, Begin
<1>1. PICK b : b = Bounds(call.op, call.start, call.count, Size(list))
  OBVIOUS
<1>2. /\ call' = call /\ before' = before /\ order' = order /\ list' = list /\ tmp' = tmp
      /\ lo' = b.lo /\ hi' = b.hi /\ i' = (IF call.op \in Sorts THEN b.lo + 1 ELSE b.lo)
      /\ stage' = "outer"
  BY <1>1 DEF Begin, input
<1>3. 0 <= b.lo /\ b.hi <= Size(before) /\ b.lo \in Int /\ b.hi \in Int
  BY <1>0, <1>1, PartKnown, BoundsKnown, SizeKnown
<1>4. Listed'
  BY <1>0, <1>2, CallStays DEF Listed
<1>5. InPart'
  <2>1. call.op \in Sorts => lo' < i'
    BY <1>2, <1>3
  <2> QED BY <1>2, <1>3, <2>1 DEF InPart
<1>6. KeepsElements' /\ StaysInside' /\ SortSorts'
  BY <1>0, <1>2 DEF KeepsElements, Whole, Occurrences, StaysInside, SortSorts
<1>7. Ordered'
  <2>1. call.op \in Sorts => \A k, m \in lo' .. hi' - 1 : ~(k < m /\ m < i')
    BY <1>2, <1>3
  <2> QED BY <1>2, <2>1 DEF Ordered
<1> QED BY <1>4, <1>5, <1>6, <1>7 DEF SortInv

LEMMA TakeOutSorts == ASSUME ReturnsInv, SortInv, TakeOut PROVE SortInv'
<1>0. /\ CallTyped /\ Listed /\ InPart /\ KeepsElements /\ StaysInside /\ Ordered
      /\ stage = "outer" /\ call.op \in Insertions /\ i < hi
  BY DEF ReturnsInv, SortInv, TakeOut
<1>1. /\ call' = call /\ before' = before /\ order' = order /\ list' = list
      /\ lo' = lo /\ hi' = hi /\ i' = i /\ j' = i - 1 /\ tmp' = list[i]
      /\ stage' = "compare" /\ failed' = failed
  BY DEF TakeOut, input, context
<1>2. call.op \in Sorts
  BY <1>0 DEF Insertions, Sorts
<1>3. /\ lo \in Int /\ hi \in Int /\ i \in Int /\ 0 <= lo /\ lo < i /\ hi <= Size(before)
      /\ i \in DOMAIN before /\ Size(before) \in Nat
  <2>1. lo \in Int /\ hi \in Int /\ i \in Int /\ 0 <= lo /\ lo < i /\ hi <= Size(before)
    BY <1>0, <1>2 DEF InPart, CallTyped
  <2>2. Size(before) \in Nat /\ DOMAIN before = 0 .. Size(before) - 1
    BY <1>0, ElementsKnown
  <2> QED BY <1>0, <2>1, <2>2
<1>4. Listed'
  BY <1>0, <1>1, <1>3, CallStays DEF Listed
<1>5. InPart'
  BY <1>0, <1>1, <1>3 DEF InPart
<1>6. Whole' = Whole
  <2>1. Whole = list
    BY <1>0 DEF Whole
  <2>2. Whole' = [list EXCEPT ![i - 1 + 1] = list[i]]
    BY <1>1 DEF Whole
  <2>3. i - 1 + 1 = i
    BY <1>3
  <2>4. [list EXCEPT ![i] = list[i]] = list
    BY <1>0, <1>3 DEF Listed
  <2> QED BY <2>1, <2>2, <2>3, <2>4
<1>7. KeepsElements'
  BY <1>0, <1>1, <1>6 DEF KeepsElements, Occurrences
<1>8. StaysInside' /\ SortSorts'
  BY <1>0, <1>1 DEF StaysInside, SortSorts
<1>9. Ordered'
  <2> SUFFICES ASSUME failed = {}, IsOrder, Defined
               PROVE  /\ \A k, m \in lo .. i : k < m /\ k # i /\ m # i => ~Precedes(list[m], list[k])
                      /\ \A m \in lo .. i : m > i => Precedes(list[i], list[m])
    <3>1. j' + 1 = i
      BY <1>1, <1>3
    <3> QED BY <1>1, <3>1, CallStays, DefinedStays DEF Ordered
  <2>1. \A k, m \in lo .. hi - 1 : k < m /\ m < i => ~Precedes(list[m], list[k])
    BY <1>0, <1>2 DEF Ordered
  <2>2. \A k \in lo .. i : k # i => k \in lo .. hi - 1 /\ k < i
    BY <1>0, <1>3
  <2>3. \A m \in lo .. i : ~(m > i)
    BY <1>3
  <2> QED BY <2>1, <2>2, <2>3
<1> QED BY <1>4, <1>5, <1>7, <1>8, <1>9 DEF SortInv

\* What is known in the middle of an insertion.
LEMMA Inserting ==
  ASSUME ReturnsInv, SortInv, stage = "compare"
  PROVE  /\ CallTyped /\ Listed /\ KeepsElements /\ StaysInside /\ Ordered
         /\ call.op \in Insertions /\ call.op \in Sorts
         /\ lo \in Int /\ hi \in Int /\ i \in Int /\ j \in Int /\ Size(before) \in Nat
         /\ 0 <= lo /\ hi <= Size(before) /\ lo < i /\ i < hi /\ lo - 1 <= j /\ j < i
         /\ list \in [DOMAIN before -> Elements] /\ tmp \in Elements
         /\ DOMAIN before = 0 .. Size(before) - 1
         /\ j + 1 \in DOMAIN before /\ i \in DOMAIN before
         /\ j >= lo => j \in DOMAIN before /\ list[j] \in Elements
<1>1. CallTyped /\ Listed /\ InPart /\ KeepsElements /\ StaysInside /\ Ordered
  BY DEF ReturnsInv, SortInv
<1>2. call.op \in Insertions /\ call.op \in Sorts
  BY <1>1 DEF CallTyped, Insertions, Sorts
<1>3. lo \in Int /\ hi \in Int /\ i \in Int /\ j \in Int
  BY <1>1 DEF CallTyped
<1>4. 0 <= lo /\ hi <= Size(before) /\ lo < i /\ i < hi /\ lo - 1 <= j /\ j < i
  BY <1>1 DEF InPart
<1>5. Size(before) \in Nat /\ DOMAIN before = 0 .. Size(before) - 1
  BY <1>1, ElementsKnown
<1>6. list \in [DOMAIN before -> Elements] /\ tmp \in Elements
  BY <1>1 DEF Listed
<1>7. j + 1 \in DOMAIN before /\ i \in DOMAIN before /\ (j >= lo => j \in DOMAIN before)
  BY <1>3, <1>4, <1>5
<1> QED BY <1>1, <1>2, <1>3, <1>4, <1>5, <1>6, <1>7

\* Elements after the one that is taken out, and greater than it, move up one place.
LEMMA ShiftSorts ==
  ASSUME ReturnsInv, SortInv, stage = "compare", j >= lo, Shift,
         call' = call, before' = before, order' = order,
         failed' = {} => failed = {} /\ Precedes(tmp, list[j])
  PROVE  SortInv'
<1>0. /\ CallTyped /\ Listed /\ KeepsElements /\ StaysInside /\ Ordered
      /\ call.op \in Insertions /\ call.op \in Sorts
      /\ lo \in Int /\ hi \in Int /\ i \in Int /\ j \in Int /\ Size(before) \in Nat
      /\ 0 <= lo /\ hi <= Size(before) /\ lo < i /\ i < hi /\ j < i
      /\ list \in [DOMAIN before -> Elements] /\ tmp \in Elements
      /\ DOMAIN before = 0 .. Size(before) - 1
      /\ j + 1 \in DOMAIN before /\ j \in DOMAIN before /\ list[j] \in Elements
  BY Inserting
<1>1. /\ list' = [list EXCEPT ![j + 1] = list[j]] /\ j' = j - 1
      /\ lo' = lo /\ hi' = hi /\ i' = i /\ tmp' = tmp /\ stage' = "compare"
  BY DEF Shift
<1>2. j + 1 # j /\ j' + 1 = j
  BY <1>0, <1>1
<1>3. list' \in [DOMAIN before -> Elements]
  BY <1>0, <1>1
<1>4. Listed'
  BY <1>0, <1>1, <1>3, CallStays DEF Listed
<1>5. InPart'
  <2>1. lo - 1 <= j - 1 /\ j - 1 < i
    BY <1>0
  <2> QED BY <1>0, <1>1, <2>1 DEF InPart
<1>6. KeepsElements'
  <2> DEFINE p == [k \in DOMAIN before |-> IF k = j THEN j + 1 ELSE IF k = j + 1 THEN j ELSE k]
  <2>1. PICK l : l = [list EXCEPT ![j + 1] = tmp]
    OBVIOUS
  <2>2. PICK r : r = [list' EXCEPT ![j] = tmp]
    OBVIOUS
  <2>3. Whole = l /\ Whole' = r
    BY <1>1, <1>2, <2>1, <2>2 DEF Whole
  <2>4. DOMAIN l = DOMAIN before /\ DOMAIN r = DOMAIN before
    BY <1>0, <1>3, <2>1, <2>2
  <2>5. p \in [DOMAIN before -> DOMAIN before] /\ \A k, m \in DOMAIN before : p[k] = p[m] => k = m
    BY <1>0, <1>2
  <2>6. ASSUME NEW k \in DOMAIN before PROVE r[k] = l[p[k]]
    <3>1. CASE k = j
      BY <1>0, <1>2, <1>3, <2>1, <2>2, <3>1
    <3>2. CASE k = j + 1
      BY <1>0, <1>1, <1>2, <1>3, <2>1, <2>2, <3>2
    <3>3. CASE k # j /\ k # j + 1
      BY <1>0, <1>1, <1>3, <2>1, <2>2, <3>3
    <3> QED BY <3>1, <3>2, <3>3
  <2>7. IsFiniteSet(DOMAIN before)
    BY <1>0, ElementsKnown
  <2>8. \A x : Occurrences(r, x) = Occurrences(l, x)
    <3> HIDE DEF p
    <3> QED BY <2>4, <2>5, <2>6, <2>7, Rearranged
  <2>9. \A x \in Items \cup {Null} : Occurrences(l, x) = Occurrences(before, x)
    BY <1>0, <2>3 DEF KeepsElements
  <2>10. \A x \in Items \cup {Null} : Occurrences(r, x) = Occurrences(before, x)
    BY <2>8, <2>9
  <2>11. \A x : Occurrences(Whole, x)' = Occurrences(r, x) /\ Occurrences(before, x)' = Occurrences(before, x)
    BY <2>3 DEF Occurrences
  <2> QED BY <2>10, <2>11 DEF KeepsElements
<1>7. StaysInside'
  <2>1. \A k \in DOMAIN list : k < lo \/ k >= hi => list[k] = before[k]
    BY <1>0 DEF StaysInside
  <2>2. lo <= j + 1 /\ j + 1 < hi
    BY <1>0
  <2>3. \A k \in DOMAIN list : k # j + 1 => list'[k] = list[k]
    BY <1>0, <1>1
  <2>4. DOMAIN list' = DOMAIN list
    BY <1>0, <1>3
  <2> QED BY <1>0, <1>1, <2>1, <2>2, <2>3, <2>4 DEF StaysInside
<1>8. Ordered'
  <2> SUFFICES ASSUME failed = {}, IsOrder, Precedes(tmp, list[j])
               PROVE  /\ \A k, m \in lo .. i : k < m /\ k # j /\ m # j => ~Precedes(list'[m], list'[k])
                      /\ \A m \in lo .. i : m > j => Precedes(tmp, list'[m])
    BY <1>1, <1>2, CallStays DEF Ordered
  <2>1. /\ \A k, m \in lo .. i : k < m /\ k # j + 1 /\ m # j + 1 => ~Precedes(list[m], list[k])
        /\ \A m \in lo .. i : m > j + 1 => Precedes(tmp, list[m])
    BY <1>0 DEF Ordered, Defined, Insertions
  <2>2. list'[j + 1] = list[j] /\ \A k \in lo .. i : k # j + 1 => list'[k] = list[k]
    <3>1. \A k \in lo .. i : k \in DOMAIN before
      BY <1>0
    <3> QED BY <1>0, <1>1, <3>1
  <2>3. ASSUME NEW k \in lo .. i, NEW m \in lo .. i, k < m, k # j, m # j
        PROVE  ~Precedes(list'[m], list'[k])
    <3>1. CASE k = j + 1
      <4>1. j \in lo .. i /\ j < m /\ m # j + 1
        BY <1>0, <2>3, <3>1
      <4> QED BY <1>2, <2>1, <2>2, <3>1, <4>1
    <3>2. CASE m = j + 1
      <4>1. j \in lo .. i /\ k < j /\ k # j + 1
        BY <1>0, <2>3, <3>2
      <4> QED BY <1>2, <2>1, <2>2, <3>2, <4>1
    <3>3. CASE k # j + 1 /\ m # j + 1
      BY <2>1, <2>2, <2>3, <3>3
    <3> QED BY <3>1, <3>2, <3>3
  <2>4. ASSUME NEW m \in lo .. i, m > j PROVE Precedes(tmp, list'[m])
    <3>1. CASE m = j + 1
      BY <2>2, <3>1
    <3>2. CASE m # j + 1
      <4>1. m > j + 1
        BY <1>0, <2>4, <3>2
      <4> QED BY <2>1, <2>2, <3>2, <4>1
    <3> QED BY <3>1, <3>2
  <2> QED BY <2>3, <2>4
<1>9. SortSorts'
  BY <1>1 DEF SortSorts
<1> QED BY <1>4, <1>5, <1>6, <1>7, <1>8, <1>9 DEF SortInv

\* The element taken out goes before those that are greater, and after the others.
LEMMA PutBackSorts ==
  ASSUME ReturnsInv, SortInv, stage = "compare", PutBack,
         call' = call, before' = before, order' = order,
         failed' = {} => failed = {} /\ (j >= lo => ~Precedes(tmp, list[j]))
  PROVE  SortInv'
<1>0. /\ CallTyped /\ Listed /\ KeepsElements /\ StaysInside /\ Ordered
      /\ call.op \in Insertions /\ call.op \in Sorts
      /\ lo \in Int /\ hi \in Int /\ i \in Int /\ j \in Int /\ Size(before) \in Nat
      /\ 0 <= lo /\ hi <= Size(before) /\ lo < i /\ i < hi /\ lo - 1 <= j /\ j < i
      /\ list \in [DOMAIN before -> Elements] /\ tmp \in Elements
      /\ DOMAIN before = 0 .. Size(before) - 1
      /\ j + 1 \in DOMAIN before /\ (j >= lo => j \in DOMAIN before /\ list[j] \in Elements)
  BY Inserting
<1>1. /\ list' = [list EXCEPT ![j + 1] = tmp] /\ i' = i + 1
      /\ lo' = lo /\ hi' = hi /\ j' = j /\ tmp' = tmp /\ stage' = "outer"
  BY DEF PutBack
<1>2. list' \in [DOMAIN before -> Elements]
  BY <1>0, <1>1
<1>3. Listed'
  BY <1>0, <1>1, <1>2, CallStays DEF Listed
<1>4. InPart'
  <2>1. lo < i + 1
    BY <1>0
  <2> QED BY <1>0, <1>1, <2>1 DEF InPart
<1>5. KeepsElements'
  <2>1. Whole' = Whole
    BY <1>1 DEF Whole
  <2> QED BY <1>0, <2>1 DEF KeepsElements, Occurrences
<1>6. StaysInside'
  <2>1. \A k \in DOMAIN list : k < lo \/ k >= hi => list[k] = before[k]
    BY <1>0 DEF StaysInside
  <2>2. lo <= j + 1 /\ j + 1 < hi
    BY <1>0
  <2>3. \A k \in DOMAIN list : k # j + 1 => list'[k] = list[k]
    BY <1>0, <1>1
  <2>4. DOMAIN list' = DOMAIN list
    BY <1>0, <1>2
  <2> QED BY <1>0, <1>1, <2>1, <2>2, <2>3, <2>4 DEF StaysInside
<1>7. Ordered'
  <2> SUFFICES ASSUME failed = {}, IsOrder, j >= lo => ~Precedes(tmp, list[j]),
                      NEW k \in lo .. hi - 1, NEW m \in lo .. hi - 1, k < m, m < i + 1
               PROVE  ~Precedes(list'[m], list'[k])
    BY <1>1, CallStays DEF Ordered
  <2>1. /\ \A a, b \in lo .. i : a < b /\ a # j + 1 /\ b # j + 1 => ~Precedes(list[b], list[a])
        /\ \A b \in lo .. i : b > j + 1 => Precedes(tmp, list[b])
    BY <1>0 DEF Ordered, Defined, Insertions
  <2>2. /\ k \in lo .. i /\ m \in lo .. i /\ k \in DOMAIN before /\ m \in DOMAIN before
        /\ list[k] \in Elements /\ list[m] \in Elements
    BY <1>0
  <2>3. list'[j + 1] = tmp /\ \A a \in DOMAIN before : a # j + 1 => list'[a] = list[a]
    BY <1>0, <1>1
  <2>4. \A x, y, z \in Elements : Precedes(x, y) => ~Precedes(y, x) /\ (Precedes(x, z) \/ Precedes(z, y))
    BY <1>0, ComparedInOrder
  <2>5. CASE k = j + 1
    <3>1. Precedes(tmp, list[m]) /\ m # j + 1
      BY <1>0, <2>1, <2>2, <2>5
    <3> QED BY <1>0, <2>2, <2>3, <2>4, <2>5, <3>1
  <2>6. CASE m = j + 1
    <3>1. k <= j /\ j >= lo /\ j \in lo .. i /\ j # j + 1 /\ k # j + 1
      BY <1>0, <2>2, <2>6
    <3>2. k < j => ~Precedes(list[j], list[k])
      BY <2>1, <2>2, <3>1
    <3>3. ~Precedes(tmp, list[k])
      <4>1. CASE k = j
        BY <3>1, <4>1
      <4>2. CASE k # j
        <5>1. ~Precedes(list[j], list[k])
          BY <1>0, <2>2, <3>1, <3>2, <4>2
        <5> QED BY <1>0, <2>2, <2>4, <3>1, <5>1
      <4> QED BY <4>1, <4>2
    <3> QED BY <2>2, <2>3, <2>6, <3>1, <3>3
  <2>7. CASE k # j + 1 /\ m # j + 1
    BY <2>1, <2>2, <2>3, <2>7
  <2> QED BY <2>5, <2>6, <2>7
<1>8. SortSorts'
  BY <1>1 DEF SortSorts
<1> QED BY <1>3, <1>4, <1>5, <1>6, <1>7, <1>8 DEF SortInv

LEMMA InsertionsSort ==
  ASSUME ReturnsInv, Representable, SortInv,
         ComparePrimitives \/ CompareByCallback \/ ReachedStart
  PROVE  SortInv'
<1>1. stage = "compare" /\ call' = call /\ before' = before /\ order' = order
  BY DEF ComparePrimitives, CompareByCallback, ReachedStart, input
<1>2. tmp \in Elements /\ (j >= lo => list[j] \in Elements) /\ lo \in Int /\ j \in Int
  BY <1>1, Inserting
<1>3. CASE ComparePrimitives
  <2>1. call.op = "sort" /\ failed' = failed
    BY <1>3 DEF ComparePrimitives, context
  <2>2. j >= lo => (Less(tmp, list[j], call.asc) <=> Precedes(tmp, list[j]))
    BY <1>2, <2>1 DEF Representable, Less, Precedes
  <2>3. CASE j >= lo /\ Less(tmp, list[j], call.asc)
    <3>1. Shift
      BY <1>3, <2>3 DEF ComparePrimitives
    <3> QED BY <1>1, <2>1, <2>2, <2>3, <3>1, ShiftSorts
  <2>4. CASE ~(j >= lo /\ Less(tmp, list[j], call.asc))
    <3>1. PutBack
      BY <1>3, <2>4 DEF ComparePrimitives
    <3> QED BY <1>1, <2>1, <2>2, <2>4, <3>1, PutBackSorts
  <2> QED BY <2>3, <2>4
<1>4. CASE CompareByCallback
  <2>1. call.op = "sortCallback" /\ j >= lo
    BY <1>4 DEF CompareByCallback
  <2>2. Precedes(tmp, list[j]) <=> <<tmp, list[j]>> \in order
    BY <2>1 DEF Precedes
  <2>3. CASE Execute(<<tmp, list[j]>> \in order) /\ status' = "finished" /\ Shift
    <3>1. failed' = failed /\ Precedes(tmp, list[j])
      BY <2>2, <2>3, FailuresAssumption DEF Execute
    <3> QED BY <1>1, <2>1, <2>3, <3>1, ShiftSorts
  <2>4. CASE Execute(<<tmp, list[j]>> \notin order) /\ PutBack
    <3>1. failed' = {} => failed = {} /\ ~Precedes(tmp, list[j])
      BY <2>2, <2>4 DEF Execute
    <3> QED BY <1>1, <2>4, <3>1, PutBackSorts
  <2> QED BY <1>4, <2>3, <2>4 DEF CompareByCallback
<1>5. CASE ReachedStart
  <2>1. j < lo /\ PutBack /\ failed' = failed
    BY <1>5 DEF ReachedStart, context
  <2>2. ~(j >= lo)
    BY <1>2, <2>1
  <2> QED BY <1>1, <2>1, <2>2, PutBackSorts
<1> QED BY <1>3, <1>4, <1>5

\* std::sort rearranges, and of an order leaves an arrangement by it.
LEMMA StdSorts == ASSUME ReturnsInv, SortInv, StdSort PROVE SortInv'
<1>0. /\ CallTyped /\ Listed /\ InPart /\ KeepsElements /\ StaysInside
      /\ stage = "outer" /\ call.op = "sortObjects" /\ i < hi
  BY DEF ReturnsInv, SortInv, StdSort
<1>1. /\ call' = call /\ before' = before /\ order' = order /\ tmp' = tmp
      /\ lo' = lo /\ hi' = hi /\ i' = hi /\ stage' \in {"outer", "undefined"}
  BY <1>0 DEF StdSort, input
<1>a. CASE stage' = "undefined"
  <2>1. list' = list
    BY <1>0, <1>a DEF StdSort
  <2>2. Listed' /\ KeepsElements' /\ StaysInside'
    BY <1>0, <1>1, <1>a, <2>1, CallStays DEF Listed, KeepsElements, Whole, Occurrences, StaysInside
  <2>3. InPart' /\ Ordered' /\ SortSorts'
    BY <1>a DEF InPart, Ordered, SortSorts
  <2> QED BY <2>2, <2>3 DEF SortInv
<1>b. CASE stage' = "outer"
  <2>2. PICK r \in Arrangements :
          list' = r /\ (Consistent /\ status' = "finished" => Arranged(r))
    BY <1>b, FailuresAssumption DEF StdSort, Execute
  <2>3. PICK p \in [lo .. hi - 1 -> lo .. hi - 1] :
          /\ \A k, m \in lo .. hi - 1 : p[k] = p[m] => k = m
          /\ r = [k \in DOMAIN list |-> IF lo <= k /\ k < hi THEN list[p[k]] ELSE list[k]]
    BY <2>2 DEF Arrangements
  <2>4. /\ lo \in Int /\ hi \in Int /\ i \in Int /\ 0 <= lo /\ hi <= Size(before) /\ lo < i
        /\ Size(before) \in Nat /\ DOMAIN before = 0 .. Size(before) - 1
        /\ list \in [DOMAIN before -> Elements]
    <3>1. lo \in Int /\ hi \in Int /\ i \in Int /\ 0 <= lo /\ hi <= Size(before) /\ lo < i
      BY <1>0 DEF CallTyped, InPart, Sorts
    <3>2. Size(before) \in Nat /\ DOMAIN before = 0 .. Size(before) - 1
      BY <1>0, ElementsKnown
    <3>3. list \in [DOMAIN before -> Elements]
      BY <1>0 DEF Listed
    <3> QED BY <3>1, <3>2, <3>3
  <2>5. \A k \in DOMAIN before : lo <= k /\ k < hi <=> k \in lo .. hi - 1
    BY <2>4
  <2>6. \A k \in lo .. hi - 1 : k \in DOMAIN before /\ p[k] \in DOMAIN before /\ p[k] \in lo .. hi - 1
    BY <2>4
  <2>7. r \in [DOMAIN before -> Elements]
    BY <2>3, <2>4, <2>5, <2>6
  <2>8. Listed'
    BY <1>0, <1>1, <2>2, <2>7, CallStays DEF Listed
  <2>9. InPart'
    BY <1>0, <1>1, <2>4 DEF InPart
  <2>10. KeepsElements'
    <3> DEFINE q == [k \in DOMAIN before |-> IF k \in lo .. hi - 1 THEN p[k] ELSE k]
    <3>1. q \in [DOMAIN before -> DOMAIN before]
      BY <2>6
    <3>2. \A k, m \in DOMAIN before : q[k] = q[m] => k = m
      BY <2>3, <2>6
    <3>3. \A k \in DOMAIN before : r[k] = list[q[k]]
      BY <2>3, <2>4, <2>5
    <3>4. IsFiniteSet(DOMAIN before)
      BY <1>0, ElementsKnown
    <3>5. DOMAIN list = DOMAIN before /\ DOMAIN r = DOMAIN before
      BY <2>4, <2>7
    <3>6. \A x : Occurrences(r, x) = Occurrences(list, x)
      <4> HIDE DEF q
      <4> QED BY <3>1, <3>2, <3>3, <3>4, <3>5, Rearranged
    <3>7. Whole = list /\ Whole' = r
      BY <1>0, <1>1, <2>2 DEF Whole
    <3>8. \A x \in Items \cup {Null} : Occurrences(r, x) = Occurrences(before, x)
      BY <1>0, <3>6, <3>7 DEF KeepsElements
    <3>9. \A x : Occurrences(Whole, x)' = Occurrences(r, x) /\ Occurrences(before, x)' = Occurrences(before, x)
      BY <1>1, <3>7 DEF Occurrences
    <3> QED BY <3>8, <3>9 DEF KeepsElements
  <2>11. StaysInside'
    <3>1. \A k \in DOMAIN before : k < lo \/ k >= hi => ~(lo <= k /\ k < hi)
      BY <2>4
    <3>2. \A k \in DOMAIN before : k < lo \/ k >= hi => r[k] = list[k]
      BY <2>3, <2>4, <3>1
    <3>3. \A k \in DOMAIN before : k < lo \/ k >= hi => list[k] = before[k]
      BY <1>0, <2>4 DEF StaysInside
    <3>4. DOMAIN list' = DOMAIN before
      BY <2>2, <2>7
    <3> QED BY <1>1, <2>2, <3>2, <3>3, <3>4 DEF StaysInside
  <2>12. Ordered'
    <3> SUFFICES ASSUME failed' = {}, IsOrder, Defined', NEW k \in lo .. hi - 1, NEW m \in lo .. hi - 1, k < m
                 PROVE  ~Precedes(r[m], r[k])
      BY <1>1, <2>2, CallStays DEF Ordered
    <3>1. \E answer : Execute(answer)
      BY DEF StdSort
    <3>2. status' = "finished"
      BY <3>1 DEF Execute
    <3>a. Consistent
      <4>1. Consistent'
        BY <1>0, <1>1 DEF Defined
      <4>2. ASSUME NEW x, NEW y PROVE CustomLess(x, y, call.asc)' <=> CustomLess(x, y, call.asc)
        BY <1>1 DEF CustomLess
      <4> QED BY <1>1, <4>1, <4>2, CallStays DEF Consistent
    <3>3. r[k] # r[m] => ~CustomLess(r[m], r[k], call.asc)
      BY <2>2, <3>a, <3>2 DEF Arranged
    <3> QED BY <1>0, <3>3 DEF Precedes
  <2>13. SortSorts'
    BY <1>1 DEF SortSorts
  <2> QED BY <2>8, <2>9, <2>10, <2>11, <2>12, <2>13 DEF SortInv
<1> QED BY <1>1, <1>a, <1>b

LEMMA EqualsSorts == ASSUME ReturnsInv, SortInv, Equals PROVE SortInv'
<1>0. call.op \notin Sorts /\ stage = "outer" /\ UNCHANGED <<call, before, order, list, lo, hi, tmp, stage>>
  BY DEF Equals, input
<1>1. Listed' /\ InPart' /\ KeepsElements' /\ StaysInside' /\ Ordered' /\ SortSorts'
  BY <1>0, CallStays DEF SortInv, Listed, InPart, KeepsElements, Whole, Occurrences,
                         StaysInside, Ordered, SortSorts
<1> QED BY <1>1 DEF SortInv

LEMMA FinishSorts == ASSUME ReturnsInv, SortInv, Finish PROVE SortInv'
<1>0. CallTyped /\ Listed /\ KeepsElements /\ StaysInside /\ Ordered /\ stage = "outer" /\ i >= hi
  BY DEF ReturnsInv, SortInv, Finish
<1>1. /\ stage' = "done" /\ failed' = failed
      /\ UNCHANGED <<call, before, order, list, lo, hi, i, tmp>>
  BY DEF Finish, input, loop
<1>2. Listed' /\ InPart' /\ StaysInside' /\ Ordered'
  BY <1>0, <1>1, CallStays DEF Listed, InPart, StaysInside, Ordered
<1>3. KeepsElements'
  BY <1>0, <1>1 DEF KeepsElements, Whole, Occurrences
<1>4. SortSorts'
  <2> SUFFICES ASSUME call.op \in Sorts, failed = {}, IsOrder, Defined,
                      NEW k \in lo .. hi - 1, NEW m \in lo .. hi - 1, k < m
               PROVE  ~Precedes(list[m], list[k])
    BY <1>1, CallStays, DefinedStays DEF SortSorts
  <2>1. m < i
    BY <1>0 DEF CallTyped
  <2> QED BY <1>0, <2>1 DEF Ordered
<1> QED BY <1>2, <1>3, <1>4 DEF SortInv

\* The insertion sorts keep what they have passed in order and lose nothing, whatever is
\* compared and by what, in the part of the list they were told.
THEOREM SortInvariant == SortSpec => [](Representable => SortInv)
<1>1. SortInit => (Representable => SortInv)
  BY SortBegins
<1>2. ReturnsInv /\ (Representable => SortInv) /\ [SortNext]_sortVars => (Representable => SortInv)'
  <2>0. ASSUME [SortNext]_sortVars PROVE call' = call /\ before' = before /\ order' = order
    BY <2>0 DEF SortNext, Refuse, Begin, TakeOut, ComparePrimitives, CompareByCallback,
                ReachedStart, StdSort, Equals, Finish, sortVars, input
  <2>1. ASSUME ReturnsInv, Representable, SortInv, SortNext PROVE SortInv'
    BY <2>1, RefuseSorts, BeginSorts, TakeOutSorts, InsertionsSort, StdSorts, EqualsSorts,
       FinishSorts DEF SortNext
  <2>2. ASSUME SortInv, UNCHANGED sortVars PROVE SortInv'
    <3>1. UNCHANGED <<call, before, order, list, lo, hi, i, j, tmp, stage, failed, raised>>
      BY <2>2 DEF sortVars, input, loop, context
    <3>2. Listed' /\ InPart' /\ StaysInside'
      BY <2>2, <3>1, CallStays DEF SortInv, Listed, InPart, StaysInside
    <3>3. KeepsElements'
      BY <2>2, <3>1 DEF SortInv, KeepsElements, Whole, Occurrences
    <3>4. Ordered' /\ SortSorts'
      BY <2>2, <3>1, CallStays, DefinedStays DEF SortInv, Ordered, SortSorts
    <3> QED BY <3>2, <3>3, <3>4 DEF SortInv
  <2> QED BY <2>0, <2>1, <2>2, CallStays
<1> QED BY <1>1, <1>2, CallInvariant, PTL DEF SortSpec

\* A sort leaves its part in order, by whatever order its comparisons answer, and nothing
\* lost, doubled or moved outside the part: an insertion sort even if they answer at
\* random or fail, std::sort, which is taken to sort by an order, if they do not.
THEOREM SortsRight == SortSpec => [](Representable => SortRight)
<1>1. ReturnsInv /\ SortInv => SortRight
  <2> SUFFICES ASSUME ReturnsInv, SortInv PROVE SortRight
    OBVIOUS
  <2>1. CallTyped /\ ContextHeld /\ FindSoFar /\ EqualsSoFar /\ Listed /\ InPart
    BY DEF ReturnsInv, SortInv
  <2>2. /\ Elements \subseteq Items \cup {Null} /\ Size(before) \in Nat
        /\ DOMAIN list = DOMAIN before /\ list \in [DOMAIN before -> Elements]
    BY <2>1, ElementsKnown DEF Listed
  <2>3. DOMAIN list = DOMAIN before /\ (\A k \in DOMAIN list : list[k] \in Items \cup {Null})
        /\ tmp \in Items \cup {Null}
    BY <2>1, <2>2 DEF Listed
  <2>4. Size(list) = Size(before)
    BY <2>2 DEF Size
  <2>5. depth \in 0 .. 1 /\ requested \in 0 .. 1
    BY <2>1 DEF ContextHeld
  <2>6. {nested, aborted, raised} \subseteq BOOLEAN
    BY <2>1, Zenon DEF CallTyped
  <2>7. result \in (Nothing .. Size(list)) \cup {0, 1}
    <3>1. call.op \in Sorts \/ call.op = "find" \/ call.op = "equals"
      BY <2>1, CallsAssumption DEF CallTyped, Sorts
    <3>2. call.op \in Sorts => result = Nothing
      BY <2>1, Zenon DEF CallTyped
    <3>3. call.op = "find" => result \in Nothing .. Size(before) - 1
      BY <2>1, Zenon DEF FindSoFar
    <3>4. call.op = "equals" => result \in {Nothing, 0, 1}
      BY <2>1, Zenon DEF EqualsSoFar
    <3> QED BY <2>2, <2>4, <3>1, <3>2, <3>3, <3>4 DEF Nothing
  <2>8. SortTyped
    BY <2>1, <2>3, <2>5, <2>6, <2>7, Zenon DEF SortTyped, CallTyped
  <2>9. NoInvalidItem
    BY <2>1, <2>4 DEF InPart, NoInvalidItem
  <2>10. SortKeepsElements /\ SortStaysInside
    BY DEF SortInv, KeepsElements, StaysInside, SortKeepsElements, SortStaysInside
  <2> QED BY <2>8, <2>9, <2>10 DEF SortInv, SortRight
<1> QED BY <1>1, CallInvariant, SortInvariant, PTL

-----------------------------------------------------------------------------
(* How often a sequence uses an object.                                     *)
UsesAt(o, s) == {k \in DOMAIN s : s[k] = o}

\* A bijection between the places of two sequences that use an object.
LEMMA UsesIsNat ==
  ASSUME NEW S, NEW s \in Seq(S), NEW o
  PROVE  IsFiniteSet(UsesAt(o, s)) /\ Uses(o, s) \in Nat /\ Uses(o, s) = Cardinality(UsesAt(o, s))
<1>1. PICK n \in Nat : DOMAIN s = 1 .. n
  BY LenProperties
<1>2. IsFiniteSet(1 .. n)
  BY <1>1, FS_Interval
<1>3. UsesAt(o, s) \in SUBSET (1 .. n)
  BY <1>1 DEF UsesAt
<1>4. IsFiniteSet(UsesAt(o, s))
  BY <1>2, <1>3, FS_Subset
<1> QED BY <1>4, FS_CardinalityType DEF Uses, UsesAt

\* Nothing is used by a sequence without it.
LEMMA NotUsed ==
  ASSUME NEW S, NEW s \in Seq(S), NEW o, \A k \in 1 .. Len(s) : s[k] # o
  PROVE  Uses(o, s) = 0
<1>1. DOMAIN s = 1 .. Len(s)
  BY LenProperties
<1>2. {k \in DOMAIN s : s[k] = o} = {}
  BY <1>1
<1> QED BY <1>2, FS_EmptySet DEF Uses

LEMMA NoneUsed ==
  ASSUME NEW o
  PROVE  Uses(o, <<>>) = 0
<1>1. {k \in DOMAIN <<>> : <<>>[k] = o} = {}
  OBVIOUS
<1> QED BY <1>1, FS_EmptySet DEF Uses

\* The uses of two sequences add up.
LEMMA UsesOfConcat ==
  ASSUME NEW S, NEW s \in Seq(S), NEW t \in Seq(S), NEW o
  PROVE  Uses(o, s \o t) = Uses(o, s) + Uses(o, t)
<1>1. PICK m \in Nat : m = Len(s) /\ DOMAIN s = 1 .. m
  BY LenProperties
<1>2. PICK n \in Nat : n = Len(t) /\ DOMAIN t = 1 .. n
  BY LenProperties
<1> DEFINE A == UsesAt(o, s)
           B == UsesAt(o, t)
           C == {k \in m + 1 .. m + n : (s \o t)[k] = o}
<1>3. /\ s \o t \in Seq(S) /\ DOMAIN (s \o t) = 1 .. m + n
      /\ \A k \in 1 .. m + n : (s \o t)[k] = IF k <= m THEN s[k] ELSE t[k - m]
  <2>1. s \o t \in Seq(S) /\ Len(s \o t) = m + n
    BY <1>1, <1>2, ConcatProperties
  <2>2. DOMAIN (s \o t) = 1 .. m + n
    BY <2>1, LenProperties
  <2> QED BY <1>1, <1>2, <2>1, <2>2, ConcatProperties
<1>4. UsesAt(o, s \o t) = A \cup C
  BY <1>1, <1>3 DEF UsesAt
<1>5. A \cap C = {}
  BY <1>1 DEF UsesAt
<1>6. IsFiniteSet(A) /\ IsFiniteSet(B) /\ IsFiniteSet(UsesAt(o, s \o t))
  BY <1>3, UsesIsNat
<1>7. IsFiniteSet(C) /\ Cardinality(C) = Cardinality(B)
  <2> DEFINE f == [k \in B |-> m + k]
  <2>1. f \in [B -> C]
    BY <1>1, <1>2, <1>3 DEF UsesAt
  <2>2. \A q, k \in B : f[q] = f[k] => q = k
    BY <1>1, <1>2 DEF UsesAt
  <2>3. \A c \in C : \E k \in B : f[k] = c
    <3> SUFFICES ASSUME NEW c \in C PROVE c - m \in B /\ f[c - m] = c
      OBVIOUS
    <3>1. c \in m + 1 .. m + n /\ (s \o t)[c] = o
      OBVIOUS
    <3>2. c - m \in 1 .. n /\ t[c - m] = o
      BY <1>3, <3>1
    <3> QED BY <1>1, <1>2, <3>1, <3>2 DEF UsesAt
  <2>4. f \in Bijection(B, C)
    BY <2>1, <2>2, <2>3 DEF Bijection, Injection, Surjection, IsInjective
  <2> HIDE DEF C, B, f
  <2> QED BY <1>6, <2>4, FS_Bijection DEF ExistsBijection
<1> HIDE DEF C, B, A
<1>8. Cardinality(A \cup C) = Cardinality(A) + Cardinality(C) - Cardinality(A \cap C)
  BY <1>6, <1>7, FS_Union
<1>9. Cardinality(A) \in Nat /\ Cardinality(C) \in Nat /\ Cardinality(A \cap C) = 0
  BY <1>5, <1>6, <1>7, FS_CardinalityType, FS_EmptySet
<1>10. Uses(o, s \o t) = Cardinality(A \cup C) /\ Uses(o, s) = Cardinality(A) /\ Uses(o, t) = Cardinality(B)
  BY <1>4 DEF Uses, UsesAt, A, B
<1> QED BY <1>7, <1>8, <1>9, <1>10

\* What is before some places of a sequence, p them and behind them.
Before(s, p) == SubSeq(s, 1, p)
Middle(s, p, n) == SubSeq(s, p + 1, p + n)
Behind(s, p, n) == SubSeq(s, p + n + 1, Len(s))

Rejoined(s, p, n) == (Before(s, p) \o Middle(s, p, n)) \o Behind(s, p, n)

LEMMA PartsAreSequences ==
  ASSUME NEW S, NEW s \in Seq(S), NEW p \in Nat, NEW n \in Nat, p + n <= Len(s)
  PROVE  /\ Before(s, p) \in Seq(S) /\ Len(Before(s, p)) = p
         /\ Middle(s, p, n) \in Seq(S) /\ Len(Middle(s, p, n)) = n
         /\ Behind(s, p, n) \in Seq(S) /\ Len(Behind(s, p, n)) = Len(s) - p - n
         /\ Rejoined(s, p, n) = s
<1>1. PICK m \in Nat : m = Len(s)
  BY LenProperties
<1>2. \A k \in 1 .. m : s[k] \in S
  BY <1>1, ElementOfSeq
<1> DEFINE x == SubSeq(s, 1, p)
           y == SubSeq(s, p + 1, p + n)
           z == SubSeq(s, p + n + 1, m)
<1>3. x \in Seq(S) /\ Len(x) = p
  BY <1>1, <1>2, SubSeqProperties
<1>4. y \in Seq(S) /\ Len(y) = n
  BY <1>1, <1>2, SubSeqProperties
<1>5. z \in Seq(S) /\ Len(z) = m - p - n
  BY <1>1, <1>2, SubSeqProperties
<1>6. x \o y = SubSeq(s, 1, p + n)
  <2>1. 1 \in 1 .. Len(s) + 1 /\ p \in 1 - 1 .. Len(s) /\ p + n \in p .. Len(s)
    BY <1>1
  <2> QED BY <2>1, ConcatAdjacentSubSeq
<1>7. (x \o y) \o z = s
  <2>1. 1 \in 1 .. Len(s) + 1 /\ p + n \in 1 - 1 .. Len(s) /\ Len(s) \in p + n .. Len(s)
    BY <1>1
  <2>2. SubSeq(s, 1, p + n) \o SubSeq(s, p + n + 1, Len(s)) = SubSeq(s, 1, Len(s))
    BY <2>1, ConcatAdjacentSubSeq
  <2>3. SubSeq(s, 1, p + n) \o z = SubSeq(s, 1, m)
    BY <1>1, <2>2
  <2> QED BY <1>1, <1>6, <2>3, SubSeqFull
<1>8. x = Before(s, p) /\ y = Middle(s, p, n) /\ z = Behind(s, p, n)
  BY <1>1 DEF Before, Middle, Behind
<1>9. Rejoined(s, p, n) = s
  BY <1>7, <1>8 DEF Rejoined
<1> QED BY <1>1, <1>3, <1>4, <1>5, <1>8, <1>9

\* The uses of a sequence are those of its parts.
LEMMA UsesOfParts ==
  ASSUME NEW S, NEW s \in Seq(S), NEW p \in Nat, NEW n \in Nat, p + n <= Len(s), NEW o
  PROVE  Uses(o, s) = Uses(o, Before(s, p)) + Uses(o, Middle(s, p, n)) + Uses(o, Behind(s, p, n))
<1>1. PICK x \in Seq(S) : x = Before(s, p)
  BY PartsAreSequences
<1>2. PICK y \in Seq(S) : y = Middle(s, p, n)
  BY PartsAreSequences
<1>3. PICK z \in Seq(S) : z = Behind(s, p, n)
  BY PartsAreSequences
<1>4. s = (x \o y) \o z
  <2>1. Rejoined(s, p, n) = s
    BY PartsAreSequences
  <2> QED BY <1>1, <1>2, <1>3, <2>1 DEF Rejoined
<1>5. PICK t \in Seq(S) : t = x \o y
  BY ConcatProperties
<1>6. Uses(o, t) = Uses(o, x) + Uses(o, y)
  BY <1>5, UsesOfConcat
<1>7. Uses(o, t \o z) = Uses(o, t) + Uses(o, z)
  BY UsesOfConcat
<1> QED BY <1>1, <1>2, <1>3, <1>4, <1>5, <1>6, <1>7

\* Other elements in the place of some.
LEMMA SpliceIsSequence ==
  ASSUME NEW S, NEW s \in Seq(S), NEW p \in Nat, NEW n \in Nat, p + n <= Len(s),
         NEW new \in Seq(S)
  PROVE  /\ Splice(s, p, n, new) \in Seq(S)
         /\ Len(Splice(s, p, n, new)) = Len(s) - n + Len(new)
<1>0. /\ Before(s, p) \in Seq(S) /\ Len(Before(s, p)) = p
      /\ Behind(s, p, n) \in Seq(S) /\ Len(Behind(s, p, n)) = Len(s) - p - n
  BY PartsAreSequences
<1>1. PICK x \in Seq(S) : x = Before(s, p) /\ Len(x) = p
  BY <1>0
<1>3. PICK z \in Seq(S) : z = Behind(s, p, n) /\ Len(z) = Len(s) - p - n
  BY <1>0
<1>4. PICK t \in Seq(S) : t = x \o new /\ Len(t) = Len(x) + Len(new)
  BY ConcatProperties
<1>5. Splice(s, p, n, new) = t \o z
  BY <1>1, <1>3, <1>4 DEF Splice, Before, Behind
<1>6. t \o z \in Seq(S) /\ Len(t \o z) = Len(t) + Len(z)
  BY ConcatProperties
<1>7. PICK q, k \in Nat : q = Len(s) /\ k = Len(new)
  BY LenProperties
<1> QED BY <1>1, <1>3, <1>4, <1>5, <1>6, <1>7

LEMMA UsesOfSplice ==
  ASSUME NEW S, NEW s \in Seq(S), NEW p \in Nat, NEW n \in Nat, p + n <= Len(s),
         NEW new \in Seq(S), NEW o
  PROVE  /\ Uses(o, Splice(s, p, n, new)) = Uses(o, s) - Uses(o, Middle(s, p, n)) + Uses(o, new)
         /\ Uses(o, Middle(s, p, n)) <= Uses(o, s)
<1>1. PICK x \in Seq(S) : x = Before(s, p)
  BY PartsAreSequences
<1>2. PICK y \in Seq(S) : y = Middle(s, p, n)
  BY PartsAreSequences
<1>3. PICK z \in Seq(S) : z = Behind(s, p, n)
  BY PartsAreSequences
<1>4. PICK t \in Seq(S) : t = x \o new
  BY ConcatProperties
<1>5. Splice(s, p, n, new) = t \o z
  BY <1>1, <1>3, <1>4 DEF Splice, Before, Behind
<1>6. Uses(o, t) = Uses(o, x) + Uses(o, new)
  BY <1>4, UsesOfConcat
<1>7. Uses(o, t \o z) = Uses(o, t) + Uses(o, z)
  BY UsesOfConcat
<1>8. Uses(o, x) \in Nat /\ Uses(o, y) \in Nat /\ Uses(o, z) \in Nat /\ Uses(o, new) \in Nat
  BY UsesIsNat
<1>9. Uses(o, s) = Uses(o, x) + Uses(o, y) + Uses(o, z)
  BY <1>1, <1>2, <1>3, UsesOfParts
<1> QED BY <1>2, <1>5, <1>6, <1>7, <1>8, <1>9

\* A sequence in the opposite order.
LEMMA UsesOfReversed ==
  ASSUME NEW S, NEW s \in Seq(S), NEW o
  PROVE  /\ Reversed(s) \in Seq(S) /\ Len(Reversed(s)) = Len(s)
         /\ Uses(o, Reversed(s)) = Uses(o, s)
<1>1. PICK m \in Nat : m = Len(s) /\ DOMAIN s = 1 .. m /\ \A k \in 1 .. m : s[k] \in S
  BY LenProperties, ElementOfSeq
<1> DEFINE t == [k \in 1 .. m |-> s[m + 1 - k]]
<1>2. Reversed(s) = t
  <2>1. \A k \in 1 .. m : ~(k <= m \div 2 \/ k > m - m \div 2) => m + 1 - k = k
    BY <1>1
  <2> QED BY <1>1, <2>1 DEF Reversed
<1>3. t \in Seq(S) /\ Len(t) = m /\ DOMAIN t = 1 .. m
  <2>1. t \in [1 .. m -> S]
    BY <1>1
  <2> QED BY <1>1, <2>1, SeqDef, LenProperties
<1> DEFINE A == UsesAt(o, s)
           B == UsesAt(o, t)
           f == [k \in A |-> m + 1 - k]
<1>4. f \in [A -> B]
  BY <1>1 DEF UsesAt
<1>5. \A q, k \in A : f[q] = f[k] => q = k
  BY <1>1 DEF UsesAt
<1>6. \A c \in B : \E k \in A : f[k] = c
  <2> SUFFICES ASSUME NEW c \in B PROVE m + 1 - c \in A /\ f[m + 1 - c] = c
    OBVIOUS
  <2>1. c \in 1 .. m /\ s[m + 1 - c] = o
    BY DEF UsesAt
  <2> QED BY <1>1, <2>1 DEF UsesAt
<1>7. f \in Bijection(A, B)
  BY <1>4, <1>5, <1>6 DEF Bijection, Injection, Surjection, IsInjective
<1> HIDE DEF A, B, f
<1>8. IsFiniteSet(A)
  BY UsesIsNat DEF A
<1>9. Cardinality(B) = Cardinality(A)
  BY <1>7, <1>8, FS_Bijection DEF ExistsBijection
<1>10. Uses(o, t) = Uses(o, s)
  BY <1>9 DEF A, B, Uses, UsesAt
<1> QED BY <1>1, <1>2, <1>3, <1>10

-----------------------------------------------------------------------------
(* What a call works on.  Beside the slots of its own array, out[o] are the *)
(* references to object o from elsewhere.                                   *)
Slot == IF Kind = "primitive" THEN Values ELSE Objects \cup {None}
Content == IF HoldsObjects THEN Values \cup {None} ELSE Slot
Works == [max : 0 .. script.maxSize, data : Seq(Slot), refs : [Objects -> Nat],
          val : [Objects -> Values], raised : BOOLEAN]

\* Every reference is counted, and an object of an array of objects has one.
Exact(w, out) == \A o \in Objects : w.refs[o] = out[o] + Uses(o, w.data)
Own(w) == HoldsObjects => \A o \in Objects : w.refs[o] <= 1
Fits(w) == Len(w.data) <= w.max
Sound(w, out) == w \in Works /\ Exact(w, out) /\ Own(w) /\ Fits(w)
Outside == [Objects -> Nat]

\* What a call leaves out of a record.
LEMMA PutFields ==
  ASSUME NEW w \in Works, NEW p, NEW n, NEW new
  PROVE  /\ Put(w, p, n, new).data = Splice(w.data, p, n, new)
         /\ Put(w, p, n, new).max = w.max
         /\ Put(w, p, n, new).val = w.val
         /\ Put(w, p, n, new).raised = w.raised
         /\ \A o \in Objects :
              Put(w, p, n, new).refs[o] = w.refs[o] + Uses(o, new) - Uses(o, Middle(w.data, p, n))
         /\ DOMAIN Put(w, p, n, new) = {"max", "data", "refs", "val", "raised"}
BY DEF Put, Middle, Works

LEMMA PutIsWork ==
  ASSUME NEW w \in Works, NEW p, NEW n, NEW new,
         Splice(w.data, p, n, new) \in Seq(Slot),
         \A o \in Objects : w.refs[o] + Uses(o, new) - Uses(o, Middle(w.data, p, n)) \in Nat
  PROVE  Put(w, p, n, new) \in Works
<1>1. PICK r : r = [o \in Objects |-> w.refs[o] + Uses(o, new) - Uses(o, Middle(w.data, p, n))]
  OBVIOUS
<1>2. r \in [Objects -> Nat]
  BY <1>1
<1>3. PICK d \in Seq(Slot) : d = Splice(w.data, p, n, new)
  OBVIOUS
<1>4. Put(w, p, n, new) = [w EXCEPT !.data = d, !.refs = r]
  BY <1>1, <1>3 DEF Put, Middle
<1> QED BY <1>2, <1>4 DEF Works

LEMMA WorkTypes ==
  ASSUME NEW w \in Works
  PROVE  /\ w.data \in Seq(Slot) /\ Len(w.data) \in Nat /\ w.max \in 0 .. script.maxSize
         /\ w.refs \in [Objects -> Nat] /\ w.val \in [Objects -> Values] /\ w.raised \in BOOLEAN
<1>1. w.data \in Seq(Slot) /\ w.max \in 0 .. script.maxSize
         /\ w.refs \in [Objects -> Nat] /\ w.val \in [Objects -> Values] /\ w.raised \in BOOLEAN
  BY DEF Works
<1> QED BY <1>1, LenProperties

\* Put keeps counts exact.
LEMMA PutKeeps ==
  ASSUME NEW w \in Works, NEW out \in Outside, Exact(w, out), NEW p \in Nat, NEW n \in Nat,
         p + n <= Len(w.data), NEW new \in Seq(Slot)
  PROVE  /\ Put(w, p, n, new) \in Works
         /\ Exact(Put(w, p, n, new), out)
         /\ Len(Put(w, p, n, new).data) = Len(w.data) - n + Len(new)
         /\ \A o \in Objects : Put(w, p, n, new).refs[o] <= w.refs[o] + Uses(o, new)
<1>1. PICK d \in Seq(Slot) : d = w.data
  BY WorkTypes
<1>2. PICK e \in Seq(Slot) : e = Splice(d, p, n, new) /\ Len(e) = Len(d) - n + Len(new)
  <2>0. p + n <= Len(d)
    BY <1>1
  <2>1. Splice(d, p, n, new) \in Seq(Slot) /\ Len(Splice(d, p, n, new)) = Len(d) - n + Len(new)
    BY <2>0, SpliceIsSequence
  <2> QED BY <2>1
<1>3. PICK g \in Seq(Slot) : g = Middle(d, p, n)
  BY <1>1, PartsAreSequences
<1>4. \A o \in Objects : /\ Uses(o, e) = Uses(o, d) - Uses(o, g) + Uses(o, new)
                         /\ Uses(o, g) <= Uses(o, d)
                         /\ Uses(o, d) \in Nat /\ Uses(o, g) \in Nat /\ Uses(o, new) \in Nat
  <2> TAKE o \in Objects
  <2>1. Uses(o, Splice(d, p, n, new)) = Uses(o, d) - Uses(o, Middle(d, p, n)) + Uses(o, new)
    BY <1>1, UsesOfSplice
  <2>2. Uses(o, Middle(d, p, n)) <= Uses(o, d)
    BY <1>1, UsesOfSplice
  <2>3. Uses(o, d) \in Nat /\ Uses(o, g) \in Nat /\ Uses(o, new) \in Nat
    BY UsesIsNat
  <2> QED BY <1>2, <1>3, <2>1, <2>2, <2>3
<1>5. \A o \in Objects : w.refs[o] \in Nat /\ out[o] \in Nat /\ w.refs[o] = out[o] + Uses(o, d)
  BY <1>1, WorkTypes DEF Exact, Outside
<1>6. \A o \in Objects : /\ w.refs[o] + Uses(o, new) - Uses(o, g) \in Nat
                         /\ w.refs[o] + Uses(o, new) - Uses(o, g) = out[o] + Uses(o, e)
                         /\ w.refs[o] + Uses(o, new) - Uses(o, g) <= w.refs[o] + Uses(o, new)
  <2> TAKE o \in Objects
  <2>1. PICK r \in Nat, u \in Nat, x \in Nat, y \in Nat, z \in Nat :
          r = w.refs[o] /\ u = out[o] /\ x = Uses(o, d) /\ y = Uses(o, g) /\ z = Uses(o, new)
    BY <1>4, <1>5
  <2>2. Uses(o, e) = x - y + z /\ y <= x /\ r = u + x
    BY <1>4, <1>5, <2>1
  <2>3. r + z - y \in Nat /\ r + z - y = u + (x - y + z) /\ r + z - y <= r + z
    BY <2>2
  <2> QED BY <2>1, <2>2, <2>3
<1>7. Put(w, p, n, new) \in Works
  BY <1>1, <1>2, <1>3, <1>6, PutIsWork
<1>8. Put(w, p, n, new).data = e
  <2>1. Put(w, p, n, new).data = Splice(w.data, p, n, new)
    BY PutFields
  <2> QED BY <1>1, <1>2, <2>1
<1>9. \A o \in Objects : Put(w, p, n, new).refs[o] = w.refs[o] + Uses(o, new) - Uses(o, g)
  <2>1. \A o \in Objects :
          Put(w, p, n, new).refs[o] = w.refs[o] + Uses(o, new) - Uses(o, Middle(w.data, p, n))
    BY PutFields
  <2> QED BY <1>1, <1>3, <2>1
<1> QED BY <1>1, <1>2, <1>6, <1>7, <1>8, <1>9 DEF Exact

-----------------------------------------------------------------------------
(* Objects that are made.                                                   *)
LEMMA AtMostOne ==
  ASSUME NEW S, \A x, y \in S : x = y
  PROVE  IsFiniteSet(S) /\ Cardinality(S) <= 1
<1>1. CASE S = {}
  BY <1>1, FS_EmptySet
<1>2. CASE S # {}
  <2>1. PICK x : S = {x}
    BY <1>2
  <2>2. IsFiniteSet({x}) /\ Cardinality({x}) = 1
    BY FS_Singleton
  <2> QED BY <2>1, <2>2
<1> QED BY <1>1, <1>2

\* As many new objects as are free can be named, all different.
LEMMA ObjectsAreNew ==
  ASSUME NEW w, NEW n \in Nat, IsFiniteSet(Objects), n <= Cardinality(Free(w))
  PROVE  /\ NewObjects(w, n) \in [1 .. n -> Free(w)]
         /\ \A q, k \in 1 .. n : q # k => NewObjects(w, n)[q] # NewObjects(w, n)[k]
<1>1. IsFiniteSet(Free(w))
  BY FS_Subset DEF Free
<1>2. PICK m \in Nat : m = Cardinality(Free(w))
  BY <1>1, FS_CardinalityType
<1>3. PICK f : f \in Bijection(1 .. m, Free(w))
  BY <1>1, <1>2, FS_CardinalityType DEF ExistsBijection
<1> DEFINE g == [k \in 1 .. n |-> f[k]]
<1>4. g \in [1 .. n -> Free(w)]
  BY <1>2, <1>3 DEF Bijection, Injection
<1>5. \A q, k \in 1 .. n : q # k => g[q] # g[k]
  BY <1>2, <1>3 DEF Bijection, Injection, IsInjective
<1> HIDE DEF g
<1>6. \E new \in [1 .. n -> Free(w)] : \A q, k \in 1 .. n : q # k => new[q] # new[k]
  BY <1>4, <1>5
<1> QED BY <1>6 DEF NewObjects

LEMMA NewObjectsUses ==
  ASSUME NEW w, NEW n \in Nat, IsFiniteSet(Objects), n <= Cardinality(Free(w)), NEW o \in Objects
  PROVE  /\ NewObjects(w, n) \in Seq(Objects) /\ Len(NewObjects(w, n)) = n
         /\ Uses(o, NewObjects(w, n)) \in 0 .. 1
         /\ Uses(o, NewObjects(w, n)) = 1 => o \in Free(w)
<1>1. PICK new : new = NewObjects(w, n)
  OBVIOUS
<1>2. new \in [1 .. n -> Free(w)] /\ \A q, k \in 1 .. n : q # k => new[q] # new[k]
  BY <1>1, ObjectsAreNew
<1>3. new \in [1 .. n -> Objects]
  BY <1>2 DEF Free
<1>4. new \in Seq(Objects) /\ Len(new) = n /\ DOMAIN new = 1 .. n
  BY <1>3, SeqDef, LenProperties
<1>5. \A q, k \in UsesAt(o, new) : q = k
  BY <1>2, <1>4 DEF UsesAt
<1>6. Cardinality(UsesAt(o, new)) <= 1
  BY <1>5, AtMostOne
<1>7. Uses(o, new) \in Nat /\ Uses(o, new) = Cardinality(UsesAt(o, new))
  BY <1>4, UsesIsNat
<1>8. o \notin Free(w) => Uses(o, new) = 0
  <2>1. o \notin Free(w) => \A k \in 1 .. Len(new) : new[k] # o
    BY <1>2, <1>4
  <2> QED BY <1>4, <2>1, NotUsed
<1>9. Uses(o, new) \in 0 .. 1
  BY <1>6, <1>7
<1> QED BY <1>1, <1>4, <1>8, <1>9

\* A sequence of one element.
LEMMA Repeated ==
  ASSUME NEW S, NEW n \in Nat, NEW c \in S, NEW o, c # o
  PROVE  /\ [k \in 1 .. n |-> c] \in Seq(S) /\ Len([k \in 1 .. n |-> c]) = n
         /\ Uses(o, [k \in 1 .. n |-> c]) = 0
<1>1. PICK s : s = [k \in 1 .. n |-> c]
  OBVIOUS
<1>2. s \in [1 .. n -> S]
  BY <1>1
<1>3. s \in Seq(S) /\ Len(s) = n
  BY <1>2, SeqDef, LenProperties
<1>4. Uses(o, s) = 0
  BY <1>1, <1>3, NotUsed
<1> QED BY <1>1, <1>3, <1>4

-----------------------------------------------------------------------------
(* The helpers of CScriptArray keep a record sound.                          *)
LEMMA ScriptFacts ==
  ASSUME script \in Scripts
  PROVE  /\ IsFiniteSet(Objects) /\ None \notin Objects
         /\ Kind \in {"primitive", "handle", "reference", "value"}
         /\ Kind = "primitive" => Objects = {}
         /\ Word \in Nat /\ script.maxSize \in 0 .. Word - 1 /\ script.maxSize \in Nat
         /\ script.room \in Nat /\ script.maxReferences \in Nat \ {0}
         /\ script.numbers \subseteq Nat /\ (~HoldsObjects => Default \in Slot)
         /\ Zero \in Values /\ None \notin Values
<1>1. /\ IsFiniteSet(Objects) /\ None \notin Objects
      /\ Kind \in {"primitive", "handle", "reference", "value"}
      /\ Kind = "primitive" => Objects = {}
      /\ script.room \in Nat /\ script.maxReferences \in Nat \ {0}
  BY ScriptsAssumption DEF Objects, Kind
<1>2. Word \in Nat /\ Zero \in Values /\ None \notin Values
  BY ValuesAssumption
<1>3. script.maxSize \in 0 .. Word - 1 /\ script.numbers \subseteq 0 .. Word - 1
  <2>1. script.maxSize \in 0 .. (Word \div 2) - 1 /\ script.numbers \subseteq 0 .. Word - 1
    BY ScriptsAssumption
  <2> QED BY <1>2, <2>1
<1>4. script.maxSize \in Nat /\ script.numbers \subseteq Nat
  BY <1>2, <1>3
<1>5. ~HoldsObjects => Default \in Slot
  BY <1>1, <1>2 DEF Default, Slot, HoldsObjects
<1> QED BY <1>1, <1>2, <1>3, <1>4, <1>5

LEMMA ConstructedUses ==
  ASSUME script \in Scripts, NEW w \in Works, NEW n \in Nat, NEW made \in Nat,
         HoldsObjects => n <= Cardinality(Free(w))
  PROVE  /\ Constructed(w, n, made) \in Seq(Slot) /\ Len(Constructed(w, n, made)) = n
         /\ \A o \in Objects : /\ Uses(o, Constructed(w, n, made)) \in 0 .. 1
                               /\ Uses(o, Constructed(w, n, made)) = 1 => HoldsObjects /\ o \in Free(w)
<1>1. CASE HoldsObjects
  <2>1. PICK m \in 0 .. n : m = Lesser(made, n)
    BY DEF Lesser
  <2>2. m <= Cardinality(Free(w)) /\ Cardinality(Free(w)) \in Nat
    <3>1. IsFiniteSet(Free(w))
      BY ScriptFacts, FS_Subset DEF Free
    <3>2. PICK c \in Nat : c = Cardinality(Free(w))
      BY <3>1, FS_CardinalityType
    <3> QED BY <1>1, <2>1, <3>2
  <2>3. PICK new : new = NewObjects(w, m)
    OBVIOUS
  <2>4. /\ \A o \in Objects : new \in Seq(Objects) /\ Len(new) = m /\ Uses(o, new) \in 0 .. 1
                              /\ (Uses(o, new) = 1 => o \in Free(w))
    BY <2>1, <2>2, <2>3, ScriptFacts, NewObjectsUses
  <2>5. new \in Seq(Slot) /\ Len(new) = m
    <3>1. new \in [1 .. m -> Free(w)]
      BY <2>1, <2>2, <2>3, ScriptFacts, ObjectsAreNew
    <3>2. Slot = Objects \cup {None}
      BY <1>1 DEF Slot, HoldsObjects
    <3>3. new \in [1 .. m -> Slot]
      BY <3>1, <3>2 DEF Free
    <3> QED BY <2>1, <3>3, SeqDef, LenProperties
  <2>6. PICK rest : rest = [k \in 1 .. n - m |-> None]
    OBVIOUS
  <2>7. None \in Slot
    BY <1>1 DEF Slot, HoldsObjects
  <2>8. rest \in Seq(Slot) /\ Len(rest) = n - m
    <3>1. n - m \in Nat /\ rest \in [1 .. n - m -> Slot]
      BY <2>1, <2>6, <2>7
    <3> QED BY <3>1, SeqDef, LenProperties
  <2>9. \A o \in Objects : Uses(o, rest) = 0
    <3> TAKE o \in Objects
    <3>1. \A k \in 1 .. Len(rest) : rest[k] # o
      BY <2>6, <2>8, ScriptFacts
    <3> QED BY <2>8, <3>1, NotUsed
  <2>10. Constructed(w, n, made) = new \o rest
    BY <1>1, <2>1, <2>3, <2>6 DEF Constructed
  <2>11. new \o rest \in Seq(Slot) /\ Len(new \o rest) = n
    <3>1. new \o rest \in Seq(Slot) /\ Len(new \o rest) = Len(new) + Len(rest)
      BY <2>5, <2>8, ConcatProperties
    <3> QED BY <2>1, <2>5, <2>8, <3>1
  <2>12. \A o \in Objects : Uses(o, new \o rest) = Uses(o, new)
    <3> TAKE o \in Objects
    <3>1. Uses(o, new \o rest) = Uses(o, new) + Uses(o, rest)
      BY <2>5, <2>8, UsesOfConcat
    <3> QED BY <2>4, <2>9, <3>1
  <2> QED BY <1>1, <2>4, <2>10, <2>11, <2>12
<1>2. CASE ~HoldsObjects
  <2>1. PICK s : s = [k \in 1 .. n |-> Default]
    OBVIOUS
  <2>2. s \in Seq(Slot) /\ Len(s) = n
    <3>1. s \in [1 .. n -> Slot]
      BY <1>2, <2>1, ScriptFacts
    <3> QED BY <3>1, SeqDef, LenProperties
  <2>3. \A o \in Objects : Uses(o, s) = 0
    <3> TAKE o \in Objects
    <3>1. Default \notin Objects
      BY <1>2, ScriptFacts DEF Default, HoldsObjects
    <3>2. \A k \in 1 .. Len(s) : s[k] # o
      BY <2>1, <2>2, <3>1
    <3> QED BY <2>2, <3>2, NotUsed
  <2>4. Constructed(w, n, made) = s
    BY <1>2, <2>1 DEF Constructed
  <2> QED BY <2>2, <2>3, <2>4
<1> QED BY <1>1, <1>2

LEMMA RaiseKeeps ==
  ASSUME NEW w \in Works, NEW out
  PROVE  /\ Raise(w) \in Works
         /\ Raise(w).data = w.data /\ Raise(w).refs = w.refs /\ Raise(w).max = w.max
         /\ Sound(w, out) => Sound(Raise(w), out)
<1>1. Raise(w) \in Works
  BY DEF Raise, Works
<1>2. Raise(w).data = w.data /\ Raise(w).refs = w.refs /\ Raise(w).max = w.max
  BY DEF Raise, Works
<1> QED BY <1>1, <1>2 DEF Sound, Exact, Own, Fits

LEMMA ConstructKeeps ==
  ASSUME script \in Scripts, NEW w \in Works, NEW out \in Outside, Exact(w, out), Own(w),
         NEW p \in Nat, NEW n \in Nat, NEW made \in Nat, p <= Len(w.data),
         HoldsObjects => n <= Cardinality(Free(w)), Len(w.data) + n <= w.max
  PROVE  /\ Sound(Construct(w, p, n, made), out)
         /\ Len(Construct(w, p, n, made).data) = Len(w.data) + n
<1>1. PICK fresh : fresh = [w EXCEPT !.val = [o \in Objects |-> IF o \in Free(w) THEN Zero ELSE w.val[o]]]
  OBVIOUS
<1>2. fresh \in Works
  <2>1. [o \in Objects |-> IF o \in Free(w) THEN Zero ELSE w.val[o]] \in [Objects -> Values]
    BY WorkTypes, ScriptFacts
  <2> QED BY <1>1, <2>1 DEF Works
<1>3. fresh.data = w.data /\ fresh.refs = w.refs /\ fresh.max = w.max
  BY <1>1 DEF Works
<1>4. PICK new \in Seq(Slot) : new = Constructed(w, n, made) /\ Len(new) = n
  <2>1. Constructed(w, n, made) \in Seq(Slot) /\ Len(Constructed(w, n, made)) = n
    BY ConstructedUses
  <2> QED BY <2>1
<1>5. \A o \in Objects : Uses(o, new) \in 0 .. 1 /\ (Uses(o, new) = 1 => HoldsObjects /\ o \in Free(w))
  BY <1>4, ConstructedUses
<1>6. PICK wider : wider = Put(fresh, p, 0, new)
  OBVIOUS
<1>7. Exact(fresh, out)
  BY <1>3 DEF Exact
<1>8. /\ wider \in Works /\ Exact(wider, out)
      /\ Len(wider.data) = Len(fresh.data) - 0 + Len(new)
      /\ \A o \in Objects : wider.refs[o] <= fresh.refs[o] + Uses(o, new)
  <2>1. p + 0 <= Len(fresh.data)
    BY <1>3
  <2> QED BY <1>2, <1>6, <1>7, <2>1, PutKeeps
<1>9. Own(wider)
  <2> SUFFICES ASSUME HoldsObjects, NEW o \in Objects PROVE wider.refs[o] <= 1
    BY DEF Own
  <2>1. wider.refs[o] \in Nat /\ w.refs[o] \in Nat
    BY <1>8, WorkTypes
  <2>2. w.refs[o] <= 1
    BY DEF Own
  <2>3. Uses(o, new) = 1 => w.refs[o] = 0
    BY <1>5 DEF Free
  <2> QED BY <1>3, <1>5, <1>8, <2>1, <2>2, <2>3
<1>10. Len(wider.data) = Len(w.data) + n
  <2>1. Len(w.data) \in Nat
    BY WorkTypes
  <2> QED BY <1>3, <1>4, <1>8, <2>1
<1>11. wider.max = w.max
  BY <1>2, <1>3, <1>6, PutFields
<1>12. Sound(wider, out)
  BY <1>8, <1>9, <1>10, <1>11 DEF Sound, Fits
<1>13. Construct(w, p, n, made) = IF made < n THEN Raise(wider) ELSE wider
  BY <1>1, <1>4, <1>6 DEF Construct
<1>14. Raise(wider).data = wider.data /\ Sound(Raise(wider), out)
  BY <1>8, <1>12, RaiseKeeps
<1> QED BY <1>10, <1>12, <1>13, <1>14

LEMMA DestructKeeps ==
  ASSUME NEW w, NEW out \in Outside, Sound(w, out), NEW p \in Nat, NEW n \in Nat, p + n <= Len(w.data)
  PROVE  Sound(Destruct(w, p, n), out)
<1>1. w \in Works /\ Exact(w, out) /\ Own(w) /\ Fits(w)
  BY DEF Sound
<1>2. PICK new \in Seq(Slot) : new = <<>> /\ Len(new) = 0
  BY EmptySeq
<1>3. PICK less : less = Put(w, p, n, new)
  OBVIOUS
<1>4. /\ less \in Works /\ Exact(less, out)
      /\ Len(less.data) = Len(w.data) - n + Len(new)
      /\ \A o \in Objects : less.refs[o] <= w.refs[o] + Uses(o, new)
  BY <1>1, <1>3, PutKeeps
<1>5. less.max = w.max
  BY <1>1, <1>3, PutFields
<1>6. Len(w.data) \in Nat /\ w.max \in Nat
  BY <1>1, WorkTypes
<1>7. Fits(less)
  BY <1>1, <1>2, <1>4, <1>5, <1>6 DEF Fits
<1>8. \A o \in Objects : less.refs[o] <= w.refs[o] /\ less.refs[o] \in Nat /\ w.refs[o] \in Nat
  BY <1>1, <1>2, <1>4, NoneUsed, WorkTypes
<1>9. Own(less)
  <2> SUFFICES ASSUME HoldsObjects, NEW o \in Objects PROVE less.refs[o] <= 1
    BY DEF Own
  <2>1. w.refs[o] <= 1
    BY <1>1 DEF Own
  <2> QED BY <1>8, <2>1
<1> QED BY <1>2, <1>3, <1>4, <1>7, <1>9 DEF Sound, Destruct

\* More room without more elements.
LEMMA WithRoom ==
  ASSUME NEW w, NEW out, Sound(w, out), NEW n \in 0 .. script.maxSize, script.maxSize \in Nat, w.max <= n
  PROVE  /\ [w EXCEPT !.max = n] \in Works /\ [w EXCEPT !.max = n].max = n
         /\ [w EXCEPT !.max = n].data = w.data /\ [w EXCEPT !.max = n].refs = w.refs
         /\ Sound([w EXCEPT !.max = n], out)
<1>1. w \in Works /\ Len(w.data) <= w.max /\ Len(w.data) \in Nat /\ w.max \in Nat
  BY WorkTypes DEF Sound, Fits
<1>2. PICK v : v = [w EXCEPT !.max = n]
  OBVIOUS
<1>3. v \in Works /\ v.max = n /\ v.data = w.data /\ v.refs = w.refs
  BY <1>1, <1>2 DEF Works
<1>4. Len(v.data) <= v.max
  BY <1>1, <1>3
<1>5. Sound(v, out)
  BY <1>3, <1>4 DEF Sound, Exact, Own, Fits
<1> QED BY <1>2, <1>3, <1>5

LEMMA ResizeByKeeps ==
  ASSUME script \in Scripts, NEW w, NEW out \in Outside, Sound(w, out),
         NEW delta \in Int, NEW p \in Nat, NEW mem \in BOOLEAN, NEW made \in Nat,
         HoldsObjects => delta <= Cardinality(Free(w))
  PROVE  /\ Sound(ResizeBy(w, delta, p, mem, made), out)
         /\ delta >= 0 => Len(w.data) <= Len(ResizeBy(w, delta, p, mem, made).data)
<1>1. w \in Works /\ Exact(w, out) /\ Own(w) /\ Fits(w)
  BY DEF Sound
<1>2. PICK size \in Nat : size = Len(w.data)
  BY <1>1, WorkTypes
<1>3. w.max \in Nat /\ size <= w.max /\ w.max <= script.maxSize /\ script.maxSize \in Nat
  BY <1>1, <1>2, ScriptFacts, WorkTypes DEF Fits
<1> DEFINE grow == w.max < size + delta
           resized == ResizeBy(w, delta, p, mem, made)
<1>4. CASE delta > 0 /\ (size + delta > script.maxSize \/ (grow /\ ~mem))
  <2>1. resized = Raise(w)
    BY <1>2, <1>3, <1>4 DEF ResizeBy
  <2> QED BY <1>1, <1>2, <2>1, RaiseKeeps
<1>5. CASE delta > 0 /\ ~(size + delta > script.maxSize \/ (grow /\ ~mem))
  <2>1. PICK max \in 0 .. script.maxSize :
           max = (IF grow THEN size + delta ELSE w.max) /\ w.max <= max /\ size + delta <= max
    BY <1>3, <1>5
  <2>2. PICK v : v = [w EXCEPT !.max = max]
    OBVIOUS
  <2>3. v \in Works /\ v.max = max /\ v.data = w.data /\ v.refs = w.refs /\ Sound(v, out)
    BY <1>3, <2>1, <2>2, WithRoom
  <2>4. PICK q \in Nat : q = Lesser(p, size) /\ q <= size
    BY DEF Lesser
  <2>5. resized = Construct(v, q, delta, made)
    BY <1>2, <1>3, <1>5, <2>1, <2>2, <2>4 DEF ResizeBy
  <2>6. Free(v) = Free(w)
    BY <2>3 DEF Free
  <2>7. Exact(v, out) /\ Own(v)
    BY <2>3 DEF Sound
  <2>8. delta \in Nat /\ q <= Len(v.data) /\ Len(v.data) + delta <= v.max
    BY <1>2, <1>5, <2>1, <2>3, <2>4
  <2>9. Sound(Construct(v, q, delta, made), out) /\ Len(Construct(v, q, delta, made).data) = Len(v.data) + delta
    BY <2>3, <2>6, <2>7, <2>8, ConstructKeeps
  <2> QED BY <1>2, <1>5, <2>3, <2>5, <2>9
<1>6. CASE delta = 0
  <2>1. resized = w
    BY <1>6 DEF ResizeBy
  <2> QED BY <1>2, <2>1
<1>7. CASE delta < 0
  <2>1. PICK n \in Nat : n = Lesser(-delta, size) /\ n <= size
    BY <1>7 DEF Lesser
  <2>2. PICK q \in Nat : q = Lesser(p, size - n) /\ q + n <= size
    BY <2>1 DEF Lesser
  <2>3. resized = Destruct(w, q, n)
    BY <1>2, <1>7, <2>1, <2>2 DEF ResizeBy
  <2>4. Sound(Destruct(w, q, n), out)
    BY <1>2, <2>2, DestructKeeps
  <2> QED BY <1>7, <2>3, <2>4
<1> QED BY <1>4, <1>5, <1>6, <1>7

LEMMA ResizeToKeeps ==
  ASSUME script \in Scripts, NEW w, NEW out \in Outside, Sound(w, out),
         NEW n \in Nat, NEW mem \in BOOLEAN, NEW made \in Nat,
         HoldsObjects => n <= Cardinality(Free(w)) /\ Cardinality(Free(w)) \in Nat
  PROVE  Sound(ResizeTo(w, n, mem, made), out)
<1>1. w \in Works
  BY DEF Sound
<1>2. PICK size \in Nat : size = Len(w.data)
  BY <1>1, WorkTypes
<1>3. n - size \in Int /\ n + size \in Nat /\ (HoldsObjects => n - size <= Cardinality(Free(w)))
  <2>1. PICK c : c = Cardinality(Free(w))
    OBVIOUS
  <2> QED BY <2>1
<1>4. Sound(ResizeBy(w, n - size, n + size, mem, made), out)
  BY <1>3, ResizeByKeeps
<1> QED BY <1>1, <1>2, <1>4, RaiseKeeps DEF ResizeTo

LEMMA SetSlotsKeeps ==
  ASSUME script \in Scripts, NEW w, NEW out \in Outside, Sound(w, out),
         NEW p \in Nat, NEW vs \in Seq(Content)
  PROVE  Sound(SetSlots(w, p, vs), out) /\ Len(SetSlots(w, p, vs).data) = Len(w.data)
<1>1. w \in Works /\ Exact(w, out) /\ Own(w) /\ Fits(w)
  BY DEF Sound
<1>2. PICK size \in Nat, many \in Nat : size = Len(w.data) /\ many = Len(vs)
  BY <1>1, WorkTypes, LenProperties
<1>3. PICK n \in Nat : /\ n = IF p < size THEN Lesser(many, size - p) ELSE 0
                       /\ n <= many /\ Lesser(p, size) + n <= size /\ Lesser(p, size) \in Nat
  <2>1. CASE p < size
    <3>1. size - p \in Nat /\ Lesser(p, size) = p
      BY <2>1 DEF Lesser
    <3>2. PICK m \in Nat : m = Lesser(many, size - p) /\ m <= many /\ m <= size - p
      <4>1. PICK d \in Nat : d = size - p
        BY <3>1
      <4>2. many < d => Lesser(many, d) = many /\ many \in Nat
        BY DEF Lesser
      <4>3. ~(many < d) => Lesser(many, d) = d /\ d <= many
        BY DEF Lesser
      <4> QED BY <4>1, <4>2, <4>3
    <3> QED BY <2>1, <3>1, <3>2
  <2>2. CASE ~(p < size)
    <3>1. Lesser(p, size) = size
      BY <2>2 DEF Lesser
    <3> QED BY <2>2, <3>1
  <2> QED BY <2>1, <2>2
<1>4. PICK new \in Seq(Content) : new = SubSeq(vs, 1, n) /\ Len(new) = n
  <2>1. \A k \in 1 .. n : vs[k] \in Content
    BY <1>2, <1>3, ElementOfSeq
  <2>2. SubSeq(vs, 1, n) \in Seq(Content) /\ Len(SubSeq(vs, 1, n)) = n
    BY <2>1, SubSeqProperties
  <2> QED BY <2>2
<1> DEFINE To(o) == {k \in 1 .. n : w.data[p + k] = o /\ new[k] # None}
           values == [o \in Objects |-> IF To(o) = {} THEN w.val[o] ELSE new[CHOOSE k \in To(o) : TRUE]]
<1>5. PICK set : set = IF HoldsObjects THEN [w EXCEPT !.val = values]
                       ELSE Put(w, Lesser(p, size), n, new)
  OBVIOUS
<1>6. SetSlots(w, p, vs) = IF n < many THEN Raise(set) ELSE set
  BY <1>2, <1>3, <1>4, <1>5 DEF SetSlots
<1>7. Sound(set, out) /\ Len(set.data) = Len(w.data)
  <2>1. CASE HoldsObjects
    <3>1. values \in [Objects -> Values]
      <4>1. \A o \in Objects : To(o) # {} => new[CHOOSE k \in To(o) : TRUE] \in Values
        <5> SUFFICES ASSUME NEW o \in Objects, To(o) # {} PROVE new[CHOOSE k \in To(o) : TRUE] \in Values
          OBVIOUS
        <5>1. PICK k \in To(o) : k = CHOOSE l \in To(o) : TRUE
          OBVIOUS
        <5>2. k \in 1 .. Len(new) /\ new[k] # None
          BY <1>4
        <5>3. new[k] \in Content
          BY <5>2, ElementOfSeq
        <5> HIDE DEF To
        <5> QED BY <2>1, <5>1, <5>2, <5>3 DEF Content
      <4> QED BY <1>1, <4>1, WorkTypes
    <3> HIDE DEF values
    <3>2. set = [w EXCEPT !.val = values]
      BY <1>5, <2>1
    <3>3. set \in Works /\ set.data = w.data /\ set.refs = w.refs /\ set.max = w.max
      BY <1>1, <3>1, <3>2 DEF Works
    <3> QED BY <1>1, <3>3 DEF Sound, Exact, Own, Fits
  <2>2. CASE ~HoldsObjects
    <3>1. PICK q \in Nat : q = Lesser(p, size) /\ q + n <= size
      BY <1>3
    <3>2. set = Put(w, q, n, new)
      BY <1>5, <2>2, <3>1
    <3>3. PICK other \in Seq(Slot) : other = new
      BY <2>2 DEF Content
    <3>4. q + n <= Len(w.data)
      BY <1>2, <3>1
    <3>5. set \in Works /\ Exact(set, out) /\ Len(set.data) = Len(w.data) - n + Len(new)
      <4>1. LET x == Put(w, q, n, other) IN
              x \in Works /\ Exact(x, out) /\ Len(x.data) = Len(w.data) - n + Len(other)
        BY <1>1, <3>4, PutKeeps
      <4> QED BY <3>2, <3>3, <4>1
    <3>6. Len(set.data) = Len(w.data)
      BY <1>2, <1>4, <3>5
    <3>7. set.max = w.max
      BY <1>1, <3>2, PutFields
    <3> QED BY <1>1, <2>2, <3>5, <3>6, <3>7 DEF Sound, Own, Fits
  <2> QED BY <2>1, <2>2
<1>8. set \in Works
  BY <1>7 DEF Sound
<1> HIDE DEF To, values
<1> QED BY <1>6, <1>7, <1>8, RaiseKeeps

LEMMA CopyBufferKeeps ==
  ASSUME script \in Scripts, NEW w, NEW out \in Outside, Sound(w, out), NEW vs \in Seq(Content)
  PROVE  Sound(CopyBuffer(w, vs), out)
<1>1. PICK n \in Nat : n = Lesser(Len(w.data), Len(vs)) /\ n <= Len(vs)
  <2>1. w \in Works
    BY DEF Sound
  <2>2. PICK size \in Nat, many \in Nat : size = Len(w.data) /\ many = Len(vs)
    BY <2>1, WorkTypes, LenProperties
  <2> QED BY <2>2 DEF Lesser
<1>2. \A k \in 1 .. n : vs[k] \in Content
  <2>1. PICK many \in Nat : many = Len(vs)
    BY LenProperties
  <2> QED BY <1>1, <2>1, ElementOfSeq
<1>3. PICK new \in Seq(Content) : new = SubSeq(vs, 1, n)
  <2>1. SubSeq(vs, 1, n) \in Seq(Content)
    BY <1>2, SubSeqProperties
  <2> QED BY <2>1
<1>4. CopyBuffer(w, vs) = SetSlots(w, 0, new)
  BY <1>1, <1>3 DEF CopyBuffer
<1> QED BY <1>4, SetSlotsKeeps

-----------------------------------------------------------------------------
(* What each method does to the slots of an array.                           *)
LEMMA ReserveKeeps ==
  ASSUME script \in Scripts, NEW w, NEW out \in Outside, Sound(w, out), NEW n \in Nat, NEW mem \in BOOLEAN
  PROVE  Sound(ReserveIn(w, n, mem), out)
<1>1. w \in Works /\ w.max \in Nat /\ script.maxSize \in Nat
  BY ScriptFacts, WorkTypes DEF Sound
<1>2. CASE n <= w.max
  BY <1>1, <1>2 DEF ReserveIn
<1>3. CASE n > w.max /\ (n > script.maxSize \/ ~mem)
  <2>1. ReserveIn(w, n, mem) = Raise(w)
    BY <1>1, <1>3 DEF ReserveIn
  <2> QED BY <1>1, <2>1, RaiseKeeps
<1>4. CASE n > w.max /\ n <= script.maxSize /\ mem
  <2>1. ReserveIn(w, n, mem) = [w EXCEPT !.max = n]
    BY <1>1, <1>4 DEF ReserveIn
  <2>2. n \in 0 .. script.maxSize /\ w.max <= n
    BY <1>1, <1>4
  <2> QED BY <1>1, <2>1, <2>2, WithRoom
<1> QED BY <1>1, <1>2, <1>3, <1>4

\* The end of a range is not before its start, when their sum is an asUINT.
RangesFit == \A s \in Scripts : \A n \in s.numbers, m \in 0 .. s.maxSize : n + m < Word

LEMMA RemoveSlotsKeeps ==
  ASSUME script \in Scripts, RangesFit, NEW w, NEW out \in Outside, Sound(w, out),
         NEW start \in script.numbers, NEW n \in script.numbers
  PROVE  Sound(RemoveSlots(w, start, n), out)
<1>1. w \in Works /\ Len(w.data) <= w.max
  BY DEF Sound, Fits
<1>2. start \in Nat /\ n \in Nat /\ Word \in Nat /\ script.maxSize \in Nat
  BY ScriptFacts
<1>3. PICK size \in 0 .. script.maxSize : size = Len(w.data)
  BY <1>1, <1>2, WorkTypes
<1>4. CASE n = 0
  BY <1>4 DEF RemoveSlots
<1>5. CASE n # 0 /\ start > size
  <2>1. RemoveSlots(w, start, n) = Raise(w)
    BY <1>2, <1>3, <1>5 DEF RemoveSlots
  <2> QED BY <1>1, <2>1, RaiseKeeps
<1>6. CASE n # 0 /\ start <= size
  <2>1. start + n \in Nat /\ start + n < Word
    <3>1. n + start < Word
      BY <1>2, <1>3, <1>6 DEF RangesFit
    <3> QED BY <1>2, <3>1
  <2>2. (start + n) % Word = start + n
    BY <1>2, <2>1
  <2>3. PICK end \in Nat : end = RangeEnd(w, start, n) /\ start <= end /\ end <= size
    BY <1>2, <1>3, <1>6, <2>1, <2>2 DEF RangeEnd
  <2>4. RemoveSlots(w, start, n) = Destruct(w, start, end - start)
    BY <1>2, <1>3, <1>6, <2>3 DEF RemoveSlots, Destruct
  <2>5. end - start \in Nat /\ start + (end - start) <= Len(w.data)
    BY <1>2, <1>3, <2>3
  <2> QED BY <1>2, <2>4, <2>5, DestructKeeps
<1> QED BY <1>2, <1>3, <1>4, <1>5, <1>6

LEMMA RemoveSlotKeeps ==
  ASSUME script \in Scripts, NEW w, NEW out \in Outside, Sound(w, out), NEW k \in Int
  PROVE  Sound(RemoveSlot(w, k), out)
<1>1. w \in Works
  BY DEF Sound
<1>2. CASE k \in 0 .. Len(w.data) - 1
  <2>1. k \in Nat
    BY <1>1, <1>2, WorkTypes
  <2>2. HoldsObjects => -1 <= Cardinality(Free(w))
    <3>1. Cardinality(Free(w)) \in Nat
      BY ScriptFacts, FS_Subset, FS_CardinalityType DEF Free
    <3> QED BY <3>1
  <2>3. Sound(ResizeBy(w, -1, k, TRUE, 0), out)
    <3>1. PICK d \in Int : d = -1
      OBVIOUS
    <3>0. PICK b \in BOOLEAN : b = TRUE
      OBVIOUS
    <3>2. HoldsObjects => d <= Cardinality(Free(w))
      BY <2>2, <3>1
    <3>3. Sound(ResizeBy(w, d, k, b, 0), out)
      BY <2>1, <3>2, ResizeByKeeps
    <3> QED BY <3>0, <3>1, <3>3
  <2> QED BY <1>2, <2>3 DEF RemoveSlot
<1>3. CASE k \notin 0 .. Len(w.data) - 1
  BY <1>1, <1>3, RaiseKeeps DEF RemoveSlot
<1> QED BY <1>2, <1>3

\* An element of a sequence of one.
LEMMA OneElement ==
  ASSUME NEW S, NEW v \in S
  PROVE  <<v>> \in Seq(S)
OBVIOUS

LEMMA InsertSlotKeeps ==
  ASSUME script \in Scripts, NEW w, NEW out \in Outside, Sound(w, out), NEW p \in Nat,
         NEW v \in Content, NEW mem \in BOOLEAN, NEW made \in Nat,
         HoldsObjects => 1 <= Cardinality(Free(w))
  PROVE  Sound(InsertSlot(w, p, v, mem, made), out)
<1>1. w \in Works
  BY DEF Sound
<1>2. CASE p > Len(w.data)
  BY <1>1, <1>2, RaiseKeeps DEF InsertSlot
<1>3. CASE ~(p > Len(w.data))
  <2>1. PICK wider : wider = ResizeBy(w, 1, p, mem, made)
    OBVIOUS
  <2>2. Sound(wider, out)
    BY <2>1, ResizeByKeeps
  <2>3. PICK set : set = SetSlot(wider, p, v)
    OBVIOUS
  <2>4. Sound(set, out)
    BY <2>2, <2>3, OneElement, SetSlotsKeeps DEF SetSlot
  <2>5. set \in Works /\ set.raised \in BOOLEAN /\ wider.raised \in BOOLEAN
    BY <2>2, <2>4, WorkTypes DEF Sound
  <2>6. PICK b \in BOOLEAN : b = (set.raised \/ wider.raised)
    BY <2>5
  <2>7. PICK last : last = [set EXCEPT !.raised = b]
    OBVIOUS
  <2>8. last \in Works /\ last.data = set.data /\ last.max = set.max /\ last.refs = set.refs
    BY <2>5, <2>7 DEF Works
  <2>9. Sound(last, out)
    BY <2>4, <2>8 DEF Sound, Exact, Own, Fits
  <2>10. InsertSlot(w, p, v, mem, made) = last
    BY <1>3, <2>1, <2>3, <2>6, <2>7 DEF InsertSlot
  <2> QED BY <2>9, <2>10
<1> QED BY <1>2, <1>3

LEMMA ContentTyped ==
  ASSUME NEW slot \in Slot, NEW v \in [Objects -> Values]
  PROVE  ContentOf(slot, v) \in Content
<1>1. HoldsObjects => Slot = Objects \cup {None}
  BY DEF HoldsObjects, Slot
<1> QED BY <1>1 DEF ContentOf, Content

LEMMA ContentsTyped ==
  ASSUME NEW s \in Seq(Slot), NEW v \in [Objects -> Values]
  PROVE  /\ [k \in DOMAIN s |-> ContentOf(s[k], v)] \in Seq(Content)
         /\ Len([k \in DOMAIN s |-> ContentOf(s[k], v)]) = Len(s)
<1>1. PICK n \in Nat : n = Len(s) /\ DOMAIN s = 1 .. n
  BY LenProperties
<1>2. \A k \in 1 .. n : ContentOf(s[k], v) \in Content
  BY <1>1, ElementOfSeq, ContentTyped
<1>3. PICK t : t = [k \in DOMAIN s |-> ContentOf(s[k], v)]
  OBVIOUS
<1>4. t \in [1 .. n -> Content]
  BY <1>1, <1>2, <1>3
<1>5. t \in Seq(Content) /\ Len(t) = n
  BY <1>4, SeqDef, LenProperties
<1> QED BY <1>1, <1>3, <1>5

LEMMA InsertSlotsKeeps ==
  ASSUME script \in Scripts, NEW w, NEW out \in Outside, Sound(w, out), NEW p \in Nat,
         NEW vs \in Seq(Content), NEW self \in BOOLEAN, NEW mem \in BOOLEAN, NEW made \in Nat,
         HoldsObjects => Len(vs) <= Cardinality(Free(w))
  PROVE  Sound(InsertSlots(w, p, vs, self, mem, made), out)
<1>1. w \in Works
  BY DEF Sound
<1>2. PICK size \in Nat, n \in Nat : size = Len(w.data) /\ n = Len(vs)
  BY <1>1, WorkTypes, LenProperties
<1>3. CASE p > size
  BY <1>1, <1>2, <1>3, RaiseKeeps DEF InsertSlots
<1>4. CASE ~(p > size)
  <2>1. PICK wider : wider = ResizeBy(w, n, p, mem, made)
    OBVIOUS
  <2>2. Sound(wider, out) /\ size <= Len(wider.data)
    BY <1>2, <2>1, ResizeByKeeps
  <2>3. CASE ~self
    <3>1. InsertSlots(w, p, vs, self, mem, made) = SetSlots(wider, p, vs)
      BY <1>2, <1>4, <2>1, <2>3 DEF InsertSlots
    <3> QED BY <2>2, <3>1, SetSlotsKeeps
  <2>4. CASE self
    <3>1. wider \in Works
      BY <2>2 DEF Sound
    <3>2. PICK now : now = Inserted(wider, wider.val)
      OBVIOUS
    <3>3. now \in Seq(Content) /\ Len(now) = Len(wider.data)
      BY <3>1, <3>2, ContentsTyped, WorkTypes DEF Inserted
    <3>4. PICK m \in Nat : m = Len(now) /\ size <= m /\ p <= m
      BY <1>2, <1>4, <2>2, <3>1, <3>3, WorkTypes
    <3>5. \A k \in 1 .. m : now[k] \in Content
      BY <3>3, <3>4, ElementOfSeq
    <3>6. SubSeq(now, 1, p) \in Seq(Content)
      BY <3>4, <3>5, SubSeqProperties
    <3>7. SubSeq(now, p + n + 1, m) \in Seq(Content)
      BY <3>4, <3>5, SubSeqProperties
    <3>8. PICK first \in Seq(Content), second \in Seq(Content) :
             first = SubSeq(now, 1, p) /\ second = SubSeq(now, p + n + 1, m)
      BY <3>6, <3>7
    <3>9. PICK half : half = SetSlots(wider, p, first)
      OBVIOUS
    <3>10. Sound(half, out)
      BY <2>2, <3>9, SetSlotsKeeps
    <3>11. Sound(SetSlots(half, p + p, second), out)
      BY <3>10, SetSlotsKeeps
    <3>12. InsertSlots(w, p, vs, self, mem, made) = SetSlots(half, p + p, second)
      BY <1>2, <1>4, <2>1, <2>4, <3>2, <3>4, <3>8, <3>9 DEF InsertSlots
    <3> QED BY <3>11, <3>12
  <2> QED BY <2>3, <2>4
<1> QED BY <1>3, <1>4

LEMMA ReversedKeeps ==
  ASSUME NEW w, NEW out, Sound(w, out)
  PROVE  Sound([w EXCEPT !.data = Reversed(w.data)], out)
<1>1. w \in Works
  BY DEF Sound
<1>2. PICK s \in Seq(Slot) : s = w.data
  BY <1>1, WorkTypes
<1>3. PICK r \in Seq(Slot) : r = Reversed(s) /\ Len(r) = Len(s)
  <2>1. Reversed(s) \in Seq(Slot) /\ Len(Reversed(s)) = Len(s)
    BY UsesOfReversed
  <2> QED BY <2>1
<1>4. \A o \in Objects : Uses(o, r) = Uses(o, s)
  BY <1>3, UsesOfReversed
<1>5. PICK v : v = [w EXCEPT !.data = r]
  OBVIOUS
<1>6. v \in Works /\ v.data = r /\ v.max = w.max /\ v.refs = w.refs
  BY <1>1, <1>5 DEF Works
<1>7. Sound(v, out)
  BY <1>2, <1>3, <1>4, <1>6 DEF Sound, Exact, Own, Fits
<1> QED BY <1>2, <1>3, <1>5, <1>7

-----------------------------------------------------------------------------
(* Arrays that are created.                                                  *)
LEMMA FilledKeeps ==
  ASSUME script \in Scripts, NEW out \in Outside, Sound(Empty, out), NEW n \in Nat,
         n <= script.maxSize, Creatable(n), NEW made \in Nat
  PROVE  Sound(Filled(n, made), out)
<1>1. script.maxSize \in Nat /\ Empty.max = 0 /\ Empty.data = <<>> /\ Len(Empty.data) = 0
  BY ScriptFacts DEF Empty
<1>2. PICK e : e = Empty
  OBVIOUS
<1>3. PICK w : w = [e EXCEPT !.max = n]
  OBVIOUS
<1>4. w \in Works /\ w.max = n /\ w.data = e.data /\ w.refs = e.refs /\ Sound(w, out)
  <2>1. n \in 0 .. script.maxSize /\ e.max <= n /\ Sound(e, out)
    BY <1>1, <1>2
  <2> QED BY <1>1, <1>3, <2>1, WithRoom
<1>5. Exact(w, out) /\ Own(w)
  BY <1>4 DEF Sound
<1>6. HoldsObjects => n <= Cardinality(Free(w))
  <2>1. Free(w) = Free(Empty)
    BY <1>2, <1>4 DEF Free
  <2> QED BY <2>1 DEF Creatable
<1>7. 0 <= Len(w.data) /\ Len(w.data) + n <= w.max
  BY <1>1, <1>2, <1>4
<1>8. Sound(Construct(w, 0, n, made), out)
  BY <1>4, <1>5, <1>6, <1>7, ConstructKeeps
<1> QED BY <1>2, <1>3, <1>8 DEF Filled

LEMMA AddRefFields ==
  ASSUME NEW w \in Works, NEW s
  PROVE  /\ AddRef(w, s).data = w.data /\ AddRef(w, s).max = w.max
         /\ AddRef(w, s).val = w.val /\ AddRef(w, s).raised = w.raised
         /\ \A o \in Objects : AddRef(w, s).refs[o] = w.refs[o] + Uses(o, s)
BY DEF AddRef, Works

LEMMA AddRefIsWork ==
  ASSUME NEW w \in Works, NEW S, NEW s \in Seq(S)
  PROVE  AddRef(w, s) \in Works
<1>1. PICK r : r = [o \in Objects |-> w.refs[o] + Uses(o, s)]
  OBVIOUS
<1>2. r \in [Objects -> Nat]
  <2> SUFFICES ASSUME NEW o \in Objects PROVE w.refs[o] + Uses(o, s) \in Nat
    BY <1>1
  <2>1. w.refs[o] \in Nat /\ Uses(o, s) \in Nat
    BY WorkTypes, UsesIsNat
  <2> QED BY <2>1
<1>3. AddRef(w, s) = [w EXCEPT !.refs = r]
  BY <1>1 DEF AddRef
<1> QED BY <1>2, <1>3 DEF Works

LEMMA ReleaseAllFields ==
  ASSUME NEW w \in Works, NEW s
  PROVE  /\ ReleaseAll(w, s).data = w.data /\ ReleaseAll(w, s).max = w.max
         /\ ReleaseAll(w, s).val = w.val /\ ReleaseAll(w, s).raised = w.raised
         /\ \A o \in Objects : ReleaseAll(w, s).refs[o] = w.refs[o] - Uses(o, s)
BY DEF ReleaseAll, Works

\* What is taken out of a record when references it counted are released.
LEMMA ReleaseAllKeeps ==
  ASSUME NEW w \in Works, NEW out \in Outside, NEW S, NEW s \in Seq(S), Fits(w),
         \A o \in Objects : w.refs[o] = out[o] + Uses(o, s) + Uses(o, w.data),
         Own(w)
  PROVE  Sound(ReleaseAll(w, s), out)
<1>1. \A o \in Objects : /\ w.refs[o] - Uses(o, s) = out[o] + Uses(o, w.data)
                         /\ w.refs[o] - Uses(o, s) \in Nat
                         /\ w.refs[o] - Uses(o, s) <= w.refs[o]
  <2> TAKE o \in Objects
  <2>1. PICK d \in Seq(Slot) : d = w.data
    BY WorkTypes
  <2>2. PICK r \in Nat, u \in Nat, x \in Nat, y \in Nat :
          r = w.refs[o] /\ u = out[o] /\ x = Uses(o, s) /\ y = Uses(o, d)
    <3>1. w.refs[o] \in Nat /\ out[o] \in Nat
      BY WorkTypes DEF Outside
    <3>2. Uses(o, s) \in Nat /\ Uses(o, d) \in Nat
      BY UsesIsNat
    <3> QED BY <3>1, <3>2
  <2>3. r = u + x + y
    BY <2>1, <2>2
  <2>4. r - x = u + y /\ r - x \in Nat /\ r - x <= r
    BY <2>3
  <2> QED BY <2>1, <2>2, <2>4
<1>2. PICK v : v = ReleaseAll(w, s)
  OBVIOUS
<1>3. v.data = w.data /\ v.max = w.max /\ \A o \in Objects : v.refs[o] = w.refs[o] - Uses(o, s)
  BY <1>2, ReleaseAllFields
<1>4. v \in Works
  <2>1. PICK r : r = [o \in Objects |-> w.refs[o] - Uses(o, s)]
    OBVIOUS
  <2>2. r \in [Objects -> Nat]
    BY <1>1, <2>1
  <2>3. v = [w EXCEPT !.refs = r]
    BY <1>2, <2>1 DEF ReleaseAll
  <2> QED BY <2>2, <2>3 DEF Works
<1>5. Exact(v, out)
  BY <1>1, <1>3 DEF Exact
<1>6. Own(v)
  <2> SUFFICES ASSUME HoldsObjects, NEW o \in Objects PROVE v.refs[o] <= 1
    BY DEF Own
  <2>1. v.refs[o] <= w.refs[o] /\ w.refs[o] <= 1 /\ v.refs[o] \in Nat /\ w.refs[o] \in Nat
    BY <1>1, <1>3, WorkTypes DEF Own
  <2> QED BY <2>1
<1> QED BY <1>2, <1>3, <1>4, <1>5, <1>6 DEF Sound, Fits

\* The objects named by new ones are no longer free, and no others.
LEMMA StillFree ==
  ASSUME script \in Scripts, NEW w \in Works, NEW n \in Nat, 2 * n <= Cardinality(Free(w)), NEW v,
         \A o \in Objects : v.refs[o] = w.refs[o] + Uses(o, NewObjects(w, n))
  PROVE  n <= Cardinality(Free(v))
<1>1. IsFiniteSet(Free(w)) /\ IsFiniteSet(Objects)
  BY ScriptFacts, FS_Subset DEF Free
<1>2. PICK c \in Nat : c = Cardinality(Free(w)) /\ n <= c /\ 2 * n <= c
  <2>1. Cardinality(Free(w)) \in Nat
    BY <1>1, FS_CardinalityType
  <2> QED BY <2>1
<1>3. PICK new : new = NewObjects(w, n)
  OBVIOUS
<1>4. new \in [1 .. n -> Free(w)] /\ \A q, k \in 1 .. n : q # k => new[q] # new[k]
  BY <1>1, <1>2, <1>3, ObjectsAreNew
<1> DEFINE R == {new[k] : k \in 1 .. n}
<1>5. R \subseteq Free(w)
  BY <1>4
<1>6. IsFiniteSet(R) /\ Cardinality(R) = n
  <2>1. new \in Bijection(1 .. n, R)
    BY <1>4 DEF Bijection, Injection, Surjection, IsInjective
  <2>2. IsFiniteSet(1 .. n) /\ Cardinality(1 .. n) = n
    BY FS_Interval
  <2> HIDE DEF R
  <2> QED BY <2>1, <2>2, FS_Bijection DEF ExistsBijection
<1>7. \A o \in Free(w) \ R : o \in Free(v)
  <2> SUFFICES ASSUME NEW o \in Free(w), o \notin R PROVE o \in Free(v)
    OBVIOUS
  <2>1. o \in Objects /\ w.refs[o] = 0
    BY DEF Free
  <2>2. new \in Seq(Objects) /\ Len(new) = n
    BY <1>1, <1>2, <1>3, <2>1, NewObjectsUses
  <2>3. \A k \in 1 .. Len(new) : new[k] # o
    BY <2>2
  <2>4. Uses(o, new) = 0
    BY <2>2, <2>3, NotUsed
  <2> QED BY <1>3, <2>1, <2>4 DEF Free
<1> HIDE DEF R
<1>8. Cardinality(Free(w) \ R) = c - n
  <2>1. Free(w) \cap R = R
    BY <1>5
  <2>2. Cardinality(Free(w) \ R) = Cardinality(Free(w)) - Cardinality(Free(w) \cap R)
    BY <1>1, FS_Difference
  <2> QED BY <1>2, <1>6, <2>1, <2>2
<1>9. IsFiniteSet(Free(v))
  BY <1>1, FS_Subset DEF Free
<1>10. Cardinality(Free(w) \ R) <= Cardinality(Free(v)) /\ Cardinality(Free(v)) \in Nat
  BY <1>7, <1>9, FS_Subset, FS_CardinalityType
<1> QED BY <1>2, <1>8, <1>10

\* The slots of a record without any are filled with what has been counted.
LEMMA FullKeeps ==
  ASSUME NEW w \in Works, NEW out \in Outside, NEW s \in Seq(Slot), Len(s) <= w.max,
         NEW S, NEW gone \in Seq(S), Own(w),
         \A o \in Objects : w.refs[o] = out[o] + Uses(o, gone) + Uses(o, s)
  PROVE  Sound(ReleaseAll([w EXCEPT !.data = s], gone), out)
<1>1. PICK full : full = [w EXCEPT !.data = s]
  OBVIOUS
<1>2. full \in Works /\ full.data = s /\ full.max = w.max /\ full.refs = w.refs
  BY <1>1 DEF Works
<1>3. Fits(full) /\ Own(full)
  BY <1>2 DEF Fits, Own
<1>4. \A o \in Objects : full.refs[o] = out[o] + Uses(o, gone) + Uses(o, full.data)
  BY <1>2
<1>5. Sound(ReleaseAll(full, gone), out)
  BY <1>2, <1>3, <1>4, ReleaseAllKeeps
<1> QED BY <1>1, <1>5

\* The objects a list literal makes.
MadeForList(e, vs) ==
  LET new == NewObjects(e, Len(vs)) IN
  [e EXCEPT !.val = [o \in Objects |->
     IF \E k \in DOMAIN new : new[k] = o THEN vs[CHOOSE k \in DOMAIN new : new[k] = o] ELSE e.val[o]]]

LEMMA ListOfObjects ==
  ASSUME script \in Scripts, HoldsObjects, NEW e \in Works, NEW out \in Outside, Sound(e, out),
         e.data = <<>>, NEW vs \in Seq(Values), 2 * Len(vs) <= Cardinality(Free(e))
  PROVE  LET new == NewObjects(e, Len(vs))
             w   == AddRef(MadeForList(e, vs), new)
         IN /\ new \in Seq(Objects) /\ Len(new) = Len(vs)
            /\ w \in Works /\ w.data = <<>> /\ w.max = e.max /\ Own(w)
            /\ \A o \in Objects : w.refs[o] = out[o] + Uses(o, new)
            /\ Len(vs) <= Cardinality(Free(w))
<1>1. PICK n \in Nat : n = Len(vs) /\ DOMAIN vs = 1 .. n /\ \A k \in 1 .. n : vs[k] \in Values
  BY LenProperties, ElementOfSeq
<1>2. PICK new : new = NewObjects(e, n)
  OBVIOUS
<1>3. IsFiniteSet(Free(e)) /\ IsFiniteSet(Objects) /\ n <= Cardinality(Free(e)) /\ 2 * n <= Cardinality(Free(e))
  <2>1. IsFiniteSet(Free(e)) /\ IsFiniteSet(Objects)
    BY ScriptFacts, FS_Subset DEF Free
  <2>2. PICK c \in Nat : c = Cardinality(Free(e))
    BY <2>1, FS_CardinalityType
  <2> QED BY <1>1, <2>1, <2>2
<1>4. new \in [1 .. n -> Free(e)]
  BY <1>2, <1>3, ObjectsAreNew
<1>5. new \in Seq(Objects) /\ Len(new) = n /\ DOMAIN new = 1 .. n
  <2>1. new \in [1 .. n -> Objects]
    BY <1>4 DEF Free
  <2> QED BY <2>1, SeqDef, LenProperties
<1>6. \A o \in Objects : Uses(o, new) \in 0 .. 1 /\ (Uses(o, new) = 1 => e.refs[o] = 0)
  BY <1>2, <1>3, NewObjectsUses DEF Free
<1>7. PICK vals : vals = [o \in Objects |->
                  IF \E k \in DOMAIN new : new[k] = o THEN vs[CHOOSE k \in DOMAIN new : new[k] = o] ELSE e.val[o]]
  OBVIOUS
<1>8. vals \in [Objects -> Values]
  <2> SUFFICES ASSUME NEW o \in Objects
               PROVE (IF \E k \in DOMAIN new : new[k] = o
                      THEN vs[CHOOSE k \in DOMAIN new : new[k] = o] ELSE e.val[o]) \in Values
    BY <1>7
  <2>1. CASE \E k \in DOMAIN new : new[k] = o
    <3>1. PICK k \in DOMAIN new : k = CHOOSE l \in DOMAIN new : new[l] = o
      BY <2>1
    <3> QED BY <1>1, <1>5, <2>1, <3>1
  <2> QED BY <2>1, WorkTypes
<1>9. PICK mid : mid = [e EXCEPT !.val = vals]
  OBVIOUS
<1>10. mid \in Works /\ mid.data = e.data /\ mid.max = e.max /\ mid.refs = e.refs
  BY <1>8, <1>9 DEF Works
<1>11. mid = MadeForList(e, vs)
  BY <1>1, <1>2, <1>7, <1>9 DEF MadeForList
<1>12. PICK w : w = AddRef(mid, new)
  OBVIOUS
<1>13. w \in Works
  BY <1>5, <1>10, <1>12, AddRefIsWork
<1>14. w.data = <<>> /\ w.max = e.max /\ \A o \in Objects : w.refs[o] = e.refs[o] + Uses(o, new)
  BY <1>10, <1>12, AddRefFields
<1>15. \A o \in Objects : e.refs[o] = out[o] /\ out[o] \in Nat
  <2> TAKE o \in Objects
  <2>1. e.refs[o] = out[o] + Uses(o, <<>>) /\ out[o] \in Nat
    BY DEF Sound, Exact, Outside
  <2>2. Uses(o, <<>>) = 0
    BY NoneUsed
  <2> QED BY <2>1, <2>2
<1>16. Own(w)
  <2> SUFFICES ASSUME NEW o \in Objects PROVE w.refs[o] <= 1
    BY DEF Own
  <2>1. e.refs[o] \in Nat /\ e.refs[o] <= 1
    BY WorkTypes DEF Sound, Own
  <2> QED BY <1>6, <1>14, <2>1
<1>17. n <= Cardinality(Free(w))
  BY <1>2, <1>3, <1>14, StillFree
<1> QED BY <1>1, <1>2, <1>5, <1>11, <1>12, <1>13, <1>14, <1>15, <1>16, <1>17

LEMMA FromListKeeps ==
  ASSUME script \in Scripts, NEW out \in Outside, Sound(Empty, out), NEW vs \in Seq(Content),
         Len(vs) <= script.maxSize, Creatable(2 * Len(vs)), \A k \in DOMAIN vs : vs[k] \in Passable,
         NEW made \in Nat
  PROVE  Sound(FromList(vs, made), out)
<1>1. script.maxSize \in Nat /\ Empty.max = 0 /\ Empty.data = <<>> /\ Empty.refs = refs
  BY ScriptFacts DEF Empty
<1>2. PICK n \in Nat : n = Len(vs) /\ DOMAIN vs = 1 .. n
  BY LenProperties
<1>3. PICK z : z = Empty
  OBVIOUS
<1>4. PICK e : e = [z EXCEPT !.max = n]
  OBVIOUS
<1>5. e \in Works /\ e.max = n /\ e.data = <<>> /\ e.refs = refs /\ Sound(e, out)
  <2>1. n \in 0 .. script.maxSize /\ z.max <= n /\ Sound(z, out)
    BY <1>1, <1>2, <1>3
  <2>2. e \in Works /\ e.max = n /\ e.data = z.data /\ e.refs = z.refs /\ Sound(e, out)
    BY <1>1, <1>4, <2>1, WithRoom
  <2> QED BY <1>1, <1>3, <2>2
<1>6. \A o \in Objects : e.refs[o] = out[o] /\ out[o] \in Nat /\ Uses(o, <<>>) = 0
  <2> TAKE o \in Objects
  <2>1. e.refs[o] = out[o] + Uses(o, <<>>) /\ out[o] \in Nat
    BY <1>5 DEF Sound, Exact, Outside
  <2>2. Uses(o, <<>>) = 0
    BY NoneUsed
  <2> QED BY <2>1, <2>2
<1>7. PICK none \in Seq(Slot) : none = <<>>
  BY EmptySeq
<1>8. CASE Kind = "primitive"
  <2>1. Objects = {} /\ ~HoldsObjects
    BY <1>8, ScriptFacts DEF HoldsObjects
  <2>2. vs \in Seq(Slot)
    BY <2>1 DEF Content
  <2>3. Own(e)
    BY <2>1 DEF Own
  <2>4. FromList(vs, made) = ReleaseAll([e EXCEPT !.data = vs], vs)
    BY <1>2, <1>3, <1>4, <1>8, <2>1 DEF FromList, ListItems, LeftInList
  <2>5. Len(vs) <= e.max
    BY <1>2, <1>5
  <2>6. Sound(ReleaseAll([e EXCEPT !.data = vs], vs), out)
    BY <1>5, <2>1, <2>2, <2>3, <2>5, FullKeeps
  <2> QED BY <2>4, <2>6
<1>9. CASE Kind = "handle"
  <2>1. ~HoldsObjects
    BY <1>9 DEF HoldsObjects
  <2>2. vs \in Seq(Slot)
    BY <2>1 DEF Content
  <2>3. PICK w : w = AddRef(e, vs)
    OBVIOUS
  <2>4. w \in Works /\ w.max = n /\ \A o \in Objects : w.refs[o] = e.refs[o] + Uses(o, vs)
    <3>1. w \in Works
      BY <1>5, <2>2, <2>3, AddRefIsWork
    <3> QED BY <1>5, <2>3, <3>1, AddRefFields
  <2>5. FromList(vs, made) = ReleaseAll([w EXCEPT !.data = vs], none)
    BY <1>2, <1>3, <1>4, <1>7, <1>9, <2>1, <2>3 DEF FromList, ListItems, LeftInList
  <2>6. \A o \in Objects : w.refs[o] = out[o] + Uses(o, none) + Uses(o, vs)
    BY <1>6, <1>7, <2>4
  <2>7. Own(w) /\ Len(vs) <= w.max
    BY <1>2, <2>1, <2>4 DEF Own
  <2>8. Sound(ReleaseAll([w EXCEPT !.data = vs], none), out)
    BY <2>2, <2>4, <2>6, <2>7, FullKeeps
  <2> QED BY <2>5, <2>8
<1>10. CASE HoldsObjects
  <2>1. PICK cs \in Seq(Values) : cs = vs
    <3>1. \A k \in 1 .. n : vs[k] \in Values
      BY <1>2, <1>10 DEF Passable, HoldsObjects
    <3>2. vs \in [1 .. n -> Values]
      BY <1>2, <3>1, LenProperties
    <3>3. vs \in Seq(Values)
      BY <3>2, SeqDef
    <3> QED BY <3>3
  <2>2. Free(e) = Free(Empty)
    BY <1>1, <1>5 DEF Free
  <2>3. 2 * Len(cs) <= Cardinality(Free(e))
    BY <1>10, <2>1, <2>2 DEF Creatable
  <2>4. PICK new, w : new = NewObjects(e, n) /\ w = AddRef(MadeForList(e, cs), new)
    OBVIOUS
  <2>5. /\ new \in Seq(Objects) /\ Len(new) = n
        /\ w \in Works /\ w.data = <<>> /\ w.max = e.max /\ Own(w)
        /\ \A o \in Objects : w.refs[o] = out[o] + Uses(o, new)
        /\ n <= Cardinality(Free(w))
    <3>1. n = Len(cs)
      BY <1>2, <2>1
    <3> QED BY <1>5, <1>10, <2>3, <2>4, <3>1, ListOfObjects
  <2>6. ListItems(e, vs) = [w |-> w, items |-> new]
    BY <1>2, <1>10, <2>1, <2>4 DEF ListItems, MadeForList, HoldsObjects
  <2>7. ~(Kind = "primitive") /\ Slot = Objects \cup {None}
    BY <1>10 DEF HoldsObjects, Slot
  <2>8. CASE Kind = "reference"
    <3>1. FromList(vs, made) = ReleaseAll([w EXCEPT !.data = new], none)
      BY <1>2, <1>3, <1>4, <1>7, <2>6, <2>8 DEF FromList, LeftInList
    <3>2. new \in Seq(Slot)
      BY <2>5, <2>7, SeqMonotonic
    <3>3. \A o \in Objects : w.refs[o] = out[o] + Uses(o, none) + Uses(o, new)
      BY <1>6, <1>7, <2>5
    <3>4. Len(new) <= w.max
      BY <1>5, <2>5
    <3>5. Sound(ReleaseAll([w EXCEPT !.data = new], none), out)
      BY <2>5, <3>2, <3>3, <3>4, FullKeeps
    <3> QED BY <3>1, <3>5
  <2>9. CASE Kind = "value"
    <3>1. PICK more : more = [o \in Objects |-> out[o] + Uses(o, new)]
      OBVIOUS
    <3>2. more \in Outside
      <4>1. \A o \in Objects : out[o] + Uses(o, new) \in Nat
        <5> TAKE o \in Objects
        <5>1. out[o] \in Nat /\ Uses(o, new) \in Nat
          BY <2>5, UsesIsNat DEF Outside
        <5> QED BY <5>1
      <4> QED BY <3>1, <4>1 DEF Outside
    <3>3. Exact(w, more)
      <4> SUFFICES ASSUME NEW o \in Objects PROVE w.refs[o] = more[o] + Uses(o, w.data)
        BY DEF Exact
      <4>1. w.refs[o] = more[o] /\ more[o] \in Nat /\ Uses(o, w.data) = 0
        BY <1>6, <2>5, <3>1, <3>2 DEF Outside
      <4> QED BY <4>1
    <3>4. PICK filled : filled = Construct(w, 0, n, made)
      OBVIOUS
    <3>5. Sound(filled, more)
      <4>1. 0 <= Len(w.data) /\ Len(w.data) + n <= w.max
        BY <1>5, <2>5
      <4> QED BY <2>5, <3>2, <3>3, <3>4, <4>1, ConstructKeeps
    <3>6. PICK set : set = SetSlots(filled, 0, vs)
      OBVIOUS
    <3>7. Sound(set, more)
      BY <3>2, <3>5, <3>6, SetSlotsKeeps
    <3>8. set \in Works /\ Fits(set) /\ Own(set)
      BY <3>7 DEF Sound
    <3>9. \A o \in Objects : set.refs[o] = out[o] + Uses(o, new) + Uses(o, set.data)
      BY <3>1, <3>7 DEF Sound, Exact
    <3>10. Sound(ReleaseAll(set, new), out)
      BY <2>5, <3>8, <3>9, ReleaseAllKeeps
    <3>11. FromList(vs, made) = ReleaseAll(set, new)
      BY <1>2, <1>3, <1>4, <2>6, <2>9, <3>4, <3>6 DEF FromList, LeftInList
    <3> QED BY <3>10, <3>11
  <2> QED BY <1>10, <2>8, <2>9 DEF HoldsObjects
<1> QED BY <1>8, <1>9, <1>10, ScriptFacts DEF HoldsObjects

-----------------------------------------------------------------------------
(* The invariant: what the counts of all objects are, of all arrays.        *)
Buffers == [max : 0 .. script.maxSize, data : Seq(Slot)]

StorageTyped ==
  /\ script \in Scripts
  /\ buffer \in [Arrays -> Buffers \cup {None}]
  /\ \A a \in Arrays : buffer[a] # None => Len(buffer[a].data) <= buffer[a].max
  /\ refCount \in [Arrays -> 0 .. script.maxReferences]
  /\ \A a \in Arrays : refCount[a] = 0 => buffer[a] = None
  /\ refs \in [Objects -> Nat]
  /\ val \in [Objects -> Values]
  /\ held \subseteq Objects
  /\ exception \in BOOLEAN
  /\ Kind # "handle" => held = {}
OwnedOnce == HoldsObjects => \A o \in Objects : refs[o] <= 1

StorageIInv == StorageTyped /\ RefCountsExact /\ OwnedOnce

\* The places of one array, and of some, that refer to an object.
PlacesOf(s, a, o) == {<<a, k>> : k \in {m \in DOMAIN s : s[m] = o}}
Within(slots, A, o) == UNION {PlacesOf(slots[b], b, o) : b \in A}
Variables(o) == IF o \in held THEN 1 ELSE 0
Contained == [b \in Arrays |-> Slots(b)]
Out(a) == [o \in Objects |-> Cardinality(Within(Contained, Arrays \ {a}, o)) + Variables(o)]

LEMMA PlacesCount ==
  ASSUME NEW S, NEW s \in Seq(S), NEW a, NEW o
  PROVE  IsFiniteSet(PlacesOf(s, a, o)) /\ Cardinality(PlacesOf(s, a, o)) = Uses(o, s)
<1> DEFINE U == UsesAt(o, s)
           P == PlacesOf(s, a, o)
           f == [k \in U |-> <<a, k>>]
<1>1. P = {<<a, k>> : k \in U}
  BY DEF PlacesOf, UsesAt
<1>2. f \in [U -> P]
  BY <1>1
<1>3. \A x \in P : \E k \in U : f[k] = x
  BY <1>1
<1>4. \A k, m \in U : f[k] = f[m] => k = m
  OBVIOUS
<1>5. f \in Bijection(U, P)
  BY <1>2, <1>3, <1>4 DEF Bijection, Injection, Surjection, IsInjective
<1>6. IsFiniteSet(U) /\ Uses(o, s) = Cardinality(U)
  BY UsesIsNat
<1> HIDE DEF U, P, f
<1>7. IsFiniteSet(P) /\ Cardinality(P) = Cardinality(U)
  BY <1>5, <1>6, FS_Bijection DEF ExistsBijection
<1> QED BY <1>6, <1>7 DEF P

LEMMA WithinMember ==
  ASSUME NEW slots, NEW A, NEW o, NEW x
  PROVE  x \in Within(slots, A, o) <=> \E b \in A : x \in PlacesOf(slots[b], b, o)
BY DEF Within

LEMMA WithinFinite ==
  ASSUME NEW S, NEW slots \in [Arrays -> Seq(S)], NEW A \in SUBSET Arrays, NEW o, IsFiniteSet(Arrays)
  PROVE  IsFiniteSet(Within(slots, A, o)) /\ Cardinality(Within(slots, A, o)) \in Nat
<1> DEFINE T == {PlacesOf(slots[b], b, o) : b \in A}
           f == [b \in A |-> PlacesOf(slots[b], b, o)]
<1>1. IsFiniteSet(A)
  BY FS_Subset
<1>2. f \in Surjection(A, T)
  BY DEF Surjection
<1>3. IsFiniteSet(T)
  <2> HIDE DEF f, T
  <2> QED BY <1>1, <1>2, FS_Surjection
<1>4. \A t \in T : IsFiniteSet(t)
  BY PlacesCount
<1>5. IsFiniteSet(UNION T)
  <2> HIDE DEF T
  <2> QED BY <1>3, <1>4, FS_UNION
<1>6. Within(slots, A, o) = UNION T
  BY DEF Within
<1> QED BY <1>5, <1>6, FS_CardinalityType

\* The references of all arrays are those of one and those of the others.
LEMMA OneAndOthers ==
  ASSUME NEW S, NEW slots \in [Arrays -> Seq(S)], NEW a \in Arrays, NEW o, IsFiniteSet(Arrays)
  PROVE  Cardinality(Within(slots, Arrays, o))
           = Cardinality(Within(slots, Arrays \ {a}, o)) + Uses(o, slots[a])
<1>1. PICK P : P = PlacesOf(slots[a], a, o)
  OBVIOUS
<1>2. PICK W : W = Within(slots, Arrays \ {a}, o)
  OBVIOUS
<1>3. PICK V : V = Within(slots, Arrays, o)
  OBVIOUS
<1>4. IsFiniteSet(P) /\ Cardinality(P) = Uses(o, slots[a])
  <2>1. slots[a] \in Seq(S)
    OBVIOUS
  <2> QED BY <1>1, <2>1, PlacesCount
<1>5. IsFiniteSet(W) /\ Cardinality(W) \in Nat
  BY <1>2, WithinFinite
<1>6. V = P \cup W
  <2>1. \A x : x \in V <=> \E b \in Arrays : x \in PlacesOf(slots[b], b, o)
    BY <1>3, WithinMember
  <2>2. \A x : x \in W <=> \E b \in Arrays \ {a} : x \in PlacesOf(slots[b], b, o)
    BY <1>2, WithinMember
  <2>3. \A x : x \in V <=> (x \in P \/ x \in W)
    BY <1>1, <2>1, <2>2
  <2> QED BY <2>3
<1>7. P \cap W = {}
  <2> SUFFICES ASSUME NEW x \in P, x \in W PROVE FALSE
    OBVIOUS
  <2>1. x[1] = a
    BY <1>1 DEF PlacesOf
  <2>2. PICK b \in Arrays \ {a} : x \in PlacesOf(slots[b], b, o)
    BY <1>2, WithinMember
  <2>3. x[1] = b
    BY <2>2 DEF PlacesOf
  <2> QED BY <2>1, <2>3
<1>8. Cardinality(P \cup W) = Cardinality(P) + Cardinality(W) - Cardinality(P \cap W)
  BY <1>4, <1>5, FS_Union
<1>9. Cardinality(P \cap W) = 0 /\ Cardinality(P) \in Nat
  BY <1>4, <1>7, FS_EmptySet, FS_CardinalityType
<1> QED BY <1>1, <1>2, <1>3, <1>4, <1>5, <1>6, <1>8, <1>9

\* What is in the buffers.
LEMMA SlotsTyped ==
  ASSUME StorageTyped
  PROVE  Contained \in [Arrays -> Seq(Slot)] /\ IsFiniteSet(Arrays)
<1>1. \A b \in Arrays : Slots(b) \in Seq(Slot)
  BY EmptySeq DEF StorageTyped, Slots, Buffers
<1> QED BY <1>1, ValuesAssumption DEF Contained

LEMMA OutTyped ==
  ASSUME StorageIInv, NEW a \in Arrays
  PROVE  /\ Out(a) \in Outside
         /\ \A o \in Objects : refs[o] = Out(a)[o] + Uses(o, Slots(a))
<1>1. Contained \in [Arrays -> Seq(Slot)] /\ IsFiniteSet(Arrays)
  BY SlotsTyped DEF StorageIInv
<1>2. PICK slots \in [Arrays -> Seq(Slot)] : slots = Contained
  BY <1>1
<1>3. \A o \in Objects :
        /\ Cardinality(Within(slots, Arrays \ {a}, o)) \in Nat
        /\ Cardinality(Within(slots, Arrays, o))
             = Cardinality(Within(slots, Arrays \ {a}, o)) + Uses(o, slots[a])
        /\ Uses(o, slots[a]) \in Nat
  <2> TAKE o \in Objects
  <2>1. slots[a] \in Seq(Slot)
    OBVIOUS
  <2> QED BY <1>1, <2>1, WithinFinite, OneAndOthers, UsesIsNat
<1>4. \A o \in Objects : refs[o] = Cardinality(Within(slots, Arrays, o)) + Variables(o)
  <2> TAKE o \in Objects
  <2>1. References(o) = Within(slots, Arrays, o)
    BY <1>2 DEF References, Places, Within, PlacesOf, Contained
  <2> QED BY <2>1 DEF StorageIInv, RefCountsExact, Variables
<1>5. slots[a] = Slots(a)
  BY <1>2 DEF Contained
<1>6. \A o \in Objects : Out(a)[o] = Cardinality(Within(slots, Arrays \ {a}, o)) + Variables(o)
                         /\ Variables(o) \in Nat
  BY <1>2 DEF Out, Variables
<1>7. Out(a) \in Outside
  <2>1. \A o \in Objects : Out(a)[o] \in Nat
    <3> TAKE o \in Objects
    <3>1. PICK c \in Nat, v \in Nat : c = Cardinality(Within(slots, Arrays \ {a}, o)) /\ v = Variables(o)
      BY <1>3, <1>6
    <3>2. Out(a)[o] = c + v
      BY <1>6, <3>1
    <3> QED BY <3>2
  <2> QED BY <2>1 DEF Out, Outside
<1>8. \A o \in Objects : refs[o] = Out(a)[o] + Uses(o, Slots(a))
  <2> TAKE o \in Objects
  <2>1. PICK c \in Nat, v \in Nat, u \in Nat :
          c = Cardinality(Within(slots, Arrays \ {a}, o)) /\ v = Variables(o) /\ u = Uses(o, slots[a])
    BY <1>3, <1>6
  <2>2. Out(a)[o] = c + v
    BY <1>6, <2>1
  <2>3. Cardinality(Within(slots, Arrays, o)) = c + u
    BY <1>3, <2>1
  <2>4. refs[o] = c + u + v
    BY <1>4, <2>1, <2>3
  <2> QED BY <1>5, <2>1, <2>2, <2>4
<1> QED BY <1>7, <1>8

\* A step that changes the buffer of one array, and the counts with it.
LEMMA BufferChanges ==
  ASSUME StorageIInv, NEW a \in Arrays, NEW b \in Buffers \cup {None}, b # None => Len(b.data) <= b.max,
         NEW s \in Seq(Slot), s = (IF b = None THEN <<>> ELSE b.data),
         NEW r \in [Objects -> Nat], \A o \in Objects : r[o] = Out(a)[o] + Uses(o, s),
         HoldsObjects => \A o \in Objects : r[o] <= 1,
         buffer' = [buffer EXCEPT ![a] = b], refs' = r, script' = script, held' = held,
         refCount' \in [Arrays -> 0 .. script.maxReferences],
         \A c \in Arrays : refCount'[c] = 0 => buffer'[c] = None,
         val' \in [Objects -> Values], exception' \in BOOLEAN
  PROVE  StorageIInv'
<1>1. StorageTyped
  BY DEF StorageIInv
<1>2. Contained \in [Arrays -> Seq(Slot)] /\ IsFiniteSet(Arrays)
  BY <1>1, SlotsTyped
<1>3. /\ Objects' = Objects /\ Slot' = Slot /\ Kind' = Kind /\ Buffers' = Buffers
      /\ HoldsObjects' = HoldsObjects
  BY DEF Objects, Slot, Kind, Buffers, HoldsObjects
<1>4. StorageTyped'
  <2>1. buffer' \in [Arrays -> Buffers \cup {None}]
    BY <1>1 DEF StorageTyped
  <2>2. \A c \in Arrays : buffer'[c] # None => Len(buffer'[c].data) <= buffer'[c].max
    BY <1>1 DEF StorageTyped
  <2>3. script' \in Scripts /\ held' \subseteq Objects /\ (Kind # "handle" => held' = {})
    BY <1>1 DEF StorageTyped
  <2> QED BY <1>3, <2>1, <2>2, <2>3 DEF StorageTyped
<1>5. PICK slots \in [Arrays -> Seq(Slot)] : slots = Contained
  BY <1>2
<1>6. PICK next \in [Arrays -> Seq(Slot)] : next = [slots EXCEPT ![a] = s]
  OBVIOUS
<1>7. \A c \in Arrays : Slots(c)' = next[c]
  <2> TAKE c \in Arrays
  <2>1. CASE c = a
    <3>1. buffer'[c] = b
      BY <1>1, <2>1 DEF StorageTyped
    <3> QED BY <1>6, <2>1, <3>1 DEF Slots
  <2>2. CASE c # a
    <3>1. buffer'[c] = buffer[c]
      BY <1>1, <2>2 DEF StorageTyped
    <3>2. Slots(c)' = Slots(c)
      BY <3>1 DEF Slots
    <3> QED BY <1>5, <1>6, <2>2, <3>2 DEF Contained
  <2> QED BY <2>1, <2>2
<1>8. \A o : Within(next, Arrays \ {a}, o) = Within(slots, Arrays \ {a}, o)
  <2>1. \A c \in Arrays \ {a} : next[c] = slots[c]
    BY <1>6
  <2> TAKE o
  <2>2. \A x : x \in Within(next, Arrays \ {a}, o) <=> x \in Within(slots, Arrays \ {a}, o)
    BY <2>1, WithinMember
  <2> QED BY <2>2
<1>9. RefCountsExact'
  <2> SUFFICES ASSUME NEW o \in Objects
               PROVE r[o] = Cardinality(References(o)') + Variables(o)
    BY <1>3 DEF RefCountsExact, Variables
  <2>1. References(o)' = Within(next, Arrays, o)
    BY <1>7 DEF References, Places, Within, PlacesOf
  <2>2. Cardinality(Within(next, Arrays, o))
          = Cardinality(Within(next, Arrays \ {a}, o)) + Uses(o, next[a])
    BY <1>2, OneAndOthers
  <2>3. next[a] = s
    BY <1>6
  <2>4. PICK c \in Nat : c = Cardinality(Within(next, Arrays \ {a}, o))
    BY <1>2, WithinFinite
  <2>5. PICK v \in Nat : v = Variables(o)
    BY DEF Variables
  <2>6. PICK u \in Nat : u = Uses(o, s)
    BY UsesIsNat
  <2>7. Out(a)[o] = c + v
    BY <1>5, <1>8, <2>4, <2>5 DEF Out
  <2>8. r[o] = c + v + u
    BY <2>6, <2>7
  <2>9. Cardinality(Within(next, Arrays, o)) = c + u
    BY <2>2, <2>3, <2>4, <2>6
  <2> QED BY <2>1, <2>5, <2>8, <2>9
<1>10. OwnedOnce'
  BY <1>3 DEF OwnedOnce
<1> QED BY <1>4, <1>9, <1>10 DEF StorageIInv

\* A sound record is what an array may become.
LEMMA SoundBuffer ==
  ASSUME NEW w, NEW out \in Outside, Sound(w, out), script \in Scripts
  PROVE  /\ [max |-> w.max, data |-> w.data] \in Buffers
         /\ [max |-> w.max, data |-> w.data] # None
         /\ w.data \in Seq(Slot) /\ Len(w.data) <= w.max
         /\ w.refs \in [Objects -> Nat]
         /\ \A o \in Objects : w.refs[o] = out[o] + Uses(o, w.data)
         /\ HoldsObjects => \A o \in Objects : w.refs[o] <= 1
         /\ w.raised \in BOOLEAN
         /\ [o \in Objects |-> IF w.refs[o] = 0 THEN Zero ELSE w.val[o]] \in [Objects -> Values]
<1>1. w \in Works /\ Exact(w, out) /\ Own(w) /\ Fits(w)
  BY DEF Sound
<1>2. /\ w.data \in Seq(Slot) /\ w.max \in 0 .. script.maxSize
      /\ w.refs \in [Objects -> Nat] /\ w.val \in [Objects -> Values] /\ w.raised \in BOOLEAN
  BY <1>1, WorkTypes
<1>3. PICK b : b = [max |-> w.max, data |-> w.data]
  OBVIOUS
<1>4. b \in Buffers
  BY <1>2, <1>3 DEF Buffers
<1>5. b # None
  <2>1. PICK E : E = AnySlot
    OBVIOUS
  <2>2. Slot \subseteq E
    <3>0. Objects \subseteq AllObjects
      BY DEF Objects, AllObjects
    <3>1. Objects \subseteq E /\ Values \subseteq E /\ None \in E
      BY <2>1, <3>0 DEF AnySlot
    <3>2. Slot = Values \/ Slot = Objects \cup {None}
      BY DEF Slot
    <3> QED BY <3>1, <3>2
  <2>3. w.data \in Seq(E)
    BY <1>2, <2>2, SeqMonotonic
  <2>4. w.max \in Nat
    BY <1>2, ScriptFacts
  <2>5. b \in [max : Nat, data : Seq(E)]
    BY <1>3, <2>3, <2>4
  <2> QED BY <2>1, <2>5, ValuesAssumption
<1>6. [o \in Objects |-> IF w.refs[o] = 0 THEN Zero ELSE w.val[o]] \in [Objects -> Values]
  BY <1>2, ScriptFacts
<1> QED BY <1>1, <1>2, <1>3, <1>4, <1>5, <1>6 DEF Exact, Own, Fits

LEMMA DoneKeeps ==
  ASSUME StorageIInv, NEW a \in Arrays, Usable(a), NEW w, Sound(w, Out(a)), Done(a, w)
  PROVE  StorageIInv'
<1>1. script \in Scripts /\ StorageTyped
  BY DEF StorageIInv, StorageTyped
<1>2. Out(a) \in Outside
  BY OutTyped
<1>3. PICK b : b = [max |-> w.max, data |-> w.data]
  OBVIOUS
<1>4. /\ b \in Buffers /\ b # None
      /\ w.data \in Seq(Slot) /\ Len(w.data) <= w.max
      /\ w.refs \in [Objects -> Nat]
      /\ \A o \in Objects : w.refs[o] = Out(a)[o] + Uses(o, w.data)
      /\ HoldsObjects => \A o \in Objects : w.refs[o] <= 1
      /\ w.raised \in BOOLEAN
      /\ [o \in Objects |-> IF w.refs[o] = 0 THEN Zero ELSE w.val[o]] \in [Objects -> Values]
  BY <1>1, <1>2, <1>3, SoundBuffer
<1>5. /\ buffer' = [buffer EXCEPT ![a] = b] /\ refs' = w.refs /\ script' = script /\ held' = held
      /\ refCount' = refCount
      /\ val' \in [Objects -> Values] /\ exception' \in BOOLEAN
  BY <1>3, <1>4 DEF Done
<1>6. b.data = w.data /\ b.max = w.max
  BY <1>3
<1>7. \A c \in Arrays : refCount'[c] = 0 => buffer'[c] = None
  <2> SUFFICES ASSUME NEW c \in Arrays, refCount[c] = 0 PROVE buffer'[c] = None
    BY <1>5
  <2>1. c # a
    BY DEF Usable
  <2> QED BY <1>1, <1>5, <2>1 DEF StorageTyped
<1>8. refCount' \in [Arrays -> 0 .. script.maxReferences]
  BY <1>1, <1>5 DEF StorageTyped
<1> QED BY <1>4, <1>5, <1>6, <1>7, <1>8, BufferChanges

LEMMA BornKeeps ==
  ASSUME StorageIInv, NEW a \in Arrays, NEW ok \in BOOLEAN, NEW w, ok => Sound(w, Out(a)), Born(a, ok, w)
  PROVE  StorageIInv'
<1>1. script \in Scripts /\ StorageTyped
  BY DEF StorageIInv, StorageTyped
<1>2. Out(a) \in Outside /\ \A o \in Objects : refs[o] = Out(a)[o] + Uses(o, Slots(a))
  BY OutTyped
<1>3. refCount[a] = 0 /\ buffer[a] = None
  BY <1>1 DEF Born, StorageTyped
<1>4. refCount' \in [Arrays -> 0 .. script.maxReferences]
  <2>1. 1 \in 0 .. script.maxReferences
    BY <1>1, ScriptFacts
  <2> QED BY <1>1, <2>1 DEF Born, StorageTyped
<1>5. CASE ok
  <2>1. PICK b : b = [max |-> w.max, data |-> w.data]
    OBVIOUS
  <2>2. /\ b \in Buffers /\ b # None
        /\ w.data \in Seq(Slot) /\ Len(w.data) <= w.max
        /\ w.refs \in [Objects -> Nat]
        /\ \A o \in Objects : w.refs[o] = Out(a)[o] + Uses(o, w.data)
        /\ HoldsObjects => \A o \in Objects : w.refs[o] <= 1
        /\ w.raised \in BOOLEAN
        /\ [o \in Objects |-> IF w.refs[o] = 0 THEN Zero ELSE w.val[o]] \in [Objects -> Values]
    BY <1>1, <1>2, <1>5, <2>1, SoundBuffer
  <2>3. /\ buffer' = [buffer EXCEPT ![a] = b] /\ refs' = w.refs /\ script' = script /\ held' = held
        /\ refCount' = [refCount EXCEPT ![a] = 1]
        /\ val' \in [Objects -> Values] /\ exception' \in BOOLEAN
    BY <1>5, <2>1, <2>2 DEF Born
  <2>4. b.data = w.data /\ b.max = w.max
    BY <2>1
  <2>5. \A c \in Arrays : refCount'[c] = 0 => buffer'[c] = None
    <3> SUFFICES ASSUME NEW c \in Arrays, refCount'[c] = 0 PROVE buffer'[c] = None
      OBVIOUS
    <3>1. c # a
      BY <1>1, <2>3 DEF StorageTyped
    <3> QED BY <1>1, <2>3, <3>1 DEF StorageTyped
  <2> QED BY <1>4, <2>2, <2>3, <2>4, <2>5, BufferChanges
<1>6. CASE ~ok
  <2>1. /\ buffer' = [buffer EXCEPT ![a] = None] /\ refs' = refs /\ script' = script /\ held' = held
        /\ refCount' = [refCount EXCEPT ![a] = 1] /\ val' = val /\ exception' = TRUE
    BY <1>6 DEF Born
  <2>2. PICK s \in Seq(Slot) : s = <<>>
    BY EmptySeq
  <2>3. s = Slots(a)
    BY <1>3, <2>2 DEF Slots
  <2>4. \A o \in Objects : refs[o] = Out(a)[o] + Uses(o, s)
    BY <1>2, <2>3
  <2>5. \A c \in Arrays : refCount'[c] = 0 => buffer'[c] = None
    BY <1>1, <2>1 DEF StorageTyped
  <2>6. refs \in [Objects -> Nat] /\ (HoldsObjects => \A o \in Objects : refs[o] <= 1)
    BY <1>1 DEF StorageIInv, StorageTyped, OwnedOnce
  <2>7. val' \in [Objects -> Values] /\ exception' \in BOOLEAN
    BY <1>1, <2>1 DEF StorageTyped
  <2>8. None \in Buffers \cup {None} /\ s = IF None = None THEN <<>> ELSE None.data
    BY <2>2
  <2> QED BY <1>4, <2>1, <2>4, <2>5, <2>6, <2>7, <2>8, BufferChanges
<1> QED BY <1>5, <1>6

\* The slots of an array, before a call.
LEMMA WorkSound ==
  ASSUME StorageIInv, NEW a \in Arrays, Usable(a)
  PROVE  Sound(Work(a), Out(a)) /\ Free(Work(a)) = Free(Empty)
<1>1. StorageTyped /\ OwnedOnce
  BY DEF StorageIInv
<1>2. PICK b \in Buffers : b = buffer[a] /\ Len(b.data) <= b.max
  BY <1>1 DEF Usable, StorageTyped
<1>3. b.data \in Seq(Slot) /\ b.max \in 0 .. script.maxSize
  BY DEF Buffers
<1>4. Slots(a) = b.data
  BY <1>2 DEF Slots, Usable
<1>5. \A o \in Objects : refs[o] = Out(a)[o] + Uses(o, b.data)
  BY <1>4, OutTyped
<1>6. PICK w : w = Work(a)
  OBVIOUS
<1>7. w = [max |-> b.max, data |-> b.data, refs |-> refs, val |-> val, raised |-> FALSE]
  BY <1>2, <1>6 DEF Work
<1>8. w \in Works
  BY <1>1, <1>3, <1>7 DEF Works, StorageTyped
<1>9. w.data = b.data /\ w.max = b.max /\ w.refs = refs
  BY <1>7
<1>10. Sound(w, Out(a))
  BY <1>1, <1>2, <1>5, <1>8, <1>9 DEF Sound, Exact, Own, Fits, OwnedOnce
<1>11. Free(w) = Free(Empty)
  BY <1>9 DEF Free, Empty
<1> QED BY <1>6, <1>10, <1>11

LEMMA EmptySound ==
  ASSUME StorageIInv, NEW a \in Arrays, refCount[a] = 0
  PROVE  Sound(Empty, Out(a))
<1>1. StorageTyped /\ OwnedOnce /\ buffer[a] = None /\ script \in Scripts
  BY DEF StorageIInv, StorageTyped
<1>2. Slots(a) = <<>>
  BY <1>1 DEF Slots
<1>3. \A o \in Objects : refs[o] = Out(a)[o] + Uses(o, <<>>)
  BY <1>2, OutTyped
<1>4. PICK w : w = Empty
  OBVIOUS
<1>5. w = [max |-> 0, data |-> <<>>, refs |-> refs, val |-> val, raised |-> FALSE]
  BY <1>4 DEF Empty
<1>6. 0 \in 0 .. script.maxSize /\ <<>> \in Seq(Slot) /\ Len(<<>>) = 0
  BY <1>1, ScriptFacts, EmptySeq
<1>7. w \in Works
  BY <1>1, <1>5, <1>6 DEF Works, StorageTyped
<1>8. w.data = <<>> /\ w.max = 0 /\ w.refs = refs
  BY <1>5
<1>9. Sound(w, Out(a))
  BY <1>1, <1>3, <1>6, <1>7, <1>8 DEF Sound, Exact, Own, Fits, OwnedOnce
<1> QED BY <1>4, <1>9

LEMMA BasicTypes ==
  ASSUME StorageIInv
  PROVE  /\ script \in Scripts /\ script.numbers \subseteq Nat /\ script.maxSize \in Nat
         /\ IsFiniteSet(Objects) /\ Cardinality(Free(Empty)) \in Nat
         /\ Alloc \subseteq BOOLEAN
         /\ Passable \subseteq Content
         /\ \A n \in Nat : Makes(n) \subseteq Nat /\ n \in Nat
         /\ \A n \in Nat : Creatable(n) => (HoldsObjects => n <= Cardinality(Free(Empty)))
<1>1. script \in Scripts /\ held \subseteq Objects /\ val \in [Objects -> Values]
  BY DEF StorageIInv, StorageTyped
<1>2. script.numbers \subseteq Nat /\ script.maxSize \in Nat /\ IsFiniteSet(Objects)
  BY <1>1, ScriptFacts
<1>3. Cardinality(Free(Empty)) \in Nat
  BY <1>2, FS_Subset, FS_CardinalityType DEF Free
<1>4. Alloc \subseteq BOOLEAN
  BY DEF Alloc
<1>5. Passable \subseteq Content
  BY <1>1, ScriptFacts DEF Passable, Content, Slot, HoldsObjects
<1>6. \A n \in Nat : Makes(n) \subseteq Nat
  BY DEF Makes
<1>7. \A n \in Nat : Creatable(n) => (HoldsObjects => n <= Cardinality(Free(Empty)))
  BY DEF Creatable
<1> QED BY <1>1, <1>2, <1>3, <1>4, <1>5, <1>6, <1>7

LEMMA ContentsOf ==
  ASSUME StorageIInv, NEW b \in Arrays, Usable(b)
  PROVE  /\ Contents(b) \in Seq(Content) /\ Len(Contents(b)) = Len(buffer[b].data)
         /\ Len(buffer[b].data) \in Nat /\ buffer[b].data \in Seq(Slot)
         /\ Len(buffer[b].data) <= script.maxSize
<1>1. buffer[b] \in Buffers /\ Len(buffer[b].data) <= buffer[b].max /\ val \in [Objects -> Values]
  BY DEF StorageIInv, StorageTyped, Usable
<1>2. PICK s \in Seq(Slot) : s = buffer[b].data
  BY <1>1 DEF Buffers
<1>3. /\ [k \in DOMAIN s |-> ContentOf(s[k], val)] \in Seq(Content)
      /\ Len([k \in DOMAIN s |-> ContentOf(s[k], val)]) = Len(s)
  BY <1>1, ContentsTyped
<1>4. Contents(b) = [k \in DOMAIN s |-> ContentOf(s[k], val)]
  BY <1>2 DEF Contents
<1>5. Len(s) \in Nat
  BY LenProperties
<1>6. buffer[b].max \in 0 .. script.maxSize /\ script.maxSize \in Nat
  BY <1>1, BasicTypes DEF Buffers
<1> QED BY <1>1, <1>2, <1>3, <1>4, <1>5, <1>6

\* Of a program that ends the state says nothing new.
LEMMA SameStorage ==
  ASSUME StorageIInv, UNCHANGED <<script, buffer, refCount, refs, val, held, exception>>
  PROVE  StorageIInv'
<1>1. /\ Objects' = Objects /\ Slot' = Slot /\ Kind' = Kind /\ Buffers' = Buffers
      /\ HoldsObjects' = HoldsObjects
  BY DEF Objects, Slot, Kind, Buffers, HoldsObjects
<1>2. StorageTyped'
  BY <1>1 DEF StorageIInv, StorageTyped
<1>3. RefCountsExact' /\ OwnedOnce'
  BY <1>1 DEF StorageIInv, RefCountsExact, OwnedOnce, References, Places, Slots
<1> QED BY <1>2, <1>3 DEF StorageIInv

LEMMA EndKeeps ==
  ASSUME StorageIInv, NEW a \in Arrays, WritesThroughNull(a)
  PROVE  StorageIInv'
BY SameStorage DEF WritesThroughNull

-----------------------------------------------------------------------------
(* Every action keeps the invariant.                                        *)
LEMMA CreateLengthKeeps ==
  ASSUME StorageIInv, NEW a \in Arrays, NEW n \in script.numbers, CreateLength(a, n)
  PROVE  StorageIInv'
<1>1. PICK mem \in BOOLEAN, made \in Nat : Creatable(n) /\ Born(a, CreateBuffer(n, mem), Filled(n, made))
  BY BasicTypes DEF CreateLength
<1>2. n \in Nat /\ script.maxSize \in Nat /\ script \in Scripts
  BY BasicTypes
<1>3. PICK ok \in BOOLEAN : ok = CreateBuffer(n, mem)
  BY <1>2 DEF CreateBuffer
<1>4. refCount[a] = 0
  BY <1>1 DEF Born
<1>5. ok => Sound(Filled(n, made), Out(a))
  <2> SUFFICES ASSUME ok PROVE Sound(Filled(n, made), Out(a))
    OBVIOUS
  <2>1. n <= script.maxSize
    BY <1>3 DEF CreateBuffer
  <2> QED BY <1>1, <1>2, <1>4, <2>1, EmptySound, OutTyped, FilledKeeps
<1> QED BY <1>1, <1>3, <1>5, BornKeeps

LEMMA CreateFilledKeeps ==
  ASSUME StorageIInv, NEW a \in Arrays, NEW n \in script.numbers, NEW v \in Passable, CreateFilled(a, n, v)
  PROVE  StorageIInv'
<1>3. n \in Nat /\ script.maxSize \in Nat /\ script \in Scripts /\ v \in Content
  BY BasicTypes
<1>0. PICK mem \in BOOLEAN, made \in Nat :
        /\ Creatable(n)
        /\ \/ WritesThroughNull(a)
           \/ Born(a, CreateBuffer(n, mem), SetSlots(Filled(n, made), 0, [k \in 1 .. n |-> v]))
  BY <1>3, BasicTypes DEF CreateFilled
<1> SUFFICES ASSUME Born(a, CreateBuffer(n, mem), SetSlots(Filled(n, made), 0, [k \in 1 .. n |-> v]))
             PROVE  StorageIInv'
  BY <1>0, EndKeeps
<1>1. PICK w : w = SetSlots(Filled(n, made), 0, [k \in 1 .. n |-> v])
  OBVIOUS
<1>2. Creatable(n) /\ Born(a, CreateBuffer(n, mem), w)
  BY <1>0, <1>1
<1>4. PICK ok \in BOOLEAN : ok = CreateBuffer(n, mem)
  BY <1>3 DEF CreateBuffer
<1>5. refCount[a] = 0
  BY <1>2 DEF Born
<1>6. ok => Sound(w, Out(a))
  <2> SUFFICES ASSUME ok PROVE Sound(w, Out(a))
    OBVIOUS
  <2>1. n <= script.maxSize
    BY <1>4 DEF CreateBuffer
  <2>2. Out(a) \in Outside
    BY OutTyped
  <2>3. Sound(Filled(n, made), Out(a))
    BY <1>2, <1>3, <1>5, <2>1, <2>2, EmptySound, FilledKeeps
  <2>4. PICK vs \in Seq(Content) : vs = [k \in 1 .. n |-> v]
    <3>1. [k \in 1 .. n |-> v] \in [1 .. n -> Content]
      BY <1>3
    <3>2. [k \in 1 .. n |-> v] \in Seq(Content)
      BY <1>3, <3>1, SeqDef
    <3> QED BY <3>2
  <2>5. Sound(SetSlots(Filled(n, made), 0, vs), Out(a))
    BY <1>3, <2>2, <2>3, SetSlotsKeeps
  <2> QED BY <1>1, <2>4, <2>5
<1> QED BY <1>2, <1>4, <1>6, BornKeeps

LEMMA CreateFromListKeeps ==
  ASSUME StorageIInv, NEW a \in Arrays, NEW vs \in script.lists, CreateFromList(a, vs)
  PROVE  StorageIInv'
<1>1. Creatable(2 * Len(vs)) /\ \A k \in DOMAIN vs : vs[k] \in Passable
  BY DEF CreateFromList
<1>2. script.maxSize \in Nat /\ script \in Scripts
  BY BasicTypes
<1>3. PICK n \in Nat : n = Len(vs) /\ DOMAIN vs = 1 .. n /\ vs \in Seq(Content)
  <2>1. vs \in Seq(Values \cup script.objects \cup {None})
    BY <1>2, ScriptsAssumption
  <2>2. PICK n \in Nat : n = Len(vs) /\ DOMAIN vs = 1 .. n /\ vs \in [1 .. n -> Values \cup script.objects \cup {None}]
    BY <2>1, LenProperties
  <2>3. \A k \in 1 .. n : vs[k] \in Content
    BY <1>1, <2>2, BasicTypes
  <2>4. vs \in [1 .. n -> Content]
    BY <2>2, <2>3
  <2>5. vs \in Seq(Content)
    BY <2>4, SeqDef
  <2> QED BY <2>2, <2>5
<1>7. PICK mem \in BOOLEAN, made \in Nat :
        WritesThroughNull(a) \/ Born(a, CreateBuffer(Len(vs), mem), FromList(vs, made))
  BY <1>3, BasicTypes DEF CreateFromList
<1> SUFFICES ASSUME Born(a, CreateBuffer(Len(vs), mem), FromList(vs, made)) PROVE StorageIInv'
  BY <1>7, EndKeeps
<1>4. PICK ok \in BOOLEAN : ok = CreateBuffer(Len(vs), mem)
  BY <1>2, <1>3 DEF CreateBuffer
<1>5. refCount[a] = 0
  BY DEF Born
<1>6. ok => Sound(FromList(vs, made), Out(a))
  <2> SUFFICES ASSUME ok PROVE Sound(FromList(vs, made), Out(a))
    OBVIOUS
  <2>1. Len(vs) <= script.maxSize
    BY <1>4 DEF CreateBuffer
  <2>2. Out(a) \in Outside /\ Sound(Empty, Out(a))
    BY <1>5, OutTyped, EmptySound
  <2> QED BY <1>1, <1>2, <1>3, <2>1, <2>2, FromListKeeps
<1> QED BY <1>4, <1>6, BornKeeps

LEMMA CreateCopyKeeps ==
  ASSUME StorageIInv, NEW a \in Arrays, NEW b \in Arrays, CreateCopy(a, b)
  PROVE  StorageIInv'
<1>1. PICK n : n = Len(buffer[b].data)
  OBVIOUS
<1>0. Usable(b) /\ Creatable(n) /\ n \in Nat
  BY <1>1, ContentsOf DEF CreateCopy
<1>9. PICK mem \in BOOLEAN, made \in Nat :
        \/ WritesThroughNull(a)
        \/ Born(a, TRUE, CopyBuffer(ResizeTo(Empty, n, mem, made), Contents(b)))
  BY <1>0, <1>1, BasicTypes DEF CreateCopy
<1> SUFFICES ASSUME Born(a, TRUE, CopyBuffer(ResizeTo(Empty, n, mem, made), Contents(b)))
             PROVE  StorageIInv'
  BY <1>9, EndKeeps
<1>2. /\ Usable(b) /\ Creatable(n)
      /\ Born(a, TRUE, CopyBuffer(ResizeTo(Empty, n, mem, made), Contents(b)))
  BY <1>0
<1>3. n \in Nat /\ Contents(b) \in Seq(Content) /\ script \in Scripts
  BY <1>1, <1>2, ContentsOf, BasicTypes
<1>4. Out(a) \in Outside /\ Sound(Empty, Out(a))
  <2>1. refCount[a] = 0
    BY <1>2 DEF Born
  <2> QED BY <2>1, OutTyped, EmptySound
<1>5. PICK w : w = ResizeTo(Empty, n, mem, made)
  OBVIOUS
<1>6. Sound(w, Out(a))
  BY <1>2, <1>3, <1>4, <1>5, BasicTypes, ResizeToKeeps
<1>7. Sound(CopyBuffer(w, Contents(b)), Out(a))
  BY <1>3, <1>4, <1>6, CopyBufferKeeps
<1>8. PICK ok \in BOOLEAN : ok = TRUE
  OBVIOUS
<1> QED BY <1>2, <1>5, <1>7, <1>8, BornKeeps

LEMMA AssignKeeps ==
  ASSUME StorageIInv, NEW a \in Arrays, NEW b \in Arrays, Assign(a, b)
  PROVE  StorageIInv'
<1>1. PICK n : n = Len(buffer[b].data)
  OBVIOUS
<1>2. Usable(a) /\ Usable(b) /\ Creatable(n)
  BY <1>1 DEF Assign
<1>3. n \in Nat /\ Contents(b) \in Seq(Content) /\ script \in Scripts
  BY <1>1, <1>2, ContentsOf, BasicTypes
<1>4. PICK mem \in BOOLEAN, made \in Nat : Done(a, AssignTo(a, b, mem, made))
  BY <1>1, <1>3, BasicTypes DEF Assign
<1>5. Out(a) \in Outside /\ Sound(Work(a), Out(a)) /\ Free(Work(a)) = Free(Empty)
  BY <1>2, OutTyped, WorkSound
<1>6. Sound(AssignTo(a, b, mem, made), Out(a))
  <2>1. CASE a = b
    BY <1>5, <2>1 DEF AssignTo
  <2>2. CASE a # b
    <3>1. PICK w : w = ResizeTo(Work(a), n, mem, made)
      OBVIOUS
    <3>2. Sound(w, Out(a))
      BY <1>2, <1>3, <1>5, <3>1, BasicTypes, ResizeToKeeps
    <3>3. Sound(CopyBuffer(w, Contents(b)), Out(a))
      BY <1>3, <1>5, <3>2, CopyBufferKeeps
    <3> QED BY <1>1, <2>2, <3>1, <3>3 DEF AssignTo
  <2> QED BY <2>1, <2>2
<1> QED BY <1>2, <1>4, <1>6, DoneKeeps

LEMMA SetValueKeeps ==
  ASSUME StorageIInv, NEW a \in Arrays, NEW n \in script.numbers, NEW v \in Passable, SetValue(a, n, v)
  PROVE  StorageIInv'
<1>1. Usable(a) /\ Done(a, SetSlot(Work(a), n, v))
  BY DEF SetValue
<1>2. n \in Nat /\ v \in Content /\ script \in Scripts
  BY BasicTypes
<1>3. Out(a) \in Outside /\ Sound(Work(a), Out(a))
  BY <1>1, OutTyped, WorkSound
<1>4. Sound(SetSlot(Work(a), n, v), Out(a))
  BY <1>2, <1>3, OneElement, SetSlotsKeeps DEF SetSlot
<1> QED BY <1>1, <1>4, DoneKeeps

LEMMA ReserveSafe ==
  ASSUME StorageIInv, NEW a \in Arrays, NEW n \in script.numbers, Reserve(a, n)
  PROVE  StorageIInv'
<1>1. PICK mem \in BOOLEAN : Usable(a) /\ Done(a, ReserveIn(Work(a), n, mem))
  BY BasicTypes DEF Reserve
<1>2. n \in Nat /\ script \in Scripts
  BY BasicTypes
<1>3. Out(a) \in Outside /\ Sound(Work(a), Out(a))
  BY <1>1, OutTyped, WorkSound
<1>4. Sound(ReserveIn(Work(a), n, mem), Out(a))
  BY <1>2, <1>3, ReserveKeeps
<1> QED BY <1>1, <1>4, DoneKeeps

LEMMA ResizeKeeps ==
  ASSUME StorageIInv, NEW a \in Arrays, NEW n \in Nat, Resize(a, n)
  PROVE  StorageIInv'
<1>1. Usable(a) /\ Creatable(n)
  BY DEF Resize
<1>2. PICK mem \in BOOLEAN, made \in Nat : Done(a, ResizeTo(Work(a), n, mem, made))
  BY BasicTypes DEF Resize
<1>3. Out(a) \in Outside /\ Sound(Work(a), Out(a)) /\ Free(Work(a)) = Free(Empty)
  BY <1>1, OutTyped, WorkSound
<1>4. Sound(ResizeTo(Work(a), n, mem, made), Out(a))
  BY <1>1, <1>3, BasicTypes, ResizeToKeeps
<1> QED BY <1>1, <1>2, <1>4, DoneKeeps

LEMMA RemoveRangeKeeps ==
  ASSUME StorageIInv, RangesFit, NEW a \in Arrays, NEW start \in script.numbers, NEW n \in script.numbers,
         RemoveRange(a, start, n)
  PROVE  StorageIInv'
<1>1. Usable(a) /\ Done(a, RemoveSlots(Work(a), start, n))
  BY DEF RemoveRange
<1>2. Out(a) \in Outside /\ Sound(Work(a), Out(a)) /\ script \in Scripts
  BY <1>1, OutTyped, WorkSound, BasicTypes
<1>3. Sound(RemoveSlots(Work(a), start, n), Out(a))
  BY <1>2, RemoveSlotsKeeps
<1> QED BY <1>1, <1>3, DoneKeeps

LEMMA InsertAtKeeps ==
  ASSUME StorageIInv, NEW a \in Arrays, NEW p \in Nat, NEW v \in Passable, InsertAt(a, p, v)
  PROVE  StorageIInv'
<1>1. Usable(a) /\ Creatable(1)
  BY DEF InsertAt
<1>2. PICK mem \in BOOLEAN, made \in Nat : Done(a, InsertSlot(Work(a), p, v, mem, made))
  <2>1. PICK one \in Nat : one = 1
    OBVIOUS
  <2>2. Makes(one) \subseteq Nat
    BY BasicTypes
  <2> QED BY <2>1, <2>2, BasicTypes DEF InsertAt
<1>3. Out(a) \in Outside /\ Sound(Work(a), Out(a)) /\ Free(Work(a)) = Free(Empty)
  BY <1>1, OutTyped, WorkSound
<1>4. v \in Content /\ script \in Scripts
  BY BasicTypes
<1>5. HoldsObjects => 1 <= Cardinality(Free(Work(a)))
  BY <1>1, <1>3 DEF Creatable
<1>6. Sound(InsertSlot(Work(a), p, v, mem, made), Out(a))
  BY <1>3, <1>4, <1>5, InsertSlotKeeps
<1> QED BY <1>1, <1>2, <1>6, DoneKeeps

LEMMA InsertArrayKeeps ==
  ASSUME StorageIInv, NEW a \in Arrays, NEW p \in script.numbers, NEW b \in Arrays, InsertArray(a, p, b)
  PROVE  StorageIInv'
<1>1. PICK n : n = Len(buffer[b].data)
  OBVIOUS
<1>2. Usable(a) /\ Usable(b) /\ Creatable(n)
  BY <1>1 DEF InsertArray
<1>3. n \in Nat /\ Contents(b) \in Seq(Content) /\ Len(Contents(b)) = n /\ script \in Scripts /\ p \in Nat
  BY <1>1, <1>2, ContentsOf, BasicTypes
<1>4. PICK self \in BOOLEAN : self = (a = b)
  OBVIOUS
<1>5. PICK mem \in BOOLEAN, made \in Nat : Done(a, InsertSlots(Work(a), p, Contents(b), self, mem, made))
  BY <1>1, <1>3, <1>4, BasicTypes DEF InsertArray
<1>6. Out(a) \in Outside /\ Sound(Work(a), Out(a)) /\ Free(Work(a)) = Free(Empty)
  BY <1>2, OutTyped, WorkSound
<1>7. HoldsObjects => Len(Contents(b)) <= Cardinality(Free(Work(a)))
  BY <1>2, <1>3, <1>6 DEF Creatable
<1>8. Sound(InsertSlots(Work(a), p, Contents(b), self, mem, made), Out(a))
  BY <1>3, <1>6, <1>7, InsertSlotsKeeps
<1> QED BY <1>2, <1>5, <1>8, DoneKeeps

LEMMA RemoveAtKeeps ==
  ASSUME StorageIInv, NEW a \in Arrays, NEW k \in Int, RemoveAt(a, k)
  PROVE  StorageIInv'
<1>1. Usable(a) /\ Done(a, RemoveSlot(Work(a), k))
  BY DEF RemoveAt
<1>2. Out(a) \in Outside /\ Sound(Work(a), Out(a)) /\ script \in Scripts
  BY <1>1, OutTyped, WorkSound, BasicTypes
<1>3. Sound(RemoveSlot(Work(a), k), Out(a))
  BY <1>2, RemoveSlotKeeps
<1> QED BY <1>1, <1>3, DoneKeeps

LEMMA ReverseKeeps ==
  ASSUME StorageIInv, NEW a \in Arrays, Reverse(a)
  PROVE  StorageIInv'
<1>1. Usable(a) /\ Done(a, [Work(a) EXCEPT !.data = Reversed(buffer[a].data)])
  BY DEF Reverse
<1>2. PICK w : w = Work(a)
  OBVIOUS
<1>3. Sound(w, Out(a)) /\ w.data = buffer[a].data
  BY <1>1, <1>2, WorkSound DEF Work
<1>4. Sound([w EXCEPT !.data = Reversed(w.data)], Out(a))
  BY <1>3, ReversedKeeps
<1> QED BY <1>1, <1>2, <1>3, <1>4, DoneKeeps

LEMMA AddReferenceKeeps ==
  ASSUME StorageIInv, NEW a \in Arrays, AddReference(a)
  PROVE  StorageIInv'
<1>1. StorageTyped /\ script.maxReferences \in Nat
  BY ScriptFacts DEF StorageIInv, StorageTyped
<1>2. refCount[a] \in 1 .. script.maxReferences - 1 /\ refCount' = [refCount EXCEPT ![a] = refCount[a] + 1]
  BY DEF AddReference
<1>3. UNCHANGED <<script, buffer, refs, val, held, exception>>
  BY DEF AddReference
<1>4. refCount' \in [Arrays -> 0 .. script.maxReferences]
  <2>1. refCount[a] + 1 \in 0 .. script.maxReferences
    BY <1>1, <1>2
  <2> QED BY <1>1, <1>2, <2>1 DEF StorageTyped
<1>5. \A c \in Arrays : refCount'[c] = 0 => buffer'[c] = None
  <2> SUFFICES ASSUME NEW c \in Arrays, refCount'[c] = 0 PROVE buffer[c] = None
    BY <1>3
  <2>1. CASE c = a
    <3>1. refCount'[c] = refCount[a] + 1
      BY <1>1, <1>2, <2>1 DEF StorageTyped
    <3> QED BY <1>1, <1>2, <3>1
  <2>2. CASE c # a
    BY <1>1, <1>2, <2>2 DEF StorageTyped
  <2> QED BY <2>1, <2>2
<1>6. /\ Objects' = Objects /\ Slot' = Slot /\ Kind' = Kind /\ Buffers' = Buffers
      /\ HoldsObjects' = HoldsObjects
  BY <1>3 DEF Objects, Slot, Kind, Buffers, HoldsObjects
<1>7. StorageTyped'
  BY <1>1, <1>3, <1>4, <1>5, <1>6 DEF StorageTyped
<1>8. RefCountsExact' /\ OwnedOnce'
  BY <1>3, <1>6 DEF StorageIInv, RefCountsExact, OwnedOnce, References, Places, Slots
<1> QED BY <1>7, <1>8 DEF StorageIInv

LEMMA ReleaseKeeps ==
  ASSUME StorageIInv, NEW a \in Arrays, Release(a)
  PROVE  StorageIInv'
<1>1. StorageTyped /\ script.maxReferences \in Nat /\ script \in Scripts
  BY ScriptFacts DEF StorageIInv, StorageTyped
<1>2. Out(a) \in Outside /\ \A o \in Objects : refs[o] = Out(a)[o] + Uses(o, Slots(a))
  BY OutTyped
<1>3. PICK m \in Nat : m = refCount[a] /\ m > 0 /\ m <= script.maxReferences
  BY <1>1 DEF Release, StorageTyped
<1>4. refCount' = [refCount EXCEPT ![a] = m - 1] /\ script' = script /\ held' = held
  BY <1>3 DEF Release
<1>5. refCount' \in [Arrays -> 0 .. script.maxReferences]
  <2>1. m - 1 \in 0 .. script.maxReferences
    BY <1>1, <1>3
  <2> QED BY <1>1, <1>4, <2>1 DEF StorageTyped
<1>6. PICK slots : slots = IF m = 1 /\ buffer[a] # None THEN buffer[a].data ELSE <<>>
  OBVIOUS
<1>7. PICK e, w : e = Empty /\ w = ReleaseAll(e, slots)
  OBVIOUS
<1>8. e.refs = refs /\ refs \in [Objects -> Nat] /\ val \in [Objects -> Values]
  BY <1>1, <1>7 DEF Empty, StorageTyped
<1>9. w.refs = [o \in Objects |-> refs[o] - Uses(o, slots)]
  BY <1>7, <1>8 DEF ReleaseAll, Empty
<1>10. /\ buffer' = [buffer EXCEPT ![a] = IF m = 1 THEN None ELSE buffer[a]]
       /\ refs' = w.refs
       /\ val' = [o \in Objects |-> IF w.refs[o] = 0 THEN Zero ELSE val[o]]
       /\ exception' \in BOOLEAN
  BY <1>1, <1>3, <1>6, <1>7 DEF Release, StorageTyped
<1>11. val' \in [Objects -> Values]
  BY <1>1, <1>8, <1>10, ScriptFacts
<1>12. CASE m = 1
  <2>1. slots = Slots(a)
    BY <1>6, <1>12 DEF Slots
  <2>2. Slots(a) \in Seq(Slot)
    <3>1. Contained \in [Arrays -> Seq(Slot)]
      BY <1>1, SlotsTyped
    <3> QED BY <3>1 DEF Contained
  <2>3. PICK s \in Seq(Slot) : s = <<>>
    BY EmptySeq
  <2>4. PICK r : r = w.refs
    OBVIOUS
  <2>5. \A o \in Objects : r[o] \in Nat /\ r[o] = Out(a)[o] + Uses(o, s) /\ r[o] <= refs[o]
    <3> TAKE o \in Objects
    <3>1. PICK x \in Nat, u \in Nat : x = Out(a)[o] /\ u = Uses(o, Slots(a))
      BY <1>2, <2>2, UsesIsNat DEF Outside
    <3>2. refs[o] = x + u
      BY <1>2, <3>1
    <3>3. r[o] = refs[o] - u
      BY <1>9, <2>1, <2>4, <3>1
    <3>4. Uses(o, s) = 0
      BY <2>3, NoneUsed
    <3> QED BY <3>1, <3>2, <3>3, <3>4
  <2>6. r \in [Objects -> Nat]
    BY <1>9, <2>4, <2>5
  <2>7. HoldsObjects => \A o \in Objects : r[o] <= 1
    <3> SUFFICES ASSUME HoldsObjects, NEW o \in Objects PROVE r[o] <= 1
      OBVIOUS
    <3>1. refs[o] <= 1 /\ refs[o] \in Nat
      BY <1>8 DEF StorageIInv, OwnedOnce
    <3> QED BY <2>5, <3>1
  <2>8. buffer' = [buffer EXCEPT ![a] = None]
    BY <1>10, <1>12
  <2>9. \A c \in Arrays : refCount'[c] = 0 => buffer'[c] = None
    <3> SUFFICES ASSUME NEW c \in Arrays, refCount'[c] = 0 PROVE buffer'[c] = None
      OBVIOUS
    <3>1. CASE c = a
      BY <1>1, <2>8, <3>1 DEF StorageTyped
    <3>2. CASE c # a
      BY <1>1, <1>4, <2>8, <3>2 DEF StorageTyped
    <3> QED BY <3>1, <3>2
  <2>10. PICK b \in Buffers \cup {None} : b = None
    OBVIOUS
  <2>11. (b # None => Len(b.data) <= b.max) /\ s = (IF b = None THEN <<>> ELSE b.data)
    BY <2>3, <2>10
  <2>12. buffer' = [buffer EXCEPT ![a] = b] /\ refs' = r /\ exception' \in BOOLEAN
    BY <1>10, <2>4, <2>8, <2>10
  <2>13. \A o \in Objects : r[o] = Out(a)[o] + Uses(o, s)
    BY <2>5
  <2> HIDE DEF StorageIInv
  <2> QED BY <1>4, <1>5, <1>11, <2>6, <2>7, <2>9, <2>11, <2>12, <2>13, BufferChanges, ZenonT(60)
<1>13. CASE m # 1
  <2>1. slots = <<>>
    BY <1>6, <1>13
  <2>2. w.refs = refs
    <3>1. \A o \in Objects : refs[o] - Uses(o, slots) = refs[o]
      <4> TAKE o \in Objects
      <4>1. Uses(o, slots) = 0 /\ refs[o] \in Nat
        BY <1>8, <2>1, NoneUsed
      <4> QED BY <4>1
    <3> QED BY <1>8, <1>9, <3>1
  <2>3. buffer' = buffer /\ refs' = refs
    BY <1>1, <1>10, <1>13, <2>2 DEF StorageTyped
  <2>4. \A c \in Arrays : refCount'[c] = 0 => buffer'[c] = None
    <3> SUFFICES ASSUME NEW c \in Arrays, refCount'[c] = 0 PROVE buffer[c] = None
      BY <2>3
    <3>1. CASE c = a
      <4>1. refCount'[c] = m - 1
        BY <1>1, <1>4, <3>1 DEF StorageTyped
      <4> QED BY <1>3, <1>13, <4>1
    <3>2. CASE c # a
      BY <1>1, <1>4, <3>2 DEF StorageTyped
    <3> QED BY <3>1, <3>2
  <2>5. /\ Objects' = Objects /\ Slot' = Slot /\ Kind' = Kind /\ Buffers' = Buffers
        /\ HoldsObjects' = HoldsObjects
    BY <1>4 DEF Objects, Slot, Kind, Buffers, HoldsObjects
  <2>6. StorageTyped'
    BY <1>1, <1>4, <1>5, <1>10, <1>11, <2>3, <2>4, <2>5 DEF StorageTyped
  <2>7. RefCountsExact' /\ OwnedOnce'
    BY <1>4, <2>3, <2>5 DEF StorageIInv, RefCountsExact, OwnedOnce, References, Places, Slots
  <2> QED BY <2>6, <2>7 DEF StorageIInv
<1> QED BY <1>12, <1>13

\* A new count of one object goes with a variable of the script.
LEMMA NewObjectKeeps ==
  ASSUME StorageIInv, NewObject
  PROVE  StorageIInv'
<1>1. StorageTyped /\ script \in Scripts
  BY DEF StorageIInv, StorageTyped
<1>2. Kind = "handle" /\ Free(Empty) # {}
  BY DEF NewObject
<1>3. PICK o \in Free(Empty) : o = NewObjects(Empty, 1)[1]
  <2>1. IsFiniteSet(Objects) /\ IsFiniteSet(Free(Empty))
    BY <1>1, ScriptFacts, FS_Subset DEF Free
  <2>2. PICK c \in Nat : c = Cardinality(Free(Empty)) /\ c # 0
    BY <1>2, <2>1, FS_CardinalityType, FS_EmptySet
  <2>3. PICK n \in Nat : n = 1 /\ n <= c
    BY <2>2
  <2>4. NewObjects(Empty, n) \in [1 .. n -> Free(Empty)]
    BY <2>1, <2>2, <2>3, ObjectsAreNew
  <2> QED BY <2>3, <2>4
<1>4. /\ refs' = [refs EXCEPT ![o] = 1] /\ held' = held \cup {o}
      /\ UNCHANGED <<script, buffer, refCount, val, exception>>
  BY <1>3 DEF NewObject
<1>5. o \in Objects /\ refs[o] = 0 /\ refs \in [Objects -> Nat]
  BY <1>1, <1>3 DEF Free, Empty, StorageTyped
<1>6. /\ Objects' = Objects /\ Slot' = Slot /\ Kind' = Kind /\ Buffers' = Buffers
      /\ HoldsObjects' = HoldsObjects
  BY <1>4 DEF Objects, Slot, Kind, Buffers, HoldsObjects
<1>7. StorageTyped'
  <2>1. refs' \in [Objects -> Nat] /\ held' \subseteq Objects
    BY <1>1, <1>4, <1>5 DEF StorageTyped
  <2> QED BY <1>1, <1>2, <1>4, <1>6, <2>1 DEF StorageTyped
<1>8. OwnedOnce'
  BY <1>2, <1>6 DEF OwnedOnce, HoldsObjects
<1>9. RefCountsExact'
  <2> SUFFICES ASSUME NEW x \in Objects
               PROVE refs'[x] = Cardinality(References(x)') + (IF x \in held' THEN 1 ELSE 0)
    BY <1>6 DEF RefCountsExact
  <2>1. References(x)' = References(x)
    BY <1>4 DEF References, Places, Slots
  <2>2. refs[x] = Cardinality(References(x)) + (IF x \in held THEN 1 ELSE 0)
    BY DEF StorageIInv, RefCountsExact
  <2>3. PICK n \in Nat : n = Cardinality(References(x))
    <3>1. Contained \in [Arrays -> Seq(Slot)] /\ IsFiniteSet(Arrays)
      BY <1>1, SlotsTyped
    <3>2. PICK slots \in [Arrays -> Seq(Slot)] : slots = Contained
      BY <3>1
    <3>3. References(x) = Within(slots, Arrays, x)
      BY <3>2 DEF References, Places, Within, PlacesOf, Contained
    <3>4. Cardinality(Within(slots, Arrays, x)) \in Nat
      BY <3>1, WithinFinite
    <3> QED BY <3>3, <3>4
  <2>4. CASE x = o
    <3>1. n = 0 /\ o \notin held
      BY <1>5, <2>2, <2>3, <2>4
    <3> QED BY <1>4, <1>5, <2>1, <2>3, <2>4, <3>1
  <2>5. CASE x # o
    <3>1. refs'[x] = refs[x] /\ (x \in held' <=> x \in held)
      BY <1>4, <1>5, <2>5
    <3> QED BY <2>1, <2>2, <3>1
  <2> QED BY <2>4, <2>5
<1> QED BY <1>7, <1>8, <1>9 DEF StorageIInv

LEMMA DropObjectKeeps ==
  ASSUME StorageIInv, NEW o \in Objects, DropObject(o)
  PROVE  StorageIInv'
<1>1. StorageTyped /\ script \in Scripts
  BY DEF StorageIInv, StorageTyped
<1>2. PICK m \in Nat : m = refs[o]
  BY <1>1 DEF StorageTyped
<1>3. /\ o \in held /\ held' = held \ {o} /\ refs' = [refs EXCEPT ![o] = m - 1]
      /\ UNCHANGED <<script, buffer, refCount, val, exception>>
  BY <1>2 DEF DropObject
<1>4. refs \in [Objects -> Nat]
  BY <1>1 DEF StorageTyped
<1>5. /\ Objects' = Objects /\ Slot' = Slot /\ Kind' = Kind /\ Buffers' = Buffers
      /\ HoldsObjects' = HoldsObjects
  BY <1>3 DEF Objects, Slot, Kind, Buffers, HoldsObjects
<1>6. \A x \in Objects : /\ References(x)' = References(x)
                         /\ refs[x] = Cardinality(References(x)) + (IF x \in held THEN 1 ELSE 0)
                         /\ Cardinality(References(x)) \in Nat
  <2> TAKE x \in Objects
  <2>1. References(x)' = References(x)
    BY <1>3 DEF References, Places, Slots
  <2>2. refs[x] = Cardinality(References(x)) + (IF x \in held THEN 1 ELSE 0)
    BY DEF StorageIInv, RefCountsExact
  <2>3. Contained \in [Arrays -> Seq(Slot)] /\ IsFiniteSet(Arrays)
    BY <1>1, SlotsTyped
  <2>4. PICK slots \in [Arrays -> Seq(Slot)] : slots = Contained
    BY <2>3
  <2>5. References(x) = Within(slots, Arrays, x)
    BY <2>4 DEF References, Places, Within, PlacesOf, Contained
  <2>6. Cardinality(Within(slots, Arrays, x)) \in Nat
    BY <2>3, WithinFinite
  <2> QED BY <2>1, <2>2, <2>5, <2>6
<1>7. PICK n \in Nat : n = Cardinality(References(o)) /\ m = n + 1
  <2>1. PICK n \in Nat : n = Cardinality(References(o))
    BY <1>6
  <2> QED BY <1>2, <1>3, <1>6, <2>1
<1>8. StorageTyped'
  <2>1. m - 1 \in Nat
    BY <1>7
  <2>2. refs' \in [Objects -> Nat] /\ held' \subseteq Objects /\ (Kind # "handle" => held' = {})
    BY <1>1, <1>3, <1>4, <2>1 DEF StorageTyped
  <2> QED BY <1>1, <1>3, <1>5, <2>2 DEF StorageTyped
<1>9. OwnedOnce'
  <2> SUFFICES ASSUME HoldsObjects, NEW x \in Objects PROVE refs'[x] <= 1
    BY <1>5 DEF OwnedOnce
  <2>1. held = {}
    BY <1>1 DEF StorageTyped, HoldsObjects
  <2> QED BY <1>3, <2>1
<1>10. RefCountsExact'
  <2> SUFFICES ASSUME NEW x \in Objects
               PROVE refs'[x] = Cardinality(References(x)') + (IF x \in held' THEN 1 ELSE 0)
    BY <1>5 DEF RefCountsExact
  <2>1. CASE x = o
    <3>1. refs'[x] = m - 1 /\ x \notin held'
      BY <1>3, <1>4, <2>1
    <3> QED BY <1>6, <1>7, <2>1, <3>1
  <2>2. CASE x # o
    <3>1. refs'[x] = refs[x] /\ (x \in held' <=> x \in held)
      BY <1>3, <1>4, <2>2
    <3> QED BY <1>6, <3>1
  <2> QED BY <2>1, <2>2
<1> QED BY <1>8, <1>9, <1>10 DEF StorageIInv

LEMMA StorageStutters ==
  ASSUME StorageIInv, UNCHANGED storageVars
  PROVE  StorageIInv'
BY SameStorage DEF storageVars

LEMMA StorageBegins == StorageInit => StorageIInv
<1> SUFFICES ASSUME StorageInit PROVE StorageIInv
  OBVIOUS
<1>1. /\ script \in Scripts /\ buffer = [a \in Arrays |-> None] /\ refCount = [a \in Arrays |-> 0]
      /\ refs = [o \in Objects |-> 0] /\ val = [o \in Objects |-> Zero] /\ held = {} /\ exception = FALSE
  BY DEF StorageInit
<1>2. 0 \in 0 .. script.maxReferences /\ Zero \in Values
  BY <1>1, ScriptFacts
<1>3. StorageTyped
  BY <1>1, <1>2 DEF StorageTyped
<1>4. RefCountsExact
  <2> SUFFICES ASSUME NEW o \in Objects
               PROVE refs[o] = Cardinality(References(o)) + (IF o \in held THEN 1 ELSE 0)
    BY DEF RefCountsExact
  <2>1. \A a \in Arrays : Places(a, o) = {}
    BY <1>1 DEF Places, Slots
  <2>2. References(o) = {}
    BY <2>1 DEF References
  <2>3. Cardinality(References(o)) = 0
    BY <2>2, FS_EmptySet
  <2> QED BY <1>1, <2>3
<1>5. OwnedOnce
  BY <1>1 DEF OwnedOnce
<1> QED BY <1>3, <1>4, <1>5 DEF StorageIInv

LEMMA StorageStep ==
  ASSUME RangesFit, StorageIInv, StorageNext
  PROVE  StorageIInv'
<1>0. script.numbers \subseteq Nat
  BY BasicTypes
<1>1. CASE NewObject
  BY <1>1, NewObjectKeeps
<1>2. CASE \E o \in Objects : DropObject(o)
  BY <1>2, DropObjectKeeps
<1>3. ASSUME NEW a \in Arrays, NEW n \in script.numbers, CreateLength(a, n) \/ Resize(a, n) \/ Reserve(a, n)
      PROVE  StorageIInv'
  BY <1>0, <1>3, CreateLengthKeeps, ResizeKeeps, ReserveSafe
<1>4. ASSUME NEW a \in Arrays, NEW n \in script.numbers, NEW v \in Passable,
             CreateFilled(a, n, v) \/ SetValue(a, n, v) \/ InsertAt(a, n, v)
      PROVE  StorageIInv'
  BY <1>0, <1>4, CreateFilledKeeps, SetValueKeeps, InsertAtKeeps
<1>5. ASSUME NEW a \in Arrays, NEW vs \in script.lists, CreateFromList(a, vs)
      PROVE  StorageIInv'
  BY <1>5, CreateFromListKeeps
<1>6. ASSUME NEW a \in Arrays, NEW v \in Passable, InsertLast(a, v)
      PROVE  StorageIInv'
  <2>1. PICK n \in Nat : n = Len(buffer[a].data)
    BY <1>6, ContentsOf DEF InsertLast
  <2>2. InsertAt(a, n, v)
    BY <1>6, <2>1 DEF InsertLast
  <2> QED BY <2>2, InsertAtKeeps
<1>7. ASSUME NEW a \in Arrays, NEW b \in Arrays, CreateCopy(a, b) \/ Assign(a, b)
      PROVE  StorageIInv'
  BY <1>7, CreateCopyKeeps, AssignKeeps
<1>8. ASSUME NEW a \in Arrays, NEW k \in script.numbers, NEW b \in Arrays, InsertArray(a, k, b)
      PROVE  StorageIInv'
  BY <1>8, InsertArrayKeeps
<1>9. ASSUME NEW a \in Arrays, NEW k \in script.numbers, RemoveAt(a, k)
      PROVE  StorageIInv'
  <2>1. k \in Int
    BY <1>0
  <2> QED BY <1>9, <2>1, RemoveAtKeeps
<1>10. ASSUME NEW a \in Arrays, NEW k \in script.numbers, NEW n \in script.numbers, RemoveRange(a, k, n)
       PROVE  StorageIInv'
  BY <1>10, RemoveRangeKeeps
<1>11. ASSUME NEW a \in Arrays, RemoveLast(a)
       PROVE  StorageIInv'
  <2>1. PICK n \in Nat : n = Len(buffer[a].data)
    BY <1>11, ContentsOf DEF RemoveLast
  <2>2. n - 1 \in Int /\ RemoveAt(a, n - 1)
    BY <1>11, <2>1 DEF RemoveLast
  <2> QED BY <2>2, RemoveAtKeeps
<1>12. ASSUME NEW a \in Arrays, Reverse(a) \/ ReleaseAllHandles(a) \/ AddReference(a) \/ Release(a)
       PROVE  StorageIInv'
  <2>1. CASE ReleaseAllHandles(a)
    <3>1. PICK z \in Nat : z = 0
      OBVIOUS
    <3>2. Resize(a, z)
      BY <2>1, <3>1 DEF ReleaseAllHandles
    <3> QED BY <3>2, ResizeKeeps
  <2> QED BY <1>12, <2>1, ReverseKeeps, AddReferenceKeeps, ReleaseKeeps
<1> HIDE DEF StorageIInv
<1>13. CASE \E a \in Arrays :
              \/ \E n \in script.numbers : CreateLength(a, n) \/ Resize(a, n) \/ Reserve(a, n)
              \/ \E n \in script.numbers, v \in Passable : CreateFilled(a, n, v) \/ SetValue(a, n, v) \/ InsertAt(a, n, v)
              \/ \E vs \in script.lists : CreateFromList(a, vs)
              \/ \E v \in Passable : InsertLast(a, v)
              \/ \E b \in Arrays : CreateCopy(a, b) \/ Assign(a, b)
              \/ \E k \in script.numbers, b \in Arrays : InsertArray(a, k, b)
              \/ \E k \in script.numbers : RemoveAt(a, k)
              \/ \E k, n \in script.numbers : RemoveRange(a, k, n)
              \/ RemoveLast(a) \/ Reverse(a) \/ ReleaseAllHandles(a)
              \/ AddReference(a) \/ Release(a)
  BY <1>3, <1>4, <1>5, <1>6, <1>7, <1>8, <1>9, <1>10, <1>11, <1>12, <1>13
<1> QED BY <1>1, <1>2, <1>13 DEF StorageNext, ArrayCall

LEMMA StorageInvariant == RangesFit => (StorageSpec => []StorageIInv)
<1> SUFFICES ASSUME RangesFit PROVE StorageSpec => []StorageIInv
  OBVIOUS
<1>1. StorageIInv /\ [StorageNext]_storageVars => StorageIInv'
  BY StorageStep, StorageStutters
<1> QED BY <1>1, StorageBegins, PTL DEF StorageSpec

\* What the invariant says of references.
LEMMA ReferencesFollow == StorageIInv => ReferencesRight
<1> SUFFICES ASSUME StorageIInv PROVE ReferencesRight
  OBVIOUS
<1>1. StorageTyped /\ RefCountsExact
  BY DEF StorageIInv
<1>2. StorageTypeOK
  <2>1. \A a \in Arrays : buffer[a] # None =>
          /\ buffer[a].max \in 0 .. script.maxSize
          /\ \A k \in DOMAIN buffer[a].data :
               buffer[a].data[k] \in (IF Kind = "primitive" THEN Values ELSE Objects \cup {None})
    <3> SUFFICES ASSUME NEW a \in Arrays, buffer[a] # None
                 PROVE /\ buffer[a].max \in 0 .. script.maxSize
                       /\ \A k \in DOMAIN buffer[a].data : buffer[a].data[k] \in Slot
      BY DEF Slot
    <3>1. buffer[a] \in Buffers
      BY <1>1 DEF StorageTyped
    <3>2. PICK s \in Seq(Slot) : s = buffer[a].data
      BY <3>1 DEF Buffers
    <3>3. \A k \in DOMAIN s : s[k] \in Slot
      BY LenProperties, ElementOfSeq
    <3> QED BY <3>1, <3>2, <3>3 DEF Buffers
  <2> QED BY <1>1, <2>1 DEF StorageTypeOK, StorageTyped
<1>3. CollectorSeesAll
  <2> SUFFICES ASSUME Kind \in {"handle", "reference"}, NEW o \in Objects
               PROVE refs[o] - Cardinality(UNION {Enumerated(a, o) : a \in Arrays}) = (IF o \in held THEN 1 ELSE 0)
    BY DEF CollectorSeesAll
  <2>1. UNION {Enumerated(a, o) : a \in Arrays} = References(o)
    BY DEF Enumerated, References
  <2>2. Contained \in [Arrays -> Seq(Slot)] /\ IsFiniteSet(Arrays)
    BY <1>1, SlotsTyped
  <2>3. PICK slots \in [Arrays -> Seq(Slot)] : slots = Contained
    BY <2>2
  <2>4. References(o) = Within(slots, Arrays, o)
    BY <2>3 DEF References, Places, Within, PlacesOf, Contained
  <2>5. PICK n \in Nat : n = Cardinality(References(o))
    BY <2>2, <2>4, WithinFinite
  <2>6. refs[o] = n + (IF o \in held THEN 1 ELSE 0)
    BY <1>1, <2>5 DEF RefCountsExact
  <2>7. PICK R : R = References(o)
    OBVIOUS
  <2>8. UNION {Enumerated(a, o) : a \in Arrays} = R
    BY <2>1, <2>7
  <2>9. PICK v \in Nat : v = (IF o \in held THEN 1 ELSE 0)
    OBVIOUS
  <2>10. PICK total : total = refs[o]
    OBVIOUS
  <2>11. total = n + v /\ n = Cardinality(R)
    BY <2>5, <2>6, <2>7, <2>9, <2>10
  <2>12. total - n = v
    BY <2>11
  <2> QED BY <2>8, <2>9, <2>10, <2>11, <2>12
<1> QED BY <1>1, <1>2, <1>3 DEF ReferencesRight

\* And of storage.
LEMMA StorageFollows == StorageIInv => StorageRight
<1> SUFFICES ASSUME StorageIInv PROVE StorageRight
  OBVIOUS
<1>1. StorageTyped /\ RefCountsExact /\ OwnedOnce
  BY DEF StorageIInv
<1>2. WithinCapacity
  BY <1>1 DEF WithinCapacity, StorageTyped
<1>3. ElementsNotShared
  <2> SUFFICES ASSUME HoldsObjects, NEW a \in Arrays, NEW b \in Arrays,
                      NEW k \in DOMAIN Slots(a), NEW m \in DOMAIN Slots(b),
                      Slots(a)[k] = Slots(b)[m], Slots(a)[k] # None
               PROVE  a = b /\ k = m
    BY DEF ElementsNotShared
  <2>1. Contained \in [Arrays -> Seq(Slot)] /\ IsFiniteSet(Arrays)
    BY <1>1, SlotsTyped
  <2>2. PICK slots \in [Arrays -> Seq(Slot)] : slots = Contained
    BY <2>1
  <2>3. PICK o \in Objects : o = Slots(a)[k]
    <3>1. PICK s \in Seq(Slot) : s = Slots(a)
      BY <2>2 DEF Contained
    <3>2. s[k] \in Slot
      BY <3>1, LenProperties, ElementOfSeq
    <3> QED BY <3>1, <3>2 DEF Slot, HoldsObjects
  <2>4. References(o) = Within(slots, Arrays, o)
    BY <2>2 DEF References, Places, Within, PlacesOf, Contained
  <2>5. PICK R : R = References(o)
    OBVIOUS
  <2>6. IsFiniteSet(R)
    BY <2>1, <2>4, <2>5, WithinFinite
  <2>7. PICK n \in Nat : n = Cardinality(R) /\ n <= 1
    <3>1. PICK n \in Nat : n = Cardinality(R)
      BY <2>6, FS_CardinalityType
    <3>2. refs[o] = n + (IF o \in held THEN 1 ELSE 0) /\ refs[o] <= 1
      BY <1>1, <2>5, <3>1 DEF RefCountsExact, OwnedOnce
    <3> QED BY <3>1, <3>2
  <2>8. <<a, k>> \in R /\ <<b, m>> \in R
    <3>1. <<a, k>> \in Places(a, o) /\ <<b, m>> \in Places(b, o)
      BY <2>3 DEF Places
    <3> QED BY <2>5, <3>1 DEF References
  <2>9. <<a, k>> = <<b, m>>
    <3>1. n = 1
      BY <2>6, <2>7, <2>8, FS_EmptySet
    <3>2. PICK x : R = {x}
      BY <2>6, <2>7, <3>1, FS_Singleton
    <3> QED BY <2>8, <3>2
  <2> QED BY <2>9
<1> QED BY <1>2, <1>3 DEF StorageRight

\* What the script, its arrays and the collector count of an object is what refers to it.
THEOREM ReferencesExact == RangesFit => (StorageSpec => []ReferencesRight)
BY StorageInvariant, ReferencesFollow, PTL

\* The elements of an array lie in its buffer, and no two slots have one object.
THEOREM StorageSafe == RangesFit => (StorageSpec => []StorageRight)
BY StorageInvariant, StorageFollows, PTL

-----------------------------------------------------------------------------
(* Splices, element by element: len and m are the lengths of the sequence   *)
(* and of what comes into it.                                               *)
Spliced(s, len, p, n, new, m) ==
  [k \in 1 .. len - n + m |-> IF k <= p THEN s[k] ELSE IF k <= p + m THEN new[k - p] ELSE s[k - m + n]]

Long(s, n) == Len(s) = n
Joins(s, t, m, n) == \A k \in 1 .. m + n : (s \o t)[k] = IF k <= m THEN s[k] ELSE t[k - m]

\* Elements of a sequence and another behind it.
LEMMA Joined ==
  ASSUME NEW S, NEW s \in Seq(S), NEW t \in Seq(S), NEW m \in Nat, Long(s, m), NEW n \in Nat, Long(t, n)
  PROVE  s \o t \in Seq(S) /\ Long(s \o t, m + n) /\ Joins(s, t, m, n)
<1>1. /\ s \o t \in Seq(S) /\ Len(s \o t) = Len(s) + Len(t)
      /\ \A q \in 1 .. Len(s) + Len(t) : (s \o t)[q] = IF q <= Len(s) THEN s[q] ELSE t[q - Len(s)]
  BY ConcatProperties
<1> QED BY <1>1 DEF Long, Joins

Copies(t, s, n, p) == \A k \in 1 .. n : t[k] = s[p + k]

\* A part of a sequence.
LEMMA MiddleIs ==
  ASSUME NEW S, NEW s \in Seq(S), NEW len \in Nat, Long(s, len), NEW p \in Nat, NEW n \in Nat, p + n <= len
  PROVE  Middle(s, p, n) \in Seq(S) /\ Long(Middle(s, p, n), n) /\ Copies(Middle(s, p, n), s, n, p)
<1>1. \A q \in 1 .. len : s[q] \in S
  BY ElementOfSeq DEF Long
<1>2. PICK from \in Int, to \in Int : from = p + 1 /\ to = p + n /\ to - from + 1 = n
  OBVIOUS
<1>3. \A q \in from .. to : s[q] \in S
  BY <1>1, <1>2
<1>4. /\ SubSeq(s, from, to) \in Seq(S)
      /\ Len(SubSeq(s, from, to)) = IF from <= to THEN to - from + 1 ELSE 0
      /\ \A q \in 1 .. to - from + 1 : SubSeq(s, from, to)[q] = s[from + q - 1]
  BY <1>3, SubSeqProperties
<1>5. PICK t \in Seq(S) : t = SubSeq(s, from, to) /\ Len(t) = n /\ \A q \in 1 .. n : t[q] = s[from + q - 1]
  <2>1. IF from <= to THEN to - from + 1 = n ELSE 0 = n
    BY <1>2
  <2>2. SubSeq(s, from, to) \in Seq(S) /\ Len(SubSeq(s, from, to)) = n
    BY <1>4, <2>1
  <2>3. \A q \in 1 .. n : SubSeq(s, from, to)[q] = s[from + q - 1]
    BY <1>2, <1>4
  <2> QED BY <2>2, <2>3
<1>6. \A q \in 1 .. n : t[q] = s[p + q]
  BY <1>2, <1>5
<1> QED BY <1>2, <1>5, <1>6 DEF Long, Copies, Middle

\* What is in the place of others, and where what was behind it is now.
LEMMA SpliceIs ==
  ASSUME NEW S, NEW s \in Seq(S), NEW len \in Nat, Long(s, len), NEW p \in Nat, NEW n \in Nat, p + n <= len,
         NEW new \in Seq(S), NEW m \in Nat, Long(new, m)
  PROVE  /\ Splice(s, p, n, new) = Spliced(s, len, p, n, new, m)
         /\ Splice(s, p, n, new) \in Seq(S) /\ Long(Splice(s, p, n, new), len - n + m)
<1>1. PICK q \in Nat, from \in Nat : q = len - p - n /\ from = p + n /\ from + q = len /\ from + q <= len /\ 0 + p <= len
  <2>1. len - p - n \in Nat /\ p + n \in Nat
    OBVIOUS
  <2> QED BY <2>1
<1>2. PICK front \in Seq(S) : front = SubSeq(s, 1, p) /\ Long(front, p) /\ \A k \in 1 .. p : front[k] = s[k]
  <2>1. Middle(s, 0, p) \in Seq(S) /\ Long(Middle(s, 0, p), p) /\ Copies(Middle(s, 0, p), s, p, 0)
    <3>1. PICK z \in Nat : z = 0 /\ z + p <= len
      BY <1>1
    <3>2. Middle(s, z, p) \in Seq(S) /\ Long(Middle(s, z, p), p) /\ Copies(Middle(s, z, p), s, p, z)
      BY <3>1, MiddleIs
    <3> QED BY <3>1, <3>2
  <2>2. Middle(s, 0, p) = SubSeq(s, 1, p)
    BY DEF Middle
  <2>3. PICK f \in Seq(S) : f = SubSeq(s, 1, p) /\ Long(f, p) /\ Copies(f, s, p, 0)
    BY <2>1, <2>2
  <2>4. \A k \in 1 .. p : f[k] = s[0 + k]
    BY <2>3 DEF Copies
  <2>5. \A k \in 1 .. p : 0 + k = k
    OBVIOUS
  <2> QED BY <2>3, <2>4, <2>5
<1>3. PICK rest \in Seq(S) : rest = SubSeq(s, p + n + 1, len) /\ Long(rest, q) /\ \A k \in 1 .. q : rest[k] = s[from + k]
  <2>1. Middle(s, from, q) \in Seq(S) /\ Long(Middle(s, from, q), q) /\ Copies(Middle(s, from, q), s, q, from)
    BY <1>1, MiddleIs
  <2>2. Middle(s, from, q) = SubSeq(s, p + n + 1, len)
    BY <1>1 DEF Middle
  <2>3. PICK g \in Seq(S) : g = SubSeq(s, p + n + 1, len) /\ Long(g, q) /\ Copies(g, s, q, from)
    BY <2>1, <2>2
  <2> QED BY <2>3 DEF Copies
<1>4. PICK place \in Nat : place = p + m
  OBVIOUS
<1>5. PICK t \in Seq(S) : t = front \o new /\ Long(t, place)
  <2>1. Long(front, p)
    BY <1>2
  <2>2. front \o new \in Seq(S) /\ Long(front \o new, p + m)
    BY <2>1, Joined
  <2> QED BY <1>4, <2>2
<1>6. PICK u \in Seq(S) : u = t \o rest /\ Long(u, place + q)
  <2>1. Long(rest, q) /\ Long(t, place)
    BY <1>3, <1>5
  <2>2. t \o rest \in Seq(S) /\ Long(t \o rest, place + q)
    BY <2>1, Joined
  <2> QED BY <2>2
<1>7. Splice(s, p, n, new) = u
  BY <1>1, <1>2, <1>3, <1>5, <1>6 DEF Splice, Long
<1>8. place + q = len - n + m
  BY <1>1, <1>4
<1>9. \A k \in 1 .. len - n + m :
        u[k] = IF k <= p THEN s[k] ELSE IF k <= p + m THEN new[k - p] ELSE s[k - m + n]
  <2> SUFFICES ASSUME NEW k \in 1 .. place + q
               PROVE u[k] = IF k <= p THEN s[k] ELSE IF k <= place THEN new[k - p] ELSE s[k - m + n]
    BY <1>4, <1>8
  <2>1. u[k] = IF k <= place THEN t[k] ELSE rest[k - place]
    <3>1. Long(rest, q) /\ Long(t, place) /\ u = t \o rest
      BY <1>3, <1>5, <1>6
    <3>2. Joins(t, rest, place, q)
      BY <3>1, Joined
    <3> QED BY <3>1, <3>2 DEF Joins
  <2>2. CASE k <= place
    <3>1. k \in 1 .. p + m
      BY <1>4, <2>2
    <3>2. t[k] = IF k <= p THEN front[k] ELSE new[k - p]
      <4>1. Long(front, p) /\ t = front \o new
        BY <1>2, <1>5
      <4>2. Joins(front, new, p, m)
        BY <4>1, Joined
      <4> QED BY <3>1, <4>1, <4>2 DEF Joins
    <3>3. k <= p => front[k] = s[k]
      BY <1>2
    <3> QED BY <1>4, <2>1, <2>2, <3>2, <3>3
  <2>3. CASE ~(k <= place)
    <3>1. PICK spot \in 1 .. q : spot = k - place
      BY <2>3
    <3>2. rest[spot] = s[from + spot] /\ from + spot = k - m + n
      BY <1>1, <1>3, <1>4, <3>1
    <3>3. u[k] = rest[spot]
      BY <2>1, <2>3, <3>1
    <3>4. ~(k <= p)
      BY <1>4, <2>3
    <3> QED BY <2>3, <3>2, <3>3, <3>4
  <2> QED BY <2>2, <2>3
<1>10. u = [k \in 1 .. len - n + m |-> u[k]]
  <2>1. u \in [1 .. Len(u) -> S]
    BY LenProperties
  <2> QED BY <1>6, <1>8, <2>1 DEF Long
<1>11. u = Spliced(s, len, p, n, new, m)
  BY <1>9, <1>10 DEF Spliced
<1> QED BY <1>6, <1>7, <1>8, <1>11

\* A sequence is the function of its elements.
LEMMA SequenceIs ==
  ASSUME NEW S, NEW s \in Seq(S), NEW n \in Nat, Long(s, n)
  PROVE  s = [k \in 1 .. n |-> s[k]]
<1>1. s \in [1 .. Len(s) -> S]
  BY LenProperties
<1> QED BY <1>1 DEF Long

\* All elements replaced.
LEMMA SplicedWhole ==
  ASSUME NEW S, NEW s \in Seq(S), NEW len \in Nat, Long(s, len), NEW new \in Seq(S), NEW m \in Nat, Long(new, m)
  PROVE  Splice(s, 0, len, new) = new
<1>1. Splice(s, 0, len, new) = Spliced(s, len, 0, len, new, m)
  <2>1. 0 \in Nat /\ 0 + len <= len
    OBVIOUS
  <2> QED BY <2>1, SpliceIs
<1>2. new = [k \in 1 .. m |-> new[k]]
  BY SequenceIs
<1>3. Spliced(s, len, 0, len, new, m) = [k \in 1 .. m |-> new[k]]
  BY DEF Spliced
<1> QED BY <1>1, <1>2, <1>3

\* What is put in the place of what was just put there.
LEMMA SplicedOver ==
  ASSUME NEW S, NEW s \in Seq(S), NEW len \in Nat, Long(s, len), NEW p \in Nat, p <= len,
         NEW m \in Nat, NEW x \in Seq(S), Long(x, m), NEW y \in Seq(S), Long(y, m)
  PROVE  Splice(Splice(s, p, 0, x), p, m, y) = Splice(s, p, 0, y)
<1>1. 0 \in Nat /\ p + 0 <= len /\ p + m <= len + m /\ len + m \in Nat
  OBVIOUS
<1>2. PICK t \in Seq(S) : t = Splice(s, p, 0, x) /\ Long(t, len + m) /\ t = Spliced(s, len, p, 0, x, m)
  <2>1. /\ Splice(s, p, 0, x) = Spliced(s, len, p, 0, x, m)
        /\ Splice(s, p, 0, x) \in Seq(S) /\ Long(Splice(s, p, 0, x), len - 0 + m)
    BY <1>1, SpliceIs
  <2> QED BY <2>1
<1>3. Splice(s, p, 0, y) = Spliced(s, len, p, 0, y, m)
  BY <1>1, SpliceIs
<1>4. Splice(t, p, m, y) = Spliced(t, len + m, p, m, y, m)
  <2>1. Long(t, len + m)
    BY <1>2
  <2> QED BY <1>1, <2>1, SpliceIs
<1>5. Spliced(t, len + m, p, m, y, m) = Spliced(s, len, p, 0, y, m)
  <2>1. \A k \in 1 .. len + m : t[k] = IF k <= p THEN s[k] ELSE IF k <= p + m THEN x[k - p] ELSE s[k - m]
    BY <1>2 DEF Spliced
  <2>2. \A k \in 1 .. len + m :
          (IF k <= p THEN t[k] ELSE IF k <= p + m THEN y[k - p] ELSE t[k - m + m])
            = (IF k <= p THEN s[k] ELSE IF k <= p + m THEN y[k - p] ELSE s[k - m + 0])
    BY <2>1
  <2> QED BY <2>2 DEF Spliced
<1> QED BY <1>2, <1>3, <1>4, <1>5

\* A list that is spliced with itself, in two parts.
LEMMA SplicedSelf ==
  ASSUME NEW S, NEW s \in Seq(S), NEW len \in Nat, Long(s, len), NEW p \in Nat, p <= len,
         NEW x \in Seq(S), Long(x, len), NEW t, t = Splice(s, p, 0, x)
  PROVE  /\ t \in Seq(S) /\ Long(t, len + len)
         /\ Middle(t, 0, p) \in Seq(S) /\ Long(Middle(t, 0, p), p)
         /\ Middle(t, p + len, len - p) \in Seq(S) /\ Long(Middle(t, p + len, len - p), len - p)
         /\ Splice(Splice(t, p, p, Middle(t, 0, p)), p + p, len - p, Middle(t, p + len, len - p))
              = Splice(s, p, 0, s)
<1>1. /\ 0 \in Nat /\ p + 0 <= len /\ len + len \in Nat /\ p + p <= len + len /\ len - p \in Nat
      /\ p + p \in Nat /\ p + p + (len - p) <= len + len
  OBVIOUS
<1>2. /\ t \in Seq(S) /\ Long(t, len + len) /\ t = Spliced(s, len, p, 0, x, len)
  <2>1. /\ Splice(s, p, 0, x) = Spliced(s, len, p, 0, x, len)
        /\ Splice(s, p, 0, x) \in Seq(S) /\ Long(Splice(s, p, 0, x), len - 0 + len)
    BY <1>1, SpliceIs
  <2> QED BY <2>1
<1>3. \A k \in 1 .. len + len : t[k] = IF k <= p THEN s[k] ELSE IF k <= p + len THEN x[k - p] ELSE s[k - len]
  BY <1>2 DEF Spliced
<1>4. PICK f \in Seq(S) : f = Middle(t, 0, p) /\ Long(f, p) /\ \A k \in 1 .. p : f[k] = s[k]
  <2>1. PICK z \in Nat : z = 0 /\ z + p <= len + len /\ Long(t, len + len)
    BY <1>2
  <2>2. Middle(t, z, p) \in Seq(S) /\ Long(Middle(t, z, p), p) /\ Copies(Middle(t, z, p), t, p, z)
    BY <1>1, <1>2, <2>1, MiddleIs
  <2>3. PICK f \in Seq(S) : f = Middle(t, 0, p) /\ Long(f, p) /\ Copies(f, t, p, 0)
    BY <2>1, <2>2
  <2>4. \A k \in 1 .. p : f[k] = t[k]
    BY <2>3 DEF Copies
  <2>5. \A k \in 1 .. p : t[k] = s[k]
    BY <1>3
  <2> QED BY <2>3, <2>4, <2>5
<1>5. PICK q \in Nat, d \in Nat : q = p + len /\ d = len - p /\ q + d = len + len /\ q + d <= len + len
  BY <1>1
<1>6. PICK g \in Seq(S) : g = Middle(t, q, d) /\ Long(g, d) /\ \A k \in 1 .. d : g[k] = s[p + k]
  <2>1. Long(t, len + len)
    BY <1>2
  <2>2. Middle(t, q, d) \in Seq(S) /\ Long(Middle(t, q, d), d) /\ Copies(Middle(t, q, d), t, d, q)
    BY <1>1, <1>2, <1>5, <2>1, MiddleIs
  <2>3. PICK g \in Seq(S) : g = Middle(t, q, d) /\ Long(g, d) /\ Copies(g, t, d, q)
    BY <2>2
  <2>4. \A k \in 1 .. d : t[q + k] = s[p + k]
    <3> SUFFICES ASSUME NEW k \in 1 .. d PROVE t[q + k] = s[p + k]
      OBVIOUS
    <3>1. PICK place \in 1 .. len + len : place = q + k /\ ~(place <= p) /\ ~(place <= p + len) /\ place - len = p + k
      BY <1>5
    <3>2. t[place] = s[place - len]
      BY <1>3, <3>1
    <3> QED BY <3>1, <3>2
  <2> QED BY <2>3, <2>4 DEF Copies
<1>7. PICK u \in Seq(S) : u = Splice(t, p, p, f) /\ Long(u, len + len) /\ u = Spliced(t, len + len, p, p, f, p)
  <2>1. Long(t, len + len) /\ Long(f, p)
    BY <1>2, <1>4
  <2>2. /\ Splice(t, p, p, f) = Spliced(t, len + len, p, p, f, p)
        /\ Splice(t, p, p, f) \in Seq(S) /\ Long(Splice(t, p, p, f), len + len - p + p)
    BY <1>1, <1>2, <2>1, SpliceIs
  <2> QED BY <2>2
<1>8. \A k \in 1 .. len + len : u[k] = IF k <= p THEN t[k] ELSE IF k <= p + p THEN f[k - p] ELSE t[k]
  <2>1. \A k \in 1 .. len + len - p + p :
          u[k] = IF k <= p THEN t[k] ELSE IF k <= p + p THEN f[k - p] ELSE t[k - p + p]
    BY <1>7 DEF Spliced
  <2>2. len + len - p + p = len + len /\ \A k \in 1 .. len + len : k - p + p = k
    OBVIOUS
  <2> QED BY <2>1, <2>2
<1>9. Splice(u, p + p, len - p, g) = Spliced(u, len + len, p + p, len - p, g, len - p)
  <2>1. Long(u, len + len) /\ Long(g, len - p)
    BY <1>5, <1>6, <1>7
  <2> QED BY <1>1, <2>1, SpliceIs
<1>10. Splice(s, p, 0, s) = Spliced(s, len, p, 0, s, len)
  BY <1>1, SpliceIs
<1>11. Spliced(u, len + len, p + p, len - p, g, len - p) = Spliced(s, len, p, 0, s, len)
  <2>1. \A k \in 1 .. len + len :
          (IF k <= p + p THEN u[k] ELSE IF k <= p + p + (len - p) THEN g[k - (p + p)] ELSE u[k - (len - p) + (len - p)])
            = (IF k <= p THEN s[k] ELSE IF k <= p + len THEN s[k - p] ELSE s[k - len + 0])
    <3> SUFFICES ASSUME NEW k \in 1 .. len + len
                 PROVE (IF k <= p + p THEN u[k] ELSE IF k <= p + p + (len - p) THEN g[k - (p + p)] ELSE u[k - (len - p) + (len - p)])
                         = (IF k <= p THEN s[k] ELSE IF k <= p + len THEN s[k - p] ELSE s[k - len + 0])
      OBVIOUS
    <3>1. CASE k <= p
      BY <1>3, <1>8, <3>1
    <3>2. CASE ~(k <= p) /\ k <= p + p
      <4>1. u[k] = f[k - p] /\ k - p \in 1 .. p
        BY <1>8, <3>2
      <4> QED BY <1>1, <1>4, <3>2, <4>1
    <3>3. CASE ~(k <= p + p) /\ k <= p + len
      <4>1. k - (p + p) \in 1 .. len - p /\ k - p = p + (k - (p + p))
        BY <3>3
      <4>2. g[k - (p + p)] = s[k - p]
        BY <1>5, <1>6, <4>1
      <4>3. k <= p + p + (len - p) /\ ~(k <= p)
        BY <3>3
      <4> QED BY <3>3, <4>2, <4>3
    <3>4. CASE ~(k <= p + len)
      <4>1. u[k] = t[k] /\ t[k] = s[k - len]
        BY <1>1, <1>3, <1>8, <3>4
      <4>2. ~(k <= p + p) /\ ~(k <= p + p + (len - p)) /\ ~(k <= p) /\ k - (len - p) + (len - p) = k
        BY <1>1, <3>4
      <4> QED BY <3>4, <4>1, <4>2
    <3> QED BY <1>1, <3>1, <3>2, <3>3, <3>4
  <2> QED BY <2>1 DEF Spliced
<1> QED BY <1>2, <1>4, <1>5, <1>6, <1>7, <1>9, <1>10, <1>11

\* A list that becomes longer, and one that becomes shorter.
LEMMA SplicedEnd ==
  ASSUME NEW S, NEW s \in Seq(S), NEW len \in Nat, Long(s, len), NEW new \in Seq(S)
  PROVE  Splice(s, len, 0, new) = SubSeq(s, 1, len) \o new
<1>1. SubSeq(s, len + 0 + 1, Len(s)) = <<>>
  BY SubSeqEmpty DEF Long
<1>2. PICK f \in Seq(S) : f = SubSeq(s, 1, len)
  BY SubSeqFull DEF Long
<1>3. f \o new \in Seq(S)
  BY ConcatProperties
<1>4. (f \o new) \o <<>> = f \o new
  BY <1>3, ConcatEmptySeq
<1> QED BY <1>1, <1>2, <1>4 DEF Splice

LEMMA SplicedRest ==
  ASSUME NEW S, NEW s \in Seq(S), NEW len \in Nat, Long(s, len), NEW p \in Nat, p <= len, NEW n \in Nat, p + n >= len
  PROVE  Splice(s, p, n, <<>>) = SubSeq(s, 1, p)
<1>1. SubSeq(s, p + n + 1, Len(s)) = <<>>
  BY SubSeqEmpty DEF Long
<1>2. PICK f \in Seq(S) : f = SubSeq(s, 1, p)
  <2>1. PICK z \in Nat : z = 0 /\ z + p <= len
    OBVIOUS
  <2>2. Middle(s, z, p) \in Seq(S)
    BY <2>1, MiddleIs
  <2>3. Middle(s, z, p) = SubSeq(s, 1, p)
    BY <2>1 DEF Middle
  <2> QED BY <2>2, <2>3
<1>3. f \o <<>> = f
  BY ConcatEmptySeq
<1> QED BY <1>1, <1>2, <1>3 DEF Splice

-----------------------------------------------------------------------------
(* What slots show: their values, handles, or the contents of their objects. *)
Read(s, v) == [k \in DOMAIN s |-> ContentOf(s[k], v)]

\* What each slot shows.
LEMMA ReadIs ==
  ASSUME NEW s \in Seq(Slot), NEW v \in [Objects -> Values], NEW n \in Nat, Long(s, n)
  PROVE  /\ Read(s, v) \in Seq(Content) /\ Long(Read(s, v), n)
         /\ Read(s, v) = [k \in 1 .. n |-> ContentOf(s[k], v)]
<1>1. DOMAIN s = 1 .. n
  BY LenProperties DEF Long
<1>2. Read(s, v) \in Seq(Content) /\ Len(Read(s, v)) = Len(s)
  BY ContentsTyped DEF Read
<1> QED BY <1>1, <1>2 DEF Read, Long

\* What is shown of spliced slots is what was shown of them, spliced.
LEMMA ReadSplice ==
  ASSUME NEW s \in Seq(Slot), NEW v \in [Objects -> Values], NEW len \in Nat, Long(s, len),
         NEW p \in Nat, NEW n \in Nat, p + n <= len, NEW new \in Seq(Slot), NEW m \in Nat, Long(new, m)
  PROVE  /\ Splice(s, p, n, new) \in Seq(Slot) /\ Long(Splice(s, p, n, new), len - n + m)
         /\ Read(Splice(s, p, n, new), v) = Splice(Read(s, v), p, n, Read(new, v))
<1>1. PICK t \in Seq(Slot), l \in Nat :
        t = Splice(s, p, n, new) /\ l = len - n + m /\ Long(t, l) /\ t = Spliced(s, len, p, n, new, m)
  <2>1. /\ Splice(s, p, n, new) = Spliced(s, len, p, n, new, m)
        /\ Splice(s, p, n, new) \in Seq(Slot) /\ Long(Splice(s, p, n, new), len - n + m)
    BY SpliceIs
  <2>2. len - n + m \in Nat
    OBVIOUS
  <2> QED BY <2>1, <2>2
<1>2. PICK rs \in Seq(Content) : rs = Read(s, v) /\ Long(rs, len) /\ rs = [k \in 1 .. len |-> ContentOf(s[k], v)]
  BY ReadIs
<1>3. PICK rn \in Seq(Content) : rn = Read(new, v) /\ Long(rn, m) /\ rn = [k \in 1 .. m |-> ContentOf(new[k], v)]
  BY ReadIs
<1>4. Read(t, v) = [k \in 1 .. l |-> ContentOf(t[k], v)]
  <2>1. Long(t, l)
    BY <1>1
  <2> QED BY <2>1, ReadIs
<1>5. Splice(rs, p, n, rn) = Spliced(rs, len, p, n, rn, m)
  <2>1. Long(rs, len) /\ Long(rn, m)
    BY <1>2, <1>3
  <2> QED BY <2>1, SpliceIs
<1>6. \A k \in 1 .. l : t[k] = IF k <= p THEN s[k] ELSE IF k <= p + m THEN new[k - p] ELSE s[k - m + n]
  BY <1>1 DEF Spliced
<1>7. \A k \in 1 .. l :
        ContentOf(t[k], v) = IF k <= p THEN rs[k] ELSE IF k <= p + m THEN rn[k - p] ELSE rs[k - m + n]
  <2> SUFFICES ASSUME NEW k \in 1 .. l
               PROVE ContentOf(t[k], v) = IF k <= p THEN rs[k] ELSE IF k <= p + m THEN rn[k - p] ELSE rs[k - m + n]
    OBVIOUS
  <2>1. CASE k <= p
    <3>0. p <= len
      OBVIOUS
    <3>1. k \in 1 .. len
      BY <2>1, <3>0
    <3>2. t[k] = s[k]
      BY <1>6, <2>1
    <3> QED BY <1>2, <2>1, <3>1, <3>2
  <2>2. CASE ~(k <= p) /\ k <= p + m
    <3>1. PICK q \in 1 .. m : q = k - p
      BY <2>2
    <3>2. t[k] = new[q]
      BY <1>6, <2>2, <3>1
    <3> QED BY <1>3, <2>2, <3>1, <3>2
  <2>3. CASE ~(k <= p) /\ ~(k <= p + m)
    <3>1. PICK q \in 1 .. len : q = k - m + n
      BY <1>1, <2>3
    <3>2. t[k] = s[q]
      BY <1>6, <2>3, <3>1
    <3> QED BY <1>2, <2>3, <3>1, <3>2
  <2> QED BY <2>1, <2>2, <2>3
<1>8. Read(t, v) = Spliced(rs, len, p, n, rn, m)
  BY <1>1, <1>4, <1>7 DEF Spliced
<1> QED BY <1>1, <1>2, <1>3, <1>5, <1>8

\* What is shown depends on the objects in the slots alone.
SameOf(s, v, w) == HoldsObjects => \A k \in DOMAIN s : s[k] \in Objects => v[s[k]] = w[s[k]]

LEMMA ReadAlike ==
  ASSUME NEW s \in Seq(Slot), NEW v, NEW w, SameOf(s, v, w)
  PROVE  Read(s, v) = Read(s, w)
<1>1. \A k \in DOMAIN s : s[k] \in Slot
  BY LenProperties, ElementOfSeq
<1>2. \A k \in DOMAIN s : ContentOf(s[k], v) = ContentOf(s[k], w)
  <2> SUFFICES ASSUME NEW k \in DOMAIN s PROVE ContentOf(s[k], v) = ContentOf(s[k], w)
    OBVIOUS
  <2>1. CASE HoldsObjects /\ s[k] # None
    <3>1. s[k] \in Objects
      BY <1>1, <2>1 DEF Slot, HoldsObjects
    <3>2. v[s[k]] = w[s[k]]
      BY <2>1, <3>1 DEF SameOf
    <3> QED BY <2>1, <3>2 DEF ContentOf
  <2>2. CASE ~(HoldsObjects /\ s[k] # None)
    BY <2>2 DEF ContentOf
  <2> QED BY <2>1, <2>2
<1> QED BY <1>2 DEF Read

\* Slots of values and handles show themselves.
LEMMA ReadItself ==
  ASSUME ~HoldsObjects, NEW s \in Seq(Slot), NEW v
  PROVE  Read(s, v) = s
<1>1. s = [k \in DOMAIN s |-> s[k]]
  BY LenProperties
<1> QED BY <1>1 DEF Read, ContentOf

\* What is in a sequence is used by it, and twice only if it is twice in it.
LEMMA UsesThere ==
  ASSUME NEW S, NEW s \in Seq(S), NEW place \in DOMAIN s, NEW k \in DOMAIN s, s[place] = s[k]
  PROVE  Uses(s[k], s) >= 1 /\ (Uses(s[k], s) <= 1 => place = k)
<1>1. PICK U : U = UsesAt(s[k], s) /\ place \in U /\ k \in U
  BY DEF UsesAt
<1>2. IsFiniteSet(U) /\ Uses(s[k], s) = Cardinality(U)
  BY <1>1, UsesIsNat
<1>3. PICK c \in Nat : c = Cardinality(U)
  BY <1>2, FS_CardinalityType
<1>4. c # 0
  BY <1>1, <1>2, <1>3, FS_EmptySet
<1>5. c <= 1 => place = k
  <2> SUFFICES ASSUME c <= 1 PROVE place = k
    OBVIOUS
  <2>1. Cardinality(U) = 1
    BY <1>3, <1>4
  <2>2. PICK x : U = {x}
    BY <1>2, <2>1, FS_Singleton
  <2> QED BY <1>1, <2>2
<1> QED BY <1>2, <1>3, <1>4, <1>5

-----------------------------------------------------------------------------
(* What a call has made of an array: l is what its slots show, r whether an *)
(* exception was raised.  Slots of an array of objects have all an object,  *)
(* and what objects elsewhere hold is what they held (was).                 *)
There(s) == HoldsObjects => s \in Seq(Objects)
Kept(w, out, was) == HoldsObjects => \A o \in Objects : out[o] > 0 => w.val[o] = was[o]
Shows(w, out, was, l, r) ==
  /\ Sound(w, out) /\ There(w.data) /\ Kept(w, out, was)
  /\ Read(w.data, w.val) = l /\ w.raised = r

\* An object in a slot is counted, and in no other slot of an array of objects.
LEMMA Counted ==
  ASSUME NEW w, NEW out \in Outside, Sound(w, out), NEW o \in Objects
  PROVE  /\ w.refs[o] = out[o] + Uses(o, w.data) /\ w.refs[o] \in Nat /\ out[o] \in Nat /\ Uses(o, w.data) \in Nat
         /\ HoldsObjects => w.refs[o] <= 1
<1>1. w \in Works /\ Exact(w, out) /\ Own(w)
  BY DEF Sound
<1>2. w.data \in Seq(Slot) /\ w.refs[o] \in Nat
  BY <1>1, WorkTypes
<1>3. Uses(o, w.data) \in Nat
  BY <1>2, UsesIsNat
<1> QED BY <1>1, <1>2, <1>3 DEF Exact, Own, Outside

LEMMA OwnObject ==
  ASSUME NEW w, NEW out \in Outside, Sound(w, out), NEW k \in DOMAIN w.data, w.data[k] \in Objects
  PROVE  /\ w.refs[w.data[k]] >= 1
         /\ HoldsObjects => out[w.data[k]] = 0 /\ \A place \in DOMAIN w.data : w.data[place] = w.data[k] => place = k
<1>1. PICK d \in Seq(Slot) : d = w.data
  BY WorkTypes DEF Sound
<1>2. PICK o \in Objects : o = d[k]
  BY <1>1
<1>3. PICK x \in Nat, y \in Nat, z \in Nat :
        x = w.refs[o] /\ y = out[o] /\ z = Uses(o, d) /\ x = y + z /\ (HoldsObjects => x <= 1)
  BY <1>1, Counted
<1>4. z >= 1
  BY <1>1, <1>2, <1>3, UsesThere
<1>5. HoldsObjects => \A place \in DOMAIN d : d[place] = o => place = k
  <2> SUFFICES ASSUME HoldsObjects, NEW place \in DOMAIN d, d[place] = o PROVE place = k
    OBVIOUS
  <2>1. z <= 1
    BY <1>3
  <2> QED BY <1>1, <1>2, <1>3, <2>1, UsesThere
<1> QED BY <1>1, <1>2, <1>3, <1>4, <1>5

\* What is shown has the length of the slots.
LEMMA ShowsTyped ==
  ASSUME script \in Scripts, NEW w, NEW out \in Outside, NEW was, NEW l, NEW r, Shows(w, out, was, l, r)
  PROVE  \E n \in Nat : /\ w \in Works /\ Sound(w, out) /\ w.data \in Seq(Slot) /\ w.val \in [Objects -> Values]
                        /\ n = Len(w.data) /\ Long(w.data, n) /\ l \in Seq(Content) /\ Long(l, n)
                        /\ n <= w.max /\ w.max \in Nat /\ w.max <= script.maxSize
<1>1. Sound(w, out) /\ w \in Works /\ Fits(w)
  BY DEF Shows, Sound
<1>2. PICK n \in Nat : n = Len(w.data) /\ Long(w.data, n)
  BY <1>1, WorkTypes DEF Long
<1>3. w.data \in Seq(Slot) /\ w.val \in [Objects -> Values]
  BY <1>1, WorkTypes
<1>4. l \in Seq(Content) /\ Long(l, n)
  <2>1. Read(w.data, w.val) \in Seq(Content) /\ Long(Read(w.data, w.val), n)
    BY <1>2, <1>3, ReadIs
  <2> QED BY <2>1 DEF Shows
<1>5. n <= w.max /\ w.max \in Nat /\ w.max <= script.maxSize
  <2>1. script.maxSize \in Nat
    BY ScriptFacts
  <2> QED BY <1>1, <1>2, <2>1, WorkTypes DEF Fits
<1> QED BY <1>1, <1>2, <1>3, <1>4, <1>5

\* The same slots and objects.
LEMMA SameShows ==
  ASSUME NEW w, NEW v, NEW out, NEW was, NEW l, NEW r, NEW q, Shows(w, out, was, l, r),
         Sound(v, out), v.data = w.data, v.val = w.val, v.raised = q
  PROVE  Shows(v, out, was, l, q)
BY DEF Shows, Kept

\* An exception changes nothing but itself.
LEMMA RaiseShows ==
  ASSUME NEW w, NEW out, NEW was, NEW l, NEW r, Shows(w, out, was, l, r)
  PROVE  Shows(Raise(w), out, was, l, TRUE)
<1>1. w \in Works /\ Sound(w, out)
  BY DEF Shows, Sound
<1>2. PICK v : v = Raise(w)
  OBVIOUS
<1>3. Sound(v, out) /\ v.data = w.data
  BY <1>1, <1>2, RaiseKeeps
<1>4. v.val = w.val /\ v.raised = TRUE
  BY <1>1, <1>2 DEF Raise, Works
<1> QED BY <1>2, <1>3, <1>4, SameShows

\* More capacity does not show.
LEMMA RoomShows ==
  ASSUME NEW w, NEW out, NEW was, NEW l, NEW r, Shows(w, out, was, l, r),
         NEW n \in 0 .. script.maxSize, script.maxSize \in Nat, w.max <= n
  PROVE  Shows([w EXCEPT !.max = n], out, was, l, r)
<1>1. w \in Works /\ Sound(w, out) /\ w.raised = r
  BY DEF Shows, Sound
<1>2. PICK v : v = [w EXCEPT !.max = n]
  OBVIOUS
<1>3. Sound(v, out) /\ v.data = w.data
  BY <1>1, <1>2, WithRoom
<1>4. v.val = w.val /\ v.raised = r
  BY <1>1, <1>2 DEF Works
<1> QED BY <1>2, <1>3, <1>4, SameShows

\* Slots that are constructed.
LEMMA ConstructedShows ==
  ASSUME script \in Scripts, NEW w \in Works, NEW n \in Nat, NEW made \in Nat, made >= n,
         HoldsObjects => n <= Cardinality(Free(w))
  PROVE  /\ There(Constructed(w, n, made))
         /\ HoldsObjects => \A k \in 1 .. n : Constructed(w, n, made)[k] \in Free(w)
         /\ ~HoldsObjects => Constructed(w, n, made) = [k \in 1 .. n |-> Default]
<1>1. CASE HoldsObjects
  <2>1. Lesser(made, n) = n
    BY DEF Lesser
  <2>2. PICK new \in [1 .. n -> Free(w)] : new = NewObjects(w, n)
    <3>1. NewObjects(w, n) \in [1 .. n -> Free(w)]
      BY <1>1, ScriptFacts, ObjectsAreNew
    <3> QED BY <3>1
  <2>3. new \in Seq(Objects)
    <3>1. new \in [1 .. n -> Objects]
      BY <2>2 DEF Free
    <3> QED BY <3>1, SeqDef
  <2>4. [k \in 1 .. n - n |-> None] = <<>>
    <3>1. 1 .. n - n = {}
      OBVIOUS
    <3> QED BY <3>1
  <2>5. Constructed(w, n, made) = new \o <<>>
    BY <1>1, <2>1, <2>2, <2>4 DEF Constructed
  <2>6. Constructed(w, n, made) = new
    BY <2>3, <2>5, ConcatEmptySeq
  <2> QED BY <1>1, <2>2, <2>3, <2>6 DEF There
<1>2. CASE ~HoldsObjects
  BY <1>2 DEF Constructed, There
<1> QED BY <1>1, <1>2

\* What constructed slots show.
Fresh(n) == [k \in 1 .. n |-> Default]

\* As many defaults as asked for.
LEMMA FreshTyped ==
  ASSUME script \in Scripts, NEW n \in Nat
  PROVE  Fresh(n) \in Seq(Content) /\ Long(Fresh(n), n)
<1>1. Default \in Content
  BY ScriptFacts DEF Content, Default, HoldsObjects
<1>2. Fresh(n) \in [1 .. n -> Content]
  BY <1>1 DEF Fresh
<1> QED BY <1>2, SeqDef, LenProperties DEF Long

\* Construct and Destruct, as lists see them.
LEMMA ConstructShows ==
  ASSUME script \in Scripts, NEW w, NEW out \in Outside, NEW was, NEW l, NEW r, Shows(w, out, was, l, r),
         NEW p \in Nat, NEW n \in Nat, NEW made \in Nat, made >= n, p <= Len(w.data),
         HoldsObjects => n <= Cardinality(Free(w)), Len(w.data) + n <= w.max
  PROVE  Shows(Construct(w, p, n, made), out, was, Splice(l, p, 0, Fresh(n)), r)
<1>1. PICK len \in Nat :
        /\ w \in Works /\ Sound(w, out) /\ w.data \in Seq(Slot) /\ w.val \in [Objects -> Values]
        /\ len = Len(w.data) /\ Long(w.data, len)
  BY ShowsTyped
<1>0. p + 0 <= len
  BY <1>1
<1>2. There(w.data) /\ Kept(w, out, was) /\ Read(w.data, w.val) = l /\ w.raised = r /\ Exact(w, out) /\ Own(w)
  BY DEF Shows, Sound
<1>3. PICK d \in Seq(Slot) : d = w.data /\ Long(d, len)
  BY <1>1
<1>4. PICK new \in Seq(Slot) : /\ new = Constructed(w, n, made) /\ Long(new, n) /\ There(new)
                               /\ HoldsObjects => \A k \in 1 .. n : new[k] \in Free(w)
                               /\ ~HoldsObjects => new = Fresh(n)
  <2>1. Constructed(w, n, made) \in Seq(Slot) /\ Len(Constructed(w, n, made)) = n
    BY <1>1, ConstructedUses
  <2>2. /\ There(Constructed(w, n, made))
        /\ HoldsObjects => \A k \in 1 .. n : Constructed(w, n, made)[k] \in Free(w)
        /\ ~HoldsObjects => Constructed(w, n, made) = [k \in 1 .. n |-> Default]
    BY <1>1, ConstructedShows
  <2> QED BY <2>1, <2>2 DEF Long, Fresh
<1>5. PICK v \in [Objects -> Values] : v = [o \in Objects |-> IF o \in Free(w) THEN Zero ELSE w.val[o]]
  <2>1. [o \in Objects |-> IF o \in Free(w) THEN Zero ELSE w.val[o]] \in [Objects -> Values]
    BY <1>1, ScriptFacts
  <2> QED BY <2>1
<1>6. PICK fresh : fresh = [w EXCEPT !.val = v]
  OBVIOUS
<1>7. fresh \in Works /\ fresh.data = d /\ fresh.val = v /\ fresh.raised = r
  BY <1>1, <1>2, <1>3, <1>6 DEF Works
<1>8. PICK wider : wider = Put(fresh, p, 0, new)
  OBVIOUS
<1>9. wider.data = Splice(d, p, 0, new) /\ wider.val = v /\ wider.raised = r
  BY <1>7, <1>8, PutFields
<1>10. Construct(w, p, n, made) = wider
  BY <1>4, <1>5, <1>6, <1>8 DEF Construct
<1>11. Sound(wider, out)
  <2>1. Sound(Construct(w, p, n, made), out)
    BY <1>1, <1>2, ConstructKeeps
  <2> QED BY <1>10, <2>1
<1>12. There(wider.data)
  <2> SUFFICES ASSUME HoldsObjects PROVE wider.data \in Seq(Objects)
    BY DEF There
  <2>1. d \in Seq(Objects) /\ new \in Seq(Objects)
    BY <1>2, <1>3, <1>4 DEF There
  <2>2. 0 \in Nat
    OBVIOUS
  <2>3. Splice(d, p, 0, new) \in Seq(Objects)
    BY <1>0, <1>1, <1>3, <1>4, <2>1, <2>2, SpliceIs
  <2> QED BY <1>9, <2>3
<1>13. Kept(wider, out, was)
  <2> SUFFICES ASSUME HoldsObjects, NEW o \in Objects, out[o] > 0 PROVE wider.val[o] = was[o]
    BY DEF Kept
  <2>1. w.refs[o] # 0
    <3>1. PICK x \in Nat, y \in Nat, z \in Nat : x = w.refs[o] /\ y = out[o] /\ z = Uses(o, d) /\ x = y + z
      BY <1>1, <1>3, Counted
    <3> QED BY <3>1
  <2>2. v[o] = w.val[o]
    BY <1>5, <2>1 DEF Free
  <2> QED BY <1>2, <1>9, <2>2 DEF Kept
<1>14. Read(wider.data, wider.val) = Splice(l, p, 0, Fresh(n))
  <2>1. Read(d, v) = l
    <3>1. SameOf(d, v, w.val)
      <4> SUFFICES ASSUME NEW k \in DOMAIN d, d[k] \in Objects PROVE v[d[k]] = w.val[d[k]]
        BY DEF SameOf
      <4>1. w.refs[d[k]] >= 1
        BY <1>1, <1>3, OwnObject
      <4>2. d[k] \notin Free(w)
        <5>1. w.refs[d[k]] \in Nat
          BY <1>1, WorkTypes
        <5> QED BY <4>1, <5>1 DEF Free
      <4> QED BY <1>5, <4>2
    <3> QED BY <1>2, <1>3, <3>1, ReadAlike
  <2>2. Read(new, v) = Fresh(n)
    <3>1. CASE HoldsObjects
      <4>1. Read(new, v) = [k \in 1 .. n |-> ContentOf(new[k], v)]
        BY <1>4, ReadIs
      <4>2. \A k \in 1 .. n : ContentOf(new[k], v) = Default
        <5> SUFFICES ASSUME NEW k \in 1 .. n PROVE ContentOf(new[k], v) = Default
          OBVIOUS
        <5>1. new[k] \in Free(w) /\ new[k] \in Objects
          BY <1>4, <3>1 DEF Free
        <5>2. new[k] # None /\ v[new[k]] = Zero
          BY <1>5, <5>1, ScriptFacts
        <5>3. Default = Zero
          BY <3>1 DEF Default, HoldsObjects
        <5> QED BY <3>1, <5>2, <5>3 DEF ContentOf
      <4> QED BY <4>1, <4>2 DEF Fresh
    <3>2. CASE ~HoldsObjects
      BY <1>4, <3>2, ReadItself
    <3> QED BY <3>1, <3>2
  <2>3. Read(Splice(d, p, 0, new), v) = Splice(Read(d, v), p, 0, Read(new, v))
    <3>1. 0 \in Nat /\ Long(d, len) /\ Long(new, n) /\ p + 0 <= len
      BY <1>0, <1>1, <1>3, <1>4
    <3> QED BY <3>1, ReadSplice
  <2> QED BY <1>9, <2>1, <2>2, <2>3
<1> QED BY <1>9, <1>10, <1>11, <1>12, <1>13, <1>14 DEF Shows

LEMMA DestructShows ==
  ASSUME script \in Scripts, NEW w, NEW out \in Outside, NEW was, NEW l, NEW r, Shows(w, out, was, l, r),
         NEW p \in Nat, NEW n \in Nat, p + n <= Len(w.data)
  PROVE  Shows(Destruct(w, p, n), out, was, Splice(l, p, n, <<>>), r)
<1>1. PICK len \in Nat :
        /\ w \in Works /\ Sound(w, out) /\ w.data \in Seq(Slot) /\ w.val \in [Objects -> Values]
        /\ len = Len(w.data) /\ Long(w.data, len) /\ p + n <= len
  BY ShowsTyped
<1>2. There(w.data) /\ Kept(w, out, was) /\ Read(w.data, w.val) = l /\ w.raised = r
  BY DEF Shows
<1>3. PICK d \in Seq(Slot) : d = w.data /\ Long(d, len)
  BY <1>1
<1>4. PICK less : less = Destruct(w, p, n)
  OBVIOUS
<1>5. less.data = Splice(d, p, n, <<>>) /\ less.val = w.val /\ less.raised = r
  BY <1>1, <1>2, <1>3, <1>4, PutFields DEF Destruct
<1>6. Sound(less, out)
  BY <1>1, <1>4, DestructKeeps
<1>7. PICK z \in Nat : z = 0 /\ Long(<<>>, z)
  BY EmptySeq DEF Long
<1>8. There(less.data)
  <2> SUFFICES ASSUME HoldsObjects PROVE less.data \in Seq(Objects)
    BY DEF There
  <2>1. d \in Seq(Objects) /\ <<>> \in Seq(Objects)
    BY <1>2, <1>3, EmptySeq DEF There
  <2>2. Splice(d, p, n, <<>>) \in Seq(Objects)
    BY <1>1, <1>3, <1>7, <2>1, SpliceIs
  <2> QED BY <1>5, <2>2
<1>9. Kept(less, out, was)
  BY <1>2, <1>5 DEF Kept
<1>10. Read(less.data, less.val) = Splice(l, p, n, <<>>)
  <2>1. Read(<<>>, w.val) = <<>>
    <3>1. DOMAIN <<>> = {}
      OBVIOUS
    <3> QED BY <3>1 DEF Read
  <2>2. Read(Splice(d, p, n, <<>>), w.val) = Splice(Read(d, w.val), p, n, Read(<<>>, w.val))
    <3>1. PICK v \in [Objects -> Values], e \in Seq(Slot) : v = w.val /\ e = <<>>
      BY <1>1, EmptySeq
    <3>2. Long(d, len) /\ Long(e, z) /\ p + n <= len
      BY <1>1, <1>3, <1>7, <3>1
    <3>3. Read(Splice(d, p, n, e), v) = Splice(Read(d, v), p, n, Read(e, v))
      BY <3>2, ReadSplice
    <3> QED BY <3>1, <3>3
  <2> QED BY <1>2, <1>3, <1>5, <2>1, <2>2
<1> QED BY <1>4, <1>5, <1>6, <1>8, <1>9, <1>10 DEF Shows

\* What elements of a full array are.
Full(vs) == HoldsObjects => vs \in Seq(Values)

\* As many slots are set as there are values.
LEMMA AllSet ==
  ASSUME NEW w, NEW size \in Nat, size = Len(w.data), NEW p \in Nat, NEW vs \in Seq(Content), NEW m \in Nat, Long(vs, m),
         p + m <= size
  PROVE  /\ (IF p < Len(w.data) THEN Lesser(Len(vs), Len(w.data) - p) ELSE 0) = m
         /\ SubSeq(vs, 1, m) = vs /\ Lesser(p, Len(w.data)) = p
<1>1. Len(vs) = m
  BY DEF Long
<1>2. SubSeq(vs, 1, m) = vs
  BY <1>1, SubSeqFull
<1>3. Lesser(p, size) = p
  BY DEF Lesser
<1>4. (IF p < size THEN Lesser(m, size - p) ELSE 0) = m
  <2>1. CASE p < size
    <3>1. PICK d \in Nat : d = size - p /\ m <= d
      BY <2>1
    <3>2. Lesser(m, d) = m
      BY <3>1 DEF Lesser
    <3> QED BY <2>1, <3>1, <3>2
  <2>2. CASE ~(p < size)
    BY <2>2
  <2> QED BY <2>1, <2>2
<1> QED BY <1>1, <1>2, <1>3, <1>4

\* Values set in slots that exist.
LEMMA SetSlotsShows ==
  ASSUME script \in Scripts, NEW w, NEW out \in Outside, NEW was, NEW l, NEW r, Shows(w, out, was, l, r),
         NEW p \in Nat, NEW vs \in Seq(Content), Full(vs), NEW m \in Nat, Long(vs, m), p + m <= Len(w.data)
  PROVE  Shows(SetSlots(w, p, vs), out, was, Splice(l, p, m, vs), r)
<1>1. PICK len \in Nat :
        /\ w \in Works /\ Sound(w, out) /\ w.data \in Seq(Slot) /\ w.val \in [Objects -> Values]
        /\ len = Len(w.data) /\ Long(w.data, len) /\ l \in Seq(Content) /\ Long(l, len)
  BY ShowsTyped
<1>2. There(w.data) /\ Kept(w, out, was) /\ Read(w.data, w.val) = l /\ w.raised = r
  BY DEF Shows
<1>3. PICK d \in Seq(Slot) : d = w.data /\ Long(d, len) /\ p + m <= len /\ DOMAIN d = 1 .. len
  <2>1. DOMAIN w.data = 1 .. len
    BY <1>1, LenProperties
  <2> QED BY <1>1, <2>1
<1> DEFINE To(o) == {k \in 1 .. m : w.data[p + k] = o /\ vs[k] # None}
           values == [o \in Objects |-> IF To(o) = {} THEN w.val[o] ELSE vs[CHOOSE k \in To(o) : TRUE]]
<1>4. PICK set : set = SetSlots(w, p, vs)
  OBVIOUS
<1>5. set = IF HoldsObjects THEN [w EXCEPT !.val = values] ELSE Put(w, p, m, vs)
  <2>1. /\ (IF p < Len(w.data) THEN Lesser(Len(vs), Len(w.data) - p) ELSE 0) = m
        /\ SubSeq(vs, 1, m) = vs /\ Lesser(p, Len(w.data)) = p /\ Len(vs) = m
    BY <1>1, <1>3, AllSet DEF Long
  <2>2. PICK many \in Nat, n \in Nat, new \in Seq(Content), where \in Nat :
          many = m /\ n = m /\ new = vs /\ where = p
    OBVIOUS
  <2>3. many = Len(vs)
    BY <2>1, <2>2
  <2>4. n = IF p < len THEN Lesser(many, len - p) ELSE 0
    BY <1>1, <2>1, <2>2
  <2>5. new = SubSeq(vs, 1, n) /\ where = Lesser(p, len)
    BY <1>1, <2>1, <2>2
  <2>6. PICK s : s = IF HoldsObjects
                     THEN [w EXCEPT !.val = [o \in Objects |->
                             IF {k \in 1 .. n : w.data[p + k] = o /\ new[k] # None} = {} THEN w.val[o]
                             ELSE new[CHOOSE k \in {place \in 1 .. n : w.data[p + place] = o /\ new[place] # None} : TRUE]]]
                     ELSE Put(w, Lesser(p, len), n, new)
    OBVIOUS
  <2>7. SetSlots(w, p, vs) = IF n < many THEN Raise(s) ELSE s
    BY <1>1, <2>3, <2>4, <2>5, <2>6 DEF SetSlots
  <2>8. ~(n < many)
    BY <2>2
  <2>9. s = IF HoldsObjects THEN [w EXCEPT !.val = values] ELSE Put(w, p, m, vs)
    <3>1. n = m /\ new = vs /\ Lesser(p, len) = p
      BY <1>1, <2>1, <2>2
    <3> QED BY <2>6, <3>1
  <2> HIDE DEF values, To
  <2> QED BY <1>4, <2>7, <2>8, <2>9
<1>6. Sound(set, out)
  BY <1>1, <1>4, SetSlotsKeeps
<1>7. CASE HoldsObjects
  <2>1. set.data = d /\ set.val = values /\ set.raised = r
    BY <1>1, <1>2, <1>3, <1>5, <1>7 DEF Works
  <2>2. vs \in Seq(Values) /\ d \in Seq(Objects) /\ DOMAIN vs = 1 .. m
    BY <1>2, <1>3, <1>7, LenProperties DEF Full, There, Long
  <2>3. \A k \in 1 .. m : vs[k] # None /\ vs[k] \in Values
    <3>1. \A k \in DOMAIN vs : vs[k] \in Values
      BY <2>2, LenProperties
    <3> QED BY <2>2, <3>1, ValuesAssumption
  <2>4. \A k \in 1 .. len : d[k] \in Objects /\ d[k] # None
    <3>1. \A k \in DOMAIN d : d[k] \in Objects
      BY <2>2, LenProperties
    <3> QED BY <1>3, <3>1, ScriptFacts
  <2>5. \A place, k \in 1 .. len : d[place] = d[k] => place = k
    <3> SUFFICES ASSUME NEW place \in 1 .. len, NEW k \in 1 .. len, d[place] = d[k] PROVE place = k
      OBVIOUS
    <3>1. w.data[k] \in Objects /\ place \in DOMAIN w.data /\ k \in DOMAIN w.data /\ w.data[place] = w.data[k]
      BY <1>3, <2>4
    <3>2. \A spot \in DOMAIN w.data : w.data[spot] = w.data[k] => spot = k
      BY <1>1, <1>7, <3>1, OwnObject
    <3> QED BY <3>1, <3>2
  <2>6. \A k \in 1 .. len : values[d[k]] = IF k <= p THEN w.val[d[k]]
                                         ELSE IF k <= p + m THEN vs[k - p] ELSE w.val[d[k]]
    <3> SUFFICES ASSUME NEW k \in 1 .. len
                 PROVE values[d[k]] = IF k <= p THEN w.val[d[k]] ELSE IF k <= p + m THEN vs[k - p] ELSE w.val[d[k]]
      OBVIOUS
    <3>1. \A place \in 1 .. m : place \in To(d[k]) <=> p + place = k
      <4> SUFFICES ASSUME NEW place \in 1 .. m PROVE place \in To(d[k]) <=> p + place = k
        OBVIOUS
      <4>1. PICK spot \in 1 .. len : spot = p + place
        BY <1>3
      <4>2. d[spot] = d[k] <=> spot = k
        BY <2>5
      <4> QED BY <1>3, <2>3, <4>1, <4>2
    <3>2. CASE ~(k <= p) /\ k <= p + m
      <4>1. PICK place \in 1 .. m : place = k - p
        BY <3>2
      <4>2. To(d[k]) = {place}
        <5>1. \A spot \in 1 .. m : p + spot = k <=> spot = place
          BY <4>1
        <5> QED BY <3>1, <5>1
      <4>3. (CHOOSE spot \in To(d[k]) : TRUE) = place
        BY <4>2
      <4> HIDE DEF To
      <4> QED BY <2>4, <3>2, <4>1, <4>2, <4>3
    <3>3. CASE k <= p \/ ~(k <= p + m)
      <4>1. \A spot \in 1 .. m : p + spot # k
        BY <3>3
      <4>2. To(d[k]) = {}
        BY <3>1, <4>1
      <4> HIDE DEF To
      <4> QED BY <2>4, <3>3, <4>2
    <3> QED BY <3>2, <3>3
  <2>7. Kept(set, out, was)
    <3> SUFFICES ASSUME NEW o \in Objects, out[o] > 0 PROVE values[o] = was[o]
      BY <2>1 DEF Kept
    <3>1. To(o) = {}
      <4> SUFFICES ASSUME NEW place \in To(o) PROVE FALSE
        OBVIOUS
      <4>1. PICK spot \in 1 .. len : spot = p + place /\ d[spot] = o
        BY <1>3
      <4>2. out[o] = 0
        BY <1>1, <1>3, <1>7, <4>1, OwnObject
      <4> QED BY <4>2
    <3>2. w.val[o] = was[o]
      BY <1>2, <1>7 DEF Kept
    <3> QED BY <3>1, <3>2
  <2>8. Read(d, values) = Splice(l, p, m, vs)
    <3>1. Splice(l, p, m, vs) = Spliced(l, len, p, m, vs, m)
      <4>1. Long(l, len)
        BY <1>1
      <4> QED BY <1>1, <1>3, <4>1, SpliceIs
    <3>2. l = [k \in 1 .. len |-> w.val[d[k]]]
      <4>1. \A k \in 1 .. len : ContentOf(d[k], w.val) = w.val[d[k]]
        BY <1>7, <2>4 DEF ContentOf
      <4> QED BY <1>2, <1>3, <4>1 DEF Read
    <3>3. Read(d, values) = [k \in 1 .. len |-> values[d[k]]]
      <4> HIDE DEF values
      <4>1. \A k \in 1 .. len : ContentOf(d[k], values) = values[d[k]]
        BY <1>7, <2>4 DEF ContentOf
      <4> QED BY <1>3, <4>1 DEF Read
    <3>4. Spliced(l, len, p, m, vs, m) = [k \in 1 .. len |-> IF k <= p THEN l[k] ELSE IF k <= p + m THEN vs[k - p] ELSE l[k]]
      <4>1. len - m + m = len /\ \A k \in 1 .. len : k - m + m = k
        OBVIOUS
      <4> QED BY <4>1 DEF Spliced
    <3>5. \A k \in 1 .. len : values[d[k]] = IF k <= p THEN l[k] ELSE IF k <= p + m THEN vs[k - p] ELSE l[k]
      <4> HIDE DEF values
      <4> QED BY <2>6, <3>2
    <3> HIDE DEF values
    <3> QED BY <3>1, <3>3, <3>4, <3>5
  <2> HIDE DEF values
  <2> QED BY <1>2, <1>3, <1>4, <1>6, <2>1, <2>7, <2>8 DEF Shows
<1>8. CASE ~HoldsObjects
  <2>1. set = Put(w, p, m, vs)
    BY <1>5, <1>8
  <2>2. set.data = Splice(d, p, m, vs) /\ set.val = w.val /\ set.raised = r
    BY <1>1, <1>2, <1>3, <2>1, PutFields
  <2>3. PICK es \in Seq(Slot), v \in [Objects -> Values] : es = vs /\ v = w.val /\ Long(es, m)
    BY <1>1, <1>8 DEF Content
  <2>4. Read(Splice(d, p, m, es), v) = Splice(Read(d, v), p, m, Read(es, v))
    <3>1. Long(d, len) /\ p + m <= len
      BY <1>3
    <3> QED BY <2>3, <3>1, ReadSplice
  <2>5. Read(es, v) = es
    BY <1>8, ReadItself
  <2> QED BY <1>2, <1>3, <1>4, <1>6, <1>8, <2>2, <2>3, <2>4, <2>5 DEF Shows, There, Kept
<1> QED BY <1>7, <1>8

\* Nothing in the place of nothing.
LEMMA SplicedNothing ==
  ASSUME NEW S, NEW s \in Seq(S), NEW len \in Nat, Long(s, len), NEW p \in Nat, p <= len, NEW e \in Seq(S), Long(e, 0)
  PROVE  Splice(s, p, 0, e) = s
<1>1. PICK z \in Nat : z = 0 /\ p + z <= len /\ Long(e, z)
  OBVIOUS
<1>2. Splice(s, p, z, e) = Spliced(s, len, p, z, e, z)
  BY <1>1, SpliceIs
<1>3. s = [k \in 1 .. len |-> s[k]]
  BY SequenceIs
<1>4. len - z + z = len
  BY <1>1
<1>5. \A k \in 1 .. len : (IF k <= p THEN s[k] ELSE IF k <= p + z THEN e[k - p] ELSE s[k - z + z]) = s[k]
  <2> SUFFICES ASSUME NEW k \in 1 .. len
               PROVE (IF k <= p THEN s[k] ELSE IF k <= p + z THEN e[k - p] ELSE s[k - z + z]) = s[k]
    OBVIOUS
  <2>1. k - z + z = k /\ p + z = p
    BY <1>1
  <2> QED BY <2>1
<1> QED BY <1>1, <1>2, <1>3, <1>4, <1>5 DEF Spliced

LEMMA FreshNone ==
  Fresh(0) = <<>> /\ Long(Fresh(0), 0)
<1>1. 1 .. 0 = {}
  OBVIOUS
<1>2. Fresh(0) = <<>>
  BY <1>1 DEF Fresh
<1> QED BY <1>2, EmptySeq DEF Long

\* There are objects enough that are free.
Enough(w, n) == HoldsObjects => n <= Cardinality(Free(w))

\* Resize(delta, at), with room enough: the elements that are new, or gone.
LEMMA GrowShows ==
  ASSUME script \in Scripts, NEW w, NEW out \in Outside, NEW was, NEW l, NEW r, Shows(w, out, was, l, r),
         NEW len \in Nat, Long(w.data, len), NEW n \in Nat, NEW p \in Nat, NEW mem \in BOOLEAN, mem, NEW made \in Nat, made >= n,
         Enough(w, n), len + n <= script.maxSize
  PROVE  Shows(ResizeBy(w, n, p, mem, made), out, was, Splice(l, Lesser(p, len), 0, Fresh(n)), r)
<1>1. /\ w \in Works /\ Sound(w, out) /\ l \in Seq(Content) /\ Long(l, len)
      /\ len <= w.max /\ w.max \in Nat /\ w.max <= script.maxSize /\ len = Len(w.data)
  <2>1. PICK k \in Nat :
          /\ w \in Works /\ Sound(w, out) /\ l \in Seq(Content) /\ Long(l, k) /\ k = Len(w.data)
          /\ k <= w.max /\ w.max \in Nat /\ w.max <= script.maxSize
    BY ShowsTyped
  <2> QED BY <2>1 DEF Long
<1>2. script.maxSize \in Nat
  BY ScriptFacts
<1>3. PICK q \in Nat : q = Lesser(p, len) /\ q <= len
  BY DEF Lesser
<1>4. CASE n = 0
  <2>1. ResizeBy(w, n, p, mem, made) = w
    BY <1>4 DEF ResizeBy
  <2>2. PICK e \in Seq(Content) : e = Fresh(n) /\ Long(e, 0)
    BY <1>4, FreshTyped
  <2>3. Splice(l, q, 0, e) = l
    BY <1>1, <1>3, <2>2, SplicedNothing
  <2> QED BY <1>3, <2>1, <2>2, <2>3
<1>5. CASE n > 0
  <2> DEFINE grow == w.max < len + n
  <2>1. PICK max \in 0 .. script.maxSize :
           max = (IF grow THEN len + n ELSE w.max) /\ w.max <= max /\ len + n <= max
    BY <1>1, <1>2, <1>5
  <2>2. PICK v : v = [w EXCEPT !.max = max]
    OBVIOUS
  <2>3. Shows(v, out, was, l, r)
    BY <1>2, <2>1, <2>2, RoomShows
  <2>4. v.max = max /\ v.data = w.data /\ v.refs = w.refs
    BY <1>1, <1>2, <2>1, <2>2, WithRoom
  <2>5. ResizeBy(w, n, p, mem, made) = Construct(v, q, n, made)
    BY <1>1, <1>2, <1>3, <1>5, <2>1, <2>2 DEF ResizeBy
  <2>6. HoldsObjects => n <= Cardinality(Free(v))
    BY <2>4 DEF Free, Enough
  <2>7. q <= Len(v.data) /\ Len(v.data) + n <= v.max
    BY <1>1, <1>3, <2>1, <2>4
  <2>8. Shows(Construct(v, q, n, made), out, was, Splice(l, q, 0, Fresh(n)), r)
    BY <2>3, <2>6, <2>7, ConstructShows
  <2> QED BY <1>3, <2>5, <2>8
<1>6. n = 0 \/ n > 0
  OBVIOUS
<1> QED BY <1>4, <1>5, <1>6

\* Room taken away.
LEMMA ShrinkShows ==
  ASSUME script \in Scripts, NEW w, NEW out \in Outside, NEW was, NEW l, NEW r, Shows(w, out, was, l, r),
         NEW len \in Nat, Long(w.data, len), NEW d \in Int, NEW n \in Nat, d = -n, n > 0, n <= len,
         NEW p \in Nat, NEW mem, NEW made
  PROVE  Shows(ResizeBy(w, d, p, mem, made), out, was, Splice(l, Lesser(p, len - n), n, <<>>), r)
<1>1. Lesser(-d, len) = n
  <2>1. -d = n
    OBVIOUS
  <2> QED BY <2>1 DEF Lesser
<1>2. PICK q \in Nat : q = Lesser(p, len - n) /\ q + n <= len
  BY DEF Lesser
<1>3. ResizeBy(w, d, p, mem, made) = Destruct(w, q, n)
  BY <1>1, <1>2 DEF ResizeBy, Long
<1>4. q + n <= Len(w.data)
  BY <1>2 DEF Long
<1>5. Shows(Destruct(w, q, n), out, was, Splice(l, q, n, <<>>), r)
  BY <1>2, <1>4, DestructShows
<1> QED BY <1>2, <1>3, <1>5

\* Resize(numElements), with room enough.
Resized(l, len, n) == SubSeq(l, 1, Lesser(n, len)) \o Fresh(n - Lesser(n, len))

LEMMA ResizeToShows ==
  ASSUME script \in Scripts, NEW w, NEW out \in Outside, NEW was, NEW l, NEW r, Shows(w, out, was, l, r),
         NEW len \in Nat, Long(w.data, len), NEW n \in Nat, n <= script.maxSize, NEW mem \in BOOLEAN, mem, NEW made \in Nat, made >= n,
         Enough(w, n), Cardinality(Free(w)) \in Nat
  PROVE  Shows(ResizeTo(w, n, mem, made), out, was, Resized(l, len, n), r)
<1>1. l \in Seq(Content) /\ Long(l, len)
  <2>1. PICK k \in Nat : l \in Seq(Content) /\ Long(l, k) /\ k = Len(w.data)
    BY ShowsTyped
  <2> QED BY <2>1 DEF Long
<1>2. script.maxSize \in Nat
  BY ScriptFacts
<1>3. PICK v : v = ResizeTo(w, n, mem, made)
  OBVIOUS
<1>4. v = ResizeBy(w, n - len, n + len, mem, made)
  <2>1. Len(w.data) = len /\ ~(n > script.maxSize)
    BY <1>2 DEF Long
  <2> QED BY <1>3, <2>1 DEF ResizeTo
<1>5. CASE n >= len
  <2>1. PICK d \in Nat, p \in Nat : d = n - len /\ p = n + len /\ len + d <= script.maxSize /\ made >= d
    BY <1>2, <1>5
  <2>2. Enough(w, d)
    <3>1. PICK c \in Nat : c = Cardinality(Free(w)) /\ (HoldsObjects => n <= c)
      BY DEF Enough
    <3>2. HoldsObjects => d <= c
      BY <2>1, <3>1
    <3> QED BY <3>1, <3>2 DEF Enough
  <2>3. Shows(ResizeBy(w, d, p, mem, made), out, was, Splice(l, Lesser(p, len), 0, Fresh(d)), r)
    BY <2>1, <2>2, GrowShows
  <2>4. Lesser(p, len) = len /\ Lesser(n, len) = len
    BY <1>5, <2>1 DEF Lesser
  <2>5. Splice(l, len, 0, Fresh(d)) = SubSeq(l, 1, len) \o Fresh(d)
    <3>1. PICK e \in Seq(Content) : e = Fresh(d)
      BY <2>1, FreshTyped
    <3>2. Splice(l, len, 0, e) = SubSeq(l, 1, len) \o e
      BY <1>1, SplicedEnd
    <3> QED BY <3>1, <3>2
  <2> QED BY <1>3, <1>4, <2>1, <2>3, <2>4, <2>5 DEF Resized
<1>6. CASE n < len
  <2>1. PICK c \in Nat, d \in Int, p \in Nat :
          d = -c /\ c > 0 /\ c <= len /\ d = n - len /\ p = n + len /\ len - c = n /\ n + c >= len /\ n <= len
    <3>1. len - n \in Nat /\ n - len \in Int /\ n + len \in Nat /\ n - len = -(len - n)
          /\ len - n > 0 /\ len - n <= len /\ len - (len - n) = n /\ n + (len - n) >= len
      BY <1>6
    <3> QED BY <1>6, <3>1
  <2>2. Shows(ResizeBy(w, d, p, mem, made), out, was, Splice(l, Lesser(p, len - c), c, <<>>), r)
    BY <2>1, ShrinkShows
  <2>3. Lesser(p, len - c) = n /\ Lesser(n, len) = n /\ n - n = 0
    BY <1>6, <2>1 DEF Lesser
  <2>4. Splice(l, n, c, <<>>) = SubSeq(l, 1, n)
    <3>1. n <= len /\ n + c >= len
      BY <2>1
    <3> QED BY <1>1, <3>1, SplicedRest
  <2>5. SubSeq(l, 1, n) \o <<>> = SubSeq(l, 1, n)
    <3>1. PICK z \in Nat : z = 0 /\ z + n <= len
      BY <2>1
    <3>2. Middle(l, z, n) \in Seq(Content)
      BY <1>1, <3>1, MiddleIs
    <3>3. SubSeq(l, 1, n) \in Seq(Content)
      BY <3>1, <3>2 DEF Middle
    <3> QED BY <3>3, ConcatEmptySeq
  <2> QED BY <1>3, <1>4, <2>1, <2>2, <2>3, <2>4, <2>5, FreshNone DEF Resized
<1>7. n >= len \/ n < len
  OBVIOUS
<1> QED BY <1>5, <1>6, <1>7

\* CopyBuffer of as many elements as there are.
LEMMA CopyBufferShows ==
  ASSUME script \in Scripts, NEW w, NEW out \in Outside, NEW was, NEW l, NEW r, Shows(w, out, was, l, r),
         NEW vs \in Seq(Content), Full(vs), NEW n \in Nat, Long(vs, n), Long(w.data, n)
  PROVE  Shows(CopyBuffer(w, vs), out, was, vs, r)
<1>1. l \in Seq(Content) /\ Long(l, n)
  <2>1. PICK k \in Nat : l \in Seq(Content) /\ Long(l, k) /\ k = Len(w.data)
    BY ShowsTyped
  <2> QED BY <2>1 DEF Long
<1>2. Lesser(n, n) = n /\ Len(vs) = n
  BY DEF Lesser, Long
<1>3. SubSeq(vs, 1, n) = vs
  BY <1>2, SubSeqFull
<1>4. CopyBuffer(w, vs) = SetSlots(w, 0, vs)
  BY <1>2, <1>3 DEF CopyBuffer, Long, Long
<1>5. Shows(SetSlots(w, 0, vs), out, was, Splice(l, 0, n, vs), r)
  <2>1. PICK z \in Nat : z = 0 /\ z + n <= Len(w.data)
    <3>1. 0 + n = n
      OBVIOUS
    <3> QED BY <3>1 DEF Long
  <2>2. Shows(SetSlots(w, z, vs), out, was, Splice(l, z, n, vs), r)
    BY <2>1, SetSlotsShows
  <2> QED BY <2>1, <2>2
<1>6. Splice(l, 0, n, vs) = vs
  BY <1>1, SplicedWhole
<1> QED BY <1>4, <1>5, <1>6

\* How many elements an array has.
LEMMA ShownLong ==
  ASSUME script \in Scripts, NEW w, NEW out \in Outside, NEW was, NEW l, NEW r, Shows(w, out, was, l, r)
  PROVE  \E n \in Nat : /\ w \in Works /\ Sound(w, out) /\ l \in Seq(Content) /\ Long(l, n) /\ Long(w.data, n)
                        /\ n <= w.max /\ w.max \in Nat /\ w.max <= script.maxSize /\ n <= script.maxSize
<1>1. PICK n \in Nat :
        /\ w \in Works /\ Sound(w, out) /\ l \in Seq(Content) /\ Long(l, n) /\ Long(w.data, n)
        /\ n <= w.max /\ w.max \in Nat /\ w.max <= script.maxSize
  BY ShowsTyped
<1>2. n <= script.maxSize
  BY <1>1, ScriptFacts
<1> QED BY <1>1, <1>2

\* Reserve.
LEMMA ReserveShows ==
  ASSUME script \in Scripts, NEW w, NEW out \in Outside, NEW was, NEW l, NEW r, Shows(w, out, was, l, r),
         NEW n \in Nat, n <= script.maxSize, NEW mem \in BOOLEAN, mem
  PROVE  Shows(ReserveIn(w, n, mem), out, was, l, r)
<1>1. w.max \in Nat /\ script.maxSize \in Nat
  <2>1. PICK k \in Nat : w.max \in Nat
    BY ShowsTyped
  <2> QED BY <2>1, ScriptFacts
<1>2. CASE n <= w.max
  <2>1. ReserveIn(w, n, mem) = w
    BY <1>1, <1>2 DEF ReserveIn
  <2> QED BY <2>1
<1>3. CASE n > w.max
  <2>1. ReserveIn(w, n, mem) = [w EXCEPT !.max = n]
    BY <1>1, <1>3 DEF ReserveIn
  <2>2. n \in 0 .. script.maxSize /\ w.max <= n
    BY <1>1, <1>3
  <2>3. Shows([w EXCEPT !.max = n], out, was, l, r)
    BY <1>1, <2>2, RoomShows
  <2> QED BY <2>1, <2>3
<1>4. n <= w.max \/ n > w.max
  BY <1>1
<1> QED BY <1>2, <1>3, <1>4

\* RemoveRange.
LEMMA RemoveSlotsShows ==
  ASSUME script \in Scripts, RangesFit, NEW w, NEW out \in Outside, NEW was, NEW l, NEW r, Shows(w, out, was, l, r),
         NEW len \in Nat, Long(w.data, len), NEW start \in script.numbers, NEW n \in script.numbers
  PROVE  /\ n = 0 => Shows(RemoveSlots(w, start, n), out, was, l, r)
         /\ n # 0 /\ start <= len => Shows(RemoveSlots(w, start, n), out, was, Splice(l, start, n, <<>>), r)
         /\ n # 0 /\ ~(start <= len) => Shows(RemoveSlots(w, start, n), out, was, l, TRUE)
<1>1. /\ w \in Works /\ l \in Seq(Content) /\ Long(l, len) /\ len <= script.maxSize
  <2>1. PICK k \in Nat : /\ w \in Works /\ l \in Seq(Content) /\ Long(l, k) /\ Long(w.data, k) /\ k <= script.maxSize
    BY ShownLong
  <2> QED BY <2>1 DEF Long
<1>2. start \in Nat /\ n \in Nat /\ Word \in Nat /\ script.maxSize \in Nat
  BY ScriptFacts
<1>3. Len(w.data) = len /\ Len(l) = len
  BY <1>1 DEF Long
<1>4. PICK v : v = RemoveSlots(w, start, n)
  OBVIOUS
<1>5. CASE n = 0
  <2>1. v = w
    BY <1>4, <1>5 DEF RemoveSlots
  <2> QED BY <1>4, <1>5, <2>1
<1>6. CASE n # 0 /\ ~(start <= len)
  <2>1. v = Raise(w)
    <3>1. start > len
      BY <1>2, <1>6
    <3> QED BY <1>2, <1>3, <1>4, <1>6, <3>1 DEF RemoveSlots
  <2>2. Shows(v, out, was, l, TRUE)
    BY <2>1, RaiseShows
  <2> QED BY <1>4, <1>6, <2>2
<1>7. CASE n # 0 /\ start <= len
  <2>1. start + n \in Nat /\ start + n < Word
    <3>1. PICK most \in Nat : most = script.maxSize /\ len <= most
      BY <1>1, <1>2
    <3>2. start \in 0 .. most
      BY <1>2, <1>7, <3>1
    <3>3. n + start < Word
      BY <3>1, <3>2 DEF RangesFit
    <3> QED BY <1>2, <3>3
  <2>2. (start + n) % Word = start + n
    BY <1>2, <2>1
  <2>3. PICK end \in Nat : /\ end = (IF start + n > len THEN len ELSE start + n) /\ start <= end /\ end <= len
                           /\ end = RangeEnd(w, start, n)
    <3>1. PICK end \in Nat : end = (IF start + n > len THEN len ELSE start + n) /\ start <= end /\ end <= len
      BY <1>2, <1>7
    <3>2. end = RangeEnd(w, start, n)
      BY <1>3, <2>2, <3>1 DEF RangeEnd
    <3> QED BY <3>1, <3>2
  <2>4. PICK c \in Nat : c = end - start /\ start + c <= len
    BY <1>2, <2>3
  <2>5. v = Destruct(w, start, c)
    <3>1. ~(start > len)
      BY <1>2, <1>7
    <3> QED BY <1>2, <1>3, <1>4, <1>7, <2>3, <2>4, <3>1 DEF RemoveSlots, Destruct
  <2>6. Shows(Destruct(w, start, c), out, was, Splice(l, start, c, <<>>), r)
    <3>1. start + c <= Len(w.data)
      BY <1>3, <2>4
    <3> QED BY <1>2, <3>1, DestructShows
  <2>7. Splice(l, start, c, <<>>) = Splice(l, start, n, <<>>)
    <3>1. CASE start + n > len
      <4>1. start + c >= len /\ start + n >= len
        BY <1>2, <2>3, <2>4, <3>1
      <4>2. Splice(l, start, c, <<>>) = SubSeq(l, 1, start)
        BY <1>1, <1>2, <1>7, <4>1, SplicedRest
      <4>3. Splice(l, start, n, <<>>) = SubSeq(l, 1, start)
        BY <1>1, <1>2, <1>7, <4>1, SplicedRest
      <4> QED BY <4>2, <4>3
    <3>2. CASE ~(start + n > len)
      <4>1. c = n
        BY <1>2, <2>3, <2>4, <3>2
      <4> QED BY <4>1
    <3> QED BY <3>1, <3>2
  <2> QED BY <1>4, <1>7, <2>5, <2>6, <2>7
<1> QED BY <1>5, <1>6, <1>7

\* RemoveAt.
LEMMA RemoveSlotShows ==
  ASSUME script \in Scripts, NEW w, NEW out \in Outside, NEW was, NEW l, NEW r, Shows(w, out, was, l, r),
         NEW len \in Nat, Long(w.data, len), NEW k \in Int
  PROVE  /\ 0 <= k /\ k < len => Shows(RemoveSlot(w, k), out, was, Splice(l, k, 1, <<>>), r)
         /\ ~(0 <= k /\ k < len) => Shows(RemoveSlot(w, k), out, was, l, TRUE)
<1>1. Len(w.data) = len
  BY DEF Long
<1>2. k \in 0 .. len - 1 <=> 0 <= k /\ k < len
  OBVIOUS
<1>3. CASE k \in 0 .. len - 1
  <2>0. PICK mem \in BOOLEAN : mem = TRUE
    OBVIOUS
  <2>1. PICK d \in Int, n \in Nat, p \in Nat, z \in Nat :
          d = -1 /\ n = 1 /\ d = -n /\ n > 0 /\ n <= len /\ p = k /\ z = 0 /\ p <= len - n
    <3>1. k \in Nat /\ 1 <= len /\ k <= len - 1
      BY <1>3
    <3> QED BY <3>1
  <2>4. Lesser(p, len - n) = k
    BY <2>1 DEF Lesser
  <2>2. RemoveSlot(w, k) = ResizeBy(w, d, p, mem, z)
    BY <1>1, <1>3, <2>0, <2>1 DEF RemoveSlot
  <2>3. Shows(ResizeBy(w, d, p, mem, z), out, was, Splice(l, Lesser(p, len - n), n, <<>>), r)
    BY <2>1, ShrinkShows
  <2> QED BY <1>2, <1>3, <2>1, <2>2, <2>3, <2>4
<1>4. CASE k \notin 0 .. len - 1
  <2>1. RemoveSlot(w, k) = Raise(w)
    BY <1>1, <1>4 DEF RemoveSlot
  <2>2. Shows(Raise(w), out, was, l, TRUE)
    BY RaiseShows
  <2> QED BY <1>2, <1>4, <2>1, <2>2
<1> QED BY <1>3, <1>4

\* An array of objects shows a value in each slot.
LEMMA ShownFull ==
  ASSUME script \in Scripts, NEW w, NEW out \in Outside, NEW was, NEW l, NEW r, Shows(w, out, was, l, r)
  PROVE  Full(l)
<1> SUFFICES ASSUME HoldsObjects PROVE l \in Seq(Values)
  BY DEF Full
<1>1. PICK len \in Nat :
        /\ w.data \in Seq(Slot) /\ w.val \in [Objects -> Values] /\ Long(w.data, len)
  BY ShowsTyped
<1>2. PICK d \in Seq(Objects) : d = w.data /\ Long(d, len)
  BY <1>1 DEF Shows, There
<1>3. DOMAIN d = 1 .. len /\ \A k \in 1 .. len : d[k] \in Objects
  BY <1>2, LenProperties, ElementOfSeq DEF Long
<1>4. \A k \in 1 .. len : ContentOf(d[k], w.val) \in Values
  BY <1>1, <1>3, ScriptFacts DEF ContentOf
<1>5. l = [k \in 1 .. len |-> ContentOf(d[k], w.val)]
  BY <1>2, <1>3 DEF Shows, Read
<1>6. l \in [1 .. len -> Values]
  BY <1>4, <1>5
<1> QED BY <1>6, SeqDef

\* A sequence of one.
LEMMA OneLong ==
  ASSUME NEW S, NEW v \in S
  PROVE  <<v>> \in Seq(S) /\ Long(<<v>>, 1)
BY DEF Long

\* An element that is set, inside of an array and behind its end.
LEMMA SetSlotShows ==
  ASSUME script \in Scripts, NEW w, NEW out \in Outside, NEW was, NEW l, NEW r, Shows(w, out, was, l, r),
         NEW len \in Nat, Long(w.data, len), NEW p \in Nat, NEW v \in Content, HoldsObjects => v \in Values
  PROVE  /\ p < len => Shows(SetSlot(w, p, v), out, was, Splice(l, p, 1, <<v>>), r)
         /\ ~(p < len) => Shows(SetSlot(w, p, v), out, was, l, TRUE)
<1>1. PICK vs \in Seq(Content), m \in Nat : vs = <<v>> /\ m = 1 /\ Long(vs, m) /\ Full(vs)
  BY OneLong DEF Full
<1>2. Len(w.data) = len
  BY DEF Long
<1>3. CASE p < len
  <2>1. p + m <= len
    BY <1>1, <1>3
  <2>2. p + m <= Len(w.data)
    BY <1>2, <2>1
  <2>3. Shows(SetSlots(w, p, vs), out, was, Splice(l, p, m, vs), r)
    BY <1>1, <2>2, SetSlotsShows
  <2> QED BY <1>1, <1>3, <2>3 DEF SetSlot
<1>4. CASE ~(p < len)
  <2>0. /\ w \in Works /\ Sound(w, out) /\ w.data \in Seq(Slot) /\ w.val \in [Objects -> Values]
    <3>1. PICK k \in Nat : /\ w \in Works /\ Sound(w, out) /\ w.data \in Seq(Slot) /\ w.val \in [Objects -> Values]
      BY ShowsTyped
    <3> QED BY <3>1
  <2>1. PICK none \in Seq(Slot), n \in Nat : none = <<>> /\ n = 0 /\ Long(none, n) /\ n < m
    <3>1. PICK none \in Seq(Slot) : none = <<>> /\ Long(none, 0)
      BY EmptySeq DEF Long
    <3>2. PICK n \in Nat : n = 0 /\ n < m
      BY <1>1
    <3> QED BY <3>1, <3>2
  <2>2. SubSeq(vs, 1, n) = none
    BY <1>1, <2>1, SubSeqEmpty
  <2>3. Lesser(p, len) = len
    BY <1>4 DEF Lesser
  <2>4. PICK s : s = IF HoldsObjects
                     THEN [w EXCEPT !.val = [o \in Objects |->
                             IF {k \in 1 .. n : w.data[p + k] = o /\ none[k] # None} = {} THEN w.val[o]
                             ELSE none[CHOOSE k \in {place \in 1 .. n : w.data[p + place] = o /\ none[place] # None} : TRUE]]]
                     ELSE Put(w, Lesser(p, len), n, none)
    OBVIOUS
  <2>5. n = IF p < len THEN Lesser(m, len - p) ELSE 0
    BY <1>4, <2>1
  <2>6. Len(vs) = m
    BY <1>1 DEF Long
  <2>12. n = (IF p < Len(w.data) THEN Lesser(Len(vs), Len(w.data) - p) ELSE 0) /\ none = SubSeq(vs, 1, n)
    BY <1>2, <2>2, <2>5, <2>6
  <2>13. s = IF HoldsObjects
                     THEN [w EXCEPT !.val = [o \in Objects |->
                             IF {k \in 1 .. n : w.data[p + k] = o /\ none[k] # None} = {} THEN w.val[o]
                             ELSE none[CHOOSE k \in {place \in 1 .. n : w.data[p + place] = o /\ none[place] # None} : TRUE]]]
                     ELSE Put(w, Lesser(p, Len(w.data)), n, none)
    BY <1>2, <2>4
  <2>7. SetSlots(w, p, vs) = IF n < m THEN Raise(s) ELSE s
    BY <2>6, <2>12, <2>13 DEF SetSlots
  <2>8. SetSlots(w, p, vs) = Raise(s)
    BY <2>1, <2>7
  <2>9. s.data = w.data /\ s.val = w.val /\ Raise(s).data = s.data /\ Raise(s).val = s.val /\ Raise(s).raised = TRUE
    <3>1. CASE HoldsObjects
      <4>1. \A o \in Objects : {k \in 1 .. n : w.data[p + k] = o /\ none[k] # None} = {}
        BY <2>1
      <4>2. PICK v2 \in [Objects -> Values] :
              v2 = w.val /\ v2 = [o \in Objects |->
                             IF {k \in 1 .. n : w.data[p + k] = o /\ none[k] # None} = {} THEN w.val[o]
                             ELSE none[CHOOSE k \in {place \in 1 .. n : w.data[p + place] = o /\ none[place] # None} : TRUE]]
        BY <2>0, <4>1
      <4>3. s = [w EXCEPT !.val = v2]
        BY <2>4, <3>1, <4>2
      <4> QED BY <2>0, <4>2, <4>3 DEF Works, Raise
    <3>2. CASE ~HoldsObjects
      <4>1. s = Put(w, len, n, none)
        BY <2>3, <2>4, <3>2
      <4>2. PICK d \in Seq(Slot) : d = w.data /\ Long(d, len)
        BY <2>0
      <4>3. Splice(d, len, 0, none) = d
        <5>1. Long(none, 0) /\ len <= len
          BY <2>1
        <5> QED BY <4>2, <5>1, SplicedNothing
      <4>4. s.data = w.data /\ s.val = w.val
        BY <2>0, <2>1, <4>1, <4>2, <4>3, PutFields
      <4>5. s = [w EXCEPT !.data = Splice(w.data, len, n, none),
                          !.refs = [o \in Objects |-> w.refs[o] + Uses(o, none) - Uses(o, SubSeq(w.data, len + 1, len + n))]]
        BY <4>1 DEF Put
      <4>6. Raise(s).data = s.data /\ Raise(s).val = s.val /\ Raise(s).raised = TRUE
        BY <2>0, <4>5 DEF Works, Raise
      <4> QED BY <4>4, <4>6
    <3> QED BY <3>1, <3>2
  <2>10. Sound(SetSlots(w, p, vs), out)
    BY <1>1, <2>0, SetSlotsKeeps
  <2>11. Shows(SetSlots(w, p, vs), out, was, l, TRUE)
    BY <2>8, <2>9, <2>10, SameShows
  <2> QED BY <1>1, <1>4, <2>11 DEF SetSlot
<1> QED BY <1>3, <1>4

\* Reverse.
LEMMA ReadReversed ==
  ASSUME NEW s \in Seq(Slot), NEW v \in [Objects -> Values], NEW n \in Nat, Long(s, n)
  PROVE  Read(Reversed(s), v) = [k \in 1 .. n |-> Read(s, v)[n + 1 - k]]
<1>1. Len(s) = n /\ DOMAIN s = 1 .. n
  BY LenProperties DEF Long
<1>2. Reversed(s) = [k \in 1 .. n |-> s[n + 1 - k]]
  <2>1. PICK h \in Nat : h = n \div 2 /\ 2 * h <= n /\ n <= 2 * h + 1
    OBVIOUS
  <2>2. Reversed(s) = [k \in 1 .. n |-> IF k <= h \/ k > n - h THEN s[n + 1 - k] ELSE s[k]]
    BY <1>1, <2>1 DEF Reversed
  <2>3. \A k \in 1 .. n : ~(k <= h \/ k > n - h) => n + 1 - k = k
    BY <2>1
  <2> QED BY <2>2, <2>3
<1>3. Read(s, v) = [k \in 1 .. n |-> ContentOf(s[k], v)]
  BY ReadIs
<1>4. \A k \in 1 .. n : n + 1 - k \in 1 .. n
  OBVIOUS
<1>5. Read(Reversed(s), v) = [k \in 1 .. n |-> ContentOf(s[n + 1 - k], v)]
  BY <1>2 DEF Read
<1> QED BY <1>3, <1>4, <1>5

\* Slots swapped from both ends.
LEMMA ReversedShows ==
  ASSUME script \in Scripts, NEW w, NEW out \in Outside, NEW was, NEW l, NEW r, Shows(w, out, was, l, r),
         NEW len \in Nat, Long(w.data, len)
  PROVE  Shows([w EXCEPT !.data = Reversed(w.data)], out, was, [k \in 1 .. len |-> l[len + 1 - k]], r)
<1>1. /\ w \in Works /\ Sound(w, out) /\ w.data \in Seq(Slot) /\ w.val \in [Objects -> Values]
  <2>1. PICK k \in Nat : /\ w \in Works /\ Sound(w, out) /\ w.data \in Seq(Slot) /\ w.val \in [Objects -> Values]
    BY ShowsTyped
  <2> QED BY <2>1
<1>2. There(w.data) /\ Kept(w, out, was) /\ Read(w.data, w.val) = l /\ w.raised = r
  BY DEF Shows
<1>3. PICK v : v = [w EXCEPT !.data = Reversed(w.data)]
  OBVIOUS
<1>4. v.data = Reversed(w.data) /\ v.val = w.val /\ v.raised = r
  BY <1>1, <1>2, <1>3 DEF Works
<1>5. Sound(v, out)
  BY <1>1, <1>3, ReversedKeeps
<1>6. There(v.data)
  BY <1>2, <1>4, UsesOfReversed DEF There
<1>7. Kept(v, out, was)
  BY <1>2, <1>4 DEF Kept
<1>8. Read(v.data, v.val) = [k \in 1 .. len |-> l[len + 1 - k]]
  BY <1>1, <1>2, <1>4, ReadReversed
<1> QED BY <1>3, <1>4, <1>5, <1>6, <1>7, <1>8 DEF Shows

\* Room that was made, and elements set there.
LEMMA RoomThenSet ==
  ASSUME script \in Scripts, NEW w, NEW out \in Outside, NEW was, NEW l, NEW r, Shows(w, out, was, l, r),
         NEW len \in Nat, Long(w.data, len), NEW p \in Nat, p <= len, NEW m \in Nat, NEW vs \in Seq(Content), Long(vs, m),
         NEW mem \in BOOLEAN, mem, NEW made \in Nat, made >= m, Enough(w, m), len + m <= script.maxSize,
         NEW wider, wider = ResizeBy(w, m, p, mem, made)
  PROVE  /\ Shows(wider, out, was, Splice(l, p, 0, Fresh(m)), r) /\ Long(wider.data, len + m)
         /\ Full(vs) => Shows(SetSlots(wider, p, vs), out, was, Splice(l, p, 0, vs), r)
<1>1. l \in Seq(Content) /\ Long(l, len)
  <2>1. PICK k \in Nat : l \in Seq(Content) /\ Long(l, k) /\ Long(w.data, k)
    BY ShownLong
  <2> QED BY <2>1 DEF Long
<1>2. PICK f \in Seq(Content) : f = Fresh(m) /\ Long(f, m)
  BY FreshTyped
<1>3. Lesser(p, len) = p
  BY DEF Lesser
<1>4. PICK t : t = Splice(l, p, 0, f)
  OBVIOUS
<1>5. Shows(wider, out, was, t, r)
  <2>1. Shows(ResizeBy(w, m, p, mem, made), out, was, Splice(l, Lesser(p, len), 0, Fresh(m)), r)
    BY GrowShows
  <2> QED BY <1>2, <1>3, <1>4, <2>1
<1>6. Long(t, len + m)
  <2>1. PICK z \in Nat : z = 0 /\ p + z <= len
    OBVIOUS
  <2>2. Long(Splice(l, p, z, f), len - z + m)
    BY <1>1, <1>2, <2>1, SpliceIs
  <2>3. len - z + m = len + m
    BY <2>1
  <2> QED BY <1>4, <2>1, <2>2, <2>3
<1>7. Long(wider.data, len + m)
  <2>1. PICK k \in Nat : Long(t, k) /\ Long(wider.data, k)
    BY <1>5, ShownLong
  <2> QED BY <1>6, <2>1 DEF Long
<1>8. ASSUME Full(vs) PROVE Shows(SetSlots(wider, p, vs), out, was, Splice(l, p, 0, vs), r)
  <2>1. p + m <= Len(wider.data)
    <3>1. p + m <= len + m
      OBVIOUS
    <3> QED BY <1>7, <3>1 DEF Long
  <2>2. Shows(SetSlots(wider, p, vs), out, was, Splice(t, p, m, vs), r)
    BY <1>5, <1>8, <2>1, SetSlotsShows
  <2>3. Splice(t, p, m, vs) = Splice(l, p, 0, vs)
    <3>1. Splice(Splice(l, p, 0, f), p, m, vs) = Splice(l, p, 0, vs)
      BY <1>1, <1>2, SplicedOver
    <3> QED BY <1>4, <3>1
  <2> QED BY <2>2, <2>3
<1> QED BY <1>2, <1>4, <1>5, <1>7, <1>8

\* InsertAt.
LEMMA InsertSlotShows ==
  ASSUME script \in Scripts, NEW w, NEW out \in Outside, NEW was, NEW l, NEW r, Shows(w, out, was, l, r),
         NEW len \in Nat, Long(w.data, len), NEW p \in Nat, NEW v \in Content, HoldsObjects => v \in Values,
         NEW mem \in BOOLEAN, mem, NEW made \in Nat, made >= 1, Enough(w, 1), len + 1 <= script.maxSize
  PROVE  /\ p <= len => Shows(InsertSlot(w, p, v, mem, made), out, was, Splice(l, p, 0, <<v>>), r)
         /\ ~(p <= len) => Shows(InsertSlot(w, p, v, mem, made), out, was, l, TRUE)
<1>1. PICK vs \in Seq(Content), m \in Nat : vs = <<v>> /\ m = 1 /\ Long(vs, m) /\ Full(vs)
  BY OneLong DEF Full
<1>2. Len(w.data) = len
  BY DEF Long
<1>3. CASE ~(p <= len)
  <2>1. p > len
    BY <1>3
  <2>2. InsertSlot(w, p, v, mem, made) = Raise(w)
    BY <1>2, <2>1 DEF InsertSlot
  <2>3. Shows(Raise(w), out, was, l, TRUE)
    BY RaiseShows
  <2> QED BY <1>3, <2>2, <2>3
<1>4. CASE p <= len
  <2>1. ~(p > len)
    BY <1>4
  <2>2. PICK wider : wider = ResizeBy(w, m, p, mem, made)
    OBVIOUS
  <2>3. PICK set : set = SetSlots(wider, p, vs)
    OBVIOUS
  <2>4. /\ Shows(wider, out, was, Splice(l, p, 0, Fresh(m)), r)
        /\ Shows(set, out, was, Splice(l, p, 0, vs), r)
    <3>1. made >= m /\ Enough(w, m) /\ len + m <= script.maxSize /\ Long(vs, m) /\ p <= len
      BY <1>1, <1>4
    <3>2. /\ Shows(wider, out, was, Splice(l, p, 0, Fresh(m)), r) /\ Long(wider.data, len + m)
          /\ Full(vs) => Shows(SetSlots(wider, p, vs), out, was, Splice(l, p, 0, vs), r)
      BY <2>2, <3>1, RoomThenSet
    <3> QED BY <1>1, <2>3, <3>2
  <2>5. wider.raised = r /\ set.raised = r /\ Sound(set, out) /\ set \in Works /\ r \in BOOLEAN
    <3>1. wider.raised = r /\ set.raised = r /\ Sound(set, out) /\ set \in Works
      BY <2>4 DEF Shows, Sound
    <3> QED BY <3>1, WorkTypes
  <2>6. InsertSlot(w, p, v, mem, made) = [set EXCEPT !.raised = set.raised \/ wider.raised]
    BY <1>1, <1>2, <2>1, <2>2, <2>3 DEF InsertSlot, SetSlot
  <2>7. InsertSlot(w, p, v, mem, made) = set
    <3>1. (set.raised \/ wider.raised) = set.raised
      BY <2>5
    <3>2. set = [set EXCEPT !.raised = set.raised]
      BY <2>5 DEF Works
    <3> QED BY <2>6, <3>1, <3>2
  <2> QED BY <1>1, <1>4, <2>4, <2>7
<1> QED BY <1>3, <1>4

\* InsertAt of an array, another one and the same one.
LEMMA InsertSlotsShows ==
  ASSUME script \in Scripts, NEW w, NEW out \in Outside, NEW was, NEW l, NEW r, Shows(w, out, was, l, r),
         NEW len \in Nat, Long(w.data, len), NEW p \in Nat, NEW m \in Nat, NEW vs \in Seq(Content), Long(vs, m), Full(vs),
         NEW self \in BOOLEAN, self => vs = l,
         NEW mem \in BOOLEAN, mem, NEW made \in Nat, made >= m, Enough(w, m), len + m <= script.maxSize
  PROVE  /\ p <= len => Shows(InsertSlots(w, p, vs, self, mem, made), out, was, Splice(l, p, 0, vs), r)
         /\ ~(p <= len) => Shows(InsertSlots(w, p, vs, self, mem, made), out, was, l, TRUE)
<1>1. Len(w.data) = len /\ Len(vs) = m
  BY DEF Long
<1>2. CASE ~(p <= len)
  <2>1. p > len
    BY <1>2
  <2>2. InsertSlots(w, p, vs, self, mem, made) = Raise(w)
    BY <1>1, <2>1 DEF InsertSlots
  <2>3. Shows(Raise(w), out, was, l, TRUE)
    BY RaiseShows
  <2> QED BY <1>2, <2>2, <2>3
<1>3. CASE p <= len
  <2>1. ~(p > len)
    BY <1>3
  <2>2. PICK wider : wider = ResizeBy(w, m, p, mem, made)
    OBVIOUS
  <2>3. /\ Shows(wider, out, was, Splice(l, p, 0, Fresh(m)), r) /\ Long(wider.data, len + m)
        /\ Shows(SetSlots(wider, p, vs), out, was, Splice(l, p, 0, vs), r)
    <3>1. /\ Shows(wider, out, was, Splice(l, p, 0, Fresh(m)), r) /\ Long(wider.data, len + m)
          /\ Full(vs) => Shows(SetSlots(wider, p, vs), out, was, Splice(l, p, 0, vs), r)
      BY <1>3, <2>2, RoomThenSet
    <3> QED BY <3>1
  <2>4. CASE ~self
    <3>1. InsertSlots(w, p, vs, self, mem, made) = SetSlots(wider, p, vs)
      BY <1>1, <2>1, <2>2, <2>4 DEF InsertSlots
    <3> QED BY <1>3, <2>3, <3>1
  <2>5. CASE self
    <3>1. l \in Seq(Content) /\ Long(l, len) /\ m = len /\ vs = l
      <4>1. PICK k \in Nat : l \in Seq(Content) /\ Long(l, k) /\ Long(w.data, k)
        BY ShownLong
      <4> QED BY <2>5, <4>1 DEF Long
    <3>2. PICK f \in Seq(Content) : f = Fresh(m) /\ Long(f, len)
      BY <3>1, FreshTyped
    <3>3. PICK t : t = Splice(l, p, 0, f)
      OBVIOUS
    <3>4. Shows(wider, out, was, t, r)
      BY <2>3, <3>2, <3>3
    <3>5. PICK first, second : first = Middle(t, 0, p) /\ second = Middle(t, p + len, len - p)
      OBVIOUS
    <3>6. /\ t \in Seq(Content) /\ Long(t, len + len)
          /\ first \in Seq(Content) /\ Long(first, p)
          /\ second \in Seq(Content) /\ Long(second, len - p)
          /\ Splice(Splice(t, p, p, first), p + p, len - p, second) = Splice(l, p, 0, l)
      <4>1. /\ t \in Seq(Content) /\ Long(t, len + len)
            /\ Middle(t, 0, p) \in Seq(Content) /\ Long(Middle(t, 0, p), p)
            /\ Middle(t, p + len, len - p) \in Seq(Content) /\ Long(Middle(t, p + len, len - p), len - p)
            /\ Splice(Splice(t, p, p, Middle(t, 0, p)), p + p, len - p, Middle(t, p + len, len - p))
                 = Splice(l, p, 0, l)
        BY <1>3, <3>1, <3>2, <3>3, SplicedSelf
      <4> QED BY <3>5, <4>1
    <3>7. Full(first) /\ Full(second)
      <4> SUFFICES ASSUME HoldsObjects PROVE first \in Seq(Values) /\ second \in Seq(Values)
        BY DEF Full
      <4>1. t \in Seq(Values)
        BY <3>4, ShownFull DEF Full
      <4>2. PICK z \in Nat, q \in Nat, from \in Nat, to \in Nat :
              z = 0 /\ q = len - p /\ from = p + len /\ to = len + len /\ z + p <= to /\ from + q <= to /\ Long(t, to)
        <5>1. 0 + p <= len + len /\ len - p \in Nat /\ p + len \in Nat /\ p + len + (len - p) <= len + len
          BY <1>3
        <5> QED BY <3>6, <5>1
      <4>3. Middle(t, z, p) \in Seq(Values)
        BY <4>1, <4>2, MiddleIs
      <4>4. Middle(t, from, q) \in Seq(Values)
        BY <4>1, <4>2, MiddleIs
      <4> QED BY <3>5, <4>2, <4>3, <4>4
    <3>8. PICK half : half = SetSlots(wider, p, first)
      OBVIOUS
    <3>9. Shows(half, out, was, Splice(t, p, p, first), r)
      <4>1. p + p <= Len(wider.data)
        <5>1. p + p <= len + m
          BY <1>3, <3>1
        <5> QED BY <2>3, <5>1 DEF Long
      <4> QED BY <3>4, <3>6, <3>7, <3>8, <4>1, SetSlotsShows
    <3>10. Shows(SetSlots(half, p + p, second), out, was,
                 Splice(Splice(t, p, p, first), p + p, len - p, second), r)
      <4>1. PICK u : u = Splice(t, p, p, first)
        OBVIOUS
      <4>2. Long(u, len + len)
        <5>1. p + p <= len + len /\ len + len - p + p = len + len /\ len + len \in Nat
          BY <1>3
        <5>2. Long(Splice(t, p, p, first), len + len - p + p)
          BY <3>6, <5>1, SpliceIs
        <5> QED BY <4>1, <5>1, <5>2
      <4>3. Shows(half, out, was, u, r)
        BY <3>9, <4>1
      <4>4. Long(half.data, len + len)
        <5>1. PICK k \in Nat : Long(u, k) /\ Long(half.data, k)
          BY <4>3, ShownLong
        <5> QED BY <4>2, <5>1 DEF Long
      <4>5. PICK from \in Nat, q \in Nat : from = p + p /\ q = len - p /\ from + q <= len + len
        <5>1. p + p \in Nat /\ len - p \in Nat /\ p + p + (len - p) <= len + len
          BY <1>3
        <5> QED BY <5>1
      <4>6. from + q <= Len(half.data)
        BY <4>4, <4>5 DEF Long
      <4>7. Shows(SetSlots(half, from, second), out, was, Splice(u, from, q, second), r)
        BY <3>6, <3>7, <4>3, <4>5, <4>6, SetSlotsShows
      <4> QED BY <4>1, <4>5, <4>7
    <3>11. InsertSlots(w, p, vs, self, mem, made) = SetSlots(half, p + p, second)
      <4>1. Inserted(wider, wider.val) = t
        BY <3>4 DEF Inserted, Shows, Read
      <4>2. first = SubSeq(t, 1, p)
        <5>1. 0 + 1 = 1 /\ 0 + p = p
          OBVIOUS
        <5> QED BY <3>5, <5>1 DEF Middle
      <4>3. second = SubSeq(t, p + m + 1, Len(t))
        <5>1. p + len + (len - p) = len + len
          OBVIOUS
        <5>2. Len(t) = len + len
          BY <3>6 DEF Long
        <5> QED BY <3>1, <3>5, <5>1, <5>2 DEF Middle
      <4> QED BY <1>1, <2>1, <2>2, <2>5, <3>8, <4>1, <4>2, <4>3 DEF InsertSlots
    <3> QED BY <1>3, <3>1, <3>6, <3>10, <3>11
  <2> QED BY <2>4, <2>5
<1> QED BY <1>2, <1>3

-----------------------------------------------------------------------------
(* What an array shows that is created.                                      *)
LEMMA EmptyWithRoom ==
  ASSUME script \in Scripts, NEW out \in Outside, NEW was, NEW r, Shows(Empty, out, was, <<>>, r),
         NEW n \in Nat, n <= script.maxSize, NEW e, e = [Empty EXCEPT !.max = n]
  PROVE  /\ Shows(e, out, was, <<>>, r) /\ Sound(e, out) /\ e \in Works
         /\ e.max = n /\ e.data = <<>> /\ e.val = val /\ e.refs = refs /\ Free(e) = Free(Empty)
<1>1. PICK z : z = Empty
  OBVIOUS
<1>2. Shows(z, out, was, <<>>, r) /\ Sound(z, out) /\ z \in Works
  BY <1>1 DEF Shows, Sound
<1>3. z.max = 0 /\ z.data = <<>> /\ z.val = val /\ z.refs = refs
  BY <1>1 DEF Empty
<1>4. script.maxSize \in Nat
  BY ScriptFacts
<1>5. PICK m \in 0 .. script.maxSize : m = n /\ z.max <= m
  BY <1>3, <1>4
<1>6. e = [z EXCEPT !.max = m]
  BY <1>1, <1>5
<1>7. Shows(e, out, was, <<>>, r)
  <2>1. z.max <= m
    BY <1>5
  <2>2. Shows(z, out, was, <<>>, r)
    BY <1>2
  <2>3. Shows([z EXCEPT !.max = m], out, was, <<>>, r)
    BY <1>4, <2>1, <2>2, RoomShows
  <2> QED BY <1>6, <2>3
<1>8. e.max = n /\ e.data = z.data /\ e.val = z.val /\ e.refs = z.refs
  BY <1>2, <1>5, <1>6 DEF Works
<1>9. Free(e) = Free(Empty)
  BY <1>1, <1>8 DEF Free
<1> QED BY <1>3, <1>7, <1>8, <1>9 DEF Shows, Sound

\* As many elements as asked for.
LEMMA FilledShows ==
  ASSUME script \in Scripts, NEW out \in Outside, NEW was, NEW r, Shows(Empty, out, was, <<>>, r),
         NEW n \in Nat, n <= script.maxSize, Creatable(n)
  PROVE  Shows(Filled(n, n), out, was, Fresh(n), r)
<1>1. PICK e : e = [Empty EXCEPT !.max = n]
  OBVIOUS
<1>2. /\ Shows(e, out, was, <<>>, r) /\ e.max = n /\ e.data = <<>> /\ Free(e) = Free(Empty)
  BY <1>1, EmptyWithRoom
<1>3. HoldsObjects => n <= Cardinality(Free(e))
  BY <1>2 DEF Creatable
<1>4. PICK z \in Nat : z = 0 /\ Len(e.data) = z /\ z <= Len(e.data) /\ Len(e.data) + n <= e.max
  <2>1. Len(e.data) = 0
    BY <1>2, EmptySeq
  <2> QED BY <1>2, <2>1
<1>5. Shows(Construct(e, z, n, n), out, was, Splice(<<>>, z, 0, Fresh(n)), r)
  <2>1. n >= n
    OBVIOUS
  <2> QED BY <1>2, <1>3, <1>4, <2>1, ConstructShows
<1>6. Splice(<<>>, z, 0, Fresh(n)) = Fresh(n)
  <2>1. PICK f \in Seq(Content) : f = Fresh(n) /\ Long(f, n)
    BY FreshTyped
  <2>2. PICK none \in Seq(Content) : none = <<>> /\ Long(none, z)
    BY <1>4, EmptySeq DEF Long
  <2>3. Splice(none, 0, z, f) = f
    BY <2>1, <2>2, SplicedWhole
  <2> QED BY <1>4, <2>1, <2>2, <2>3
<1> QED BY <1>1, <1>4, <1>5, <1>6 DEF Filled

\* The objects of a list hold its values.
LEMMA ListShows ==
  ASSUME script \in Scripts, HoldsObjects, NEW e \in Works, NEW out \in Outside, Sound(e, out), e.data = <<>>,
         NEW vs \in Seq(Values), NEW n \in Nat, Long(vs, n), 2 * n <= Cardinality(Free(e)),
         NEW new, new = NewObjects(e, n), NEW w, w = AddRef(MadeForList(e, vs), new)
  PROVE  /\ new \in Seq(Objects) /\ Long(new, n)
         /\ w \in Works /\ w.data = <<>> /\ w.max = e.max /\ Own(w) /\ w.raised = e.raised
         /\ \A o \in Objects : w.refs[o] = out[o] + Uses(o, new)
         /\ Enough(w, n) /\ Read(new, w.val) = vs /\ Kept(w, out, e.val)
<1>1. Len(vs) = n /\ DOMAIN vs = 1 .. n /\ \A k \in 1 .. n : vs[k] \in Values
  BY LenProperties, ElementOfSeq DEF Long
<1>2. /\ new \in Seq(Objects) /\ Len(new) = n
      /\ w \in Works /\ w.data = <<>> /\ w.max = e.max /\ Own(w)
      /\ \A o \in Objects : w.refs[o] = out[o] + Uses(o, new)
      /\ n <= Cardinality(Free(w))
  BY <1>1, ListOfObjects
<1>3. new \in [1 .. n -> Free(e)] /\ \A q, k \in 1 .. n : q # k => new[q] # new[k]
  <2>1. IsFiniteSet(Free(e)) /\ IsFiniteSet(Objects)
    BY ScriptFacts, FS_Subset DEF Free
  <2>2. PICK c \in Nat : c = Cardinality(Free(e)) /\ 2 * n <= c
    BY <2>1, FS_CardinalityType
  <2>3. n <= c
    BY <2>2
  <2> QED BY <2>1, <2>2, <2>3, ObjectsAreNew
<1>4. DOMAIN new = 1 .. n /\ \A k \in 1 .. n : new[k] \in Objects /\ e.refs[new[k]] = 0 /\ new[k] # None
  BY <1>3, ScriptFacts DEF Free
<1>5. PICK vals : vals = [o \in Objects |->
                  IF \E k \in DOMAIN new : new[k] = o THEN vs[CHOOSE k \in DOMAIN new : new[k] = o] ELSE e.val[o]]
  OBVIOUS
<1>6. w.val = vals /\ w.raised = e.raised
  <2>1. PICK mid : mid = [e EXCEPT !.val = vals]
    OBVIOUS
  <2>2. mid = MadeForList(e, vs)
    BY <1>1, <1>5, <2>1 DEF MadeForList
  <2>3. w = [mid EXCEPT !.refs = [o \in Objects |-> mid.refs[o] + Uses(o, new)]]
    BY <2>2 DEF AddRef
  <2> QED BY <2>1, <2>3 DEF Works
<1>7. \A k \in 1 .. n : vals[new[k]] = vs[k]
  <2> SUFFICES ASSUME NEW k \in 1 .. n PROVE vals[new[k]] = vs[k]
    OBVIOUS
  <2>1. PICK place : place = CHOOSE q \in DOMAIN new : new[q] = new[k]
    OBVIOUS
  <2>2. place \in 1 .. n /\ new[place] = new[k]
    BY <1>4, <2>1
  <2>3. place = k
    BY <1>3, <2>2
  <2> QED BY <1>4, <1>5, <2>1, <2>3
<1>8. Read(new, w.val) = vs
  <2>1. \A k \in 1 .. n : ContentOf(new[k], vals) = vs[k]
    BY <1>4, <1>7 DEF ContentOf
  <2>2. vs = [k \in 1 .. n |-> vs[k]]
    BY SequenceIs
  <2> QED BY <1>4, <1>6, <2>1, <2>2 DEF Read
<1>9. Kept(w, out, e.val)
  <2> SUFFICES ASSUME NEW o \in Objects, out[o] > 0 PROVE vals[o] = e.val[o]
    BY <1>6 DEF Kept
  <2>1. e.refs[o] # 0
    <3>1. PICK x \in Nat, y \in Nat, z \in Nat : x = e.refs[o] /\ y = out[o] /\ z = Uses(o, e.data) /\ x = y + z
      BY Counted
    <3> QED BY <3>1
  <2>2. ~(\E k \in DOMAIN new : new[k] = o)
    BY <1>4, <2>1
  <2> QED BY <1>5, <2>2
<1> QED BY <1>2, <1>6, <1>8, <1>9 DEF Long, Enough

\* A list literal of values, handles or objects.
LEMMA FromListShows ==
  ASSUME script \in Scripts, NEW out \in Outside, NEW r, Shows(Empty, out, val, <<>>, r),
         NEW vs \in Seq(Content), NEW n \in Nat, Long(vs, n), n <= script.maxSize,
         Creatable(2 * n), \A k \in DOMAIN vs : vs[k] \in Passable
  PROVE  Shows(FromList(vs, n), out, val, vs, r)
<1>1. Len(vs) = n /\ DOMAIN vs = 1 .. n
  BY LenProperties DEF Long
<1>2. PICK e : e = [Empty EXCEPT !.max = n]
  OBVIOUS
<1>3. /\ Shows(e, out, val, <<>>, r) /\ Sound(e, out) /\ e \in Works /\ e.max = n /\ e.data = <<>>
      /\ e.val = val /\ e.refs = refs /\ Free(e) = Free(Empty) /\ e.raised = r
  <2>1. /\ Shows(e, out, val, <<>>, r) /\ Sound(e, out) /\ e \in Works /\ e.max = n /\ e.data = <<>>
        /\ e.val = val /\ e.refs = refs /\ Free(e) = Free(Empty)
    BY <1>2, EmptyWithRoom
  <2> QED BY <2>1 DEF Shows
<1>4. Sound(FromList(vs, n), out)
  <2>1. Sound(Empty, out)
    BY DEF Shows
  <2> QED BY <1>1, <2>1, FromListKeeps
<1>5. PICK v : v = FromList(vs, n)
  OBVIOUS
<1>6. CASE ~HoldsObjects
  <2>1. vs \in Seq(Slot)
    BY <1>6 DEF Content
  <2>2. v.data = vs /\ v.val = val /\ v.raised = r
    <3>1. CASE Kind = "primitive"
      <4>1. PICK full : full = [e EXCEPT !.data = vs]
        OBVIOUS
      <4>2. v = [full EXCEPT !.refs = [o \in Objects |-> full.refs[o] - Uses(o, vs)]]
        BY <1>1, <1>2, <1>5, <1>6, <3>1, <4>1 DEF FromList, ListItems, LeftInList, ReleaseAll
      <4> QED BY <1>3, <4>1, <4>2 DEF Works
    <3>2. CASE Kind = "handle"
      <4>1. PICK w : w = AddRef(e, vs)
        OBVIOUS
      <4>2. w = [e EXCEPT !.refs = [o \in Objects |-> e.refs[o] + Uses(o, vs)]]
        BY <4>1 DEF AddRef
      <4>3. PICK full : full = [w EXCEPT !.data = vs]
        OBVIOUS
      <4>4. v = [full EXCEPT !.refs = [o \in Objects |-> full.refs[o] - Uses(o, <<>>)]]
        BY <1>1, <1>2, <1>5, <1>6, <3>2, <4>1, <4>3 DEF FromList, ListItems, LeftInList, ReleaseAll
      <4> QED BY <1>3, <4>2, <4>3, <4>4 DEF Works
    <3> QED BY <1>6, <3>1, <3>2, ScriptFacts DEF HoldsObjects
  <2>3. Read(vs, val) = vs
    BY <1>6, <2>1, ReadItself
  <2> QED BY <1>4, <1>5, <1>6, <2>2, <2>3 DEF Shows, There, Kept
<1>7. CASE HoldsObjects
  <2>1. PICK cs \in Seq(Values) : cs = vs /\ Long(cs, n)
    <3>1. \A k \in 1 .. n : vs[k] \in Values
      BY <1>1, <1>7 DEF Passable, HoldsObjects
    <3>2. vs \in [1 .. n -> Values]
      BY <1>1, <3>1, LenProperties
    <3> QED BY <3>2, SeqDef
  <2>2. 2 * n <= Cardinality(Free(e))
    BY <1>3, <1>7 DEF Creatable
  <2>3. PICK new : new = NewObjects(e, n)
    OBVIOUS
  <2>4. PICK w : w = AddRef(MadeForList(e, cs), new)
    OBVIOUS
  <2>5. /\ new \in Seq(Objects) /\ Long(new, n)
        /\ w \in Works /\ w.data = <<>> /\ w.max = e.max /\ Own(w) /\ w.raised = e.raised
        /\ \A o \in Objects : w.refs[o] = out[o] + Uses(o, new)
        /\ Enough(w, n) /\ Read(new, w.val) = cs /\ Kept(w, out, e.val)
    BY <1>3, <1>7, <2>1, <2>2, <2>3, <2>4, ListShows
  <2>6. ListItems(e, vs) = [w |-> w, items |-> new]
    BY <1>1, <1>7, <2>1, <2>3, <2>4 DEF ListItems, MadeForList, HoldsObjects
  <2>7. CASE Kind = "reference"
    <3>1. PICK full : full = [w EXCEPT !.data = new]
      OBVIOUS
    <3>0. PICK none : none = <<>>
      OBVIOUS
    <3>4. v = ReleaseAll(full, none)
      <4>1. LeftInList(new) = none /\ ~(Kind = "value")
        BY <2>7, <3>0 DEF LeftInList
      <4>2. PICK literal : literal = [w |-> w, items |-> new]
        OBVIOUS
      <4>3. literal = ListItems([Empty EXCEPT !.max = Len(vs)], vs) /\ literal.w = w /\ literal.items = new
        BY <1>1, <1>2, <2>6, <4>2
      <4> QED BY <1>5, <3>1, <4>1, <4>3 DEF FromList
    <3>2. v = [full EXCEPT !.refs = [o \in Objects |-> full.refs[o] - Uses(o, none)]]
      BY <3>4 DEF ReleaseAll
    <3>3. v.data = new /\ v.val = w.val /\ v.raised = r
      BY <1>3, <2>5, <3>1, <3>2 DEF Works
    <3> QED BY <1>3, <1>4, <1>5, <2>1, <2>5, <3>3 DEF Shows, There, Kept
  <2>8. CASE Kind = "value"
    <3>1. PICK more : more = [o \in Objects |-> out[o] + Uses(o, new)]
      OBVIOUS
    <3>2. more \in Outside /\ \A o \in Objects : out[o] > 0 => more[o] > 0
      <4>1. \A o \in Objects : more[o] \in Nat /\ (out[o] > 0 => more[o] > 0)
        <5> TAKE o \in Objects
        <5>1. PICK x \in Nat, y \in Nat : x = out[o] /\ y = Uses(o, new) /\ more[o] = x + y
          BY <2>5, <3>1, UsesIsNat DEF Outside
        <5> QED BY <5>1
      <4> QED BY <3>1, <4>1 DEF Outside
    <3>3. Exact(w, more)
      <4> SUFFICES ASSUME NEW o \in Objects PROVE w.refs[o] = more[o] + Uses(o, w.data)
        BY DEF Exact
      <4>1. w.refs[o] = more[o] /\ more[o] \in Nat
        BY <2>5, <3>1, <3>2 DEF Outside
      <4>2. Uses(o, w.data) = 0
        BY <2>5, NoneUsed
      <4> QED BY <4>1, <4>2
    <3>4. Shows(w, more, w.val, <<>>, r)
      <4>1. Fits(w)
        BY <1>3, <2>5, EmptySeq DEF Fits
      <4>2. There(w.data) /\ Read(w.data, w.val) = <<>>
        <5>1. DOMAIN w.data = {}
          BY <2>5
        <5> QED BY <2>5, <5>1, EmptySeq DEF There, Read
      <4> QED BY <1>3, <2>5, <3>3, <4>1, <4>2 DEF Shows, Sound, Kept
    <3>5. PICK z \in Nat : z = 0 /\ z <= Len(w.data) /\ Len(w.data) + n <= w.max
      <4>1. Len(w.data) = 0
        BY <2>5, EmptySeq
      <4> QED BY <1>3, <2>5, <4>1
    <3>6. PICK filled : filled = Construct(w, z, n, n)
      OBVIOUS
    <3>7. PICK f \in Seq(Content) : f = Fresh(n) /\ Long(f, n)
      BY FreshTyped
    <3>8. Shows(filled, more, w.val, f, r)
      <4>1. Shows(Construct(w, z, n, n), more, w.val, Splice(<<>>, z, 0, Fresh(n)), r)
        <5>1. n >= n
          OBVIOUS
        <5>2. HoldsObjects => n <= Cardinality(Free(w))
          BY <2>5 DEF Enough
        <5> QED BY <3>2, <3>4, <3>5, <5>1, <5>2, ConstructShows
      <4>2. PICK none \in Seq(Content) : none = <<>> /\ Long(none, z)
        BY <3>5, EmptySeq DEF Long
      <4>3. Splice(none, 0, z, f) = f
        <5>1. Long(none, z) /\ Long(f, n)
          BY <3>7, <4>2
        <5> QED BY <5>1, SplicedWhole
      <4> QED BY <3>5, <3>6, <3>7, <4>1, <4>2, <4>3
    <3>9. PICK set : set = SetSlots(filled, z, vs)
      OBVIOUS
    <3>10. Shows(set, more, w.val, vs, r)
      <4>1. Full(vs)
        BY <2>1 DEF Full
      <4>2. z + n <= Len(filled.data)
        <5>1. PICK k \in Nat : Long(f, k) /\ Long(filled.data, k)
          BY <3>2, <3>8, ShownLong
        <5>2. k = n /\ Len(filled.data) = n
          BY <3>7, <5>1 DEF Long
        <5> QED BY <3>5, <5>2
      <4>3. Shows(set, more, w.val, Splice(f, z, n, vs), r)
        BY <3>2, <3>8, <3>9, <4>1, <4>2, SetSlotsShows
      <4>4. Splice(f, 0, n, vs) = vs
        BY <3>7, SplicedWhole
      <4> QED BY <3>5, <4>3, <4>4
    <3>11. v = ReleaseAll(set, new)
      BY <1>1, <1>2, <1>5, <2>6, <2>8, <3>5, <3>6, <3>9 DEF FromList, LeftInList
    <3>12. v.data = set.data /\ v.val = set.val /\ v.raised = set.raised
      <4>1. set \in Works
        BY <3>10 DEF Shows, Sound
      <4> QED BY <3>11, <4>1, ReleaseAllFields
    <3>13. Kept(v, out, val)
      <4> SUFFICES ASSUME NEW o \in Objects, out[o] > 0 PROVE v.val[o] = val[o]
        BY DEF Kept
      <4>1. set.val[o] = w.val[o]
        BY <1>7, <3>2, <3>10 DEF Shows, Kept
      <4>2. w.val[o] = val[o]
        BY <1>3, <1>7, <2>5 DEF Kept
      <4> QED BY <3>12, <4>1, <4>2
    <3> QED BY <1>4, <1>5, <3>10, <3>12, <3>13 DEF Shows
  <2> QED BY <1>7, <2>7, <2>8 DEF HoldsObjects
<1> QED BY <1>6, <1>7

-----------------------------------------------------------------------------
(* What the arrays show a script, and how a call changes it.                 *)
Shown == [a \in Arrays |-> IF buffer[a] = None THEN None ELSE Contents(a)]

\* With room enough no slot of an array of objects is without one.
AllThere == \A a \in Arrays : There(Slots(a))

\* The array a shows l, the others what they did, and r says whether it was refused.
Turns(a, l, r) == Shown' = [Shown EXCEPT ![a] = l] /\ exception' = r /\ script' = script

\* An object of another array is counted there.
LEMMA UsedElsewhere ==
  ASSUME StorageIInv, NEW a \in Arrays, NEW b \in Arrays, a # b, NEW k \in DOMAIN Slots(b), Slots(b)[k] \in Objects
  PROVE  Out(a)[Slots(b)[k]] > 0
<1>1. PICK o \in Objects : o = Slots(b)[k]
  OBVIOUS
<1>2. PICK slots \in [Arrays -> Seq(Slot)] : slots = Contained /\ IsFiniteSet(Arrays)
  BY SlotsTyped DEF StorageIInv
<1>3. slots[b] = Slots(b)
  BY <1>2 DEF Contained
<1>4. PICK A \in SUBSET Arrays : A = Arrays \ {a} /\ b \in A
  OBVIOUS
<1>5. PICK W : W = Within(slots, A, o) /\ IsFiniteSet(W) /\ Cardinality(W) \in Nat
  BY <1>2, WithinFinite
<1>6. <<b, k>> \in W
  <2>1. <<b, k>> \in PlacesOf(slots[b], b, o)
    BY <1>1, <1>3 DEF PlacesOf
  <2> QED BY <1>4, <1>5, <2>1, WithinMember
<1>7. PICK c \in Nat : c = Cardinality(W) /\ c # 0
  <2>1. W # {}
    BY <1>6
  <2>2. Cardinality(W) # 0
    BY <1>5, <2>1, FS_EmptySet
  <2> QED BY <1>5, <2>2
<1>8. PICK x \in Nat : x = Variables(o)
  BY DEF Variables
<1>9. Out(a)[o] = c + x
  BY <1>2, <1>4, <1>5, <1>7, <1>8 DEF Out
<1>10. c + x > 0
  BY <1>7
<1> QED BY <1>1, <1>9, <1>10

\* What objects elsewhere hold is what they held.
OutsideKept(a, v) == HoldsObjects => \A o \in Objects : Out(a)[o] > 0 => v[o] = val[o]

\* Other arrays show what they did.
LEMMA OthersShow ==
  ASSUME StorageIInv, NEW a \in Arrays, NEW v, OutsideKept(a, v), NEW b \in Arrays, a # b, buffer[b] # None
  PROVE  Read(buffer[b].data, v) = Contents(b)
<1>1. PICK s \in Seq(Slot) : s = buffer[b].data /\ s = Slots(b)
  <2>1. buffer[b] \in Buffers
    BY DEF StorageIInv, StorageTyped
  <2> QED BY <2>1 DEF Buffers, Slots
<1>2. SameOf(s, v, val)
  <2> SUFFICES ASSUME HoldsObjects, NEW k \in DOMAIN s, s[k] \in Objects PROVE v[s[k]] = val[s[k]]
    BY DEF SameOf
  <2>1. Out(a)[s[k]] > 0
    BY <1>1, UsedElsewhere
  <2> QED BY <2>1 DEF OutsideKept
<1>3. Read(s, v) = Read(s, val)
  BY <1>2, ReadAlike
<1> QED BY <1>1, <1>3 DEF Contents, Read

\* An array of which the slots and their objects are others.
LEMMA OneChanges ==
  ASSUME StorageIInv, AllThere, NEW a \in Arrays, NEW nb, buffer' = [buffer EXCEPT ![a] = nb],
         OutsideKept(a, val'), script' = script, NEW l,
         l = (IF nb = None THEN None ELSE Read(nb.data, val')),
         nb # None => There(nb.data)
  PROVE  AllThere' /\ Shown' = [Shown EXCEPT ![a] = l]
<1>1. PICK v, old, new : v = val' /\ new = buffer' /\ old = buffer
  OBVIOUS
<1>2. old \in [Arrays -> Buffers \cup {None}] /\ new = [old EXCEPT ![a] = nb]
  BY <1>1 DEF StorageIInv, StorageTyped
<1>3. HoldsObjects' = HoldsObjects /\ Objects' = Objects
  BY DEF HoldsObjects, Kind, Objects
<1>4. \A b \in Arrays : Contents(b)' = Read(new[b].data, v)
  BY <1>1, <1>3 DEF Contents, Read, ContentOf
<1>5. \A b \in Arrays : b # a => new[b] = old[b]
  BY <1>2
<1>6. new[a] = nb
  BY <1>2
<1>7. \A b \in Arrays : b # a /\ old[b] # None => Read(old[b].data, v) = Contents(b)
  BY <1>1, OthersShow
<1>8. Shown' = [b \in Arrays |-> IF new[b] = None THEN None ELSE Read(new[b].data, v)]
  BY <1>1, <1>4 DEF Shown
<1>9. Shown = [b \in Arrays |-> IF old[b] = None THEN None ELSE Contents(b)]
  BY <1>1 DEF Shown
<1>10. \A b \in Arrays : (IF new[b] = None THEN None ELSE Read(new[b].data, v))
                           = IF b = a THEN l ELSE IF old[b] = None THEN None ELSE Contents(b)
  BY <1>1, <1>5, <1>6, <1>7
<1>11. Shown' = [Shown EXCEPT ![a] = l]
  <2>1. [Shown EXCEPT ![a] = l] = [b \in Arrays |-> IF b = a THEN l ELSE IF old[b] = None THEN None ELSE Contents(b)]
    BY <1>9
  <2> QED BY <1>8, <1>10, <2>1
<1>12. AllThere'
  <2> SUFFICES ASSUME NEW b \in Arrays PROVE There(Slots(b))'
    BY DEF AllThere
  <2>1. Slots(b)' = IF new[b] = None THEN <<>> ELSE new[b].data
    BY <1>1 DEF Slots
  <2>2. Slots(b) = IF old[b] = None THEN <<>> ELSE old[b].data
    BY <1>1 DEF Slots
  <2>3. There(Slots(b))' <=> There(Slots(b)')
    BY <1>3 DEF There
  <2>4. There(<<>>)
    BY EmptySeq DEF There
  <2>5. CASE b = a
    BY <1>6, <2>1, <2>3, <2>4, <2>5
  <2>6. CASE b # a
    BY <1>5, <2>1, <2>2, <2>3, <2>6 DEF AllThere
  <2> QED BY <2>5, <2>6
<1> QED BY <1>11, <1>12

\* A call that leaves an array with the slots of w, and one that makes an array.
LEMMA HoldsAfter ==
  ASSUME StorageIInv, NEW a \in Arrays, NEW w, NEW l, NEW r, Shows(w, Out(a), val, l, r),
         NEW v, v = [o \in Objects |-> IF w.refs[o] = 0 THEN Zero ELSE w.val[o]]
  PROVE  OutsideKept(a, v) /\ Read(w.data, v) = l /\ There(w.data) /\ w.raised = r
<1>1. script \in Scripts
  BY BasicTypes
<1>2. PICK out \in Outside : out = Out(a)
  BY OutTyped
<1>3. Sound(w, out) /\ There(w.data) /\ Kept(w, out, val) /\ Read(w.data, w.val) = l /\ w.raised = r /\ w \in Works
  BY <1>2 DEF Shows, Sound
<1>4. OutsideKept(a, v)
  <2> SUFFICES ASSUME HoldsObjects, NEW o \in Objects, out[o] > 0 PROVE v[o] = val[o]
    BY <1>2 DEF OutsideKept
  <2>1. w.refs[o] # 0
    <3>1. PICK x \in Nat, y \in Nat, z \in Nat : x = w.refs[o] /\ y = out[o] /\ z = Uses(o, w.data) /\ x = y + z
      BY <1>3, Counted
    <3> QED BY <3>1
  <2>2. w.val[o] = val[o]
    BY <1>3 DEF Kept
  <2> QED BY <2>1, <2>2
<1>5. PICK d \in Seq(Slot) : d = w.data
  BY <1>3, WorkTypes
<1>6. SameOf(d, v, w.val)
  <2> SUFFICES ASSUME NEW k \in DOMAIN d, d[k] \in Objects PROVE v[d[k]] = w.val[d[k]]
    BY DEF SameOf
  <2>1. PICK n \in Nat : n = w.refs[d[k]] /\ n >= 1
    <3>1. w.refs[d[k]] \in Nat
      BY <1>3, WorkTypes
    <3>2. w.refs[d[k]] >= 1
      BY <1>3, <1>5, OwnObject
    <3> QED BY <3>1, <3>2
  <2>2. w.refs[d[k]] # 0
    BY <2>1
  <2> QED BY <2>2
<1>7. Read(d, v) = Read(d, w.val)
  BY <1>6, ReadAlike
<1> QED BY <1>3, <1>4, <1>5, <1>7

LEMMA DoneTurns ==
  ASSUME StorageIInv, AllThere, NEW a \in Arrays, NEW w, NEW l, NEW r, Shows(w, Out(a), val, l, r), Done(a, w)
  PROVE  AllThere' /\ Turns(a, l, r)
<1>1. PICK nb, v : nb = [max |-> w.max, data |-> w.data] /\ v = [o \in Objects |-> IF w.refs[o] = 0 THEN Zero ELSE w.val[o]]
  OBVIOUS
<1>2. buffer' = [buffer EXCEPT ![a] = nb] /\ val' = v /\ exception' = w.raised /\ script' = script
  BY <1>1 DEF Done
<1>3. OutsideKept(a, v) /\ Read(w.data, v) = l /\ There(w.data) /\ w.raised = r
  BY <1>1, HoldsAfter
<1>4. nb # None /\ nb.data = w.data
  <2>1. script \in Scripts /\ Out(a) \in Outside /\ Sound(w, Out(a))
    BY BasicTypes, OutTyped DEF Shows
  <2> QED BY <1>1, <2>1, SoundBuffer
<1>5. OutsideKept(a, val') /\ l = (IF nb = None THEN None ELSE Read(nb.data, val')) /\ There(nb.data)
  BY <1>2, <1>3, <1>4
<1>6. AllThere' /\ Shown' = [Shown EXCEPT ![a] = l]
  BY <1>2, <1>5, OneChanges
<1> QED BY <1>2, <1>3, <1>6 DEF Turns

LEMMA BornTurns ==
  ASSUME StorageIInv, AllThere, NEW a \in Arrays, NEW w, NEW l, NEW r, Shows(w, Out(a), val, l, r), Born(a, TRUE, w)
  PROVE  AllThere' /\ Turns(a, l, r)
<1>1. PICK nb, v : nb = [max |-> w.max, data |-> w.data] /\ v = [o \in Objects |-> IF w.refs[o] = 0 THEN Zero ELSE w.val[o]]
  OBVIOUS
<1>2. buffer' = [buffer EXCEPT ![a] = nb] /\ val' = v /\ exception' = w.raised /\ script' = script
  <2>1. w.raised \in BOOLEAN
    BY WorkTypes DEF Shows, Sound
  <2> QED BY <1>1, <2>1 DEF Born
<1>3. OutsideKept(a, v) /\ Read(w.data, v) = l /\ There(w.data) /\ w.raised = r
  BY <1>1, HoldsAfter
<1>4. nb # None /\ nb.data = w.data
  <2>1. script \in Scripts /\ Out(a) \in Outside /\ Sound(w, Out(a))
    BY BasicTypes, OutTyped DEF Shows
  <2> QED BY <1>1, <2>1, SoundBuffer
<1>5. OutsideKept(a, val') /\ l = (IF nb = None THEN None ELSE Read(nb.data, val')) /\ There(nb.data)
  BY <1>2, <1>3, <1>4
<1>6. AllThere' /\ Shown' = [Shown EXCEPT ![a] = l]
  BY <1>2, <1>5, OneChanges
<1> QED BY <1>2, <1>3, <1>6 DEF Turns

\* Nothing changes for an array a.
LEMMA ShownAgain ==
  ASSUME NEW a \in Arrays
  PROVE  [Shown EXCEPT ![a] = Shown[a]] = Shown
BY DEF Shown

\* An array without a buffer.
LEMMA NotBorn ==
  ASSUME StorageIInv, AllThere, NEW a \in Arrays, NEW w, Born(a, FALSE, w)
  PROVE  AllThere' /\ Turns(a, None, TRUE) /\ Shown[a] = None
<1>1. buffer' = [buffer EXCEPT ![a] = None] /\ val' = val /\ exception' = TRUE /\ script' = script
  BY DEF Born
<1>2. OutsideKept(a, val')
  BY <1>1 DEF OutsideKept
<1>3. buffer[a] = None
  BY DEF Born, StorageIInv, StorageTyped
<1>4. PICK none : none = None
  OBVIOUS
<1>5. AllThere' /\ Shown' = [Shown EXCEPT ![a] = none]
  <2>1. buffer' = [buffer EXCEPT ![a] = none] /\ none = (IF none = None THEN None ELSE Read(none.data, val'))
    BY <1>1, <1>4
  <2>2. none # None => There(none.data)
    BY <1>4
  <2> QED BY <1>1, <1>2, <2>1, <2>2, OneChanges
<1> QED BY <1>1, <1>3, <1>4, <1>5 DEF Turns, Shown

\* What an array shows before a call.
LEMMA WorkShows ==
  ASSUME StorageIInv, AllThere, NEW a \in Arrays, Usable(a), NEW r, r = FALSE
  PROVE  Shows(Work(a), Out(a), val, Contents(a), r) /\ Contents(a) = Shown[a] /\ Shown[a] # None
<1>1. Sound(Work(a), Out(a))
  BY WorkSound
<1>2. Work(a).data = buffer[a].data /\ Work(a).val = val /\ Work(a).raised = FALSE
  BY DEF Work
<1>3. Slots(a) = buffer[a].data /\ There(Slots(a))
  BY DEF Slots, Usable, AllThere
<1>4. Read(buffer[a].data, val) = Contents(a)
  BY DEF Read, Contents
<1>5. Contents(a) # None
  <2>1. Contents(a) \in Seq(Content)
    BY ContentsOf
  <2>2. Content \subseteq AnySlot
    <3>1. Objects \subseteq AllObjects
      BY BasicTypes DEF Objects, AllObjects
    <3> QED BY <3>1 DEF Content, Slot, AnySlot
  <2>3. Contents(a) \in Seq(AnySlot)
    BY <2>1, <2>2, SeqMonotonic
  <2> QED BY <2>3, ValuesAssumption
<1>6. Shown[a] = Contents(a)
  BY DEF Shown, Usable
<1>7. Kept(Work(a), Out(a), val)
  BY <1>2 DEF Kept
<1> QED BY <1>1, <1>2, <1>3, <1>4, <1>5, <1>6, <1>7 DEF Shows

LEMMA EmptyShows ==
  ASSUME StorageIInv, NEW a \in Arrays, refCount[a] = 0, NEW r, r = FALSE
  PROVE  Shows(Empty, Out(a), val, <<>>, r) /\ Shown[a] = None
<1>1. Sound(Empty, Out(a))
  BY EmptySound
<1>2. Empty.data = <<>> /\ Empty.val = val /\ Empty.raised = FALSE
  BY DEF Empty
<1>3. There(Empty.data) /\ Read(Empty.data, Empty.val) = <<>>
  <2>1. DOMAIN <<>> = {}
    OBVIOUS
  <2> QED BY <1>2, <2>1, EmptySeq DEF There, Read
<1>4. Kept(Empty, Out(a), val)
  BY <1>2 DEF Kept
<1>5. Shown[a] = None
  BY DEF Shown, StorageIInv, StorageTyped
<1> QED BY <1>1, <1>2, <1>3, <1>4, <1>5 DEF Shows

\* An array is read in one piece, of as many elements as it has slots.
LEMMA ContentsKnown ==
  ASSUME StorageIInv, AllThere, NEW a \in Arrays, Usable(a)
  PROVE  \E n \in Nat : /\ Contents(a) \in Seq(Content) /\ Long(Contents(a), n) /\ Full(Contents(a))
                        /\ n = Len(buffer[a].data) /\ Long(Work(a).data, n) /\ n <= script.maxSize
<1>1. PICK n \in Nat : n = Len(buffer[a].data)
  BY ContentsOf
<1>2. Contents(a) \in Seq(Content) /\ Long(Contents(a), n) /\ n <= script.maxSize
  BY <1>1, ContentsOf DEF Long
<1>3. Long(Work(a).data, n)
  BY <1>1 DEF Work, Long
<1>4. Full(Contents(a))
  <2>1. PICK r : r = FALSE
    OBVIOUS
  <2>2. script \in Scripts /\ Out(a) \in Outside
    BY BasicTypes, OutTyped
  <2>3. Shows(Work(a), Out(a), val, Contents(a), r)
    BY <2>1, WorkShows
  <2> QED BY <2>2, <2>3, ShownFull
<1> QED BY <1>1, <1>2, <1>3, <1>4

-----------------------------------------------------------------------------
(* The list that arrays are: what its operators are of what they show.       *)
LEMMA ListBecomes ==
  ASSUME NEW a, NEW l, NEW r, r = FALSE, Turns(a, l, r)
  PROVE  List!Becomes(a, l)
<1>1. Default' = Default
  BY DEF Turns, Default, Kind
<1> QED BY <1>1 DEF Turns, List!Becomes, Shown

\* A call that was not refused.
LEMMA ListGrows ==
  ASSUME NEW a, NEW l, NEW r, r = FALSE, Turns(a, l, r)
  PROVE  List!Grows(a, l)
BY ListBecomes DEF List!Grows

\* A call that was, and nothing shown changes.
LEMMA ListRefuses ==
  ASSUME NEW a \in Arrays, NEW l, l = Shown[a], Turns(a, l, TRUE)
  PROVE  List!Refuses
<1>1. Default' = Default
  BY DEF Turns, Default, Kind
<1>2. Shown' = Shown /\ exception' = TRUE
  BY ShownAgain DEF Turns
<1> QED BY <1>1, <1>2 DEF List!Refuses, Shown

\* An array is there when it shows a list.
LEMMA ListExists ==
  ASSUME NEW a \in Arrays
  PROVE  List!Exists(a) <=> Shown[a] # None
BY DEF List!Exists, Shown

LEMMA ListSplice ==
  ASSUME NEW l, NEW p, NEW n, NEW new
  PROVE  List!Splice(l, p, n, new) = Splice(l, p, n, new)
BY DEF List!Splice, Splice

LEMMA ListDefaults ==
  ASSUME NEW n
  PROVE  List!Defaults(n) = Fresh(n)
BY DEF List!Defaults, Fresh

\* After a step: every slot of an array of objects has its object still.
StillThere == AllThere' /\ script' = script

\* A call done, a call refused; an array made, and one that is not.
LEMMA BecomesWhenDone ==
  ASSUME StorageIInv, AllThere, NEW a \in Arrays, NEW w, NEW l, NEW r, r = FALSE, Shows(w, Out(a), val, l, r), Done(a, w)
  PROVE  StillThere /\ List!Becomes(a, l)
<1>1. AllThere' /\ Turns(a, l, r)
  BY DoneTurns
<1>2. List!Becomes(a, l)
  BY <1>1, ListBecomes
<1> QED BY <1>1, <1>2 DEF Turns, StillThere

LEMMA RefusesWhenDone ==
  ASSUME StorageIInv, AllThere, NEW a \in Arrays, NEW w, NEW l, l = Shown[a], Shows(w, Out(a), val, l, TRUE), Done(a, w)
  PROVE  StillThere /\ List!Refuses
<1>1. AllThere' /\ Turns(a, l, TRUE)
  BY DoneTurns
<1>2. List!Refuses
  BY <1>1, ListRefuses
<1> QED BY <1>1, <1>2 DEF Turns, StillThere

LEMMA CreatesWhenBorn ==
  ASSUME StorageIInv, AllThere, NEW a \in Arrays, NEW w, NEW l, NEW r, r = FALSE, Shows(w, Out(a), val, l, r), Born(a, TRUE, w)
  PROVE  StillThere /\ List!Create(a, l)
<1>1. AllThere' /\ Turns(a, l, r)
  BY BornTurns
<1>2. List!Grows(a, l)
  BY <1>1, ListGrows
<1>3. ~List!Exists(a)
  <2>1. refCount[a] = 0
    BY DEF Born
  <2> QED BY <2>1, EmptyShows, ListExists
<1> QED BY <1>1, <1>2, <1>3 DEF Turns, StillThere, List!Create

LEMMA RefusesWhenNotBorn ==
  ASSUME StorageIInv, AllThere, NEW a \in Arrays, NEW w, NEW l, Born(a, FALSE, w)
  PROVE  StillThere /\ List!Create(a, l)
<1>1. AllThere' /\ Turns(a, None, TRUE) /\ Shown[a] = None
  BY NotBorn
<1>2. List!Refuses
  <2>1. PICK none : none = None /\ none = Shown[a]
    BY <1>1
  <2>2. Turns(a, none, TRUE)
    BY <1>1, <2>1
  <2> QED BY <2>1, <2>2, ListRefuses
<1> QED BY <1>1, <1>2, ListExists DEF Turns, StillThere, List!Create, List!Grows

\* Nothing is refused for the lack of room.
LEMMA AmpleFacts ==
  ASSUME StorageIInv, Ample
  PROVE  Alloc = {TRUE} /\ script.room <= script.maxSize /\ \A n \in Nat : Makes(n) = {n}
BY DEF Ample, Alloc, Makes

\* Elements a script passes are elements of lists.
LEMMA PassableIs ==
  ASSUME StorageIInv, NEW v \in Passable
  PROVE  v \in Content /\ (HoldsObjects => v \in Values) /\ v \in AllElements
<1>1. v \in Content
  BY BasicTypes
<1>2. HoldsObjects => v \in Values
  BY DEF Passable, HoldsObjects
<1>3. v \in AllElements
  <2>1. CASE Kind = "handle"
    <3>1. PICK H : H = {h \in Scripts : h.kind = "handle"} /\ script \in H
      BY <2>1, BasicTypes DEF Kind
    <3>2. held \subseteq script.objects
      BY DEF StorageIInv, StorageTyped, Objects
    <3>3. v \in script.objects \cup {None}
      BY <2>1, <3>2 DEF Passable
    <3>4. AllElements = {None} \cup Values \cup UNION {s.objects : s \in H}
      BY <3>1 DEF AllElements
    <3>6. script \in H
      BY <3>1
    <3>5. \A o \in script.objects : o \in UNION {s.objects : s \in H}
      BY <3>6
    <3>7. PICK U : U = UNION {s.objects : s \in H}
      OBVIOUS
    <3>8. v \in U \cup {None}
      BY <3>3, <3>5, <3>7
    <3>9. AllElements = {None} \cup Values \cup U
      BY <3>4, <3>7
    <3> QED BY <3>8, <3>9
  <2>2. CASE Kind # "handle"
    BY <2>2 DEF Passable, AllElements
  <2> QED BY <2>1, <2>2
<1> QED BY <1>1, <1>2, <1>3

\* Before a call.
LEMMA ListCallBegins ==
  ASSUME StorageIInv, AllThere, NEW a \in Arrays, Usable(a)
  PROVE  \E len \in Nat, l \in Seq(Content) :
           /\ l = Contents(a) /\ l = Shown[a] /\ Long(l, len) /\ Full(l) /\ len <= script.maxSize
           /\ len = Len(buffer[a].data) /\ Long(Work(a).data, len) /\ List!Exists(a)
           /\ script \in Scripts /\ Out(a) \in Outside /\ Shows(Work(a), Out(a), val, l, FALSE)
<1>1. PICK len \in Nat : /\ Contents(a) \in Seq(Content) /\ Long(Contents(a), len) /\ Full(Contents(a))
                         /\ len = Len(buffer[a].data) /\ Long(Work(a).data, len) /\ len <= script.maxSize
  BY ContentsKnown
<1>2. PICK r : r = FALSE
  OBVIOUS
<1>3. Shows(Work(a), Out(a), val, Contents(a), r) /\ Contents(a) = Shown[a] /\ Shown[a] # None
  BY <1>2, WorkShows
<1>4. script \in Scripts /\ Out(a) \in Outside /\ List!Exists(a)
  BY <1>3, BasicTypes, OutTyped, ListExists
<1>5. Shows(Work(a), Out(a), val, Contents(a), FALSE)
  BY <1>2, <1>3
<1> QED BY <1>1, <1>3, <1>4, <1>5

LEMMA ListSetValue ==
  ASSUME NEW a \in Arrays, NEW l, l = Shown[a], NEW len, Long(l, len), NEW p, NEW v, NEW t, t = Splice(l, p, 1, <<v>>)
  PROVE  List!SetValue(a, p, v) <=>
           List!Exists(a) /\ (IF p < len THEN List!Becomes(a, t) ELSE List!Refuses)
<1>1. List!Splice(l, p, 1, <<v>>) = t
  BY ListSplice
<1>2. Len(l) = len
  BY DEF Long
<1>3. List!SetValue(a, p, v) <=>
           List!Exists(a) /\ (IF p < Len(l) THEN List!Becomes(a, t) ELSE List!Refuses)
  BY <1>1 DEF List!SetValue, List!Becomes, Shown
<1> QED BY <1>2, <1>3

-----------------------------------------------------------------------------
(* What the list's calls are, of what is shown.                              *)
LEMMA ListInsertAt ==
  ASSUME NEW a \in Arrays, NEW l, l = Shown[a], NEW len, Long(l, len), NEW p, NEW v, NEW t, t = Splice(l, p, 0, <<v>>)
  PROVE  List!InsertAt(a, p, v) <=>
           List!Exists(a) /\ (IF p <= len THEN List!Grows(a, t) ELSE List!Refuses)
<1>1. List!Splice(l, p, 0, <<v>>) = t
  BY ListSplice
<1>2. Len(l) = len
  BY DEF Long
<1>3. List!InsertAt(a, p, v) <=>
           List!Exists(a) /\ (IF p <= Len(l) THEN List!Grows(a, t) ELSE List!Refuses)
  BY <1>1 DEF List!InsertAt, List!Grows, List!Becomes, Shown
<1> QED BY <1>2, <1>3

LEMMA ListInsertLast ==
  ASSUME NEW a \in Arrays, NEW l, l = Shown[a], NEW len \in Nat, Long(l, len), NEW v, NEW t, t = Splice(l, len, 0, <<v>>)
  PROVE  List!InsertLast(a, v) <=> List!Exists(a) /\ List!Grows(a, t)
<1>1. List!Splice(l, len, 0, <<v>>) = t
  BY ListSplice
<1>2. Len(l) = len /\ len <= len
  BY DEF Long
<1> QED BY <1>1, <1>2 DEF List!InsertLast, List!InsertAt, List!Grows, List!Becomes, List!Exists, List!Refuses, Shown

LEMMA ListInsertArray ==
  ASSUME NEW a \in Arrays, NEW b \in Arrays, NEW l, l = Shown[a], NEW other, other = Shown[b],
         NEW len, Long(l, len), NEW p, NEW t, t = Splice(l, p, 0, other)
  PROVE  List!InsertArray(a, p, b) <=>
           List!Exists(a) /\ List!Exists(b) /\ (IF p <= len THEN List!Grows(a, t) ELSE List!Refuses)
<1>1. List!Splice(l, p, 0, other) = t
  BY ListSplice
<1>2. Len(l) = len
  BY DEF Long
<1>3. List!InsertArray(a, p, b) <=>
           List!Exists(a) /\ List!Exists(b) /\ (IF p <= Len(l) THEN List!Grows(a, t) ELSE List!Refuses)
  BY <1>1 DEF List!InsertArray, List!Grows, List!Becomes, Shown
<1> QED BY <1>2, <1>3

LEMMA ListRemoveAt ==
  ASSUME NEW a \in Arrays, NEW l, l = Shown[a], NEW len, Long(l, len), NEW k, NEW t, t = Splice(l, k, 1, <<>>)
  PROVE  List!RemoveAt(a, k) <=>
           List!Exists(a) /\ (IF 0 <= k /\ k < len THEN List!Becomes(a, t) ELSE List!Refuses)
<1>1. List!Splice(l, k, 1, <<>>) = t
  BY ListSplice
<1>2. Len(l) = len
  BY DEF Long
<1>3. List!RemoveAt(a, k) <=>
           List!Exists(a) /\ (IF 0 <= k /\ k < Len(l) THEN List!Becomes(a, t) ELSE List!Refuses)
  BY <1>1 DEF List!RemoveAt, List!Becomes, Shown
<1> QED BY <1>2, <1>3

LEMMA ListRemoveLast ==
  ASSUME NEW a \in Arrays, NEW l, l = Shown[a], NEW len \in Nat, Long(l, len), NEW k, k = len - 1,
         NEW t, t = Splice(l, k, 1, <<>>)
  PROVE  List!RemoveLast(a) <=>
           List!Exists(a) /\ (IF 0 <= k /\ k < len THEN List!Becomes(a, t) ELSE List!Refuses)
<1>1. List!Splice(l, k, 1, <<>>) = t
  BY ListSplice
<1>2. Len(l) = len
  BY DEF Long
<1>3. List!RemoveLast(a) <=>
           List!Exists(a) /\ (IF 0 <= k /\ k < Len(l) THEN List!Becomes(a, t) ELSE List!Refuses)
  BY <1>1, <1>2 DEF List!RemoveLast, List!RemoveAt, List!Becomes, List!Exists, List!Refuses, Shown
<1> QED BY <1>2, <1>3

LEMMA ListRemoveRange ==
  ASSUME NEW a \in Arrays, NEW l, l = Shown[a], NEW len, Long(l, len), NEW p, NEW n,
         NEW t, n = 0 => t = l, n # 0 => t = Splice(l, p, n, <<>>)
  PROVE  List!RemoveRange(a, p, n) <=>
           List!Exists(a) /\ (IF p <= len \/ n = 0 THEN List!Becomes(a, t) ELSE List!Refuses)
<1>1. t = IF n = 0 THEN l ELSE List!Splice(l, p, n, <<>>)
  BY ListSplice
<1>2. Len(l) = len
  BY DEF Long
<1>3. List!RemoveRange(a, p, n) <=>
           List!Exists(a) /\ (IF p <= Len(l) \/ n = 0 THEN List!Becomes(a, t) ELSE List!Refuses)
  BY <1>1 DEF List!RemoveRange, List!Becomes, Shown
<1> QED BY <1>2, <1>3

LEMMA ListResizes ==
  ASSUME NEW a \in Arrays, NEW l, l = Shown[a], NEW len, Long(l, len), NEW n, NEW t, t = Resized(l, len, n)
  PROVE  List!Resize(a, n) <=> List!Exists(a) /\ List!Grows(a, t)
<1>1. List!Least(n, len) = Lesser(n, len)
  BY DEF List!Least, Lesser
<1>2. List!Defaults(n - Lesser(n, len)) = Fresh(n - Lesser(n, len))
  BY ListDefaults
<1>3. Len(l) = len
  BY DEF Long
<1>4. t = SubSeq(l, 1, List!Least(n, Len(l))) \o List!Defaults(n - List!Least(n, Len(l)))
  BY <1>1, <1>2, <1>3 DEF Resized
<1> QED BY <1>4 DEF List!Resize, List!Grows, List!Becomes, Shown

LEMMA ListAssign ==
  ASSUME NEW a \in Arrays, NEW b \in Arrays, NEW other, other = Shown[b]
  PROVE  List!Assign(a, b) <=> List!Exists(a) /\ List!Exists(b) /\ List!Grows(a, other)
BY DEF List!Assign, List!Grows, List!Becomes, Shown

LEMMA ListReserve ==
  ASSUME NEW a \in Arrays, NEW l, l = Shown[a], NEW n
  PROVE  List!Reserve(a, n) <=> List!Exists(a) /\ List!Grows(a, l)
BY DEF List!Reserve, List!Grows, List!Becomes, Shown

LEMMA ListReverse ==
  ASSUME NEW a \in Arrays, NEW l, l = Shown[a], NEW len, Long(l, len), NEW t, t = [k \in 1 .. len |-> l[len + 1 - k]]
  PROVE  List!Reverse(a) <=> List!Exists(a) /\ List!Becomes(a, t)
<1>1. t = List!FromTheEnd(l)
  BY DEF Long, List!FromTheEnd
<1> QED BY <1>1 DEF List!Reverse, List!Becomes, Shown

LEMMA ListCreateCopy ==
  ASSUME NEW a \in Arrays, NEW b \in Arrays, NEW other, other = Shown[b]
  PROVE  List!CreateCopy(a, b) <=> List!Exists(b) /\ List!Create(a, other)
BY DEF List!CreateCopy, List!Create, List!Grows, List!Becomes, Shown

LEMMA ListRelease ==
  ASSUME NEW a \in Arrays, NEW none, none = None
  PROVE  List!Release(a) <=> List!Exists(a) /\ List!Becomes(a, none)
BY DEF List!Release, List!Becomes, Shown

LEMMA ListCreate ==
  ASSUME NEW a \in Arrays, NEW l, NEW n, l = Fresh(n), List!Create(a, l)
  PROVE  List!Create(a, List!Defaults(n))
<1>1. List!Defaults(n) = l
  BY ListDefaults
<1> QED BY <1>1 DEF List!Create, List!Grows, List!Becomes, Shown

-----------------------------------------------------------------------------
(* Every call, as the list's.                                                *)
LEMMA SetValueListed ==
  ASSUME StorageIInv, AllThere, NEW a \in Arrays, NEW p \in script.numbers, NEW v \in Passable, SetValue(a, p, v)
  PROVE  StillThere /\ List!SetValue(a, p, v)
<1>1. Usable(a) /\ Done(a, SetSlot(Work(a), p, v)) /\ p \in Nat
  BY BasicTypes DEF SetValue
<1>2. PICK len \in Nat, l \in Seq(Content) :
        /\ l = Contents(a) /\ l = Shown[a] /\ Long(l, len) /\ Full(l) /\ len <= script.maxSize
        /\ len = Len(buffer[a].data) /\ Long(Work(a).data, len) /\ List!Exists(a)
        /\ script \in Scripts /\ Out(a) \in Outside /\ Shows(Work(a), Out(a), val, l, FALSE)
  BY <1>1, ListCallBegins
<1>3. PICK r : r = FALSE /\ Shows(Work(a), Out(a), val, l, r)
  BY <1>2
<1>10. PICK t : t = Splice(l, p, 1, <<v>>)
  OBVIOUS
<1>4. List!SetValue(a, p, v) <=> IF p < len THEN List!Becomes(a, t) ELSE List!Refuses
  BY <1>2, <1>10, ListSetValue
<1>5. v \in Content /\ (HoldsObjects => v \in Values)
  BY PassableIs
<1>6. PICK w : w = SetSlot(Work(a), p, v)
  OBVIOUS
<1>7. /\ p < len => Shows(w, Out(a), val, Splice(l, p, 1, <<v>>), r)
      /\ ~(p < len) => Shows(w, Out(a), val, l, TRUE)
  BY <1>1, <1>2, <1>3, <1>5, <1>6, SetSlotShows
<1>8. CASE p < len
  <2>1. Shows(w, Out(a), val, t, r)
    BY <1>7, <1>8, <1>10
  <2>2. StillThere /\ List!Becomes(a, t)
    BY <1>1, <1>3, <1>6, <2>1, BecomesWhenDone
  <2> QED BY <1>4, <1>8, <2>2
<1>9. CASE ~(p < len)
  <2>1. Shows(w, Out(a), val, l, TRUE)
    BY <1>7, <1>9
  <2>2. StillThere /\ List!Refuses
    BY <1>1, <1>2, <1>6, <2>1, RefusesWhenDone
  <2> QED BY <1>4, <1>9, <2>2
<1> QED BY <1>8, <1>9

\* Objects enough before a call, for its work.
LEMMA RoomForWork ==
  ASSUME StorageIInv, NEW a \in Arrays, NEW n \in Nat, Creatable(n)
  PROVE  Enough(Work(a), n) /\ Cardinality(Free(Work(a))) \in Nat /\ Free(Work(a)) = Free(Empty)
<1>1. Work(a).refs = refs /\ Empty.refs = refs
  BY DEF Work, Empty
<1>2. Free(Work(a)) = Free(Empty)
  BY <1>1 DEF Free
<1>3. IsFiniteSet(Free(Empty))
  BY BasicTypes, FS_Subset DEF Free
<1>4. Cardinality(Free(Work(a))) \in Nat
  BY <1>2, <1>3, FS_CardinalityType
<1> QED BY <1>2, <1>4 DEF Enough, Creatable

\* An array as long as scripts make it fits into the memory there may be.
LEMMA RoomTyped ==
  ASSUME StorageIInv, Ample
  PROVE  script.room \in Nat /\ script.maxSize \in Nat /\ script.room <= script.maxSize
<1>1. script \in Scripts
  BY BasicTypes
<1>2. script.room \in Nat
  BY <1>1, ScriptsAssumption
<1>3. script.maxSize \in Nat
  BY BasicTypes
<1> QED BY <1>2, <1>3, AmpleFacts

\* Memory enough, and every constructor succeeds.
LEMMA AllSucceed ==
  ASSUME StorageIInv, Ample, NEW n \in Nat, NEW mem \in Alloc, NEW made \in Makes(n)
  PROVE  mem \in BOOLEAN /\ mem /\ made \in Nat /\ made >= n /\ made = n
<1>1. Alloc = {TRUE} /\ Makes(n) = {n}
  BY AmpleFacts
<1> QED BY <1>1

\* Elements inserted.
LEMMA InsertAtListed ==
  ASSUME StorageIInv, AllThere, Ample, NEW a \in Arrays, NEW p \in Nat, NEW v \in Passable, InsertAt(a, p, v)
  PROVE  StillThere /\ List!InsertAt(a, p, v)
<1>1. Usable(a) /\ Len(buffer[a].data) < script.room /\ Creatable(1)
  BY DEF InsertAt
<1>2. PICK len \in Nat, l \in Seq(Content) :
        /\ l = Contents(a) /\ l = Shown[a] /\ Long(l, len) /\ Full(l) /\ len <= script.maxSize
        /\ len = Len(buffer[a].data) /\ Long(Work(a).data, len) /\ List!Exists(a)
        /\ script \in Scripts /\ Out(a) \in Outside /\ Shows(Work(a), Out(a), val, l, FALSE)
  BY <1>1, ListCallBegins
<1>3. PICK r : r = FALSE /\ Shows(Work(a), Out(a), val, l, r)
  BY <1>2
<1>4. PICK mem \in Alloc, made \in Makes(1) : Done(a, InsertSlot(Work(a), p, v, mem, made))
  BY DEF InsertAt
<1>5. mem \in BOOLEAN /\ mem /\ made \in Nat /\ made >= 1
  BY AllSucceed
<1>6. Enough(Work(a), 1)
  BY <1>1, RoomForWork
<1>7. len + 1 <= script.maxSize
  <2>1. script.room <= script.maxSize /\ script.room \in Nat /\ script.maxSize \in Nat
    BY RoomTyped
  <2> QED BY <1>1, <1>2, <2>1
<1>8. v \in Content /\ (HoldsObjects => v \in Values)
  BY PassableIs
<1>9. PICK t : t = Splice(l, p, 0, <<v>>)
  OBVIOUS
<1>10. List!InsertAt(a, p, v) <=> IF p <= len THEN List!Grows(a, t) ELSE List!Refuses
  BY <1>2, <1>9, ListInsertAt
<1>11. PICK w : w = InsertSlot(Work(a), p, v, mem, made)
  OBVIOUS
<1>12. /\ p <= len => Shows(w, Out(a), val, Splice(l, p, 0, <<v>>), r)
       /\ ~(p <= len) => Shows(w, Out(a), val, l, TRUE)
  BY <1>2, <1>3, <1>5, <1>6, <1>7, <1>8, <1>11, InsertSlotShows
<1>13. CASE p <= len
  <2>1. Shows(w, Out(a), val, t, r)
    BY <1>9, <1>12, <1>13
  <2>2. StillThere /\ List!Becomes(a, t)
    BY <1>3, <1>4, <1>11, <2>1, BecomesWhenDone
  <2> QED BY <1>10, <1>13, <2>2 DEF List!Grows
<1>14. CASE ~(p <= len)
  <2>1. Shows(w, Out(a), val, l, TRUE)
    BY <1>12, <1>14
  <2>2. StillThere /\ List!Refuses
    BY <1>2, <1>4, <1>11, <2>1, RefusesWhenDone
  <2> QED BY <1>10, <1>14, <2>2
<1> QED BY <1>13, <1>14

LEMMA InsertLastListed ==
  ASSUME StorageIInv, AllThere, Ample, NEW a \in Arrays, NEW v \in Passable, InsertLast(a, v)
  PROVE  StillThere /\ List!InsertLast(a, v)
<1>1. Usable(a) /\ InsertAt(a, Len(buffer[a].data), v)
  BY DEF InsertLast
<1>2. PICK len \in Nat, l \in Seq(Content) :
        /\ l = Contents(a) /\ l = Shown[a] /\ Long(l, len) /\ Full(l) /\ len <= script.maxSize
        /\ len = Len(buffer[a].data) /\ Long(Work(a).data, len) /\ List!Exists(a)
        /\ script \in Scripts /\ Out(a) \in Outside /\ Shows(Work(a), Out(a), val, l, FALSE)
  BY <1>1, ListCallBegins
<1>3. InsertAt(a, len, v)
  BY <1>1, <1>2
<1>4. StillThere /\ List!InsertAt(a, len, v)
  BY <1>3, InsertAtListed
<1>5. PICK t : t = Splice(l, len, 0, <<v>>)
  OBVIOUS
<1>6. List!InsertAt(a, len, v) <=> List!Exists(a) /\ (IF len <= len THEN List!Grows(a, t) ELSE List!Refuses)
  BY <1>2, <1>5, ListInsertAt
<1>7. List!InsertLast(a, v) <=> List!Exists(a) /\ List!Grows(a, t)
  BY <1>2, <1>5, ListInsertLast
<1> QED BY <1>4, <1>6, <1>7

LEMMA InsertArrayListed ==
  ASSUME StorageIInv, AllThere, Ample, NEW a \in Arrays, NEW p \in script.numbers, NEW b \in Arrays, InsertArray(a, p, b)
  PROVE  StillThere /\ List!InsertArray(a, p, b)
<1>1. Usable(a) /\ Usable(b) /\ p \in Nat
  BY BasicTypes DEF InsertArray
<1>2. PICK len \in Nat, l \in Seq(Content) :
        /\ l = Contents(a) /\ l = Shown[a] /\ Long(l, len) /\ Full(l) /\ len <= script.maxSize
        /\ len = Len(buffer[a].data) /\ Long(Work(a).data, len) /\ List!Exists(a)
        /\ script \in Scripts /\ Out(a) \in Outside /\ Shows(Work(a), Out(a), val, l, FALSE)
  BY <1>1, ListCallBegins
<1>3. PICK r : r = FALSE /\ Shows(Work(a), Out(a), val, l, r)
  BY <1>2
<1>4. PICK n \in Nat, vs \in Seq(Content) :
        /\ vs = Contents(b) /\ vs = Shown[b] /\ Long(vs, n) /\ Full(vs) /\ n <= script.maxSize
        /\ n = Len(buffer[b].data) /\ Long(Work(b).data, n) /\ List!Exists(b)
        /\ script \in Scripts /\ Out(b) \in Outside /\ Shows(Work(b), Out(b), val, vs, FALSE)
  BY <1>1, ListCallBegins
<1>5. len + n <= script.room /\ Creatable(n)
  BY <1>2, <1>4 DEF InsertArray
<1>6. \E mem \in Alloc, made \in Makes(n) : Done(a, InsertSlots(Work(a), p, vs, a = b, mem, made))
  BY <1>4 DEF InsertArray
<1>7. PICK mem \in Alloc, made \in Makes(n) : Done(a, InsertSlots(Work(a), p, vs, a = b, mem, made))
  BY <1>6
<1>8. mem \in BOOLEAN /\ mem /\ made \in Nat /\ made >= n
  BY AllSucceed
<1>9. Enough(Work(a), n)
  BY <1>5, RoomForWork
<1>10. len + n <= script.maxSize
  <2>1. script.room <= script.maxSize /\ script.room \in Nat /\ script.maxSize \in Nat
    BY RoomTyped
  <2> QED BY <1>5, <2>1
<1>11. PICK self \in BOOLEAN : self = (a = b)
  OBVIOUS
<1>12. self => vs = l
  BY <1>2, <1>4, <1>11
<1>13. PICK t : t = Splice(l, p, 0, vs)
  OBVIOUS
<1>14. List!InsertArray(a, p, b) <=> IF p <= len THEN List!Grows(a, t) ELSE List!Refuses
  BY <1>2, <1>4, <1>13, ListInsertArray
<1>15. PICK w : w = InsertSlots(Work(a), p, vs, self, mem, made)
  OBVIOUS
<1>16. Done(a, w)
  BY <1>7, <1>11, <1>15
<1>17. /\ p <= len => Shows(w, Out(a), val, Splice(l, p, 0, vs), r)
       /\ ~(p <= len) => Shows(w, Out(a), val, l, TRUE)
  BY <1>1, <1>2, <1>3, <1>4, <1>8, <1>9, <1>10, <1>12, <1>15, InsertSlotsShows
<1>18. CASE p <= len
  <2>1. Shows(w, Out(a), val, t, r)
    BY <1>13, <1>17, <1>18
  <2>2. StillThere /\ List!Becomes(a, t)
    BY <1>3, <1>16, <2>1, BecomesWhenDone
  <2> QED BY <1>14, <1>18, <2>2 DEF List!Grows
<1>19. CASE ~(p <= len)
  <2>1. Shows(w, Out(a), val, l, TRUE)
    BY <1>17, <1>19
  <2>2. StillThere /\ List!Refuses
    BY <1>2, <1>16, <2>1, RefusesWhenDone
  <2> QED BY <1>14, <1>19, <2>2
<1> QED BY <1>18, <1>19

\* Elements removed.
LEMMA RemoveAtListed ==
  ASSUME StorageIInv, AllThere, NEW a \in Arrays, NEW k \in Int, RemoveAt(a, k)
  PROVE  StillThere /\ List!RemoveAt(a, k)
<1>1. Usable(a) /\ Done(a, RemoveSlot(Work(a), k))
  BY DEF RemoveAt
<1>2. PICK len \in Nat, l \in Seq(Content) :
        /\ l = Contents(a) /\ l = Shown[a] /\ Long(l, len) /\ Full(l) /\ len <= script.maxSize
        /\ len = Len(buffer[a].data) /\ Long(Work(a).data, len) /\ List!Exists(a)
        /\ script \in Scripts /\ Out(a) \in Outside /\ Shows(Work(a), Out(a), val, l, FALSE)
  BY <1>1, ListCallBegins
<1>3. PICK r : r = FALSE /\ Shows(Work(a), Out(a), val, l, r)
  BY <1>2
<1>4. PICK t : t = Splice(l, k, 1, <<>>)
  OBVIOUS
<1>5. List!RemoveAt(a, k) <=> IF 0 <= k /\ k < len THEN List!Becomes(a, t) ELSE List!Refuses
  BY <1>2, <1>4, ListRemoveAt
<1>6. PICK w : w = RemoveSlot(Work(a), k)
  OBVIOUS
<1>7. /\ 0 <= k /\ k < len => Shows(w, Out(a), val, Splice(l, k, 1, <<>>), r)
      /\ ~(0 <= k /\ k < len) => Shows(w, Out(a), val, l, TRUE)
  <2>1. ~(0 <= k /\ k < len) => Shows(w, Out(a), val, l, TRUE)
    BY <1>2, <1>3, <1>6, RemoveSlotShows
  <2>2. 0 <= k /\ k < len => Shows(w, Out(a), val, Splice(l, k, 1, <<>>), r)
    BY <1>2, <1>3, <1>6, RemoveSlotShows
  <2> QED BY <2>1, <2>2
<1>8. CASE 0 <= k /\ k < len
  <2>1. Shows(w, Out(a), val, t, r)
    BY <1>4, <1>7, <1>8
  <2>2. StillThere /\ List!Becomes(a, t)
    BY <1>1, <1>3, <1>6, <2>1, BecomesWhenDone
  <2> QED BY <1>5, <1>8, <2>2
<1>9. CASE ~(0 <= k /\ k < len)
  <2>1. Shows(w, Out(a), val, l, TRUE)
    BY <1>7, <1>9
  <2>2. StillThere /\ List!Refuses
    BY <1>1, <1>2, <1>6, <2>1, RefusesWhenDone
  <2> QED BY <1>5, <1>9, <2>2
<1> QED BY <1>8, <1>9

LEMMA RemoveLastListed ==
  ASSUME StorageIInv, AllThere, NEW a \in Arrays, RemoveLast(a)
  PROVE  StillThere /\ List!RemoveLast(a)
<1>1. Usable(a) /\ RemoveAt(a, Len(buffer[a].data) - 1)
  BY DEF RemoveLast
<1>2. PICK len \in Nat, l \in Seq(Content) :
        /\ l = Contents(a) /\ l = Shown[a] /\ Long(l, len) /\ Full(l) /\ len <= script.maxSize
        /\ len = Len(buffer[a].data) /\ Long(Work(a).data, len) /\ List!Exists(a)
        /\ script \in Scripts /\ Out(a) \in Outside /\ Shows(Work(a), Out(a), val, l, FALSE)
  BY <1>1, ListCallBegins
<1>3. PICK r : r = FALSE /\ Shows(Work(a), Out(a), val, l, r)
  BY <1>2
<1>4. PICK k \in Int : k = len - 1
  OBVIOUS
<1>5. RemoveAt(a, k)
  BY <1>1, <1>2, <1>4
<1>6. StillThere /\ List!RemoveAt(a, k)
  BY <1>5, RemoveAtListed
<1>7. PICK t : t = Splice(l, k, 1, <<>>)
  OBVIOUS
<1>8. List!RemoveAt(a, k) <=> List!Exists(a) /\ (IF 0 <= k /\ k < len THEN List!Becomes(a, t) ELSE List!Refuses)
  BY <1>2, <1>7, ListRemoveAt
<1>9. List!RemoveLast(a) <=> List!Exists(a) /\ (IF 0 <= k /\ k < len THEN List!Becomes(a, t) ELSE List!Refuses)
  BY <1>2, <1>4, <1>7, ListRemoveLast
<1> QED BY <1>6, <1>8, <1>9

LEMMA RemoveRangeListed ==
  ASSUME RangesFit, StorageIInv, AllThere, NEW a \in Arrays, NEW p \in script.numbers, NEW n \in script.numbers,
         RemoveRange(a, p, n)
  PROVE  StillThere /\ List!RemoveRange(a, p, n)
<1>1. Usable(a) /\ Done(a, RemoveSlots(Work(a), p, n))
  BY DEF RemoveRange
<1>2. PICK len \in Nat, l \in Seq(Content) :
        /\ l = Contents(a) /\ l = Shown[a] /\ Long(l, len) /\ Full(l) /\ len <= script.maxSize
        /\ len = Len(buffer[a].data) /\ Long(Work(a).data, len) /\ List!Exists(a)
        /\ script \in Scripts /\ Out(a) \in Outside /\ Shows(Work(a), Out(a), val, l, FALSE)
  BY <1>1, ListCallBegins
<1>3. PICK r : r = FALSE /\ Shows(Work(a), Out(a), val, l, r)
  BY <1>2
<1>4. PICK t : t = IF n = 0 THEN l ELSE Splice(l, p, n, <<>>)
  OBVIOUS
<1>5. List!RemoveRange(a, p, n) <=> IF p <= len \/ n = 0 THEN List!Becomes(a, t) ELSE List!Refuses
  <2>1. List!RemoveRange(a, p, n) <=>
           List!Exists(a) /\ (IF p <= len \/ n = 0 THEN List!Becomes(a, t) ELSE List!Refuses)
    <3>1. l = Shown[a] /\ Long(l, len)
      BY <1>2
    <3>2. (n = 0 => t = l) /\ (n # 0 => t = Splice(l, p, n, <<>>))
      BY <1>4
    <3> QED BY <3>1, <3>2, ListRemoveRange
  <2> QED BY <1>2, <2>1
<1>6. PICK w : w = RemoveSlots(Work(a), p, n)
  OBVIOUS
<1>7. /\ n = 0 => Shows(w, Out(a), val, l, r)
      /\ n # 0 /\ p <= len => Shows(w, Out(a), val, Splice(l, p, n, <<>>), r)
      /\ n # 0 /\ ~(p <= len) => Shows(w, Out(a), val, l, TRUE)
  BY <1>2, <1>3, <1>6, RemoveSlotsShows
<1>8. CASE p <= len \/ n = 0
  <2>1. Shows(w, Out(a), val, t, r)
    BY <1>4, <1>7, <1>8
  <2>2. StillThere /\ List!Becomes(a, t)
    BY <1>1, <1>3, <1>6, <2>1, BecomesWhenDone
  <2> QED BY <1>5, <1>8, <2>2
<1>9. CASE ~(p <= len \/ n = 0)
  <2>1. Shows(w, Out(a), val, l, TRUE)
    BY <1>7, <1>9
  <2>2. StillThere /\ List!Refuses
    BY <1>1, <1>2, <1>6, <2>1, RefusesWhenDone
  <2> QED BY <1>5, <1>9, <2>2
<1> QED BY <1>8, <1>9

\* Memory asked for, and slots swapped.
LEMMA ReserveListed ==
  ASSUME StorageIInv, AllThere, Ample, NEW a \in Arrays, NEW n \in script.numbers, Reserve(a, n)
  PROVE  StillThere /\ List!Reserve(a, n)
<1>1. Usable(a) /\ n <= script.room /\ n \in Nat
  BY BasicTypes DEF Reserve
<1>2. PICK len \in Nat, l \in Seq(Content) :
        /\ l = Contents(a) /\ l = Shown[a] /\ Long(l, len) /\ Full(l) /\ len <= script.maxSize
        /\ len = Len(buffer[a].data) /\ Long(Work(a).data, len) /\ List!Exists(a)
        /\ script \in Scripts /\ Out(a) \in Outside /\ Shows(Work(a), Out(a), val, l, FALSE)
  BY <1>1, ListCallBegins
<1>3. PICK r : r = FALSE /\ Shows(Work(a), Out(a), val, l, r)
  BY <1>2
<1>4. PICK mem \in Alloc : Done(a, ReserveIn(Work(a), n, mem))
  BY DEF Reserve
<1>5. mem \in BOOLEAN /\ mem
  <2>1. Alloc = {TRUE}
    BY AmpleFacts
  <2> QED BY <2>1
<1>6. n <= script.maxSize
  BY <1>1, RoomTyped
<1>7. PICK w : w = ReserveIn(Work(a), n, mem)
  OBVIOUS
<1>8. Shows(w, Out(a), val, l, r)
  BY <1>1, <1>2, <1>3, <1>5, <1>6, <1>7, ReserveShows
<1>9. StillThere /\ List!Becomes(a, l)
  BY <1>3, <1>4, <1>7, <1>8, BecomesWhenDone
<1>10. List!Reserve(a, n) <=> List!Exists(a) /\ List!Grows(a, l)
  BY <1>2, ListReserve
<1> QED BY <1>2, <1>9, <1>10 DEF List!Grows

LEMMA ReverseListed ==
  ASSUME StorageIInv, AllThere, NEW a \in Arrays, Reverse(a)
  PROVE  StillThere /\ List!Reverse(a)
<1>1. Usable(a) /\ Done(a, [Work(a) EXCEPT !.data = Reversed(buffer[a].data)])
  BY DEF Reverse
<1>2. PICK len \in Nat, l \in Seq(Content) :
        /\ l = Contents(a) /\ l = Shown[a] /\ Long(l, len) /\ Full(l) /\ len <= script.maxSize
        /\ len = Len(buffer[a].data) /\ Long(Work(a).data, len) /\ List!Exists(a)
        /\ script \in Scripts /\ Out(a) \in Outside /\ Shows(Work(a), Out(a), val, l, FALSE)
  BY <1>1, ListCallBegins
<1>3. PICK r : r = FALSE /\ Shows(Work(a), Out(a), val, l, r)
  BY <1>2
<1>4. Work(a).data = buffer[a].data
  BY DEF Work
<1>5. PICK w : w = [Work(a) EXCEPT !.data = Reversed(Work(a).data)]
  OBVIOUS
<1>6. Done(a, w)
  BY <1>1, <1>4, <1>5
<1>7. PICK t : t = [k \in 1 .. len |-> l[len + 1 - k]]
  OBVIOUS
<1>8. Shows(w, Out(a), val, [k \in 1 .. len |-> l[len + 1 - k]], r)
  BY <1>2, <1>3, <1>5, ReversedShows
<1>9. Shows(w, Out(a), val, t, r)
  BY <1>7, <1>8
<1>10. StillThere /\ List!Becomes(a, t)
  BY <1>3, <1>6, <1>9, BecomesWhenDone
<1>11. List!Reverse(a) <=> List!Exists(a) /\ List!Becomes(a, t)
  BY <1>2, <1>7, ListReverse
<1> QED BY <1>2, <1>10, <1>11

\* Resize and operator=.
LEMMA ResizedLong ==
  ASSUME script \in Scripts, NEW l \in Seq(Content), NEW len \in Nat, Long(l, len), NEW n \in Nat
  PROVE  Resized(l, len, n) \in Seq(Content) /\ Long(Resized(l, len, n), n)
<1>1. PICK m \in Nat, d \in Nat : m = Lesser(n, len) /\ d = n - m /\ m <= len /\ m + d = n
  <2>1. Lesser(n, len) \in Nat /\ Lesser(n, len) <= len /\ Lesser(n, len) <= n
    BY DEF Lesser
  <2>2. PICK m \in Nat : m = Lesser(n, len) /\ m <= len /\ m <= n
    BY <2>1
  <2>3. n - m \in Nat /\ m + (n - m) = n
    BY <2>2
  <2> QED BY <2>2, <2>3
<1>2. SubSeq(l, 1, m) \in Seq(Content) /\ Long(SubSeq(l, 1, m), m)
  <2>3. m <= len
    BY <1>1
  <2>1. 0 + m <= len /\ 0 + 1 = 1 /\ 0 + m = m
    BY <2>3
  <2>2. Middle(l, 0, m) \in Seq(Content) /\ Long(Middle(l, 0, m), m)
    BY <2>1, MiddleIs
  <2> QED BY <2>1, <2>2 DEF Middle
<1>3. Fresh(d) \in Seq(Content) /\ Long(Fresh(d), d)
  BY FreshTyped
<1>4. PICK s \in Seq(Content), e \in Seq(Content) : s = SubSeq(l, 1, m) /\ e = Fresh(d) /\ Long(s, m) /\ Long(e, d)
  BY <1>2, <1>3
<1>5. s \o e \in Seq(Content) /\ Long(s \o e, m + d)
  BY <1>4, Joined
<1>6. Resized(l, len, n) = s \o e
  BY <1>1, <1>4 DEF Resized
<1> QED BY <1>1, <1>5, <1>6

LEMMA ResizeListed ==
  ASSUME StorageIInv, AllThere, Ample, NEW a \in Arrays, NEW n \in Nat, Resize(a, n)
  PROVE  StillThere /\ List!Resize(a, n)
<1>1. Usable(a) /\ n <= script.room /\ Creatable(n)
  BY DEF Resize
<1>2. PICK len \in Nat, l \in Seq(Content) :
        /\ l = Contents(a) /\ l = Shown[a] /\ Long(l, len) /\ Full(l) /\ len <= script.maxSize
        /\ len = Len(buffer[a].data) /\ Long(Work(a).data, len) /\ List!Exists(a)
        /\ script \in Scripts /\ Out(a) \in Outside /\ Shows(Work(a), Out(a), val, l, FALSE)
  BY <1>1, ListCallBegins
<1>3. PICK r : r = FALSE /\ Shows(Work(a), Out(a), val, l, r)
  BY <1>2
<1>4. PICK mem \in Alloc, made \in Makes(n) : Done(a, ResizeTo(Work(a), n, mem, made))
  BY DEF Resize
<1>5. mem \in BOOLEAN /\ mem /\ made \in Nat /\ made >= n
  BY AllSucceed
<1>6. n <= script.maxSize
  BY <1>1, RoomTyped
<1>7. Enough(Work(a), n) /\ Cardinality(Free(Work(a))) \in Nat
  BY <1>1, RoomForWork
<1>8. PICK w : w = ResizeTo(Work(a), n, mem, made)
  OBVIOUS
<1>9. PICK t : t = Resized(l, len, n)
  OBVIOUS
<1>10. Shows(w, Out(a), val, Resized(l, len, n), r)
  BY <1>2, <1>3, <1>5, <1>6, <1>7, <1>8, ResizeToShows
<1>11. StillThere /\ List!Becomes(a, t)
  BY <1>3, <1>4, <1>8, <1>9, <1>10, BecomesWhenDone
<1>12. List!Resize(a, n) <=> List!Exists(a) /\ List!Grows(a, t)
  BY <1>2, <1>9, ListResizes
<1> QED BY <1>2, <1>11, <1>12 DEF List!Grows

\* A list in the place of another, with the room made for it.
LEMMA AssignShows ==
  ASSUME script \in Scripts, NEW w, NEW out \in Outside, NEW was, NEW l, NEW r, Shows(w, out, was, l, r),
         NEW len \in Nat, Long(w.data, len), NEW n \in Nat, n <= script.maxSize, NEW mem \in BOOLEAN, mem, NEW made \in Nat, made >= n,
         Enough(w, n), Cardinality(Free(w)) \in Nat, NEW vs \in Seq(Content), Full(vs), Long(vs, n)
  PROVE  Shows(CopyBuffer(ResizeTo(w, n, mem, made), vs), out, was, vs, r)
<1>1. PICK wider, t : wider = ResizeTo(w, n, mem, made) /\ t = Resized(l, len, n)
  OBVIOUS
<1>2. Shows(wider, out, was, t, r)
  BY <1>1, ResizeToShows
<1>3. l \in Seq(Content) /\ Long(l, len)
  <2>1. PICK k \in Nat : l \in Seq(Content) /\ Long(l, k) /\ Long(w.data, k)
    BY ShownLong
  <2> QED BY <2>1 DEF Long
<1>4. Long(t, n)
  BY <1>1, <1>3, ResizedLong
<1>5. Long(wider.data, n)
  <2>1. PICK k \in Nat : Long(t, k) /\ Long(wider.data, k)
    BY <1>2, ShownLong
  <2> QED BY <1>4, <2>1 DEF Long
<1>6. Shows(CopyBuffer(wider, vs), out, was, vs, r)
  BY <1>2, <1>5, CopyBufferShows
<1> QED BY <1>1, <1>6

\* An array assigned, and its own elements to it.
LEMMA AssignListed ==
  ASSUME StorageIInv, AllThere, Ample, NEW a \in Arrays, NEW b \in Arrays, Assign(a, b)
  PROVE  StillThere /\ List!Assign(a, b)
<1>1. Usable(a) /\ Usable(b)
  BY DEF Assign
<1>2. PICK len \in Nat, l \in Seq(Content) :
        /\ l = Contents(a) /\ l = Shown[a] /\ Long(l, len) /\ Full(l) /\ len <= script.maxSize
        /\ len = Len(buffer[a].data) /\ Long(Work(a).data, len) /\ List!Exists(a)
        /\ script \in Scripts /\ Out(a) \in Outside /\ Shows(Work(a), Out(a), val, l, FALSE)
  BY <1>1, ListCallBegins
<1>3. PICK r : r = FALSE /\ Shows(Work(a), Out(a), val, l, r)
  BY <1>2
<1>4. PICK n \in Nat, vs \in Seq(Content) :
        /\ vs = Contents(b) /\ vs = Shown[b] /\ Long(vs, n) /\ Full(vs) /\ n <= script.maxSize
        /\ n = Len(buffer[b].data) /\ Long(Work(b).data, n) /\ List!Exists(b)
        /\ script \in Scripts /\ Out(b) \in Outside /\ Shows(Work(b), Out(b), val, vs, FALSE)
  BY <1>1, ListCallBegins
<1>5. Creatable(n) /\ \E mem \in Alloc, made \in Makes(n) : Done(a, AssignTo(a, b, mem, made))
  BY <1>4 DEF Assign
<1>6. PICK mem \in Alloc, made \in Makes(n) : Done(a, AssignTo(a, b, mem, made))
  BY <1>5
<1>7. mem \in BOOLEAN /\ mem /\ made \in Nat /\ made >= n
  BY AllSucceed
<1>8. Enough(Work(a), n) /\ Cardinality(Free(Work(a))) \in Nat
  BY <1>5, RoomForWork
<1>9. PICK w : w = AssignTo(a, b, mem, made)
  OBVIOUS
<1>10. Shows(w, Out(a), val, vs, r)
  <2>1. CASE a = b
    <3>1. w = Work(a) /\ vs = l
      BY <1>2, <1>4, <1>9, <2>1 DEF AssignTo
    <3> QED BY <1>3, <3>1
  <2>2. CASE a # b
    <3>1. w = CopyBuffer(ResizeTo(Work(a), n, mem, made), vs)
      BY <1>4, <1>9, <2>2 DEF AssignTo
    <3>2. Shows(CopyBuffer(ResizeTo(Work(a), n, mem, made), vs), Out(a), val, vs, r)
      BY <1>2, <1>3, <1>4, <1>7, <1>8, AssignShows
    <3> QED BY <3>1, <3>2
  <2> QED BY <2>1, <2>2
<1>11. StillThere /\ List!Becomes(a, vs)
  BY <1>3, <1>6, <1>9, <1>10, BecomesWhenDone
<1>12. List!Assign(a, b) <=> List!Exists(a) /\ List!Exists(b) /\ List!Grows(a, vs)
  BY <1>4, ListAssign
<1> QED BY <1>2, <1>4, <1>11, <1>12 DEF List!Grows

\* Before a constructor.
LEMMA BirthBegins ==
  ASSUME StorageIInv, NEW a \in Arrays, refCount[a] = 0
  PROVE  \E r : r = FALSE /\ Shows(Empty, Out(a), val, <<>>, r) /\ Out(a) \in Outside /\ script \in Scripts
<1>1. PICK r : r = FALSE
  OBVIOUS
<1>2. Shows(Empty, Out(a), val, <<>>, r) /\ Out(a) \in Outside /\ script \in Scripts
  BY <1>1, EmptyShows, OutTyped, BasicTypes
<1> QED BY <1>1, <1>2

\* An array made, if there was room for it.
LEMMA CreatesOrRefuses ==
  ASSUME StorageIInv, AllThere, NEW a \in Arrays, NEW ok \in BOOLEAN, NEW w, NEW l, NEW r, r = FALSE,
         Born(a, ok, w), ok => Shows(w, Out(a), val, l, r)
  PROVE  StillThere /\ List!Create(a, l)
<1>1. CASE ok = TRUE
  <2>1. Born(a, TRUE, w) /\ Shows(w, Out(a), val, l, r)
    BY <1>1
  <2> QED BY <2>1, CreatesWhenBorn
<1>2. CASE ok = FALSE
  <2>1. Born(a, FALSE, w)
    BY <1>2
  <2> QED BY <2>1, RefusesWhenNotBorn
<1> QED BY <1>1, <1>2

\* The constructors.
LEMMA CreateLengthListed ==
  ASSUME StorageIInv, AllThere, Ample, NEW a \in Arrays, NEW n \in script.numbers, CreateLength(a, n)
  PROVE  StillThere /\ List!Create(a, List!Defaults(n))
<1>2. n \in Nat /\ script.maxSize \in Nat /\ script \in Scripts
  BY BasicTypes
<1>1. PICK mem \in BOOLEAN : Creatable(n) /\ Born(a, CreateBuffer(n, mem), Filled(n, n))
  BY <1>2, AllSucceed DEF CreateLength
<1>3. PICK ok \in BOOLEAN : ok = CreateBuffer(n, mem)
  BY <1>2 DEF CreateBuffer
<1>4. refCount[a] = 0
  BY <1>1 DEF Born
<1>5. PICK r : r = FALSE /\ Shows(Empty, Out(a), val, <<>>, r) /\ Out(a) \in Outside /\ script \in Scripts
  BY <1>4, BirthBegins
<1>6. PICK l : l = Fresh(n)
  OBVIOUS
<1>7. PICK w : w = Filled(n, n)
  OBVIOUS
<1>8. ok => Shows(w, Out(a), val, l, r)
  <2> SUFFICES ASSUME ok PROVE Shows(w, Out(a), val, l, r)
    OBVIOUS
  <2>1. n <= script.maxSize
    BY <1>3 DEF CreateBuffer
  <2>2. Shows(Filled(n, n), Out(a), val, Fresh(n), r)
    BY <1>1, <1>2, <1>5, <2>1, FilledShows
  <2> QED BY <1>6, <1>7, <2>2
<1>9. Born(a, ok, w)
  BY <1>1, <1>3, <1>7
<1>10. StillThere /\ List!Create(a, l)
  BY <1>5, <1>8, <1>9, CreatesOrRefuses
<1>11. List!Create(a, List!Defaults(n))
  BY <1>6, <1>10, ListCreate
<1> QED BY <1>10, <1>11

\* One value as often as asked for.
LEMMA RepeatedLong ==
  ASSUME NEW S, NEW v \in S, NEW n \in Nat
  PROVE  [k \in 1 .. n |-> v] \in Seq(S) /\ Long([k \in 1 .. n |-> v], n)
<1>1. [k \in 1 .. n |-> v] \in [1 .. n -> S]
  OBVIOUS
<1>2. [k \in 1 .. n |-> v] \in Seq(S)
  BY <1>1, SeqDef
<1>3. PICK s \in Seq(S) : s = [k \in 1 .. n |-> v]
  BY <1>2
<1>4. PICK m \in Nat : m = Len(s) /\ DOMAIN s = 1 .. m
  BY LenProperties
<1>5. 1 .. m = 1 .. n
  BY <1>3, <1>4
<1>6. m = n
  BY <1>5
<1> QED BY <1>2, <1>3, <1>4, <1>6 DEF Long

LEMMA ListCreateFilled ==
  ASSUME NEW a \in Arrays, NEW l, NEW n, NEW v, l = [k \in 1 .. n |-> v], List!Create(a, l)
  PROVE  List!Create(a, [k \in 1 .. n |-> v])
BY DEF List!Create, List!Grows, List!Becomes, Shown

LEMMA CreateFilledListed ==
  ASSUME StorageIInv, AllThere, Ample, NEW a \in Arrays, NEW n \in script.numbers, NEW v \in Passable, CreateFilled(a, n, v)
  PROVE  StillThere /\ List!Create(a, [k \in 1 .. n |-> v])
<1>3. n \in Nat /\ script.maxSize \in Nat /\ script \in Scripts /\ v \in Content /\ (HoldsObjects => v \in Values)
  BY BasicTypes, PassableIs
<1>1. PICK w : w = SetSlots(Filled(n, n), 0, [k \in 1 .. n |-> v])
  OBVIOUS
<1>2. Creatable(n) /\ Born(a, CreateBuffer(n, TRUE), w)
  <2>1. PICK mem \in Alloc, made \in Makes(n) :
          /\ Creatable(n)
          /\ mem => Born(a, CreateBuffer(n, mem), SetSlots(Filled(n, made), 0, [k \in 1 .. n |-> v]))
    BY DEF CreateFilled
  <2>2. made = n /\ mem /\ mem = TRUE
    BY <1>3, AllSucceed
  <2> QED BY <1>1, <2>1, <2>2
<1>4. PICK ok \in BOOLEAN : ok = CreateBuffer(n, TRUE)
  BY <1>3 DEF CreateBuffer
<1>5. refCount[a] = 0
  BY <1>2 DEF Born
<1>6. PICK r : r = FALSE /\ Shows(Empty, Out(a), val, <<>>, r) /\ Out(a) \in Outside /\ script \in Scripts
  BY <1>5, BirthBegins
<1>7. PICK vs \in Seq(Content) : vs = [k \in 1 .. n |-> v] /\ Long(vs, n)
  BY <1>3, RepeatedLong
<1>8. Full(vs)
  <2>1. HoldsObjects => [k \in 1 .. n |-> v] \in Seq(Values)
    BY <1>3, RepeatedLong
  <2> QED BY <1>7, <2>1 DEF Full
<1>9. ok => Shows(w, Out(a), val, vs, r)
  <2> SUFFICES ASSUME ok PROVE Shows(w, Out(a), val, vs, r)
    OBVIOUS
  <2>1. n <= script.maxSize
    BY <1>4 DEF CreateBuffer
  <2>2. PICK f, e : f = Filled(n, n) /\ e = Fresh(n)
    OBVIOUS
  <2>3. Shows(f, Out(a), val, e, r)
    BY <1>2, <1>3, <1>6, <2>1, <2>2, FilledShows
  <2>4. e \in Seq(Content) /\ Long(e, n)
    BY <1>3, <2>2, FreshTyped
  <2>5. Long(f.data, n)
    <3>1. PICK k \in Nat : Long(e, k) /\ Long(f.data, k)
      BY <1>3, <1>6, <2>3, ShownLong
    <3> QED BY <2>4, <3>1 DEF Long
  <2>6. PICK z \in Nat : z = 0 /\ z + n <= Len(f.data)
    <3>1. 0 + n = n
      BY <1>3
    <3> QED BY <1>3, <2>5, <3>1 DEF Long
  <2>7. Shows(SetSlots(f, z, vs), Out(a), val, Splice(e, z, n, vs), r)
    BY <1>3, <1>6, <1>7, <1>8, <2>3, <2>6, SetSlotsShows
  <2>8. Splice(e, 0, n, vs) = vs
    BY <1>3, <1>7, <2>4, SplicedWhole
  <2>9. w = SetSlots(f, 0, vs)
    BY <1>1, <1>7, <2>2
  <2> QED BY <2>6, <2>7, <2>8, <2>9
<1>10. Born(a, ok, w)
  BY <1>2, <1>4
<1>11. StillThere /\ List!Create(a, vs)
  BY <1>6, <1>9, <1>10, CreatesOrRefuses
<1>12. List!Create(a, [k \in 1 .. n |-> v])
  BY <1>7, <1>11, ListCreateFilled
<1> QED BY <1>11, <1>12

LEMMA CreateFromListListed ==
  ASSUME StorageIInv, AllThere, Ample, NEW a \in Arrays, NEW vs \in script.lists, CreateFromList(a, vs)
  PROVE  StillThere /\ List!Create(a, vs)
<1>1. Creatable(2 * Len(vs)) /\ \A k \in DOMAIN vs : vs[k] \in Passable
  BY DEF CreateFromList
<1>2. script.maxSize \in Nat /\ script \in Scripts
  BY BasicTypes
<1>3. PICK n \in Nat : n = Len(vs) /\ DOMAIN vs = 1 .. n /\ vs \in Seq(Content)
  <2>1. vs \in Seq(Values \cup script.objects \cup {None})
    BY <1>2, ScriptsAssumption
  <2>2. PICK n \in Nat : n = Len(vs) /\ DOMAIN vs = 1 .. n /\ vs \in [1 .. n -> Values \cup script.objects \cup {None}]
    BY <2>1, LenProperties
  <2>3. \A k \in 1 .. n : vs[k] \in Content
    BY <1>1, <2>2, BasicTypes
  <2>4. vs \in [1 .. n -> Content]
    BY <2>2, <2>3
  <2>5. vs \in Seq(Content)
    BY <2>4, SeqDef
  <2> QED BY <2>2, <2>5
<1>4. PICK ok \in BOOLEAN : ok = CreateBuffer(n, TRUE)
  BY <1>2, <1>3 DEF CreateBuffer
<1>10. Born(a, CreateBuffer(n, TRUE), FromList(vs, n))
  <2>1. PICK mem \in Alloc, made \in Makes(Len(vs)) :
          mem => Born(a, CreateBuffer(Len(vs), mem), FromList(vs, made))
    BY DEF CreateFromList
  <2>2. made = Len(vs) /\ mem /\ mem = TRUE
    BY <1>3, AllSucceed
  <2> QED BY <1>3, <2>1, <2>2
<1>5. refCount[a] = 0
  BY <1>10 DEF Born
<1>6. PICK r : r = FALSE /\ Shows(Empty, Out(a), val, <<>>, r) /\ Out(a) \in Outside /\ script \in Scripts
  BY <1>5, BirthBegins
<1>7. PICK w : w = FromList(vs, n)
  OBVIOUS
<1>8. ok => Shows(w, Out(a), val, vs, r)
  <2> SUFFICES ASSUME ok PROVE Shows(w, Out(a), val, vs, r)
    OBVIOUS
  <2>1. n <= script.maxSize
    BY <1>4 DEF CreateBuffer
  <2>2. Creatable(2 * n) /\ Long(vs, n)
    BY <1>1, <1>3 DEF Long
  <2>3. Shows(FromList(vs, n), Out(a), val, vs, r)
    BY <1>1, <1>3, <1>6, <2>1, <2>2, FromListShows
  <2> QED BY <1>7, <2>3
<1>9. Born(a, ok, w)
  BY <1>4, <1>7, <1>10
<1> QED BY <1>6, <1>8, <1>9, CreatesOrRefuses

LEMMA EmptyLong ==
  Long(<<>>, 0) /\ Long(Empty.data, 0)
BY DEF Long, Empty

LEMMA CreateCopyListed ==
  ASSUME StorageIInv, AllThere, Ample, NEW a \in Arrays, NEW b \in Arrays, CreateCopy(a, b)
  PROVE  StillThere /\ List!CreateCopy(a, b)
<1>1. Usable(b)
  BY DEF CreateCopy
<1>2. PICK n \in Nat, vs \in Seq(Content) :
        /\ vs = Contents(b) /\ vs = Shown[b] /\ Long(vs, n) /\ Full(vs) /\ n <= script.maxSize
        /\ n = Len(buffer[b].data) /\ Long(Work(b).data, n) /\ List!Exists(b)
        /\ script \in Scripts /\ Out(b) \in Outside /\ Shows(Work(b), Out(b), val, vs, FALSE)
  BY <1>1, ListCallBegins
<1>3. \E mem \in Alloc : Creatable(n) /\ Born(a, TRUE, CopyBuffer(ResizeTo(Empty, n, mem, n), vs))
  <2>1. PICK first \in Alloc, mem \in Alloc, made \in Makes(n) :
          /\ Creatable(n)
          /\ first => Born(a, TRUE, CopyBuffer(ResizeTo(Empty, n, mem, made), vs))
    BY <1>2 DEF CreateCopy
  <2>2. made = n /\ first
    BY AllSucceed
  <2> QED BY <2>1, <2>2
<1>4. PICK mem \in Alloc : Creatable(n) /\ Born(a, TRUE, CopyBuffer(ResizeTo(Empty, n, mem, n), vs))
  BY <1>3
<1>5. mem \in BOOLEAN /\ mem
  <2>1. Alloc = {TRUE}
    BY AmpleFacts
  <2> QED BY <2>1
<1>6. refCount[a] = 0
  BY <1>4 DEF Born
<1>7. PICK r : r = FALSE /\ Shows(Empty, Out(a), val, <<>>, r) /\ Out(a) \in Outside /\ script \in Scripts
  BY <1>6, BirthBegins
<1>8. Enough(Empty, n) /\ Cardinality(Free(Empty)) \in Nat
  BY <1>4, BasicTypes DEF Enough, Creatable
<1>9. PICK z, e : z = 0 /\ z \in Nat /\ e = <<>> /\ Shows(Empty, Out(a), val, e, r) /\ Long(Empty.data, z)
  BY <1>7, EmptyLong
<1>10. n >= n
  OBVIOUS
<1>11. Shows(CopyBuffer(ResizeTo(Empty, n, mem, n), vs), Out(a), val, vs, r)
  BY <1>2, <1>5, <1>7, <1>8, <1>9, <1>10, AssignShows
<1>12. PICK w : w = CopyBuffer(ResizeTo(Empty, n, mem, n), vs)
  OBVIOUS
<1>13. StillThere /\ List!Create(a, vs)
  BY <1>4, <1>7, <1>11, <1>12, CreatesWhenBorn
<1>14. List!CreateCopy(a, b) <=> List!Exists(b) /\ List!Create(a, vs)
  BY <1>2, ListCreateCopy
<1> QED BY <1>2, <1>13, <1>14

\* After a step: nothing that scripts see of arrays has changed.
Stays == AllThere' /\ script' = script /\ UNCHANGED List!vars

LEMMA ListStays ==
  ASSUME Shown' = Shown, exception' = exception, script' = script
  PROVE  UNCHANGED List!vars
BY DEF List!vars, Shown, Default, Kind

\* References to arrays and variables do not show.
LEMMA ReferencesChange ==
  ASSUME AllThere, buffer' = buffer, val' = val, exception' = exception, script' = script
  PROVE  Stays
<1>1. HoldsObjects' = HoldsObjects /\ Objects' = Objects
  BY DEF HoldsObjects, Kind, Objects
<1>2. AllThere'
  BY <1>1 DEF AllThere, There, Slots
<1>3. Shown' = Shown
  BY <1>1 DEF Shown, Contents, ContentOf
<1> QED BY <1>2, <1>3, ListStays DEF Stays

\* The values of objects no array has do not show.
LEMMA UnusedChange ==
  ASSUME StorageIInv, AllThere, NEW v, v = [o \in Objects |-> IF refs[o] = 0 THEN Zero ELSE val[o]],
         NEW b \in Arrays, buffer[b] # None
  PROVE  Read(buffer[b].data, v) = Contents(b)
<1>1. Usable(b)
  BY DEF Usable, StorageIInv, StorageTyped
<1>2. PICK l, r, w : l = Contents(b) /\ r = FALSE /\ w = Work(b)
  OBVIOUS
<1>3. Shows(w, Out(b), val, l, r)
  BY <1>1, <1>2, WorkShows
<1>4. w.refs = refs /\ w.val = val /\ w.data = buffer[b].data
  BY <1>2 DEF Work
<1>5. v = [o \in Objects |-> IF w.refs[o] = 0 THEN Zero ELSE w.val[o]]
  BY <1>4
<1>6. Read(w.data, v) = l
  BY <1>3, <1>5, HoldsAfter
<1> QED BY <1>2, <1>4, <1>6

LEMMA ReadAfter ==
  ASSUME script' = script, NEW b \in Arrays, NEW v, v = val', NEW nb, nb = buffer'[b]
  PROVE  Contents(b)' = Read(nb.data, v)
<1>1. HoldsObjects' = HoldsObjects
  BY DEF HoldsObjects, Kind
<1> QED BY <1>1 DEF Contents, Read, ContentOf

\* Nor do the values of objects that go.
LEMMA UnusedVanish ==
  ASSUME StorageIInv, AllThere, NEW v, v = [o \in Objects |-> IF refs[o] = 0 THEN Zero ELSE val[o]],
         buffer' = buffer, val' = v, exception' = exception, script' = script
  PROVE  Stays
<1>1. HoldsObjects' = HoldsObjects /\ Objects' = Objects
  BY DEF HoldsObjects, Kind, Objects
<1>2. AllThere'
  BY <1>1 DEF AllThere, There, Slots
<1>3. \A b \in Arrays : buffer[b] # None => Contents(b)' = Contents(b)
  <2> SUFFICES ASSUME NEW b \in Arrays, buffer[b] # None PROVE Contents(b)' = Contents(b)
    OBVIOUS
  <2>1. PICK nb : nb = buffer[b] /\ nb = buffer'[b]
    OBVIOUS
  <2>2. Contents(b)' = Read(nb.data, v)
    BY <2>1, ReadAfter
  <2>3. Read(buffer[b].data, v) = Contents(b)
    BY UnusedChange
  <2> QED BY <2>1, <2>2, <2>3
<1>4. Shown' = Shown
  BY <1>3 DEF Shown
<1> QED BY <1>2, <1>4, ListStays DEF Stays

\* The last reference of an array goes.
LEMMA LastGone ==
  ASSUME StorageIInv, AllThere, NEW a \in Arrays, Release(a), refCount[a] = 1, buffer[a] # None
  PROVE  StillThere /\ List!Release(a)
<1>1. Out(a) \in Outside /\ \A o \in Objects : refs[o] = Out(a)[o] + Uses(o, Slots(a))
  BY OutTyped
<1>2. PICK slots \in Seq(Slot) : slots = Slots(a) /\ slots = buffer[a].data
  <2>1. Slots(a) \in Seq(Slot)
    <3>1. Contained \in [Arrays -> Seq(Slot)]
      BY SlotsTyped DEF StorageIInv
    <3> QED BY <3>1 DEF Contained
  <2> QED BY <2>1 DEF Slots
<1>3. PICK w : w = ReleaseAll(Empty, slots)
  OBVIOUS
<1>4. /\ buffer' = [buffer EXCEPT ![a] = None]
      /\ val' = [o \in Objects |-> IF w.refs[o] = 0 THEN Zero ELSE val[o]]
      /\ exception' = FALSE /\ script' = script
  BY <1>2, <1>3 DEF Release
<1>5. w.refs = [o \in Objects |-> refs[o] - Uses(o, slots)]
  BY <1>3 DEF ReleaseAll, Empty
<1>6. OutsideKept(a, val')
  <2> SUFFICES ASSUME NEW o \in Objects, Out(a)[o] > 0 PROVE val'[o] = val[o]
    BY DEF OutsideKept
  <2>1. PICK x \in Nat, u \in Nat : x = Out(a)[o] /\ u = Uses(o, slots) /\ x > 0
    BY <1>1, UsesIsNat DEF Outside
  <2>2. refs[o] = x + u
    BY <1>1, <1>2, <2>1
  <2>3. w.refs[o] = x
    BY <1>5, <2>1, <2>2
  <2> QED BY <1>4, <2>1, <2>3
<1>7. PICK none : none = None
  OBVIOUS
<1>8. AllThere' /\ Shown' = [Shown EXCEPT ![a] = none]
  <2>1. buffer' = [buffer EXCEPT ![a] = none] /\ none = (IF none = None THEN None ELSE Read(none.data, val'))
    BY <1>4, <1>7
  <2>2. none # None => There(none.data)
    BY <1>7
  <2> QED BY <1>4, <1>6, <2>1, <2>2, OneChanges
<1>9. PICK r : r = FALSE
  OBVIOUS
<1>10. List!Becomes(a, none)
  BY <1>4, <1>8, <1>9, ListBecomes DEF Turns
<1>11. List!Exists(a)
  <2>1. Usable(a)
    BY DEF Usable
  <2> QED BY <1>9, <2>1, WorkShows, ListExists
<1>12. List!Release(a)
  BY <1>7, <1>10, <1>11, ListRelease
<1> QED BY <1>4, <1>8, <1>12 DEF StillThere

\* A reference that is not the last, or of an array without elements.
LEMMA NothingReleased ==
  ASSUME StorageIInv, AllThere, NEW a \in Arrays, Release(a), ~(refCount[a] = 1 /\ buffer[a] # None)
  PROVE  Stays
<1>1. StorageTyped
  BY DEF StorageIInv
<1>2. PICK slots, w : slots = <<>> /\ w = ReleaseAll(Empty, slots)
  OBVIOUS
<1>3. /\ buffer' = [buffer EXCEPT ![a] = IF refCount[a] = 1 THEN None ELSE buffer[a]]
      /\ val' = [o \in Objects |-> IF w.refs[o] = 0 THEN Zero ELSE val[o]]
      /\ exception' = exception /\ script' = script
  BY <1>2 DEF Release
<1>4. buffer' = buffer
  BY <1>1, <1>3 DEF StorageTyped
<1>5. w.refs = [o \in Objects |-> refs[o] - Uses(o, slots)]
  BY <1>2 DEF ReleaseAll, Empty
<1>6. \A o \in Objects : refs[o] - Uses(o, slots) = refs[o]
  <2> TAKE o \in Objects
  <2>1. Uses(o, slots) = 0 /\ refs[o] \in Nat
    BY <1>1, <1>2, NoneUsed DEF StorageTyped
  <2> QED BY <2>1
<1>7. \A o \in Objects : w.refs[o] = refs[o]
  BY <1>5, <1>6
<1>8. PICK v : v = [o \in Objects |-> IF refs[o] = 0 THEN Zero ELSE val[o]]
  OBVIOUS
<1>9. val' = v
  BY <1>3, <1>7, <1>8
<1> QED BY <1>3, <1>4, <1>8, <1>9, UnusedVanish

LEMMA ReleaseListed ==
  ASSUME StorageIInv, AllThere, NEW a \in Arrays, Release(a)
  PROVE  Stays \/ (StillThere /\ List!Release(a))
BY LastGone, NothingReleased

\* What lists are told of scripts.
NumbersOf == UNION {s.numbers : s \in Scripts}
ListsOf == UNION {s.lists : s \in Scripts}

\* The calls of the list.
LEMMA ListNext ==
  ASSUME NEW a \in Arrays
  PROVE  /\ \A n \in NumbersOf : List!Create(a, List!Defaults(n)) \/ List!Resize(a, n) \/ List!Reserve(a, n) => List!Next
         /\ \A n \in NumbersOf, v \in AllElements :
              List!Create(a, [k \in 1 .. n |-> v]) \/ List!SetValue(a, n, v) \/ List!InsertAt(a, n, v) => List!Next
         /\ \A l \in ListsOf : List!Create(a, l) => List!Next
         /\ \A b \in Arrays : List!CreateCopy(a, b) \/ List!Assign(a, b) => List!Next
         /\ \A v \in AllElements : List!InsertLast(a, v) => List!Next
         /\ \A n \in NumbersOf, b \in Arrays : List!InsertArray(a, n, b) => List!Next
         /\ \A n \in NumbersOf : List!RemoveAt(a, n) => List!Next
         /\ \A p \in NumbersOf, n \in NumbersOf : List!RemoveRange(a, p, n) => List!Next
         /\ List!RemoveLast(a) \/ List!Reverse(a) \/ List!Resize(a, 0) \/ List!Release(a) => List!Next
<1>1. \A n \in NumbersOf : List!Create(a, List!Defaults(n)) \/ List!Resize(a, n) \/ List!Reserve(a, n) => List!Next
  BY Zenon DEF List!Next, NumbersOf
<1>2. \A n \in NumbersOf, v \in AllElements :
              List!Create(a, [k \in 1 .. n |-> v]) \/ List!SetValue(a, n, v) \/ List!InsertAt(a, n, v) => List!Next
  BY Zenon DEF List!Next, NumbersOf
<1>3. \A l \in ListsOf : List!Create(a, l) => List!Next
  BY Zenon DEF List!Next, ListsOf
<1>4. \A b \in Arrays : List!CreateCopy(a, b) \/ List!Assign(a, b) => List!Next
  BY Zenon DEF List!Next
<1>5. \A v \in AllElements : List!InsertLast(a, v) => List!Next
  BY Zenon DEF List!Next
<1>6. \A n \in NumbersOf, b \in Arrays : List!InsertArray(a, n, b) => List!Next
  BY Zenon DEF List!Next, NumbersOf
<1>7. \A n \in NumbersOf : List!RemoveAt(a, n) => List!Next
  BY Zenon DEF List!Next, NumbersOf
<1>8. \A p \in NumbersOf, n \in NumbersOf : List!RemoveRange(a, p, n) => List!Next
  BY Zenon DEF List!Next, NumbersOf
<1>9. List!RemoveLast(a) \/ List!Reverse(a) \/ List!Resize(a, 0) \/ List!Release(a) => List!Next
  BY Zenon DEF List!Next
<1> QED BY <1>1, <1>2, <1>3, <1>4, <1>5, <1>6, <1>7, <1>8, <1>9

LEMMA DefaultKnown ==
  ASSUME script \in Scripts
  PROVE  Default \in AllElements
BY ValuesAssumption DEF Default, AllElements

\* A script without arrays.
LEMMA StartsListed ==
  ASSUME StorageInit
  PROVE  List!Init /\ (Ample => AllThere)
<1>1. Default \in AllElements
  BY DefaultKnown DEF StorageInit
<1>2. buffer = [a \in Arrays |-> None] /\ exception = FALSE
  BY DEF StorageInit
<1>3. List!Init
  BY <1>1, <1>2 DEF List!Init
<1>4. AllThere
  BY <1>2, EmptySeq DEF AllThere, There, Slots
<1> QED BY <1>3, <1>4

\* Another script does not take over.
LEMMA ScriptRuns ==
  ASSUME StorageNext
  PROVE  script' = script
<1>1. \A a, w : Done(a, w) => script' = script
  BY DEF Done
<1>2. \A a, ok, w : Born(a, ok, w) \/ WritesThroughNull(a) => script' = script
  BY DEF Born, WritesThroughNull
<1>3. \A a, n : CreateLength(a, n) \/ Resize(a, n) \/ Reserve(a, n) => script' = script
  BY <1>1, <1>2, Zenon DEF CreateLength, Resize, Reserve
<1>4. \A a, n, v : CreateFilled(a, n, v) \/ SetValue(a, n, v) \/ InsertAt(a, n, v) => script' = script
  BY <1>1, <1>2, Zenon DEF CreateFilled, SetValue, InsertAt
<1>5. \A a, vs : CreateFromList(a, vs) \/ InsertLast(a, vs) => script' = script
  BY <1>2, <1>4, Zenon DEF CreateFromList, InsertLast
<1>6. \A a, b : CreateCopy(a, b) \/ Assign(a, b) => script' = script
  BY <1>1, <1>2, Zenon DEF CreateCopy, Assign
<1>7. \A a, k, b : InsertArray(a, k, b) \/ RemoveRange(a, k, b) => script' = script
  BY <1>1, Zenon DEF InsertArray, RemoveRange
<1>8. \A a, k : RemoveAt(a, k) => script' = script
  BY <1>1, Zenon DEF RemoveAt
<1>9. \A a : RemoveLast(a) \/ Reverse(a) \/ ReleaseAllHandles(a) => script' = script
  BY <1>1, <1>3, <1>8, Zenon DEF RemoveLast, Reverse, ReleaseAllHandles
<1>10. \A a : AddReference(a) \/ Release(a) => script' = script
  BY DEF AddReference, Release
<1>11. NewObject \/ (\E o \in Objects : DropObject(o)) => script' = script
  BY DEF NewObject, DropObject
<1>12. CASE NewObject \/ (\E o \in Objects : DropObject(o))
  BY <1>11, <1>12
<1>13. CASE \E a \in Arrays :
              \/ \E n \in script.numbers : CreateLength(a, n) \/ Resize(a, n) \/ Reserve(a, n)
              \/ \E n \in script.numbers, v \in Passable : CreateFilled(a, n, v) \/ SetValue(a, n, v) \/ InsertAt(a, n, v)
              \/ \E vs \in script.lists : CreateFromList(a, vs)
              \/ \E v \in Passable : InsertLast(a, v)
              \/ \E b \in Arrays : CreateCopy(a, b) \/ Assign(a, b)
              \/ \E k \in script.numbers, b \in Arrays : InsertArray(a, k, b)
              \/ \E k \in script.numbers : RemoveAt(a, k)
              \/ \E k, n \in script.numbers : RemoveRange(a, k, n)
              \/ RemoveLast(a) \/ Reverse(a) \/ ReleaseAllHandles(a)
              \/ AddReference(a) \/ Release(a)
  BY <1>3, <1>4, <1>5, <1>6, <1>7, <1>8, <1>9, <1>10, <1>13, Zenon
<1> QED BY <1>12, <1>13 DEF StorageNext, ArrayCall

\* After a step: a call of the list.
ListStep == StillThere /\ List!Next

\* A step of the array add-on is a call on its lists, or does not show.
LEMMA StepListed ==
  ASSUME RangesFit, StorageIInv, AllThere, Ample, StorageNext
  PROVE  Stays \/ ListStep
<1>0. script.numbers \subseteq Nat /\ script \in Scripts
  BY BasicTypes
<1>1. script.numbers \subseteq NumbersOf /\ script.lists \subseteq ListsOf
  BY <1>0 DEF NumbersOf, ListsOf
<1>2. \A v \in Passable : v \in AllElements
  BY PassableIs
<1>3. ASSUME NEW a \in Arrays, NEW n \in script.numbers, CreateLength(a, n) \/ Resize(a, n) \/ Reserve(a, n)
      PROVE  ListStep
  <2>1. n \in Nat /\ n \in NumbersOf
    BY <1>0, <1>1
  <2>2. StillThere /\ (List!Create(a, List!Defaults(n)) \/ List!Resize(a, n) \/ List!Reserve(a, n))
    BY <1>3, <2>1, CreateLengthListed, ResizeListed, ReserveListed
  <2> QED BY <2>1, <2>2, ListNext DEF ListStep
<1>4. ASSUME NEW a \in Arrays, NEW n \in script.numbers, NEW v \in Passable,
             CreateFilled(a, n, v) \/ SetValue(a, n, v) \/ InsertAt(a, n, v)
      PROVE  ListStep
  <2>1. n \in Nat /\ n \in NumbersOf /\ v \in AllElements
    BY <1>0, <1>1, <1>2
  <2>2. StillThere /\ (List!Create(a, [k \in 1 .. n |-> v]) \/ List!SetValue(a, n, v) \/ List!InsertAt(a, n, v))
    BY <1>4, <2>1, CreateFilledListed, SetValueListed, InsertAtListed
  <2> QED BY <2>1, <2>2, ListNext DEF ListStep
<1>5. ASSUME NEW a \in Arrays, NEW vs \in script.lists, CreateFromList(a, vs)
      PROVE  ListStep
  <2>1. vs \in ListsOf
    BY <1>1
  <2>2. StillThere /\ List!Create(a, vs)
    BY <1>5, CreateFromListListed
  <2> QED BY <2>1, <2>2, ListNext DEF ListStep
<1>6. ASSUME NEW a \in Arrays, NEW v \in Passable, InsertLast(a, v)
      PROVE  ListStep
  <2>1. StillThere /\ List!InsertLast(a, v)
    BY <1>6, InsertLastListed
  <2> QED BY <1>2, <2>1, ListNext DEF ListStep
<1>7. ASSUME NEW a \in Arrays, NEW b \in Arrays, CreateCopy(a, b) \/ Assign(a, b)
      PROVE  ListStep
  <2>1. StillThere /\ (List!CreateCopy(a, b) \/ List!Assign(a, b))
    BY <1>7, CreateCopyListed, AssignListed
  <2> QED BY <2>1, ListNext DEF ListStep
<1>8. ASSUME NEW a \in Arrays, NEW k \in script.numbers, NEW b \in Arrays, InsertArray(a, k, b)
      PROVE  ListStep
  <2>1. StillThere /\ List!InsertArray(a, k, b)
    BY <1>8, InsertArrayListed
  <2> QED BY <1>1, <2>1, ListNext DEF ListStep
<1>9. ASSUME NEW a \in Arrays, NEW k \in script.numbers, RemoveAt(a, k)
      PROVE  ListStep
  <2>1. k \in Int /\ k \in NumbersOf
    BY <1>0, <1>1
  <2>2. StillThere /\ List!RemoveAt(a, k)
    BY <1>9, <2>1, RemoveAtListed
  <2> QED BY <2>1, <2>2, ListNext DEF ListStep
<1>10. ASSUME NEW a \in Arrays, NEW k \in script.numbers, NEW n \in script.numbers, RemoveRange(a, k, n)
       PROVE  ListStep
  <2>1. k \in NumbersOf /\ n \in NumbersOf
    BY <1>1
  <2>2. StillThere /\ List!RemoveRange(a, k, n)
    BY <1>10, RemoveRangeListed
  <2> QED BY <2>1, <2>2, ListNext DEF ListStep
<1>11. ASSUME NEW a \in Arrays, RemoveLast(a) \/ Reverse(a) \/ ReleaseAllHandles(a)
       PROVE  ListStep
  <2>1. ReleaseAllHandles(a) => StillThere /\ List!Resize(a, 0)
    <3>1. PICK z \in Nat : z = 0
      OBVIOUS
    <3>2. Resize(a, z) => StillThere /\ List!Resize(a, z)
      BY ResizeListed
    <3> QED BY <3>1, <3>2 DEF ReleaseAllHandles
  <2>2. StillThere /\ (List!RemoveLast(a) \/ List!Reverse(a) \/ List!Resize(a, 0))
    BY <1>11, <2>1, RemoveLastListed, ReverseListed
  <2> QED BY <2>2, ListNext DEF ListStep
<1>12. ASSUME NEW a \in Arrays, Release(a)
       PROVE  Stays \/ ListStep
  <2>1. Stays \/ (StillThere /\ List!Release(a))
    BY <1>12, ReleaseListed
  <2> QED BY <2>1, ListNext DEF ListStep
<1>13. CASE NewObject \/ (\E o \in Objects : DropObject(o)) \/ (\E a \in Arrays : AddReference(a))
  <2>1. buffer' = buffer /\ val' = val /\ exception' = exception /\ script' = script
    BY <1>13 DEF NewObject, DropObject, AddReference
  <2> QED BY <2>1, ReferencesChange
<1> HIDE DEF StorageIInv
<1>14. CASE \E a \in Arrays :
              \/ \E n \in script.numbers : CreateLength(a, n) \/ Resize(a, n) \/ Reserve(a, n)
              \/ \E n \in script.numbers, v \in Passable : CreateFilled(a, n, v) \/ SetValue(a, n, v) \/ InsertAt(a, n, v)
              \/ \E vs \in script.lists : CreateFromList(a, vs)
              \/ \E v \in Passable : InsertLast(a, v)
              \/ \E b \in Arrays : CreateCopy(a, b) \/ Assign(a, b)
              \/ \E k \in script.numbers, b \in Arrays : InsertArray(a, k, b)
              \/ \E k \in script.numbers : RemoveAt(a, k)
              \/ \E k, n \in script.numbers : RemoveRange(a, k, n)
              \/ RemoveLast(a) \/ Reverse(a) \/ ReleaseAllHandles(a)
              \/ Release(a)
  BY <1>3, <1>4, <1>5, <1>6, <1>7, <1>8, <1>9, <1>10, <1>11, <1>12, <1>14
<1> QED BY <1>13, <1>14 DEF StorageNext, ArrayCall

\* What the refinement needs of the states of the array add-on.
RefinesIInv == StorageIInv /\ (Ample => AllThere)

\* The refinement, step by step.
LEMMA StepRefines ==
  ASSUME RangesFit, RefinesIInv, [StorageNext]_storageVars
  PROVE  RefinesIInv' /\ [Ample => List!Next]_(List!vars)
<1>1. StorageIInv /\ StorageIInv'
  BY StorageStep, StorageStutters DEF RefinesIInv
<1>2. script' = script
  BY ScriptRuns DEF storageVars
<1>3. Ample' <=> Ample
  BY <1>2 DEF Ample
<1>4. CASE ~Ample
  BY <1>1, <1>3, <1>4 DEF RefinesIInv
<1>5. CASE Ample
  <2>1. AllThere
    BY <1>5 DEF RefinesIInv
  <2>2. Stays \/ ListStep
    <3>1. CASE StorageNext
      BY <1>1, <1>5, <2>1, <3>1, StepListed
    <3>2. CASE UNCHANGED storageVars
      <4>1. buffer' = buffer /\ val' = val /\ exception' = exception /\ script' = script
        BY <3>2 DEF storageVars
      <4> QED BY <2>1, <4>1, ReferencesChange
    <3> QED BY <3>1, <3>2
  <2>3. AllThere' /\ (List!Next \/ UNCHANGED List!vars)
    BY <2>2 DEF Stays, ListStep, StillThere
  <2> QED BY <1>1, <2>3 DEF RefinesIInv
<1> QED BY <1>4, <1>5

\* The array add-on implements the list of its documentation.
THEOREM ArrayImplementsList == RangesFit => (StorageSpec => ImplementsList)
<1> SUFFICES ASSUME RangesFit PROVE StorageSpec => ImplementsList
  OBVIOUS
<1>1. StorageInit => RefinesIInv
  BY StorageBegins, StartsListed DEF RefinesIInv
<1>2. StorageInit => List!Init
  BY StartsListed
<1>3. RefinesIInv /\ [StorageNext]_storageVars => RefinesIInv'
  BY StepRefines
<1>4. RefinesIInv /\ [StorageNext]_storageVars => [Ample => List!Next]_(List!vars)
  BY StepRefines
<1> QED BY <1>1, <1>2, <1>3, <1>4, PTL DEF StorageSpec, ImplementsList

\* The names of the calls.
LEMMA StepPromised ==
  ASSUME RangesFit, RefinesIInv
  PROVE  Promised
<1> SUFFICES ASSUME Ample, NEW a \in Arrays
             PROVE
       /\ \A k \in script.numbers, v \in Passable :
            (SetValue(a, k, v) => List!SetValue(a, k, v)) /\ (InsertAt(a, k, v) => List!InsertAt(a, k, v))
       /\ \A v \in Passable :
            InsertLast(a, v) => List!InsertLast(a, v)
       /\ \A k \in script.numbers, b \in Arrays : InsertArray(a, k, b) => List!InsertArray(a, k, b)
       /\ \A k \in script.numbers : RemoveAt(a, k) => List!RemoveAt(a, k)
       /\ \A k, n \in script.numbers : RemoveRange(a, k, n) => List!RemoveRange(a, k, n)
       /\ \A n \in script.numbers : (Resize(a, n) => List!Resize(a, n)) /\ (Reserve(a, n) => List!Reserve(a, n))
       /\ \A b \in Arrays : Assign(a, b) => List!Assign(a, b)
       /\ (RemoveLast(a) => List!RemoveLast(a))
       /\ (Reverse(a) => List!Reverse(a))
  BY Zenon DEF Promised
<1>1. StorageIInv /\ AllThere
  BY DEF RefinesIInv
<1>2. \A k \in script.numbers : k \in Nat /\ k \in Int
  <2>1. script.numbers \subseteq Nat
    BY <1>1, BasicTypes
  <2> QED BY <2>1
<1>3. \A k \in script.numbers, v \in Passable :
         (SetValue(a, k, v) => List!SetValue(a, k, v)) /\ (InsertAt(a, k, v) => List!InsertAt(a, k, v))
  BY <1>1, <1>2, SetValueListed, InsertAtListed
<1>4. \A v \in Passable : InsertLast(a, v) => List!InsertLast(a, v)
  BY <1>1, InsertLastListed
<1>5. \A k \in script.numbers, b \in Arrays : InsertArray(a, k, b) => List!InsertArray(a, k, b)
  BY <1>1, InsertArrayListed
<1>6. \A k \in script.numbers : RemoveAt(a, k) => List!RemoveAt(a, k)
  BY <1>1, <1>2, RemoveAtListed
<1>7. \A k, n \in script.numbers : RemoveRange(a, k, n) => List!RemoveRange(a, k, n)
  BY <1>1, RemoveRangeListed
<1>8. \A n \in script.numbers : (Resize(a, n) => List!Resize(a, n)) /\ (Reserve(a, n) => List!Reserve(a, n))
  BY <1>1, <1>2, ResizeListed, ReserveListed
<1>9. \A b \in Arrays : Assign(a, b) => List!Assign(a, b)
  BY <1>1, AssignListed
<1>10. (RemoveLast(a) => List!RemoveLast(a)) /\ (Reverse(a) => List!Reverse(a))
  BY <1>1, RemoveLastListed, ReverseListed
<1> QED BY <1>3, <1>4, <1>5, <1>6, <1>7, <1>8, <1>9, <1>10

\* With room enough, every call does to the elements what its own name says.
THEOREM ArrayCallsAsPromised == RangesFit => (StorageSpec => CallsAsPromised)
<1> SUFFICES ASSUME RangesFit PROVE StorageSpec => CallsAsPromised
  OBVIOUS
<1>1. StorageInit => RefinesIInv
  BY StorageBegins, StartsListed DEF RefinesIInv
<1>2. RefinesIInv /\ [StorageNext]_storageVars => RefinesIInv'
  BY StepRefines
<1>3. RefinesIInv => Promised
  BY StepPromised
<1> QED BY <1>1, <1>2, <1>3, PTL DEF StorageSpec, CallsAsPromised
=============================================================================
