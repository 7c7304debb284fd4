----------------------------- MODULE ScriptArray -----------------------------
(***************************************************************************)
(* CScriptArray (3rd/scriptarray): the buffer of an array, its capacity, the *)
(* objects its slots hold, and what every call does when the room for it     *)
(* cannot be had.                                                            *)
(*                                                                           *)
(* A slot of an array of primitives holds the value, a slot of an array of   *)
(* handles a counted reference, a slot of an array of objects a reference    *)
(* that only this slot has, to an object made by its default constructor.    *)
(*                                                                           *)
(* Arrays have fewer than 2^31 elements. CheckMaxSize sees to that unless an  *)
(* element is one byte: then Resize, which takes differences of sizes as int, *)
(* goes wrong for longer arrays.                                             *)
(***************************************************************************)
EXTENDS Integers, Sequences, FiniteSets

CONSTANTS
  Arrays,   \* arrays a script may create, one after the other too
  Values,   \* values of primitives, and of objects as opAssign copies them
  None,     \* no buffer, no object
  Word,     \* 2^32: the count of the values of an asUINT
  Scripts   \* what a script does with arrays:
            \*   kind         "primitive", "handle", "reference" or "value": the subtype
            \*   objects      names of script objects
            \*   maxSize      what CheckMaxSize allows
            \*   room         how long the script lets an array become
            \*   memoryFails  whether userAlloc and CreateScriptObject may return null
            \*   maxReferences  bound: references to an array
            \*   numbers      indices and counts it passes
            \*   lists        its initialisation lists

Zero == 0

\* What slots of arrays hold.
AllObjects == UNION {s.objects : s \in Scripts}
AnySlot == Values \cup AllObjects \cup {None}

ASSUME ScriptsAssumption ==
  \A s \in Scripts :
    /\ s.kind \in {"primitive", "handle", "reference", "value"}
    /\ IsFiniteSet(s.objects) /\ None \notin s.objects
    /\ s.kind = "primitive" => s.objects = {}
    /\ s.maxSize \in 0 .. (Word \div 2) - 1 /\ s.room \in Nat /\ s.maxReferences \in Nat \ {0}
    /\ s.numbers \subseteq 0 .. Word - 1
    /\ s.memoryFails \in BOOLEAN
    /\ s.lists \subseteq Seq(Values \cup s.objects \cup {None})
ASSUME ValuesAssumption ==
  /\ Word \in Nat /\ IsFiniteSet(Arrays)
  /\ Zero \in Values /\ None \notin Values
  /\ None \notin [max : Nat, data : Seq(AnySlot)] /\ None \notin Seq(AnySlot)

VARIABLES
  script,    \* the script that runs
  buffer,    \* buffer[a]: [max |-> maxElements, data |-> the slots], None if none
  refCount,  \* refCount[a], 0 if there is no such array
  refs,      \* refs[o]: references to object o, 0 if there is no such object
  val,       \* val[o]: what o holds
  held,      \* objects a variable of the script refers to
  exception, \* whether the last call raised an exception
  crashed    \* whether the program has ended at a null pointer

storageVars == <<script, buffer, refCount, refs, val, held, exception, crashed>>

Kind == script.kind
Objects == script.objects
HoldsObjects == Kind \in {"reference", "value"}
Default == IF Kind = "handle" THEN None ELSE Zero

-----------------------------------------------------------------------------
(* A call works on the slots of one array and on the objects:               *)
(*   [max, data, refs, val, raised]                                         *)
Uses(o, s) == Cardinality({k \in DOMAIN s : s[k] = o})
AddRef(w, s) == [w EXCEPT !.refs = [o \in Objects |-> w.refs[o] + Uses(o, s)]]
ReleaseAll(w, s) == [w EXCEPT !.refs = [o \in Objects |-> w.refs[o] - Uses(o, s)]]
Raise(w) == [w EXCEPT !.raised = TRUE]
Lesser(m, n) == IF m < n THEN m ELSE n

\* Other slots in the place of some, which are not released.
Splice(s, at, count, new) == SubSeq(s, 1, at) \o new \o SubSeq(s, at + count + 1, Len(s))
Put_Forgets(w, at, count, new) == AddRef([w EXCEPT !.data = Splice(w.data, at, count, new)], new)

\* Other slots in the place of some: what the new ones refer to is counted, what
\* the old ones did is released.
Put(w, at, count, new) ==
  LET gone == SubSeq(w.data, at + 1, at + count) IN
  [w EXCEPT !.data = Splice(w.data, at, count, new),
            !.refs = [o \in Objects |-> w.refs[o] + Uses(o, new) - Uses(o, gone)]]

Free(w) == {o \in Objects : w.refs[o] = 0}

\* CreateScriptObject, for n objects.
NewObjects(w, n) ==
  CHOOSE new \in [1 .. n -> Free(w)] : \A j, k \in 1 .. n : j # k => new[j] # new[k]

\* The slots Construct fills when the constructors of the first `made' succeed.
Constructed(w, n, made) ==
  IF HoldsObjects
  THEN NewObjects(w, Lesser(made, n)) \o [k \in 1 .. n - Lesser(made, n) |-> None]
  ELSE [k \in 1 .. n |-> Default]

\* Construct: fresh slots are put in place of nothing at position `at'.
Construct(w, at, n, made) ==
  LET fresh == [w EXCEPT !.val = [o \in Objects |-> IF o \in Free(w) THEN Zero ELSE w.val[o]]]
      wider == Put(fresh, at, 0, Constructed(w, n, made))
  IN IF made < n THEN Raise(wider) ELSE wider

\* Destruct, and the elements behind moved over the gap.
Destruct(w, at, n) == Put(w, at, n, <<>>)

\* The capacity not noted in the new buffer.
ResizeBy_Kept(w, delta, at, mem, made) ==
  LET size == Len(w.data) IN
  CASE delta > 0 /\ (size + delta > script.maxSize \/ ~mem) -> Raise(w)
    [] delta > 0 /\ size + delta <= script.maxSize /\ mem -> Construct(w, Lesser(at, size), delta, made)
    [] delta = 0 -> w
    [] delta < 0 -> LET n == Lesser(-delta, size) IN Destruct(w, Lesser(at, size - n), n)

\* Resize(delta, at).
ResizeBy(w, delta, at, mem, made) ==
  LET size == Len(w.data)
      grow == w.max < size + delta
  IN CASE delta > 0 /\ size + delta > script.maxSize -> Raise(w)
       [] delta > 0 /\ size + delta <= script.maxSize /\ grow /\ ~mem -> Raise(w)
       [] delta > 0 /\ size + delta <= script.maxSize /\ (grow => mem) ->
            Construct([w EXCEPT !.max = IF grow THEN size + delta ELSE w.max],
                      Lesser(at, size), delta, made)
       [] delta = 0 -> w
       [] delta < 0 -> LET n == Lesser(-delta, size) IN Destruct(w, Lesser(at, size - n), n)

\* Resize(numElements): the difference fits an int.
ResizeTo(w, n, mem, made) ==
  IF n > script.maxSize THEN Raise(w) ELSE ResizeBy(w, n - Len(w.data), n + Len(w.data), mem, made)

\* What a script passes of an element: the value of a primitive, a handle, or
\* the contents of an object.
ContentOf(slot, v) == IF HoldsObjects /\ slot # None THEN v[slot] ELSE slot

\* SetValue for the elements at i, i + 1, ...: handles take the place of those
\* there were, objects are assigned.  None is set behind the end.
SetSlots(w, i, vs) ==
  LET n   == IF i < Len(w.data) THEN Lesser(Len(vs), Len(w.data) - i) ELSE 0
      new == SubSeq(vs, 1, n)
      To(o) == {k \in 1 .. n : w.data[i + k] = o /\ new[k] # None}
      set == IF HoldsObjects
             THEN [w EXCEPT !.val = [o \in Objects |->
                     IF To(o) = {} THEN w.val[o] ELSE new[CHOOSE k \in To(o) : TRUE]]]
             ELSE Put(w, Lesser(i, Len(w.data)), n, new)
  IN IF n < Len(vs) THEN Raise(set) ELSE set

SetSlot(w, i, v) == SetSlots(w, i, <<v>>)

\* CopyBuffer.
CopyBuffer(w, vs) ==
  SetSlots(w, 0, SubSeq(vs, 1, Lesser(Len(w.data), Len(vs))))

-----------------------------------------------------------------------------
Contents(a) == [k \in DOMAIN buffer[a].data |-> ContentOf(buffer[a].data[k], val)]
Usable(a) == refCount[a] > 0 /\ buffer[a] # None
Work(a) == [max |-> buffer[a].max, data |-> buffer[a].data, refs |-> refs, val |-> val, raised |-> FALSE]
Empty == [max |-> 0, data |-> <<>>, refs |-> refs, val |-> val, raised |-> FALSE]

\* What a variable of the script, or a literal of it, can pass as an element.
Passable == IF Kind = "handle" THEN held \cup {None} ELSE Values

Alloc == IF script.memoryFails THEN BOOLEAN ELSE {TRUE}
Makes(n) == IF script.memoryFails /\ HoldsObjects THEN 0 .. n ELSE {n}
Creatable(n) == HoldsObjects => n <= Cardinality(Free(Empty))

\* A call leaves the array a with the slots of w.
Done(a, w) ==
  /\ buffer' = [buffer EXCEPT ![a] = [max |-> w.max, data |-> w.data]]
  /\ refs' = w.refs
  /\ val' = [o \in Objects |-> IF w.refs[o] = 0 THEN Zero ELSE w.val[o]]
  /\ exception' = w.raised
  /\ UNCHANGED <<script, refCount, held, crashed>>

-----------------------------------------------------------------------------
\* CreateBuffer; no room leaves the array without a buffer.
CreateBuffer(n, mem) == n <= script.maxSize /\ mem

\* A constructor: the array has one reference, the caller's.
Born(a, ok, w) ==
  /\ refCount[a] = 0
  /\ refCount' = [refCount EXCEPT ![a] = 1]
  /\ buffer' = [buffer EXCEPT ![a] = IF ok THEN [max |-> w.max, data |-> w.data] ELSE None]
  /\ refs' = IF ok THEN w.refs ELSE refs
  /\ val' = IF ok THEN [o \in Objects |-> IF w.refs[o] = 0 THEN Zero ELSE w.val[o]] ELSE val
  /\ exception' = (ok => w.raised)
  /\ UNCHANGED <<script, held, crashed>>

\* A constructor goes on with the buffer it could not have.
WritesThroughNull(a) ==
  /\ refCount[a] = 0
  /\ crashed' = TRUE
  /\ UNCHANGED <<script, buffer, refCount, refs, val, held, exception>>

Filled(n, made) == Construct([Empty EXCEPT !.max = n], 0, n, made)

CreateLength(a, n) ==
  /\ Creatable(n)
  /\ \E mem \in Alloc, made \in Makes(n) : Born(a, CreateBuffer(n, mem), Filled(n, made))

\* GetSize is asked of the buffer.
CreateFilled(a, n, v) ==
  /\ Creatable(n)
  /\ \E mem \in Alloc, made \in Makes(n) :
       IF n <= script.maxSize /\ ~mem THEN WritesThroughNull(a)
       ELSE Born(a, CreateBuffer(n, mem), SetSlots(Filled(n, made), 0, [k \in 1 .. n |-> v]))

\* A list literal: handles and objects of a reference type are moved out of the
\* list, what is left in it the engine releases; values are assigned.
ListItems(w, vs) ==
  CASE Kind = "primitive" -> [w |-> w, items |-> vs]
    [] Kind = "handle" -> [w |-> AddRef(w, vs), items |-> vs]
    [] HoldsObjects ->
         LET new == NewObjects(w, Len(vs)) IN
         [w |-> AddRef([w EXCEPT !.val = [o \in Objects |->
                   IF \E k \in DOMAIN new : new[k] = o
                   THEN vs[CHOOSE k \in DOMAIN new : new[k] = o] ELSE w.val[o]]], new),
          items |-> new]

LeftInList(items) == IF Kind \in {"handle", "reference"} THEN <<>> ELSE items

FromList(vs, made) ==
  LET list == ListItems([Empty EXCEPT !.max = Len(vs)], vs)
      full == IF Kind = "value"
              THEN SetSlots(Construct(list.w, 0, Len(vs), made), 0, vs)
              ELSE [list.w EXCEPT !.data = list.items]
  IN ReleaseAll(full, LeftInList(list.items))

\* The list is copied to the buffer at once; only values are assigned, one by one,
\* and assigned to nothing if there is no buffer.
CreateFromList(a, vs) ==
  /\ Creatable(2 * Len(vs))
  /\ \A k \in DOMAIN vs : vs[k] \in Passable
  /\ \E mem \in Alloc, made \in Makes(Len(vs)) :
       IF Len(vs) \in 1 .. script.maxSize /\ ~mem /\ Kind # "value" THEN WritesThroughNull(a)
       ELSE Born(a, CreateBuffer(Len(vs), mem), FromList(vs, made))

\* The copy constructor: an empty buffer, and operator=, which asks it for its size.
CreateCopy(a, b) ==
  LET n == Len(buffer[b].data) IN
  /\ Usable(b) /\ Creatable(n)
  /\ \E first, mem \in Alloc, made \in Makes(n) :
       IF ~first THEN WritesThroughNull(a)
       ELSE Born(a, TRUE, CopyBuffer(ResizeTo(Empty, n, mem, made), Contents(b)))

-----------------------------------------------------------------------------
\* operator=. Assignment to itself does nothing.
AssignTo(a, b, mem, made) ==
  IF a = b THEN Work(a)
  ELSE CopyBuffer(ResizeTo(Work(a), Len(buffer[b].data), mem, made), Contents(b))

Assign(a, b) ==
  /\ Usable(a) /\ Usable(b) /\ Creatable(Len(buffer[b].data))
  /\ \E mem \in Alloc, made \in Makes(Len(buffer[b].data)) :
       Done(a, AssignTo(a, b, mem, made))

SetValue(a, i, v) == Usable(a) /\ Done(a, SetSlot(Work(a), i, v))

\* A greater capacity and the same elements.
ReserveIn(w, n, mem) ==
  CASE n <= w.max -> w
    [] n > w.max /\ (n > script.maxSize \/ ~mem) -> Raise(w)
    [] n > w.max /\ n <= script.maxSize /\ mem -> [w EXCEPT !.max = n]

Reserve(a, n) ==
  /\ Usable(a) /\ n <= script.room
  /\ \E mem \in Alloc : Done(a, ReserveIn(Work(a), n, mem))

Resize(a, n) ==
  /\ Usable(a) /\ n <= script.room /\ Creatable(n)
  /\ \E mem \in Alloc, made \in Makes(n) :
       Done(a, ResizeTo(Work(a), n, mem, made))

\* Unsigned: start + count is taken modulo Word, before and after the cap.
RangeEnd(w, start, count) ==
  LET end == (start + count) % Word IN IF end > Len(w.data) THEN Len(w.data) ELSE end

\* The count of elements stays.
RemoveSlots_Keeps(w, start, count) ==
  LET end == RangeEnd(w, start, count) IN
  CASE count = 0 -> w
    [] count # 0 /\ start > Len(w.data) -> Raise(w)
    [] count # 0 /\ start <= Len(w.data) ->
         ReleaseAll([w EXCEPT !.data =
                       SubSeq(w.data, 1, start) \o SubSeq(w.data, end + 1, Len(w.data))
                         \o SubSeq(w.data, Len(w.data) - end + start + 1, Len(w.data))],
                    SubSeq(w.data, start + 1, end))
RemoveSlots(w, start, count) ==
  LET end == RangeEnd(w, start, count) IN
  CASE count = 0 -> w
    [] count # 0 /\ start > Len(w.data) -> Raise(w)
    [] count # 0 /\ start <= Len(w.data) -> Put(w, start, end - start, <<>>)

RemoveRange(a, start, count) ==
  Usable(a) /\ Done(a, RemoveSlots(Work(a), start, count))

\* Room for one more at i, and the element set there.
InsertSlot(w, i, v, mem, made) ==
  IF i > Len(w.data) THEN Raise(w)
  ELSE LET wider == ResizeBy(w, 1, i, mem, made)
           set   == SetSlot(wider, i, v)
       IN [set EXCEPT !.raised = set.raised \/ wider.raised]

InsertAt(a, i, v) ==
  /\ Usable(a) /\ Len(buffer[a].data) < script.room /\ Creatable(1)
  /\ \E mem \in Alloc, made \in Makes(1) :
       Done(a, InsertSlot(Work(a), i, v, mem, made))

InsertLast(a, v) == Usable(a) /\ InsertAt(a, Len(buffer[a].data), v)

Inserted(w, vals) == [k \in DOMAIN w.data |-> ContentOf(w.data[k], vals)]

\* Inserting the array into itself as if it were another.
InsertSlots_AsOther(w, i, vs, self, mem, made) ==
  IF i > Len(w.data) THEN Raise(w)
  ELSE LET wider == ResizeBy(w, Len(vs), i, mem, made)
           now   == Inserted(wider, wider.val)
       IN SetSlots(wider, i, IF self THEN SubSeq(now, 1, Len(vs)) ELSE vs)

\* Another array is copied behind i; the array itself in two parts, around the
\* room that was made for it.
InsertSlots(w, i, vs, self, mem, made) ==
  IF i > Len(w.data) THEN Raise(w)
  ELSE LET n     == Len(vs)
           wider == ResizeBy(w, n, i, mem, made)
           now   == Inserted(wider, wider.val)
       IN IF self
          THEN SetSlots(SetSlots(wider, i, SubSeq(now, 1, i)),
                        i + i, SubSeq(now, i + n + 1, Len(now)))
          ELSE SetSlots(wider, i, vs)

InsertArray(a, i, b) ==
  LET n == Len(buffer[b].data) IN
  /\ Usable(a) /\ Usable(b)
  /\ Len(buffer[a].data) + n <= script.room /\ Creatable(n)
  /\ \E mem \in Alloc, made \in Makes(n) :
       Done(a, InsertSlots(Work(a), i, Contents(b), a = b, mem, made))

RemoveSlot(w, i) ==
  IF i \in 0 .. Len(w.data) - 1 THEN ResizeBy(w, -1, i, TRUE, 0) ELSE Raise(w)

RemoveAt(a, i) == Usable(a) /\ Done(a, RemoveSlot(Work(a), i))

\* Of an empty array, the greatest asUINT.
RemoveLast(a) == Usable(a) /\ RemoveAt(a, Len(buffer[a].data) - 1)

\* Slots are swapped from both ends to the middle.
Reversed(s) ==
  [k \in DOMAIN s |-> IF k <= Len(s) \div 2 \/ k > Len(s) - Len(s) \div 2
                      THEN s[Len(s) + 1 - k] ELSE s[k]]

Reverse(a) ==
  Usable(a) /\ Done(a, [Work(a) EXCEPT !.data = Reversed(buffer[a].data)])

\* The collector lets an array it destroys give up what it holds.
ReleaseAllHandles(a) == Resize(a, 0)

-----------------------------------------------------------------------------
AddReference(a) ==
  /\ refCount[a] \in 1 .. script.maxReferences - 1
  /\ refCount' = [refCount EXCEPT ![a] = @ + 1]
  /\ UNCHANGED <<script, buffer, refs, val, held, exception, crashed>>

\* The last reference takes the buffer and what its slots hold with it.
Release(a) ==
  LET last  == refCount[a] = 1
      slots == IF last /\ buffer[a] # None THEN buffer[a].data ELSE <<>>
      w     == ReleaseAll(Empty, slots)
  IN /\ refCount[a] > 0
     /\ refCount' = [refCount EXCEPT ![a] = @ - 1]
     /\ buffer' = [buffer EXCEPT ![a] = IF last THEN None ELSE @]
     /\ refs' = w.refs
     /\ val' = [o \in Objects |-> IF w.refs[o] = 0 THEN Zero ELSE val[o]]
     /\ IF last /\ buffer[a] # None
        THEN exception' = FALSE
        ELSE UNCHANGED exception
     /\ UNCHANGED <<script, held, crashed>>

\* The places of an array that refer to an object, and those the collector is told
\* of (EnumReferences).
Slots(a) == IF buffer[a] = None THEN <<>> ELSE buffer[a].data
Places(a, o) == {<<a, k>> : k \in {j \in DOMAIN Slots(a) : Slots(a)[j] = o}}
Enumerated(a, o) == IF Kind \in {"handle", "reference"} THEN Places(a, o) ELSE {}

\* Variables of the script.
NewObject ==
  /\ Kind = "handle" /\ Free(Empty) # {}
  /\ LET o == NewObjects(Empty, 1)[1] IN
       /\ refs' = [refs EXCEPT ![o] = 1]
       /\ held' = held \cup {o}
  /\ UNCHANGED <<script, buffer, refCount, val, exception, crashed>>

DropObject(o) ==
  /\ o \in held
  /\ held' = held \ {o}
  /\ refs' = [refs EXCEPT ![o] = @ - 1]
  /\ UNCHANGED <<script, buffer, refCount, val, exception, crashed>>

StorageInit ==
  /\ script \in Scripts
  /\ buffer = [a \in Arrays |-> None]
  /\ refCount = [a \in Arrays |-> 0]
  /\ refs = [o \in Objects |-> 0]
  /\ val = [o \in Objects |-> Zero]
  /\ held = {}
  /\ exception = FALSE /\ crashed = FALSE

ArrayCall ==
  \/ NewObject
  \/ \E o \in Objects : DropObject(o)
  \/ \E a \in Arrays :
       \/ \E n \in script.numbers : CreateLength(a, n) \/ Resize(a, n) \/ Reserve(a, n)
       \/ \E n \in script.numbers, v \in Passable : CreateFilled(a, n, v) \/ SetValue(a, n, v) \/ InsertAt(a, n, v)
       \/ \E vs \in script.lists : CreateFromList(a, vs)
       \/ \E v \in Passable : InsertLast(a, v)
       \/ \E b \in Arrays : CreateCopy(a, b) \/ Assign(a, b)
       \/ \E i \in script.numbers, b \in Arrays : InsertArray(a, i, b)
       \/ \E i \in script.numbers : RemoveAt(a, i)
       \/ \E i, n \in script.numbers : RemoveRange(a, i, n)
       \/ RemoveLast(a) \/ Reverse(a) \/ ReleaseAllHandles(a)
       \/ AddReference(a) \/ Release(a)

StorageNext == ~crashed /\ ArrayCall

StorageSpec == StorageInit /\ [][StorageNext]_storageVars

-----------------------------------------------------------------------------
StorageTypeOK ==
  /\ \A a \in Arrays : buffer[a] # None =>
       /\ buffer[a].max \in 0 .. script.maxSize
       /\ \A k \in DOMAIN buffer[a].data :
            buffer[a].data[k] \in (IF Kind = "primitive" THEN Values ELSE Objects \cup {None})
  /\ refCount \in [Arrays -> 0 .. script.maxReferences]
  /\ refs \in [Objects -> Nat]
  /\ val \in [Objects -> Values]
  /\ held \subseteq Objects
  /\ exception \in BOOLEAN

\* The elements fit into the memory of the buffer, whatever was inserted,
\* removed, reserved or copied before (Resize and RemoveRange of CScriptArray).
WithinCapacity == \A a \in Arrays : buffer[a] # None => Len(buffer[a].data) <= buffer[a].max

\* An object is counted once for every slot and every variable that refers to
\* it: no call of CScriptArray leaks one, and none releases one still in use.
References(o) == UNION {Places(a, o) : a \in Arrays}
RefCountsExact ==
  \A o \in Objects : refs[o] = Cardinality(References(o)) + (IF o \in held THEN 1 ELSE 0)

\* Every slot of an array of objects has an object of its own: a copy of an
\* element is a copy of its contents, in Insert, operator= and Reverse alike.
ElementsNotShared ==
  HoldsObjects =>
    \A a, b \in Arrays : \A i \in DOMAIN Slots(a), j \in DOMAIN Slots(b) :
      (Slots(a)[i] = Slots(b)[j] /\ Slots(a)[i] # None) => a = b /\ i = j

\* What EnumReferences tells the collector are all references but those of the
\* variables of the script: it collects no element that is in use, and all others.
CollectorSeesAll ==
  Kind \in {"handle", "reference"} =>
    \A o \in Objects :
      refs[o] - Cardinality(UNION {Enumerated(a, o) : a \in Arrays})
        = (IF o \in held THEN 1 ELSE 0)

\* References are what slots and variables hold, for the counts of the objects and
\* for the collector alike.
ReferencesRight == StorageTypeOK /\ RefCountsExact /\ CollectorSeesAll

\* Every element lies inside the memory of its array, and is its own.
StorageRight == WithinCapacity /\ ElementsNotShared

\* Nothing is refused for the lack of room.
Ample == ~script.memoryFails /\ script.room <= script.maxSize

\* What an array shows: values, or handles.
AllElements == {None} \cup Values \cup UNION {s.objects : s \in {h \in Scripts : h.kind = "handle"}}
List == INSTANCE ArrayList WITH
  lists <- [a \in Arrays |-> IF buffer[a] = None THEN None ELSE Contents(a)],
  default <- Default, raised <- exception, Null <- None,
  Elements <- AllElements,
  Lists <- UNION {s.lists : s \in Scripts},
  Numbers <- UNION {s.numbers : s \in Scripts}

\* The array add-on implements the list of its documentation: whatever happens to
\* capacities, objects and counts, the elements of arrays change as a list does.
ImplementsList == List!Init /\ [][Ample => List!Next]_(List!vars)

\* With room enough, every call does to the elements what its own name says, or
\* raises an exception and leaves them as they were.
Promised ==
  Ample => \A a \in Arrays :
       /\ \A k \in script.numbers, v \in Passable :
            (SetValue(a, k, v) => List!SetValue(a, k, v)) /\ (InsertAt(a, k, v) => List!InsertAt(a, k, v))
       /\ \A v \in Passable :
            InsertLast(a, v) => List!InsertLast(a, v)
       /\ \A k \in script.numbers, b \in Arrays : InsertArray(a, k, b) => List!InsertArray(a, k, b)
       /\ \A k \in script.numbers : RemoveAt(a, k) => List!RemoveAt(a, k)
       /\ \A k, n \in script.numbers : RemoveRange(a, k, n) => List!RemoveRange(a, k, n)
       /\ \A n \in script.numbers : (Resize(a, n) => List!Resize(a, n)) /\ (Reserve(a, n) => List!Reserve(a, n))
       /\ \A b \in Arrays : Assign(a, b) => List!Assign(a, b)
       /\ (RemoveLast(a) => List!RemoveLast(a))
       /\ (Reverse(a) => List!Reverse(a))

\* The documentation of the array says what each method does to the elements; as
\* long as nothing runs out, every call keeps that promise.
CallsAsPromised == [][Promised]_storageVars
=============================================================================
