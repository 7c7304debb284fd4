------------------------------ MODULE ArraySort ------------------------------
(***************************************************************************)
(* The calls of CScriptArray that compare elements: the sorts, find and     *)
(* operator==.  Elements are primitives, compared by Less, or objects,      *)
(* compared by a method or a callback of the script that runs in            *)
(* the middle of the call: on the context that is calling, pushed one state *)
(* deeper, or on a context of its own.                                      *)
(*                                                                          *)
(* The callback is taken to leave the array as it is.  Indices are those of *)
(* the code: a list is a function on 0 .. size - 1.                         *)
(***************************************************************************)
EXTENDS Integers, FiniteSets

CONSTANTS
  Items,     \* elements: numbers
  Null,      \* the null handle
  Calls,     \* the calls made: "sort" and "sortObjects" (sortAsc and sortDesc of
             \* primitives and of objects), "sortCallback", "find", "equals"
  Lists,     \* Lists[c]: what arrays hold when c is called
  Orders,    \* Orders[c]: what callbacks answer: sets of pairs of items
  Bits32,    \* 2^32: values of an asUINT, and of what Less compares of an integer
  Starts,    \* Starts[c]: startAt and count as scripts pass them
  Failures   \* how a callback may end but by returning: "exception", "aborted"

Size(l) == Cardinality(DOMAIN l)

ASSUME CallsAssumption == Calls \subseteq {"sort", "sortObjects", "sortCallback", "find", "equals"}
ASSUME ItemsAssumption == Items \subseteq Int /\ Null \notin Items
\* Primitives are not null.
ASSUME ListsAssumption ==
  \A c \in Calls : \A l \in Lists[c] :
    /\ IsFiniteSet(DOMAIN l)
    /\ l \in [0 .. Size(l) - 1 -> IF c = "sort" THEN Items ELSE Items \cup {Null}]
ASSUME BitsAssumption ==
  Bits32 \in Nat /\ Bits32 % 2 = 0 /\ \A c \in Calls : Starts[c] \subseteq 0 .. Bits32 - 1
ASSUME FailuresAssumption == Failures \subseteq {"exception", "aborted"}

VARIABLES
  call,     \* [op, start, count, asc, value, other, method]: the call, its arguments,
            \* and whether the type has the method that compares
  before,   \* the elements when it was called
  order,    \* what the callback answers
  list,     \* the elements
  lo, hi,   \* the part that is sorted or searched
  i, j,     \* loop variables
  tmp,      \* the element taken out of the list
  stage,    \* "call", "outer", "compare", "done", or "undefined": nothing is promised
  depth,    \* states pushed on the calling context
  requested, \* contexts taken from the engine
  nested,   \* whether callbacks run on the calling context
  status,   \* how the last callback ended
  failed,   \* how callbacks have ended but by returning
  aborted,  \* whether the calling context is told to abort
  result,   \* what is returned
  raised    \* whether an exception was raised

input == <<call, before, order>>
loop == <<lo, hi, i, j, tmp>>
context == <<depth, requested, nested, status, failed, aborted>>
sortVars == <<input, list, loop, stage, context, result, raised>>

-----------------------------------------------------------------------------
Least(m, n) == IF m < n THEN m ELSE n
AsInt(n) == IF n >= Bits32 \div 2 THEN n - Bits32 ELSE n

\* Less for primitives: of a 64-bit integer the switch of the types compares
\* what fits an int.
Low(x) == AsInt(x % Bits32)

Less(x, y, asc) == IF asc THEN Low(x) < Low(y) ELSE Low(y) < Low(x)

\* The comparison object std::sort is given.
CustomLess(x, y, asc) ==
  LET a == IF asc THEN x ELSE y
      b == IF asc THEN y ELSE x
  IN CASE a = Null -> TRUE
       [] a # Null /\ b = Null -> FALSE
       [] a # Null /\ b # Null -> <<a, b>> \in order

\* What a callback answers of the elements it is asked about is an order, in which
\* different ones may be equal. std::sort does not ask about null handles.
Elements == {before[k] : k \in DOMAIN before}
Compared == IF call.op = "sortObjects" THEN Elements \ {Null} ELSE Elements
IsOrder == \A x, y, z \in Compared :
  <<x, y>> \in order =>
    <<y, x>> \notin order /\ (<<x, z>> \in order \/ <<z, y>> \in order)

NeedsContext(op) == op # "sort"

\* The context of the caller, if it can be pushed, or another one.
Acquire ==
  \/ depth' = depth + 1 /\ requested' = requested /\ nested' = TRUE
  \/ depth' = depth /\ requested' = requested + 1 /\ nested' = FALSE

\* Sort with a callback: the sum cannot wrap, and is capped.
CallbackEnd(start, count, n) ==
  Least(IF start + count >= Bits32 THEN Bits32 - 1 ELSE start + count, n)

\* Sort: signed, and the sum as it comes.
Bounds(op, start, count, n) ==
  CASE op \in {"sort", "sortObjects"} -> [lo |-> AsInt(start), hi |-> AsInt((start + count) % Bits32)]
    [] op = "sortCallback" -> [lo |-> start, hi |-> CallbackEnd(start, count, n)]
    [] op = "find" -> [lo |-> start, hi |-> n]
    [] op = "equals" -> [lo |-> 0, hi |-> n]

OutOfBounds(op, b, n) ==
  \/ op \in {"sort", "sortObjects"} /\ (b.lo >= n \/ b.hi > n)
  \/ op = "sortCallback" /\ b.lo >= n

Sorts == {"sort", "sortObjects", "sortCallback"}
Insertions == {"sort", "sortCallback"}
Nothing == -1

\* Without the method find and sort are refused before anything else.
NoMethod == call.op \in {"find", "sortObjects"} /\ ~call.method

\* Nothing to do, or nothing that can be done.
ReturnsAtOnce ==
  LET n == Size(list) IN
  \/ NoMethod
  \/ call.op \in Sorts /\ call.count < 2
  \/ call.op \in Sorts /\ OutOfBounds(call.op, Bounds(call.op, call.start, call.count, n), n)
  \/ call.op = "equals" /\ Size(call.other) # n

Refuse ==
  /\ stage = "call" /\ ReturnsAtOnce
  /\ stage' = "done"
  /\ raised' = (NoMethod \/ (call.op \in Sorts /\ call.count >= 2))
  /\ result' = (IF call.op = "equals" THEN 0 ELSE result)
  /\ UNCHANGED <<input, list, loop, context>>

Begin ==
  LET b == Bounds(call.op, call.start, call.count, Size(list)) IN
  /\ stage = "call" /\ ~ReturnsAtOnce
  /\ lo' = b.lo /\ hi' = b.hi
  /\ i' = (IF call.op \in Sorts THEN b.lo + 1 ELSE b.lo)
  /\ IF NeedsContext(call.op) THEN Acquire ELSE UNCHANGED <<depth, requested, nested>>
  /\ stage' = "outer"
  /\ result' = (IF call.op = "equals" THEN 1 ELSE Nothing)
  /\ UNCHANGED <<input, list, j, tmp, status, failed, aborted, raised>>

-----------------------------------------------------------------------------
(* The sorts.                                                               *)
TakeOut ==
  /\ stage = "outer" /\ call.op \in Insertions /\ i < hi
  /\ tmp' = list[i] /\ j' = i - 1
  /\ stage' = "compare"
  /\ UNCHANGED <<input, list, lo, hi, i, context, result, raised>>

\* Moved the wrong way.
Shift_Down ==
  /\ list' = [list EXCEPT ![j] = list[j + 1]]
  /\ j' = j - 1
  /\ UNCHANGED <<lo, hi, i, tmp, stage>>

Shift ==
  /\ list' = [list EXCEPT ![j + 1] = list[j]]
  /\ j' = j - 1
  /\ UNCHANGED <<lo, hi, i, tmp, stage>>

PutBack ==
  /\ list' = [list EXCEPT ![j + 1] = tmp]
  /\ i' = i + 1
  /\ stage' = "outer"
  /\ UNCHANGED <<lo, hi, j, tmp>>

ComparePrimitives ==
  /\ stage = "compare" /\ call.op = "sort"
  /\ IF j >= lo /\ Less(tmp, list[j], call.asc) THEN Shift ELSE PutBack
  /\ UNCHANGED <<input, context, result, raised>>

\* A callback ends by returning, or in one of the other ways.
Execute(answers) ==
  \/ status' = "finished" /\ failed' = failed /\ answers
  \/ \E f \in Failures : status' = f /\ failed' = failed \cup {f}

CompareByCallback ==
  /\ stage = "compare" /\ call.op = "sortCallback" /\ j >= lo
  /\ \/ Execute(<<tmp, list[j]>> \in order) /\ status' = "finished" /\ Shift
     \/ Execute(<<tmp, list[j]>> \notin order) /\ PutBack
  /\ UNCHANGED <<input, depth, requested, nested, aborted, result, raised>>

ReachedStart ==
  /\ stage = "compare" /\ call.op = "sortCallback" /\ j < lo
  /\ PutBack
  /\ UNCHANGED <<input, context, result, raised>>

\* What std::sort is defined for: an order, and of no two elements each to precede
\* the other.
Consistent ==
  /\ IsOrder
  /\ \A k, m \in lo .. hi - 1 :
       k # m => ~(CustomLess(before[k], before[m], call.asc) /\ CustomLess(before[m], before[k], call.asc))

Arrangements ==
  {[k \in DOMAIN list |-> IF lo <= k /\ k < hi THEN list[p[k]] ELSE list[k]] :
     p \in {p \in [lo .. hi - 1 -> lo .. hi - 1] : \A k, m \in lo .. hi - 1 : p[k] = p[m] => k = m}}
Arranged(l) ==
  \A k, m \in lo .. hi - 1 : k < m /\ l[k] # l[m] => ~CustomLess(l[m], l[k], call.asc)

\* std::sort: an arrangement by the order. Of another comparison, and of one that
\* answers false because the method of the script did not return, it may make any
\* arrangement or leave the elements and go on in memory that is not theirs.
StdSort ==
  /\ stage = "outer" /\ call.op = "sortObjects" /\ i < hi
  /\ \/ /\ Execute(Consistent) /\ status' = "finished"
        /\ list' \in {l \in Arrangements : Arranged(l)} /\ stage' = stage
     \/ /\ Execute(~Consistent)
        /\ \/ list' \in Arrangements /\ stage' = stage
           \/ list' = list /\ stage' = "undefined"
  /\ i' = hi
  /\ UNCHANGED <<input, lo, hi, j, tmp, depth, requested, nested, aborted, result, raised>>

-----------------------------------------------------------------------------
(* find and operator==.                                                     *)
Against(k) == IF call.op = "find" THEN call.value ELSE call.other[k]
OnTrue(k) ==
  IF call.op = "find" THEN result' = k /\ i' = hi ELSE result' = result /\ i' = i + 1
OnFalse ==
  IF call.op = "find" THEN result' = result /\ i' = i + 1 ELSE result' = 0 /\ i' = hi

\* Equals: the same object, null included, is not asked; a null object cannot be;
\* without a method different ones are not equal.
Equals ==
  /\ stage = "outer" /\ call.op \notin Sorts /\ i < hi
  /\ LET x == list[i]
         y == Against(i)
     IN \/ x = y /\ OnTrue(i) /\ UNCHANGED <<status, failed>>
        \/ x # y /\ ~call.method /\ OnFalse /\ UNCHANGED <<status, failed>>
        \/ x # y /\ call.method /\ x # Null /\ Execute(<<x, y>> \in order) /\ status' = "finished" /\ OnTrue(i)
        \/ x # y /\ call.method /\ x # Null /\ Execute(<<x, y>> \notin order) /\ OnFalse
        \/ x # y /\ call.method /\ x = Null /\ status' = "exception" /\ failed' = failed /\ OnFalse
  /\ UNCHANGED <<input, list, lo, hi, j, tmp, stage, depth, requested, nested, aborted, raised>>

-----------------------------------------------------------------------------

\* The caller is not told of the abort.
Finish_Silent ==
  /\ stage = "outer" /\ i >= hi
  /\ stage' = "done"
  /\ IF NeedsContext(call.op)
     THEN IF nested THEN depth' = depth - 1 /\ requested' = requested
          ELSE requested' = requested - 1 /\ UNCHANGED depth
     ELSE UNCHANGED <<depth, requested>>
  /\ UNCHANGED <<input, list, loop, nested, status, failed, aborted, result, raised>>

\* The state is popped; an abort of the last callback is handed on.
Finish ==
  /\ stage = "outer" /\ i >= hi
  /\ stage' = "done"
  /\ IF NeedsContext(call.op)
     THEN IF nested
          THEN depth' = depth - 1 /\ aborted' = (status = "aborted") /\ requested' = requested
          ELSE requested' = requested - 1 /\ UNCHANGED <<depth, aborted>>
     ELSE UNCHANGED <<depth, requested, aborted>>
  /\ UNCHANGED <<input, list, loop, nested, status, failed, result, raised>>

Arguments(op) ==
  [op : {op}, start : Starts[op], count : Starts[op], asc : BOOLEAN,
   value : {Null} \cup Items, other : Lists[op], method : BOOLEAN]
Sensible(c) ==
  /\ c.op \notin {"sort", "sortObjects"} => c.asc
  /\ c.op \notin Sorts => c.count = 0
  /\ c.op = "equals" => c.start = 0
  /\ c.op # "find" => c.value = Null
  /\ c.op \in Insertions => c.method
  /\ c.op # "equals" => c.other = CHOOSE l \in Lists[c.op] : TRUE

SortInit ==
  /\ \E op \in Calls : call \in {c \in Arguments(op) : Sensible(c)}
  /\ before \in Lists[call.op] /\ list = before
  /\ order \in Orders[call.op]
  /\ lo = 0 /\ hi = 0 /\ i = 0 /\ j = 0 /\ tmp = Null
  /\ stage = "call"
  /\ depth = 0 /\ requested = 0 /\ nested = FALSE
  /\ status = "none" /\ failed = {} /\ aborted = FALSE
  /\ result = Nothing /\ raised = FALSE

SortNext ==
  \/ Refuse \/ Begin
  \/ TakeOut \/ ComparePrimitives \/ CompareByCallback \/ ReachedStart \/ StdSort
  \/ Equals
  \/ Finish

SortSpec == SortInit /\ [][SortNext]_sortVars /\ WF_sortVars(SortNext)

-----------------------------------------------------------------------------
SortTyped ==
  /\ DOMAIN list = DOMAIN before
  /\ \A k \in DOMAIN list : list[k] \in Items \cup {Null}
  /\ tmp \in Items \cup {Null}
  /\ stage \in {"call", "outer", "compare", "done", "undefined"}
  /\ depth \in 0 .. 1 /\ requested \in 0 .. 1 /\ {nested, aborted, raised} \subseteq BOOLEAN
  /\ failed \subseteq {"exception", "aborted"}
  /\ status \in {"none", "finished", "exception", "aborted"}
  /\ result \in (Nothing .. Size(list)) \cup {0, 1}

\* The list as it is once the element taken out is back in the gap at j + 1.
Whole == IF stage = "compare" THEN [list EXCEPT ![j + 1] = tmp] ELSE list
Occurrences(l, x) == Cardinality({k \in DOMAIN l : l[k] = x})

\* Not so when the comparison std::sort is given is no order or fails.
Defined == call.op = "sortObjects" => failed = {} /\ Consistent

\* No comparison, however inconsistent or failing, makes the insertion sorts lose an
\* element or keep one twice: a handle is copied without its reference being counted.
SortKeepsElements ==
  Defined => \A x \in Items \cup {Null} : Occurrences(Whole, x) = Occurrences(before, x)

\* What is not in the part to be sorted stays where it was.
SortStaysInside ==
  (Defined /\ stage # "call") => \A k \in DOMAIN list : (k < lo \/ k >= hi) => list[k] = before[k]

\* "Check if we could access invalid item while sorting": none is.
NoInvalidItem == stage \in {"outer", "compare"} => lo >= 0 /\ hi <= Size(list)

\* A sort whose comparisons all return leaves no element before one that is to
\* precede it.
Precedes(x, y) ==
  CASE call.op = "sort" -> IF call.asc THEN x < y ELSE y < x
    [] call.op = "sortObjects" -> CustomLess(x, y, call.asc) /\ x # y
    [] call.op = "sortCallback" -> <<x, y>> \in order
SortSorts ==
  (stage = "done" /\ call.op \in Sorts /\ ~raised /\ failed = {} /\ IsOrder /\ Defined) =>
    \A k, m \in lo .. hi - 1 : k < m => ~Precedes(list[m], list[k])

\* find returns the first element that is the value or is said to equal it.
Same(x, y) == x = y \/ (call.method /\ x # Null /\ <<x, y>> \in order)
FindFindsFirst ==
  (stage = "done" /\ call.op = "find" /\ ~raised /\ failed = {}) =>
    /\ result # Nothing => result \in lo .. hi - 1 /\ Same(list[result], call.value)
    /\ \A k \in call.start .. Size(list) - 1 :
         Same(list[k], call.value) => result # Nothing /\ result <= k

\* operator== compares sizes and all elements.
EqualsComparesAll ==
  (stage = "done" /\ call.op = "equals" /\ failed = {}) =>
    (result = 1 <=> /\ Size(list) = Size(call.other)
                    /\ \A k \in DOMAIN list : Same(list[k], call.other[k]))

\* Every call gives back the context it took, in whatever way its callbacks end.
ContextGivenBack == stage = "done" => depth = 0 /\ requested = 0

\* A script that is aborted while operator== runs a method of it is aborted.
AbortHandedOn ==
  (stage = "done" /\ call.op = "equals" /\ nested /\ "aborted" \in failed) => aborted

\* A sort puts into order what it is asked to, and nothing else is lost, doubled or
\* moved: the insertion sorts by comparisons of any kind, failing ones included;
\* std::sort, as far as it is defined, of a part whose bounds are right.
SortRight ==
  SortTyped /\ SortKeepsElements /\ SortStaysInside /\ NoInvalidItem /\ SortSorts

\* A search or comparison returns what it promises, and a call that runs callbacks
\* leaves contexts and aborts as they have to be.
ReturnsRight == FindFindsFirst /\ EqualsComparesAll /\ ContextGivenBack /\ AbortHandedOn

\* Every call returns, if its callbacks do and std::sort is defined.
EveryCallReturns == <>(stage \in {"done", "undefined"})
=============================================================================
