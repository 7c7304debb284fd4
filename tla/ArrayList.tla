------------------------------ MODULE ArrayList ------------------------------
(***************************************************************************)
(* What the array add-on promises a script: every call leaves the list that *)
(* its name says, or raises an exception and leaves the list as it was.     *)
(* Nothing here knows of buffers, capacities, handles or reference counts.  *)
(***************************************************************************)
EXTENDS Integers, Sequences

CONSTANTS
  Arrays,     \* the arrays of the script
  Elements,   \* what an array may hold
  Lists,      \* its initialisation lists
  Numbers,    \* the indices and counts a script passes
  Null        \* no array, or a null handle

VARIABLES
  default, \* what an element is before it is set
  lists,   \* lists[a]: the elements of a, Null if there is no such array
  raised   \* whether the last call raised an exception

vars == <<default, lists, raised>>

Exists(a) == lists[a] # Null
Splice(l, at, count, new) == SubSeq(l, 1, at) \o new \o SubSeq(l, at + count + 1, Len(l))
Defaults(n) == [k \in 1 .. n |-> default]
FromTheEnd(l) == [k \in 1 .. Len(l) |-> l[Len(l) + 1 - k]]
Least(m, n) == IF m < n THEN m ELSE n

-----------------------------------------------------------------------------
Becomes(a, l) ==
  /\ lists' = [lists EXCEPT ![a] = l]
  /\ raised' = FALSE /\ UNCHANGED default

Refuses == raised' = TRUE /\ UNCHANGED <<default, lists>>

\* A call that needs room may be refused for the lack of it.
Grows(a, l) == Becomes(a, l) \/ Refuses

Create(a, l) == ~Exists(a) /\ Grows(a, l)
CreateCopy(a, b) == Exists(b) /\ Create(a, lists[b])
Release(a) == Exists(a) /\ Becomes(a, Null)

SetValue(a, i, v) ==
  /\ Exists(a)
  /\ IF i < Len(lists[a]) THEN Becomes(a, Splice(lists[a], i, 1, <<v>>)) ELSE Refuses

InsertAt(a, i, v) ==
  /\ Exists(a)
  /\ IF i <= Len(lists[a]) THEN Grows(a, Splice(lists[a], i, 0, <<v>>)) ELSE Refuses

InsertLast(a, v) == Exists(a) /\ InsertAt(a, Len(lists[a]), v)

InsertArray(a, i, b) ==
  /\ Exists(a) /\ Exists(b)
  /\ IF i <= Len(lists[a]) THEN Grows(a, Splice(lists[a], i, 0, lists[b])) ELSE Refuses

RemoveAt(a, i) ==
  /\ Exists(a)
  /\ IF 0 <= i /\ i < Len(lists[a]) THEN Becomes(a, Splice(lists[a], i, 1, <<>>)) ELSE Refuses

RemoveLast(a) == Exists(a) /\ RemoveAt(a, Len(lists[a]) - 1)

RemoveRange(a, start, count) ==
  /\ Exists(a)
  /\ IF start <= Len(lists[a]) \/ count = 0
     THEN Becomes(a, IF count = 0 THEN lists[a] ELSE Splice(lists[a], start, count, <<>>))
     ELSE Refuses

Resize(a, n) ==
  LET l == lists[a] IN
  /\ Exists(a)
  /\ Grows(a, SubSeq(l, 1, Least(n, Len(l))) \o Defaults(n - Least(n, Len(l))))

Assign(a, b) == Exists(a) /\ Exists(b) /\ Grows(a, lists[b])

Reverse(a) == Exists(a) /\ Becomes(a, FromTheEnd(lists[a]))

\* A call about memory or references alone.
Reserve(a, n) == Exists(a) /\ Grows(a, lists[a])

Init ==
  /\ default \in Elements
  /\ lists = [a \in Arrays |-> Null]
  /\ raised = FALSE

Next ==
  \E a \in Arrays :
    \/ \E n \in Numbers : Create(a, Defaults(n)) \/ Resize(a, n) \/ Reserve(a, n)
    \/ \E n \in Numbers, v \in Elements : Create(a, [k \in 1 .. n |-> v])
    \/ \E l \in Lists : Create(a, l)
    \/ \E b \in Arrays : CreateCopy(a, b) \/ Assign(a, b)
    \/ \E i \in Numbers, v \in Elements : SetValue(a, i, v) \/ InsertAt(a, i, v)
    \/ \E v \in Elements : InsertLast(a, v)
    \/ \E i \in Numbers, b \in Arrays : InsertArray(a, i, b)
    \/ \E i \in Numbers : RemoveAt(a, i)
    \/ \E i, n \in Numbers : RemoveRange(a, i, n)
    \/ RemoveLast(a) \/ Reverse(a) \/ Resize(a, 0) \/ Release(a)

Spec == Init /\ [][Next]_vars
=============================================================================
