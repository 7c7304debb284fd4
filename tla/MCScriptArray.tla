---------------------------- MODULE MCScriptArray ----------------------------
(***************************************************************************)
(* Two arrays, of handles to one object, of objects where there is never    *)
(* enough room, or of numbers, with three elements each; and of objects of  *)
(* a reference type, with one or two.                                       *)
(***************************************************************************)
EXTENDS ScriptArray, TLC

MCWord == 16
MCValues == {0, 1}
MCScripts ==
  {[kind |-> "handle", objects |-> {1}, maxSize |-> 3, room |-> 2, memoryFails |-> FALSE,
    maxReferences |-> 2, numbers |-> 0 .. 2, lists |-> {<<1>>, <<1, None>>}],
   [kind |-> "value", objects |-> 1 .. 8, maxSize |-> 2, room |-> 3, memoryFails |-> TRUE,
    maxReferences |-> 1, numbers |-> 0 .. 2, lists |-> {<<>>, <<1>>, <<1, 0>>}],
   [kind |-> "reference", objects |-> 1 .. 4, maxSize |-> 2, room |-> 2, memoryFails |-> TRUE,
    maxReferences |-> 1, numbers |-> 1 .. 1, lists |-> {<<1>>}],
   [kind |-> "primitive", objects |-> {}, maxSize |-> 3, room |-> 3, memoryFails |-> FALSE,
    maxReferences |-> 1, numbers |-> 0 .. 2, lists |-> {<<>>, <<1>>, <<1, 0>>}]}

\* The two arrays are treated alike.
ArraysAlike == Permutations(Arrays)
=============================================================================
