---------------------------- MODULE MCArrayCalls -----------------------------
(***************************************************************************)
(* What arrays do but for their storage: the verdict on a template          *)
(* instance, the cache of a type, and the calls that compare elements.  A   *)
(* behaviour is of one of them while the others rest.                       *)
(*                                                                          *)
(* Lists of up to four elements, and callbacks that answer by an order in   *)
(* which different elements may be equal, at random, or always.  Three      *)
(* threads, and a subtype of three methods.  A type and two classes of a    *)
(* script, declared one after the other and used in any order.              *)
(***************************************************************************)
EXTENDS ArraySort, ArrayCache, ArrayTemplate, TLC

CONSTANTS A, B, C

MCItems == 0 .. 2
MCBits32 == 16
MCCalls == {"sort", "sortObjects", "sortCallback", "find", "equals"}

Pairs == MCItems \X MCItems
ByHalf == {p \in Pairs : p[1] \div 2 < p[2] \div 2}
InACircle == {<<0, 1>>, <<1, 2>>, <<2, 0>>}
SameHalf == {p \in Pairs : p[1] \div 2 = p[2] \div 2}

ListsOf(S, n) == UNION {[0 .. m - 1 -> S] : m \in 0 .. n}
LongLists == {l \in ListsOf(MCItems, 4) : \A k \in DOMAIN l : k > 0 => l[k] # l[k - 1]}
ShortLists == ListsOf(MCItems \cup {Null}, 2)

MCLists == [c \in MCCalls |-> IF c \in Insertions THEN LongLists ELSE ShortLists]
MCOrders == [c \in MCCalls |->
  CASE c = "sort" -> {{}}
    [] c = "sortCallback" -> {ByHalf, InACircle, Pairs, {}}
    [] c \notin Insertions -> {ByHalf, SameHalf}]
MCStarts == [c \in MCCalls |-> IF c \in Insertions THEN 0 .. 4 ELSE 0 .. 3]

Cmp == [name |-> "opCmp", params |-> 1, readOnly |-> TRUE, returns |-> "int",
        takes |-> "const in", ofSubtype |-> TRUE]
OfAnother == [Cmp EXCEPT !.ofSubtype = FALSE]
MCMethods ==
  {Cmp, [Cmp EXCEPT !.readOnly = FALSE], OfAnother,
   [Cmp EXCEPT !.name = "opEquals", !.returns = "bool", !.takes = "const handle"]}

-----------------------------------------------------------------------------
\* A sort of nothing has returned; an array of a type without methods was made.
SortRests ==
  /\ call = [op |-> "sort", start |-> 0, count |-> 0, asc |-> TRUE, value |-> Null, other |-> <<>>,
             method |-> TRUE]
  /\ before = <<>> /\ list = before /\ order = {}
  /\ lo = 0 /\ hi = 0 /\ i = 0 /\ j = 0 /\ tmp = Null
  /\ stage = "done"
  /\ depth = 0 /\ requested = 0 /\ nested = FALSE
  /\ status = "none" /\ failed = {} /\ aborted = FALSE
  /\ result = Nothing /\ raised = FALSE
CacheRests ==
  /\ methods = [k \in 1 .. Count |-> OfAnother] /\ toConst = FALSE
  /\ lock = NoThread /\ pc = [t \in Threads |-> "done"]
  /\ at = Count + 1 /\ building = Blank
  /\ published = 1 /\ cache = Closed(Blank) /\ allocated = 1

SortStep == SortNext /\ UNCHANGED <<vars, templateVars>>
CacheStep(t) == Step(t) /\ UNCHANGED <<sortVars, templateVars>>
\* Their names mean nothing: A is declared first; B and C are classes
\* that can be made.
InOrder ==
  /\ types'[B] # NoType => types'[A] # NoType
  /\ types'[C] # NoType => types'[B] # NoType
  /\ \A t \in {B, C} : types'[t] # NoType => types'[t].script /\ types'[t].makes
TemplateStep ==
  SortRests /\ CacheRests /\ TemplateNext /\ InOrder /\ UNCHANGED <<vars, sortVars>>

MCInit ==
  \/ SortInit /\ CacheRests /\ TemplateInit /\ ~disallow
  \/ Init /\ SortRests /\ TemplateInit /\ ~disallow
  \/ TemplateInit /\ SortRests /\ CacheRests
MCNext == SortStep \/ (\E t \in Threads : CacheStep(t)) \/ TemplateStep

MCSpec ==
  /\ MCInit /\ [][MCNext]_<<vars, sortVars, templateVars>>
  /\ WF_<<vars, sortVars, templateVars>>(SortStep)
  /\ \A t \in Threads : WF_<<vars, sortVars, templateVars>>(CacheStep(t))
                        /\ SF_<<vars, sortVars, templateVars>>(CacheStep(t) /\ AcquireLock(t))

\* Every call that compares elements returns if its callbacks do, and no thread
\* waits for ever for the cache of a type.
EverythingEnds == EveryCallReturns /\ EveryThreadGoesOn
=============================================================================
