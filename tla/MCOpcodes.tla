------------------------------ MODULE MCOpcodes ------------------------------
(***************************************************************************)
(* Functions with one frame: an int and a handle or a long as variables, an *)
(* object or a long and an int as parameters.  Each has instructions of     *)
(* some kinds: it computes, it compares and branches, it uses addresses, or *)
(* it passes references on and tests objects.                               *)
(***************************************************************************)
EXTENDS NumberOps, PointerOps

Next == steps < MaxSteps[function] /\ (NumberNext \/ PointerNext)
Spec == Init /\ [][Next]_vars

MCSlots == {"i", "p", "this", "x"}
MCOffset == [i |-> 3, p |-> 2, this |-> 0, x |-> -2]
MCBytes == [i |-> 4, p |-> 8, this |-> 8, x |-> 4]
MCLocals == {"i", "p"}
MCThis == "this"

MCFunctions == {"computes", "compares", "reads", "tests"}
MCOps ==
  [computes |-> {"move", "arithmetic", "cast"},
   compares |-> {"register", "test", "branch", "stack"},
   reads |-> {"address", "access", "member", "dereference", "list"},
   tests |-> {"address", "reference", "object"}]
MCMaxSteps == [computes |-> 2, compares |-> 3, reads |-> 3, tests |-> 3]

-----------------------------------------------------------------------------
\* Numbers whose sign, low byte or high dword differ, and some of them as constants.
Numbers(w) == {0, 1, Size(w) - 1, Size(w) \div 2, Size(w) \div 2 - 1}
MCSamples == {1, 2 * Size(1), Size(4) \div 2}

\* The places outside of a function on numbers are not used.
Arguments(this, x) ==
  [place \in {Slot("this"), Slot("x"), Cell("global", 0)} |->
     CASE place = Slot("this") -> this [] place = Slot("x") -> x [] OTHER -> Null]
NumberContents ==
  {Arguments(Num(8, u), Num(4, v)) : u \in Numbers(8) \cup {Size(4)}, v \in Numbers(4)}

\* The global is an int or a handle; the object has a handle, an int and a bool;
\* the list a count and a word. Null or not, the handles are all to the object.
Object == To(Cell("object", 0))
Outside(global, member) ==
  [place \in {Cell("global", 0), Cell("object", 0), Cell("object", 8), Cell("object", 12),
              Cell("list", 0), Cell("list", 4)} |->
     CASE place = Cell("global", 0) -> global
       [] place = Cell("object", 0) -> member
       [] place = Cell("object", 8) -> Num(4, Size(4) - 1)
       [] place = Cell("object", 12) -> Num(1, 3)
       [] place = Cell("list", 0) -> Num(4, 7)
       [] OTHER -> Num(2, 14)]
PointerContents ==
  {Outside(global, member) @@ Arguments(this, Num(4, Size(4) - 2)) :
     this \in {Null, Object}, member \in {Null, Object}, global \in {Num(4, 9), Null, Object}}

MCContents ==
  [f \in MCFunctions |-> IF f \in {"computes", "compares"} THEN NumberContents ELSE PointerContents]
=============================================================================
