----------------------------- MODULE RefCounting -----------------------------
(***************************************************************************)
(* The instructions that own objects, as translate_instruction emits them,  *)
(* beside what the virtual machine does for them.  A place is a variable of *)
(* the frame, a global handle, the object register or an entry of the stack *)
(* that holds an argument.                                                  *)
(*                                                                          *)
(* REFCPY and RefCpyV are stubs that never release what they overwrite,     *)
(* FREE leaves the pointer in the variable, and an exception leaves the     *)
(* variables of a frame alone.                                              *)
(***************************************************************************)
EXTENDS Integers, FiniteSets

CONSTANTS
  Objects,   \* those a run makes
  Null,
  Kind,      \* Kind[o]: "counted", "uncounted" (asOBJ_NOCOUNT), "value"
  Variables, \* of the frame
  Globals,   \* global handles and members
  FreesNull, \* whether the script leaves scopes of handles it did not set
  CopiesNull, \* whether it assigns null to handles
  MaxCount   \* bound: counts

PlacesAssumption ==
  /\ MaxCount \in Nat \ {0}
  /\ Null \notin Objects /\ "none" \notin Objects \cup {Null}
  /\ Kind \in [Objects -> {"counted", "uncounted", "value"}]
  /\ Variables \cap (Globals \cup {"register", "argument"}) = {}
  /\ {"register", "argument"} \cap Globals = {}
  /\ IsFiniteSet(Variables) /\ IsFiniteSet(Globals)
  /\ FreesNull \in BOOLEAN /\ CopiesNull \in BOOLEAN
ASSUME PlacesAssumption

Places == Variables \cup Globals \cup {"register", "argument"}

VARIABLES
  native, \* native[p]: the pointer generated code has at p
  meant,  \* meant[p]: the reference the virtual machine has there
  top,    \* a pointer on the stack that owns nothing, or "none"
  count,  \* count[o]: the references o counts
  born,   \* the objects made
  gone,   \* those destroyed
  lost,   \* lost[o]: references dropped without a release
  onNull  \* whether a method of an object was called on null

vars == <<native, meant, top, count, born, gone, lost, onNull>>

Init ==
  /\ native = [p \in Places |-> Null] /\ meant = [p \in Places |-> Null]
  /\ top = "none"
  /\ count = [o \in Objects |-> 0] /\ lost = [o \in Objects |-> 0]
  /\ born = {} /\ gone = {} /\ onNull = FALSE

\* Between the push of a pointer and the pop the script only copies it; it does
\* not go on after a method on null.
Running == top = "none" /\ ~onNull

References(m, o) == {p \in Places : m[p] = o}

\* With the references at the places of P dropped.
Lost(P) ==
  [o \in Objects |->
     IF Kind[o] = "uncounted" THEN lost[o] ELSE lost[o] + Cardinality(References(meant, o) \cap P)]

\* The source is cleared before it is read.
Moved_Cleared(m, from, to) == [m EXCEPT ![to] = Null, ![from] = Null]
Moved(m, from, to) == [m EXCEPT ![to] = m[from], ![from] = Null]
Move(from, to) ==
  /\ Running /\ meant[from] # Null /\ meant[to] = Null
  /\ native' = Moved(native, from, to)
  /\ meant' = [meant EXCEPT ![to] = meant[from], ![from] = Null]
  /\ UNCHANGED <<top, count, born, gone, lost, onNull>>

-----------------------------------------------------------------------------
\* new_script_object: the object counts the reference of the variable.
ALLOC(v, o) ==
  /\ Running /\ o \notin born /\ meant[v] = Null
  /\ native' = [native EXCEPT ![v] = o] /\ meant' = [meant EXCEPT ![v] = o]
  /\ born' = born \cup {o}
  /\ count' = [count EXCEPT ![o] = 1]
  /\ UNCHANGED <<top, gone, lost, onNull>>

LOADOBJ(v) == Move(v, "register")
STOREOBJ(v) == Move("register", v)
GETOBJ(v) == Move(v, "argument")

\* The callee keeps the argument as its parameter, a variable it frees.
Pass(v) == Move("argument", v)

\* A counted object loses a reference, a value is destroyed, an object without
\* counts has no release.
Released(o) ==
  /\ count' = [count EXCEPT ![o] = IF Kind[o] = "uncounted" THEN @ ELSE @ - 1]
  /\ gone' = IF Kind[o] # "uncounted" /\ count[o] = 1 THEN gone \cup {o} ELSE gone

\* The variable keeps its pointer.
FREE(v) ==
  /\ Running /\ (FreesNull \/ meant[v] # Null)
  /\ native[v] # Null => native[v] \notin gone
  /\ meant' = [meant EXCEPT ![v] = Null]
  /\ IF native[v] = Null THEN onNull' = TRUE /\ UNCHANGED <<count, gone>>
                         ELSE Released(native[v]) /\ UNCHANGED onNull
  /\ UNCHANGED <<native, top, born, lost>>

-----------------------------------------------------------------------------
(* Assignments of handles: the pointer is pushed, copied and popped          *)

PushPointer(p) ==
  /\ Running /\ (CopiesNull \/ meant[p] # Null)
  /\ meant[p] # Null => Kind[meant[p]] # "value"
  /\ top' = native[p]
  /\ UNCHANGED <<native, meant, count, born, gone, lost, onNull>>

PopPtr ==
  /\ top # "none" /\ ~onNull
  /\ top' = "none"
  /\ UNCHANGED <<native, meant, count, born, gone, lost, onNull>>

Counted(p) == top
Addref_None(o) == count
Addref(o) == [count EXCEPT ![o] = IF Kind[o] = "uncounted" THEN @ ELSE @ + 1]
Copy(p) ==
  /\ top # "none" /\ ~onNull
  /\ native' = [native EXCEPT ![p] = top] /\ meant' = [meant EXCEPT ![p] = top]
  /\ IF Counted(p) = Null
       THEN onNull' = TRUE /\ UNCHANGED count
       ELSE count' = Addref(Counted(p)) /\ UNCHANGED onNull
  /\ lost' = Lost({p})
  /\ UNCHANGED <<top, born, gone>>

RefCpyV(v) == Copy(v)
REFCPY(g) == Copy(g)

-----------------------------------------------------------------------------
\* A frame is left, its callers after it, without a look at their variables.
Raise ==
  /\ Running
  /\ native' = [p \in Places |-> IF p \in Globals THEN native[p] ELSE Null]
  /\ meant' = [p \in Places |-> IF p \in Globals THEN meant[p] ELSE Null]
  /\ lost' = Lost(Places \ Globals)
  /\ UNCHANGED <<top, count, born, gone, onNull>>

Bounded == \A o \in Objects : count[o] < MaxCount

Next ==
  \/ \E v \in Variables :
       \/ LOADOBJ(v) \/ STOREOBJ(v) \/ GETOBJ(v) \/ Pass(v) \/ FREE(v)
       \/ \E o \in Objects : ALLOC(v, o)
       \/ Bounded /\ RefCpyV(v)
  \/ \E g \in Globals : Bounded /\ REFCPY(g)
  \/ \E p \in Variables \cup Globals : PushPointer(p)
  \/ PopPtr
  \/ Raise

Spec == Init /\ [][Next]_vars

-----------------------------------------------------------------------------
TypeOK ==
  /\ native \in [Places -> Objects \cup {Null}] /\ meant \in [Places -> Objects \cup {Null}]
  /\ top \in Objects \cup {Null, "none"}
  /\ count \in [Objects -> 0 .. MaxCount] /\ lost \in [Objects -> Nat]
  /\ gone \subseteq born /\ born \subseteq Objects /\ onNull \in BOOLEAN

\* Where the script has a reference, generated code has the pointer: moves
\* through the object register and the stack lose none.
PointersAgree == \A p \in Places : meant[p] # Null => native[p] = meant[p]

\* "stubs and don't actually perform any freeing": what an object counts beyond
\* its references is what assignments and exceptions left out, no more and no less.
CountsExplained ==
  \A o \in born \ gone :
    Kind[o] # "uncounted" => count[o] = Cardinality(References(meant, o)) + lost[o]

\* Every reference is where the script has it, and the counts say how many.
ReferencesRight == TypeOK /\ PointersAgree /\ CountsExplained

\* No object is destroyed that the script can still reach.
NoneDangles == \A o \in gone : References(meant, o) = {}

\* Not kept when null is freed or copied (a known deviation).
\* "check pointer and _ignore if null_": no method is called on null.
NullIgnored == ~onNull
=============================================================================
