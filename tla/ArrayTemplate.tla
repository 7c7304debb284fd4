---------------------------- MODULE ArrayTemplate ----------------------------
(***************************************************************************)
(* ScriptArrayTemplateCallback (3rd/scriptarray): whether array<T> can be   *)
(* made, and whether the collector must look at it, is decided once, when   *)
(* the compiler first meets it.  Modules compiled later may derive classes  *)
(* from T, and arrays of handles to T hold objects of them.                 *)
(***************************************************************************)
EXTENDS Integers, FiniteSets

CONSTANTS
  Types,   \* names of types
  NoType

ASSUME TypesAssumption == NoType \notin Types

\* What the engine says of a type. "final" is asOBJ_NOINHERIT, "makes" that it has
\* a constructor, or factory, without parameters.
Flags ==
  [kind   : {"primitive", "value", "ref"},
   pod    : BOOLEAN,
   gc     : BOOLEAN,
   script : BOOLEAN,
   final  : BOOLEAN,
   makes  : BOOLEAN,
   parent : Types \cup {NoType}]

VARIABLES
  disallow, \* asEP_DISALLOW_VALUE_ASSIGN_FOR_REF_TYPE
  types,    \* types[t]: the flags of t, NoType when it is not declared yet
  verdict   \* verdict[t][h]: of array<T> (h = FALSE) and of array<T@>

templateVars == <<disallow, types, verdict>>

Declared == {t \in Types : types[t] # NoType}

\* Types that can be: classes of scripts are reference types, only they derive,
\* and not from one that is final.
Possible(f) ==
  /\ f.kind = "primitive" => f.pod /\ ~f.gc /\ f.makes
  /\ f.pod => f.kind # "ref" /\ ~f.gc
  /\ f.script => f.kind = "ref"
  /\ (f.final \/ f.parent # NoType) => f.script
  /\ f.parent # NoType => f.parent \in Declared /\ types[f.parent].script /\ ~types[f.parent].final
  /\ f.parent # NoType => (types[f.parent].gc => f.gc)

Declare(t) ==
  /\ types[t] = NoType
  /\ \E f \in Flags : Possible(f) /\ types' = [types EXCEPT ![t] = f]
  /\ UNCHANGED <<disallow, verdict>>

\* Elements that are objects are made by the array, and assigned.
CanBeMade(f) ==
  CASE f.kind = "primitive" -> TRUE
    [] f.kind = "value" -> f.pod \/ f.makes
    [] f.kind = "ref" -> ~disallow /\ f.makes

\* Classes that are derived later are forgotten.
DontGarbageCollect_OwnFlag(f, handle) == ~f.gc

\* A handle may refer to an object of a derived class.
DontGarbageCollect(f, handle) ==
  IF handle /\ f.script THEN ~f.gc /\ f.final ELSE ~f.gc

Instantiate(t, handle) ==
  LET f == types[t] IN
  /\ f # NoType /\ verdict[t][handle] = "unasked"
  /\ handle => f.kind = "ref"
  /\ verdict' = [verdict EXCEPT ![t][handle] =
       CASE ~handle /\ ~CanBeMade(f) -> "refused"
         [] (handle \/ CanBeMade(f)) /\ DontGarbageCollect(f, handle) -> "uncollected"
         [] (handle \/ CanBeMade(f)) /\ ~DontGarbageCollect(f, handle) -> "collected"]
  /\ UNCHANGED <<disallow, types>>

TemplateInit ==
  /\ disallow \in BOOLEAN
  /\ types = [t \in Types |-> NoType]
  /\ verdict = [t \in Types |-> [h \in BOOLEAN |-> "unasked"]]

TemplateNext == \E t \in Types : Declare(t) \/ \E handle \in BOOLEAN : Instantiate(t, handle)

TemplateSpec == TemplateInit /\ [][TemplateNext]_templateVars

-----------------------------------------------------------------------------
\* The classes an object in an array can be of: t is in every set of classes that
\* has the object's class and the parent of each of its own.
Parent(t) == IF t \in Declared THEN types[t].parent ELSE NoType
WithParents(S) == \A t \in S : Parent(t) # NoType => Parent(t) \in S
Derives(s, t) == \A S \in SUBSET Types : s \in S /\ WithParents(S) => t \in S
Holds(t, handle) == IF handle THEN {s \in Declared : Derives(s, t)} ELSE {t}

\* An array the collector is not told of never holds, now or after more classes
\* are compiled, an object that could refer back to it.
NoLeakedCycle ==
  \A t \in Types, handle \in BOOLEAN :
    verdict[t][handle] = "uncollected" => \A s \in Holds(t, handle) : ~types[s].gc
=============================================================================
