-------------------------- MODULE Devirtualization --------------------------
(***************************************************************************)
(* Which function a call of a virtual method reaches.  The compiler gives   *)
(* every class a list of virtual methods and a table of the functions that  *)
(* implement them.  resolve_virtual_script_function looks a final method up *)
(* by its declaration (get_nonvirtual_match) when the call is translated,   *)
(* any other in the table of the object when the call is made               *)
(* (script_vtable_lookup).  Classes may be declared after that.             *)
(***************************************************************************)
EXTENDS Integers, Sequences, FiniteSets

CONSTANTS
  Names,     \* of methods, with their parameters
  None,      \* no function
  MaxClasses, MaxCalls \* bounds: classes, calls translated

Methods == [class : Nat, name : Names, final : BOOLEAN, vfTableIdx : Nat]
FunctionsOf == [class : Nat, name : Names, id : Nat]
NamesAssumption == MaxClasses \in Nat /\ MaxCalls \in Nat /\ None \notin FunctionsOf
ASSUME NamesAssumption

VARIABLES
  classes,   \* [final, line, methods, table]; line: the class and those it derives from
  open,      \* whether the last class is being declared
  functions, \* all that implement a method: [class, name, id]
  calls      \* those translated: [callee, direct, function]

classVars == <<classes, open, functions, calls>>

ClassesInit == classes = <<>> /\ open = FALSE /\ functions = {} /\ calls = {}

-----------------------------------------------------------------------------
(* The compiler: asCBuilder::CompileClasses                                  *)

Last == Len(classes)
Root == [final |-> FALSE, line |-> {}, methods |-> <<>>, table |-> <<>>]

\* A class starts with the methods and the table of its base, 0 if it has none.
DeclareClass(base, final) ==
  /\ ~open /\ Last < MaxClasses
  /\ LET b == IF base = 0 THEN Root ELSE classes[base]
     IN  /\ ~b.final
         /\ classes' = Append(classes, [final |-> final, line |-> b.line \cup {Last + 1},
                                        methods |-> b.methods, table |-> b.table])
  /\ open' = TRUE
  /\ UNCHANGED <<functions, calls>>

Function(name) == [class |-> Last, name |-> name, id |-> Cardinality(functions) + 1]
Declares(c, name) == \E g \in functions : g.class = c /\ g.name = name

\* A method of the base gets another function, unless it is final.
Override(i) ==
  /\ open
  /\ LET c == classes[Last]
         m == c.methods[i]
         g == Function(m.name)
     IN  /\ ~m.final /\ ~Declares(Last, m.name)
         /\ classes' = [classes EXCEPT ![Last].table[i] = g]
         /\ functions' = functions \cup {g}
  /\ UNCHANGED <<open, calls>>

\* A new method gets the next entry of the table.
DeclareMethod(name, final) ==
  /\ open
  /\ LET c == classes[Last]
         m == [class |-> Last, name |-> name, final |-> final, vfTableIdx |-> Len(c.table) + 1]
         g == Function(name)
     IN  /\ \A i \in DOMAIN c.methods : c.methods[i].name # name
         /\ classes' = [classes EXCEPT ![Last].methods = Append(@, m), ![Last].table = Append(@, g)]
         /\ functions' = functions \cup {g}
  /\ UNCHANGED <<open, calls>>

EndClass ==
  /\ open /\ open' = FALSE
  /\ UNCHANGED <<classes, functions, calls>>

-----------------------------------------------------------------------------
(* Translation and execution                                                 *)

\* GetDeclaration, with the name of the object.
SameDeclaration(m, g) == m.class = g.class /\ m.name = g.name
\* GetMethodByIndex(i, false): the functions in the table.
Candidates(m) ==
  LET c == classes[m.class]
  IN  {c.table[c.methods[i].vfTableIdx] : i \in DOMAIN c.methods}
get_nonvirtual_match(m) ==
  LET found == {g \in Candidates(m) : SameDeclaration(m, g)}
  IN  IF found = {} THEN None ELSE CHOOSE g \in found : TRUE

\* Final where the call is made.
IsFinal_Override(m, c) == m.final \/ classes[c].final
IsFinal(m, c) == m.final \/ classes[m.class].final
EmitCall(c, i, allow_devirtualization) ==
  /\ ~open /\ Cardinality(calls) < MaxCalls
  /\ LET m == classes[c].methods[i]
         direct == allow_devirtualization /\ IsFinal(m, c)
     IN  calls' = calls \cup
           {[callee |-> m, direct |-> direct, function |-> IF direct THEN get_nonvirtual_match(m) ELSE None]}
  /\ UNCHANGED <<classes, open, functions>>

script_vtable_lookup(m, c) == classes[c].table[m.vfTableIdx]
Called(call, c) == IF call.direct THEN call.function ELSE script_vtable_lookup(call.callee, c)

ClassesNext ==
  \/ \E base \in 0 .. Last, final \in BOOLEAN : DeclareClass(base, final)
  \/ open /\ \E i \in DOMAIN classes[Last].methods : Override(i)
  \/ \E name \in Names, final \in BOOLEAN : DeclareMethod(name, final)
  \/ EndClass
  \/ \E c \in 1 .. Last, allow \in BOOLEAN :
       \E i \in DOMAIN classes[c].methods : EmitCall(c, i, allow)

ClassesSpec == ClassesInit /\ [][ClassesNext]_classVars

-----------------------------------------------------------------------------
ClassesTyped ==
  /\ classes \in Seq([final : BOOLEAN, line : SUBSET Nat, methods : Seq(Methods), table : Seq(FunctionsOf)])
  /\ open \in BOOLEAN /\ functions \subseteq FunctionsOf
  /\ calls \subseteq [callee : Methods, direct : BOOLEAN, function : FunctionsOf \cup {None}]

\* What the language means: the last class in the line of the object to declare it.
Overrides(g, name, c) ==
  /\ g \in functions /\ g.name = name /\ g.class \in classes[c].line
  /\ \A h \in functions : h.name = name /\ h.class \in classes[c].line => h.class <= g.class

\* A call reaches the function of the object's class, whether it is bound when it
\* is translated or looked up, and whatever classes are declared in between.
CallsReachOverride ==
  \A call \in calls, c \in 1 .. Last :
    (c = Last => ~open) /\ call.callee.class \in classes[c].line
      => Overrides(Called(call, c), call.callee.name, c)

\* "asllvm_assert(resolved_script_function != nullptr)"
MatchFound == \A call \in calls : call.direct => call.function # None

\* Calls are bound as they would be looked up, and every one that is to be bound is.
BindingRight == ClassesTyped /\ CallsReachOverride /\ MatchFound
=============================================================================
