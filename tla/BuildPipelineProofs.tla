------------------------- MODULE BuildPipelineProofs -------------------------
(***************************************************************************)
(* Theorems about BuildPipeline, for every set of functions and modules.    *)
(*                                                                          *)
(* The inductive invariant says at which of four stages the compiler is --  *)
(* nothing emitted yet, building, linking, or served -- and what code,      *)
(* builders and slots have in common at each of them.                       *)
(***************************************************************************)
EXTENDS BuildPipeline, TLAPS

Callees(f) == Calls[f] \cup VirtualCalls[f]
InCode(f) == Plain(ScriptName(f)) \in DOMAIN code

\* What has been requested, or soon will be, is closed under calls.
ClosedRequests ==
  /\ \A f \in requested \cup requests : Callees(f) \subseteq requested \cup requests
  /\ phase # "idle" => requests = {}

\* A builder holds functions of its own module only, each requested.
OwnBuilder ==
  \A u \in DOMAIN builders :
    \A f \in Range(builders[u].pending) \cup Range(builders[u].jit) :
      f \in requested /\ ModuleOf[f] = u

\* The symbol tables: what is translated and what it calls is declared, under
\* the plain name for script functions, a numbered one for registered ones.
Tables ==
  \A u \in DOMAIN builders :
    LET b == builders[u]
    IN  /\ DOMAIN b.scripts = Range(b.jit) \cup UNION {Calls[f] : f \in Range(b.jit)}
        /\ \A f \in DOMAIN b.scripts : b.scripts[f] = Plain(ScriptName(f))
        /\ \A s \in DOMAIN b.systems : b.systems[s][1] = SystemName(s)

\* The symbols of the dylib lead to what their name says.
Symbols ==
  /\ \A n \in DOMAIN code : n = Plain(ScriptName(code[n])) /\ code[n] \in requested
  /\ \A n \in DOMAIN absolute : \A s \in SystemFunction :
       n[1] = SystemName(s) => absolute[n] = NativeOf[s]
  /\ \A u \in DOMAIN builders : ~builders[u].open =>
       /\ PrivateSymbol \in DOMAIN absolute
       /\ \A s \in DOMAIN builders[u].systems : builders[u].systems[s] \in DOMAIN absolute

-----------------------------------------------------------------------------
(* The stages.                                                               *)

Fresh    == builders[Shared].open
Building == phase = "build" /\ cursor # Shared
Linking  == phase = "link"
Served   == ~Fresh /\ ~Building /\ ~Linking

Unserved(f) == slot[f] = None /\ userData[f] = None
IsServed(f) == slot[f] = f /\ userData[f] = f

\* Before the first call of build_modules is over, builders and code together
\* hold all that was requested, and code exactly what closed builders have.
Accounted ==
  /\ \A f \in requested :
       /\ ModuleOf[f] \in DOMAIN builders
       /\ f \in Range(builders[ModuleOf[f]].pending) \cup Range(builders[ModuleOf[f]].jit)
  /\ \A u \in DOMAIN builders : ~builders[u].open =>
       builders[u].pending = <<>> /\ \A f \in Range(builders[u].jit) : InCode(f)
  /\ \A f \in Function : InCode(f) => ~builders[ModuleOf[f]].open

WhenFresh == Fresh =>
  /\ phase = "idle" \/ (phase = "build" /\ cursor = Shared /\ todo = DOMAIN builders \ {Shared})
  /\ \A u \in DOMAIN builders : builders[u].open
  /\ \A f \in Function : Unserved(f) /\ ~InCode(f)

WhenBuilding == Building =>
  /\ \A u \in DOMAIN builders : builders[u].open <=> u \in todo \cup {cursor}
  /\ \A f \in Function : Unserved(f)

WhenLinking == Linking =>
  /\ \A u \in DOMAIN builders : ~builders[u].open
  /\ \A f \in Function :
       IF f \in requested /\ ModuleOf[f] \notin todo \cup {cursor}
       THEN IsServed(f) ELSE Unserved(f)

WhenServed == Served =>
  /\ phase = "idle" \/ cursor = Shared
  /\ \A f \in Function : IF InCode(f) THEN IsServed(f) ELSE Unserved(f)
  /\ \A f \in Function : InCode(f) => \A g \in Callees(f) : InCode(g)

IInv ==
  /\ TypeOK
  /\ OneEngine
  /\ TranslatedOnce
  /\ LinkerNeverFails
  /\ ClosedRequests
  /\ OwnBuilder
  /\ Tables
  /\ Symbols
  /\ (~Served => Accounted)
  /\ WhenFresh
  /\ WhenBuilding
  /\ WhenLinking
  /\ WhenServed

-----------------------------------------------------------------------------
(* Names and symbol tables.                                                  *)

\* Two functions have two names (modulecommon.cpp:18): the module and the
\* declaration identify a function.
LEMMA PlainInjective ==
  ASSUME SharedNamesDistinct, NEW f \in Function, NEW g \in Function,
         Plain(ScriptName(f)) = Plain(ScriptName(g))
  PROVE  f = g
<1>1. ScriptName(f) = ScriptName(g)
  BY DEF Plain
<1>2. ModuleOf[f] = ModuleOf[g] /\ DeclOf[f] = DeclOf[g]
  BY <1>1 DEF ScriptName
<1> QED
  BY <1>2, DeclarationAssumption, ConstantsAssumption DEF SharedNamesDistinct, Unit

\* get_script_function never gets a numbered name: the table it leaves maps
\* each function to its plain name (modulebuilder.cpp:54).
LEMMA CreatedScripts ==
  ASSUME SharedNamesDistinct, NEW table, NEW S \in SUBSET Function,
         IsMap(table, Function, ScriptSymbol),
         \A f \in DOMAIN table : table[f] = Plain(ScriptName(f)),
         NEW t \in Created(table, S, ScriptNames)
  PROVE  /\ IsMap(t, Function, ScriptSymbol)
         /\ DOMAIN t = DOMAIN table \cup S
         /\ \A f \in DOMAIN t : t[f] = Plain(ScriptName(f))
<1> DEFINE new == S \ DOMAIN table
           all == DOMAIN table \cup S
<1>1. PICK number \in [new -> 0 .. Cardinality(all)] :
        t = [f \in all |-> IF f \in new THEN <<ScriptNames[f], number[f]>> ELSE table[f]]
  BY DEF Created
<1>2. /\ \A f \in all : \A g \in all : t[f] = t[g] => f = g
      /\ \A f \in all : \A k \in 0 .. t[f][2] : \E g \in all : t[g] = <<ScriptNames[f], k>>
  BY DEF Created
<1>3. all \subseteq Function /\ DOMAIN t = all
  BY <1>1 DEF IsMap
<1>4. ASSUME NEW f \in all
      PROVE  t[f] = Plain(ScriptName(f))
  <2>1. CASE f \notin new
    BY <1>1, <2>1
  <2>2. CASE f \in new
    <3>1. t[f] = <<ScriptName(f), number[f]>> /\ number[f] \in Nat
      BY <1>1, <1>3, <2>2 DEF ScriptNames
    <3>2. 0 \in 0 .. t[f][2]
      BY <3>1
    <3>3. PICK g \in all : t[g] = <<ScriptName(f), 0>>
      BY <1>2, <1>3, <3>2 DEF ScriptNames
    <3>4. ScriptName(g) = ScriptName(f)
      BY <1>1, <1>3, <3>3 DEF Plain, ScriptNames
    <3>5. g = f
      BY <3>4, <1>3, PlainInjective DEF Plain
    <3> QED
      BY <3>3, <3>5 DEF Plain
  <2> QED
    BY <2>1, <2>2
<1>5. ASSUME NEW f \in all
      PROVE  t[f] \in ScriptSymbol
  <2>1. t[f] = <<ScriptName(f), 0>> /\ f \in Function
    BY <1>3, <1>4 DEF Plain
  <2>2. ScriptName(f) \in {ScriptName(g) : g \in Function} /\ 0 \in Nat
    BY <2>1
  <2> QED
    BY <2>1, <2>2 DEF ScriptSymbol
<1> QED
  BY <1>1, <1>3, <1>4, <1>5 DEF IsMap

\* get_system_function names a function after its declaration, with a number
\* no other function of the module has (modulebuilder.cpp:111).
LEMMA CreatedSystems ==
  ASSUME NEW table, NEW S \in SUBSET SystemFunction,
         IsMap(table, SystemFunction, SystemSymbol),
         \A s \in DOMAIN table : table[s][1] = SystemName(s),
         NEW t \in Created(table, S, SystemNames)
  PROVE  /\ IsMap(t, SystemFunction, SystemSymbol)
         /\ \A s \in DOMAIN t : t[s][1] = SystemName(s)
<1> DEFINE new == S \ DOMAIN table
           all == DOMAIN table \cup S
<1>1. PICK number \in [new -> 0 .. Cardinality(all)] :
        t = [s \in all |-> IF s \in new THEN <<SystemNames[s], number[s]>> ELSE table[s]]
  BY DEF Created
<1>2. all \subseteq SystemFunction /\ DOMAIN t = all
  BY <1>1 DEF IsMap
<1>3. ASSUME NEW s \in all
      PROVE  t[s] \in SystemSymbol /\ t[s][1] = SystemName(s)
  <2>1. CASE s \notin new
    BY <1>1, <2>1 DEF IsMap
  <2>2. CASE s \in new
    <3>1. t[s] = <<SystemName(s), number[s]>> /\ number[s] \in Nat
      BY <1>1, <1>2, <2>2 DEF SystemNames
    <3> QED
      BY <3>1, <1>2 DEF SystemSymbol
  <2> QED
    BY <2>1, <2>2
<1> QED
  BY <1>1, <1>2, <1>3 DEF IsMap

\* The empty builder and the empty maps are of their kind.
LEMMA NewBuilderIsBuilder ==
  /\ IsBuilder(NewBuilder)
  /\ \A S, T : IsMap(Empty, S, T)
  /\ Range(NewBuilder.pending) = {} /\ Range(NewBuilder.jit) = {}
  /\ DOMAIN Empty = {}
BY DEF IsBuilder, NewBuilder, IsMap, Empty, Range

\* Nothing is requested, built or served at first.
LEMMA InitIInv == Init => IInv
<1> SUFFICES ASSUME Init PROVE IInv
  OBVIOUS
<1> USE DEF Init
<1>1. TypeOK
  BY NewBuilderIsBuilder DEF TypeOK, Unit
<1>2. /\ OneEngine /\ LinkerNeverFails /\ ClosedRequests
  BY DEF OneEngine, LinkerNeverFails, ClosedRequests
<1>3. TranslatedOnce
  BY DEF TranslatedOnce, IsInjective, NewBuilder
<1>4. OwnBuilder
  BY NewBuilderIsBuilder DEF OwnBuilder
<1>5. Tables
  BY NewBuilderIsBuilder DEF Tables, NewBuilder
<1>6. Symbols
  BY NewBuilderIsBuilder DEF Symbols, NewBuilder
<1>7. Fresh /\ WhenFresh
  BY NewBuilderIsBuilder DEF Fresh, WhenFresh, NewBuilder, Unserved, InCode
<1>8. Accounted
  BY NewBuilderIsBuilder DEF Accounted, NewBuilder, InCode
<1>9. WhenBuilding /\ WhenLinking /\ WhenServed
  BY <1>7 DEF WhenBuilding, WhenLinking, WhenServed, Building, Linking, Served
<1> QED
  BY <1>1, <1>2, <1>3, <1>4, <1>5, <1>6, <1>7, <1>8, <1>9 DEF IInv

\* Queueing a function adds it to what is pending.
LEMMA RangeOfAppend ==
  ASSUME NEW S, NEW s \in Seq(S), NEW e \in S
  PROVE  Range(Append(s, e)) = Range(s) \cup {e}
<1>1. /\ Len(s) \in Nat
      /\ DOMAIN s = 1 .. Len(s)
      /\ DOMAIN Append(s, e) = 1 .. Len(s) + 1
      /\ \A i \in 1 .. Len(s) : Append(s, e)[i] = s[i]
      /\ Append(s, e)[Len(s) + 1] = e
  OBVIOUS
<1> QED
  BY <1>1 DEF Range

\* Taking the first pending function leaves the others.
LEMMA RangeOfTail ==
  ASSUME NEW S, NEW s \in Seq(S), s # <<>>
  PROVE  /\ Head(s) \in S /\ Tail(s) \in Seq(S)
         /\ Range(s) = {Head(s)} \cup Range(Tail(s))
<1>1. /\ Len(s) \in Nat \ {0}
      /\ DOMAIN s = 1 .. Len(s)
      /\ Head(s) = s[1] /\ s[1] \in S
      /\ Tail(s) \in Seq(S)
      /\ DOMAIN Tail(s) = 1 .. Len(s) - 1
      /\ \A i \in 1 .. Len(s) - 1 : Tail(s)[i] = s[i + 1]
  OBVIOUS
<1>2. \A i \in 2 .. Len(s) : i - 1 \in 1 .. Len(s) - 1 /\ Tail(s)[i - 1] = s[i]
  BY <1>1
<1>3. \A i \in 1 .. Len(s) : i = 1 \/ i \in 2 .. Len(s)
  BY <1>1
<1>4. \A i \in 1 .. Len(s) - 1 : i + 1 \in 1 .. Len(s)
  BY <1>1
<1>5. ASSUME NEW x \in Range(s) PROVE x \in {Head(s)} \cup Range(Tail(s))
  <2>1. PICK i \in 1 .. Len(s) : x = s[i]
    BY <1>1 DEF Range
  <2> QED
    BY <1>1, <1>2, <1>3, <2>1 DEF Range
<1>6. Head(s) \in Range(s)
  BY <1>1 DEF Range
<1>7. \A x \in Range(Tail(s)) : x \in Range(s)
  BY <1>1, <1>4 DEF Range
<1> QED
  BY <1>1, <1>5, <1>6, <1>7

\* A sequence without repetition stays one when a new element is appended.
LEMMA InjectiveAppend ==
  ASSUME NEW S, NEW s \in Seq(S), NEW e \in S, IsInjective(s), e \notin Range(s)
  PROVE  IsInjective(Append(s, e))
<1>1. /\ Len(s) \in Nat
      /\ DOMAIN s = 1 .. Len(s)
      /\ DOMAIN Append(s, e) = 1 .. Len(s) + 1
      /\ \A i \in 1 .. Len(s) : Append(s, e)[i] = s[i]
      /\ Append(s, e)[Len(s) + 1] = e
  OBVIOUS
<1>2. \A i \in 1 .. Len(s) + 1 : i \in 1 .. Len(s) \/ i = Len(s) + 1
  BY <1>1
<1> QED
  BY <1>1, <1>2 DEF IsInjective, Range

\* Code in the dylib is the code of a function that was requested, and found
\* under its name it is its own.
LEMMA InCodeIsRequested ==
  ASSUME SharedNamesDistinct, Symbols, IsMap(code, ScriptSymbol, Function), NEW f \in Function, InCode(f)
  PROVE  f \in requested /\ code[Plain(ScriptName(f))] = f
<1>1. /\ code[Plain(ScriptName(f))] \in Function
      /\ code[Plain(ScriptName(f))] \in requested
      /\ Plain(ScriptName(f)) = Plain(ScriptName(code[Plain(ScriptName(f))]))
  BY DEF Symbols, IsMap, InCode
<1> QED
  BY <1>1, PlainInjective

-----------------------------------------------------------------------------
(* One lemma per action.                                                     *)

LEMMA BuildScriptModuleStep ==
  ASSUME IInv, NEW m \in ScriptModule, BuildScriptModule(m)
  PROVE  IInv'
<1> USE DEF BuildScriptModule
<1>1. TypeOK'
  BY ConstantsAssumption DEF IInv, TypeOK
<1>2. ClosedRequests'
  <2>1. requests' \subseteq Contents[m] /\ Contents[m] \subseteq requested \cup requests'
    BY DEF IInv, TypeOK
  <2>2. \A f \in requested : Callees(f) \subseteq requested
    BY DEF IInv, ClosedRequests
  <2>3. \A f \in Contents[m] : Callees(f) \subseteq Contents[m]
    BY ClosedModulesAssumption DEF Callees
  <2> QED
    BY <2>1, <2>2, <2>3 DEF ClosedRequests
<1>3. /\ OneEngine' /\ TranslatedOnce' /\ LinkerNeverFails'
      /\ OwnBuilder' /\ Tables' /\ Symbols'
  BY DEF IInv, OneEngine, TranslatedOnce, LinkerNeverFails, OwnBuilder, Tables, Symbols
<1>4. WhenFresh' /\ WhenBuilding' /\ WhenLinking' /\ WhenServed'
  BY DEF IInv, Served, Fresh, Building, Linking, InCode, Unserved, IsServed,
         WhenFresh, WhenBuilding, WhenLinking, WhenServed
<1>5. Accounted => Accounted'
  BY DEF Accounted, InCode
<1>6. Served' = Served
  BY DEF Served, Fresh, Building, Linking
<1> QED
  BY <1>1, <1>2, <1>3, <1>4, <1>5, <1>6 DEF IInv

LEMMA CompileFunctionStep ==
  ASSUME IInv, NEW f \in Function, CompileFunction(f)
  PROVE  IInv'
<1>1. CASE OfAnotherEngine(f)
  <2> USE <1>1 DEF CompileFunction
  <2>1. TypeOK' /\ LinkerNeverFails'
    BY DEF IInv, TypeOK, LinkerNeverFails
  <2>2. /\ OneEngine' /\ TranslatedOnce' /\ ClosedRequests'
        /\ OwnBuilder' /\ Tables' /\ Symbols'
    BY DEF IInv, OneEngine, TranslatedOnce, ClosedRequests, OwnBuilder, Tables, Symbols
  <2>3. WhenFresh' /\ WhenBuilding' /\ WhenLinking' /\ WhenServed'
    BY DEF IInv, Served, Fresh, Building, Linking, InCode, Unserved, IsServed,
           WhenFresh, WhenBuilding, WhenLinking, WhenServed
  <2>4. (Accounted => Accounted') /\ Served' = Served
    BY DEF Accounted, InCode, Served, Fresh, Building, Linking
  <2> QED
    BY <2>1, <2>2, <2>3, <2>4 DEF IInv
<1>2. CASE ~OfAnotherEngine(f)
  <2> DEFINE u == ModuleOf[f]
  <2>b. PICK b : b = IF u \in DOMAIN builders THEN builders[u] ELSE NewBuilder
    OBVIOUS
  <2>q. PICK q : q = [b EXCEPT !.pending = Append(b.pending, f)]
    OBVIOUS
  <2>0. /\ engine' = EngineOf[f]
        /\ requests' = requests \ {f}
        /\ requested' = requested \cup {f}
        /\ builders' = Queued(f)
        /\ f \in requests /\ u \in Unit
        /\ phase = "idle"
        /\ UNCHANGED <<absolute, code, userData, slot, phase, cursor, todo, failed>>
    BY <1>2, ConstantsAssumption DEF CompileFunction, IInv, ClosedRequests, TypeOK
  <2>1. IsBuilder(b)
    BY <2>b, NewBuilderIsBuilder DEF IInv, TypeOK
  <2>2. /\ IsBuilder(q)
        /\ q.jit = b.jit /\ q.scripts = b.scripts /\ q.systems = b.systems
        /\ q.open = b.open
        /\ Range(q.pending) = Range(b.pending) \cup {f}
    <3>1. /\ q.pending = Append(b.pending, f) /\ q.jit = b.jit
          /\ q.scripts = b.scripts /\ q.systems = b.systems /\ q.open = b.open
      BY <2>1, <2>q DEF IsBuilder
    <3>2. b.pending \in Seq(Function)
      BY <2>1 DEF IsBuilder
    <3>3. Range(Append(b.pending, f)) = Range(b.pending) \cup {f}
      BY <3>2, RangeOfAppend
    <3>4. q = [pending |-> Append(b.pending, f), jit |-> b.jit, scripts |-> b.scripts,
               systems |-> b.systems, open |-> b.open]
      BY <2>1, <2>q DEF IsBuilder
    <3>5. IsBuilder(q)
      BY <2>1, <3>1, <3>2, <3>4 DEF IsBuilder
    <3> QED
      BY <3>1, <3>3, <3>5
  <2>3. /\ DOMAIN builders' = DOMAIN builders \cup {u}
        /\ builders'[u] = q
        /\ \A v \in DOMAIN builders : v # u => builders'[v] = builders[v]
        /\ builders' = [v \in DOMAIN builders' |-> builders'[v]]
    BY <2>0, <2>b, <2>q DEF Queued
  <2>4. TypeOK'
    BY <2>0, <2>2, <2>3 DEF IInv, TypeOK, Engines
  <2>5. OneEngine' /\ LinkerNeverFails'
    BY <2>0, <1>2, ConstantsAssumption
    DEF IInv, TypeOK, OneEngine, LinkerNeverFails, OfAnotherEngine, Engines
  <2>6. TranslatedOnce' /\ Tables'
    <3>1. IsInjective(b.jit)
      BY <2>b DEF IInv, TranslatedOnce, IsInjective, NewBuilder
    <3>2. TranslatedOnce'
      BY <2>2, <2>3, <3>1 DEF IInv, TranslatedOnce
    <3>3. /\ DOMAIN b.scripts = Range(b.jit) \cup UNION {Calls[g] : g \in Range(b.jit)}
          /\ \A g \in DOMAIN b.scripts : b.scripts[g] = Plain(ScriptName(g))
          /\ \A s \in DOMAIN b.systems : b.systems[s][1] = SystemName(s)
      BY <2>b, NewBuilderIsBuilder DEF IInv, Tables, NewBuilder
    <3>4. Tables'
      BY <2>2, <2>3, <3>3 DEF IInv, Tables
    <3> QED
      BY <3>2, <3>4
  <2>7. ClosedRequests'
    BY <2>0 DEF IInv, ClosedRequests
  <2>8. OwnBuilder'
    <3>1. \A g \in Range(b.pending) \cup Range(b.jit) : g \in requested /\ ModuleOf[g] = u
      BY <2>b, NewBuilderIsBuilder DEF IInv, OwnBuilder
    <3> QED
      BY <2>0, <2>2, <2>3, <3>1 DEF IInv, OwnBuilder
  <2>9. Symbols'
    <3>1. \A v \in DOMAIN builders' : ~builders'[v].open =>
            /\ v \in DOMAIN builders /\ ~builders[v].open
            /\ builders'[v].systems = builders[v].systems
      BY <2>b, <2>2, <2>3 DEF NewBuilder
    <3> QED
      BY <2>0, <3>1 DEF IInv, Symbols
  <2>10. \A v \in DOMAIN builders' : builders'[v].open <=> (v \in DOMAIN builders => builders[v].open)
    BY <2>b, <2>2, <2>3 DEF NewBuilder
  <2>11. /\ (Fresh' <=> Fresh) /\ (Served' <=> ~Fresh) /\ (Served <=> ~Fresh)
         /\ ~Building' /\ ~Linking' /\ ~Building /\ ~Linking
    BY <2>0, <2>3, <2>10 DEF IInv, TypeOK, Fresh, Served, Building, Linking
  <2>12. Fresh => Accounted'
    <3> SUFFICES ASSUME Fresh PROVE Accounted'
      OBVIOUS
    <3>1. /\ \A v \in DOMAIN builders : builders[v].open
          /\ \A g \in Function : ~InCode(g)
          /\ Accounted
      BY <2>11 DEF IInv, WhenFresh
    <3>2. ASSUME NEW g \in requested'
          PROVE  /\ ModuleOf[g] \in DOMAIN builders'
                 /\ \/ g \in Range(builders'[ModuleOf[g]].pending)
                    \/ g \in Range(builders'[ModuleOf[g]].jit)
      <4>1. CASE g = f
        BY <4>1, <2>2, <2>3
      <4>2. CASE g # f /\ ModuleOf[g] = u
        BY <4>2, <3>1, <2>0, <2>b, <2>2, <2>3 DEF Accounted
      <4>3. CASE g # f /\ ModuleOf[g] # u
        BY <4>3, <3>1, <2>0, <2>3 DEF Accounted
      <4> QED
        BY <4>1, <4>2, <4>3
    <3> QED
      BY <2>0, <2>10, <3>1, <3>2 DEF Accounted, InCode
  <2>13. WhenFresh' /\ WhenServed' /\ WhenBuilding' /\ WhenLinking'
    BY <2>0, <2>10, <2>11
    DEF IInv, WhenFresh, WhenServed, WhenBuilding, WhenLinking, Unserved, IsServed, InCode
  <2> QED
    BY <2>4, <2>5, <2>6, <2>7, <2>8, <2>9, <2>11, <2>12, <2>13 DEF IInv
<1> QED
  BY <1>1, <1>2

LEMMA BuildModulesStep ==
  ASSUME IInv, BuildModules
  PROVE  IInv'
<1>1. /\ OneEngine' /\ TranslatedOnce' /\ LinkerNeverFails'
      /\ ClosedRequests' /\ OwnBuilder' /\ Tables' /\ Symbols'
  BY DEF BuildModules, IInv, OneEngine, TranslatedOnce, LinkerNeverFails, ClosedRequests,
         OwnBuilder, Tables, Symbols
<1>2. TypeOK'
  BY DEF BuildModules, IInv, TypeOK
<1>3. /\ (Fresh' <=> Fresh) /\ (Served' <=> ~Fresh) /\ (Served <=> ~Fresh)
      /\ ~Building' /\ ~Linking' /\ ~Building /\ ~Linking
  BY ConstantsAssumption
  DEF BuildModules, IInv, TypeOK, Fresh, Served, Building, Linking, Unit
<1>4. Accounted => Accounted'
  BY DEF BuildModules, Accounted, InCode
<1>5. WhenFresh' /\ WhenServed' /\ WhenBuilding' /\ WhenLinking'
  BY <1>3 DEF BuildModules, IInv, WhenFresh, WhenServed, WhenBuilding, WhenLinking,
              Unserved, IsServed, InCode
<1> QED
  BY <1>1, <1>2, <1>3, <1>4, <1>5 DEF IInv

\* A step of build_functions exchanges the builder at the cursor for one that
\* holds the same functions; that preserves the invariant.
LEMMA BuilderExchanged ==
  ASSUME SharedNamesDistinct, IInv, phase = "build", failed = "no",
         NEW q, IsBuilder(q), IsInjective(q.jit),
         q.open = Current.open,
         ~q.open => q.systems = Current.systems,
         Range(q.pending) \cup Range(q.jit) = Range(Current.pending) \cup Range(Current.jit),
         DOMAIN q.scripts = Range(q.jit) \cup UNION {Calls[f] : f \in Range(q.jit)},
         \A f \in DOMAIN q.scripts : q.scripts[f] = Plain(ScriptName(f)),
         \A s \in DOMAIN q.systems : q.systems[s][1] = SystemName(s),
         builders' = [builders EXCEPT ![cursor] = q],
         UNCHANGED <<requests, requested, engine, absolute, code, userData, slot,
                     phase, cursor, todo, failed>>
  PROVE  IInv'
<1>1. /\ cursor \in DOMAIN builders
      /\ DOMAIN builders' = DOMAIN builders
      /\ builders'[cursor] = q
      /\ \A v \in DOMAIN builders : v # cursor => builders'[v] = builders[v]
      /\ builders' = [v \in DOMAIN builders' |-> builders'[v]]
  BY DEF IInv, TypeOK
<1>2. TypeOK'
  BY <1>1 DEF IInv, TypeOK
<1>3. OneEngine' /\ LinkerNeverFails' /\ ClosedRequests'
  BY DEF IInv, OneEngine, LinkerNeverFails, ClosedRequests
<1>4. TranslatedOnce' /\ Tables'
  BY <1>1 DEF IInv, TranslatedOnce, Tables
<1>5. OwnBuilder'
  BY <1>1 DEF IInv, OwnBuilder, Current
<1>6. \A v \in DOMAIN builders : /\ builders'[v].open = builders[v].open
                                 /\ ~builders[v].open => builders'[v].systems = builders[v].systems
  BY <1>1 DEF Current
<1>7. Symbols'
  BY <1>1, <1>6 DEF IInv, Symbols
<1>8. /\ (Fresh' <=> Fresh) /\ (Building' <=> Building)
      /\ (Linking' <=> Linking) /\ (Served' <=> Served)
  BY <1>1, <1>6 DEF IInv, TypeOK, Fresh, Building, Linking, Served
<1>9. WhenFresh' /\ WhenServed' /\ WhenBuilding' /\ WhenLinking'
  BY <1>1, <1>6, <1>8
  DEF IInv, WhenFresh, WhenServed, WhenBuilding, WhenLinking, Unserved, IsServed, InCode
<1>10. ~Served => Accounted'
  <2> SUFFICES ASSUME ~Served PROVE Accounted'
    OBVIOUS
  <2>1. Current.open /\ Accounted
    BY <1>1 DEF IInv, Served, Linking, WhenFresh, WhenBuilding, Current
  <2>2. \A f \in requested :
          /\ ModuleOf[f] \in DOMAIN builders
          /\ f \in Range(builders'[ModuleOf[f]].pending) \cup Range(builders'[ModuleOf[f]].jit)
    <3> TAKE f \in requested
    <3>1. CASE ModuleOf[f] = cursor
      BY <3>1, <2>1, <1>1 DEF Accounted, Current
    <3>2. CASE ModuleOf[f] # cursor
      BY <3>2, <2>1, <1>1 DEF Accounted
    <3> QED
      BY <3>1, <3>2
  <2>3. \A v \in DOMAIN builders : ~builders'[v].open =>
          builders'[v].pending = <<>> /\ \A f \in Range(builders'[v].jit) : InCode(f)
    BY <1>1, <2>1 DEF Accounted, Current
  <2>4. \A f \in Function : InCode(f) => ModuleOf[f] \in DOMAIN builders
    BY <2>1, InCodeIsRequested DEF Accounted, IInv, TypeOK
  <2> QED
    BY <1>1, <1>6, <2>1, <2>2, <2>3, <2>4 DEF Accounted, InCode
<1> QED
  BY <1>2, <1>3, <1>4, <1>5, <1>7, <1>8, <1>9, <1>10 DEF IInv

LEMMA BuildFunctionStep ==
  ASSUME SharedNamesDistinct, IInv, BuildFunction
  PROVE  IInv'
<1>1. /\ failed = "no" /\ phase = "build" /\ Current.pending # <<>>
      /\ UNCHANGED <<requests, requested, engine, absolute, code, userData, slot,
                     phase, cursor, todo>>
  BY DEF BuildFunction
<1>2. cursor \in DOMAIN builders /\ IsBuilder(Current)
  BY <1>1 DEF IInv, TypeOK, Current
<1>b. PICK b : b = Current
  OBVIOUS
<1>f. PICK f : f = Head(b.pending)
  OBVIOUS
<1>3. /\ IsBuilder(b) /\ b.pending \in Seq(Function) /\ b.jit \in Seq(Function)
      /\ IsMap(b.scripts, Function, ScriptSymbol)
      /\ IsMap(b.systems, SystemFunction, SystemSymbol)
  BY <1>2, <1>b DEF IsBuilder
<1>4. /\ f \in Function /\ Tail(b.pending) \in Seq(Function)
      /\ Range(b.pending) = {f} \cup Range(Tail(b.pending))
  BY <1>1, <1>3, <1>b, <1>f, RangeOfTail
<1>5. /\ IsInjective(b.jit)
      /\ DOMAIN b.scripts = Range(b.jit) \cup UNION {Calls[g] : g \in Range(b.jit)}
      /\ \A g \in DOMAIN b.scripts : b.scripts[g] = Plain(ScriptName(g))
      /\ \A s \in DOMAIN b.systems : b.systems[s][1] = SystemName(s)
  BY <1>2, <1>b DEF IInv, TranslatedOnce, Tables, Current
<1>6. CASE ~AlreadyCompiled(f) /\ ~Current.open
  <2>1. UNCHANGED builders /\ failed' = "moved"
    BY <1>6, <1>b, <1>f DEF BuildFunction, Popped
  <2> QED
    BY <1>1, <2>1
    DEF IInv, TypeOK, OneEngine, TranslatedOnce, LinkerNeverFails, ClosedRequests, OwnBuilder,
        Tables, Symbols, Accounted, InCode, Fresh, Building, Linking, Served, WhenFresh,
        WhenBuilding, WhenLinking, WhenServed, Unserved, IsServed
<1>7. CASE AlreadyCompiled(f)
  <2>q. PICK q : q = [b EXCEPT !.pending = Tail(b.pending)]
    OBVIOUS
  <2>1. builders' = [builders EXCEPT ![cursor] = q] /\ UNCHANGED failed
    BY <1>7, <1>b, <1>f, <2>q DEF BuildFunction, Popped
  <2>2. /\ q.pending = Tail(b.pending) /\ q.jit = b.jit /\ q.scripts = b.scripts
        /\ q.systems = b.systems /\ q.open = b.open
        /\ q = [pending |-> Tail(b.pending), jit |-> b.jit, scripts |-> b.scripts,
                systems |-> b.systems, open |-> b.open]
    BY <1>3, <2>q DEF IsBuilder
  <2>3. IsBuilder(q)
    BY <1>3, <1>4, <2>2 DEF IsBuilder
  <2>4. Range(q.pending) \cup Range(q.jit) = Range(b.pending) \cup Range(b.jit)
    BY <1>4, <1>7, <1>b, <2>2 DEF AlreadyCompiled
  <2> QED
    BY <1>1, <1>5, <1>b, <2>1, <2>2, <2>3, <2>4, BuilderExchanged
<1>8. CASE ~AlreadyCompiled(f) /\ Current.open
  <2>1. PICK scripts \in Created(b.scripts, {f} \cup Calls[f], ScriptNames),
             systems \in Created(b.systems, SystemCalls[f], SystemNames) :
          builders' = [builders EXCEPT ![cursor] =
            [Popped(b) EXCEPT !.jit = Append(@, f), !.scripts = scripts, !.systems = systems]]
    BY <1>8, <1>b, <1>f DEF BuildFunction
  <2>q. PICK q : q = [pending |-> Tail(b.pending), jit |-> Append(b.jit, f),
                      scripts |-> scripts, systems |-> systems, open |-> b.open]
    OBVIOUS
  <2>2. [Popped(b) EXCEPT !.jit = Append(@, f), !.scripts = scripts, !.systems = systems] = q
    <3>p. PICK p : p = [b EXCEPT !.pending = Tail(b.pending)]
      OBVIOUS
    <3>q. PICK q1 : q1 = [p EXCEPT !.jit = Append(p.jit, f)]
      OBVIOUS
    <3>r. PICK q2 : q2 = [q1 EXCEPT !.scripts = scripts]
      OBVIOUS
    <3>s. PICK q3 : q3 = [q2 EXCEPT !.systems = systems]
      OBVIOUS
    <3>1. p = [pending |-> Tail(b.pending), jit |-> b.jit, scripts |-> b.scripts,
               systems |-> b.systems, open |-> b.open]
      BY <1>3, <3>p DEF IsBuilder
    <3>2. q1 = [pending |-> Tail(b.pending), jit |-> Append(b.jit, f), scripts |-> b.scripts,
                systems |-> b.systems, open |-> b.open]
      BY <3>1, <3>q
    <3>3. q2 = [pending |-> Tail(b.pending), jit |-> Append(b.jit, f), scripts |-> scripts,
                systems |-> b.systems, open |-> b.open]
      BY <3>2, <3>r
    <3>4. q3 = [pending |-> Tail(b.pending), jit |-> Append(b.jit, f), scripts |-> scripts,
                systems |-> systems, open |-> b.open]
      BY <3>3, <3>s
    <3>5. q3 = q
      BY <3>4, <2>q
    <3> QED
      BY <3>5, <3>p, <3>q, <3>r, <3>s DEF Popped
  <2>3. builders' = [builders EXCEPT ![cursor] = q] /\ UNCHANGED failed
    BY <1>8, <1>b, <1>f, <2>1, <2>2 DEF BuildFunction
  <2>4. /\ IsMap(scripts, Function, ScriptSymbol)
        /\ DOMAIN scripts = DOMAIN b.scripts \cup ({f} \cup Calls[f])
        /\ \A g \in DOMAIN scripts : scripts[g] = Plain(ScriptName(g))
    <3>1. {f} \cup Calls[f] \in SUBSET Function
      BY <1>4, ConstantsAssumption
    <3> QED
      BY <1>3, <1>5, <2>1, <3>1, CreatedScripts
  <2>5. /\ IsMap(systems, SystemFunction, SystemSymbol)
        /\ \A s \in DOMAIN systems : systems[s][1] = SystemName(s)
    <3>1. SystemCalls[f] \in SUBSET SystemFunction
      BY <1>4, ConstantsAssumption
    <3> QED
      BY <1>3, <1>5, <2>1, <3>1, CreatedSystems
  <2>6. /\ Append(b.jit, f) \in Seq(Function)
        /\ Range(Append(b.jit, f)) = Range(b.jit) \cup {f}
    BY <1>3, <1>4, RangeOfAppend
  <2>7. IsInjective(Append(b.jit, f))
    <3>1. f \notin Range(b.jit)
      BY <1>8, <1>b DEF AlreadyCompiled
    <3> QED
      BY <1>3, <1>4, <1>5, <3>1, InjectiveAppend
  <2>8. IsBuilder(q)
    BY <1>3, <1>4, <2>4, <2>5, <2>6, <2>q DEF IsBuilder
  <2>9. Range(q.pending) \cup Range(q.jit) = Range(b.pending) \cup Range(b.jit)
    BY <1>4, <2>6, <2>q
  <2>10. DOMAIN q.scripts = Range(q.jit) \cup UNION {Calls[g] : g \in Range(q.jit)}
    BY <1>5, <2>4, <2>6, <2>q
  <2> QED
    BY <1>1, <1>8, <1>b, <2>q, <2>3, <2>4, <2>5, <2>7, <2>8, <2>9, <2>10, BuilderExchanged
<1> QED
  BY <1>6, <1>7, <1>8

\* The symbols a module defines: each translated function under its name.
LEMMA DefinedSymbols ==
  ASSUME SharedNamesDistinct, NEW b, b.jit \in Seq(Function),
         Range(b.jit) \subseteq DOMAIN b.scripts,
         \A f \in DOMAIN b.scripts : b.scripts[f] = Plain(ScriptName(f))
  PROVE  /\ DOMAIN DefinedBy(b) = {Plain(ScriptName(f)) : f \in Range(b.jit)}
         /\ \A f \in Range(b.jit) : DefinedBy(b)[Plain(ScriptName(f))] = f
<1> DEFINE jit == Range(b.jit)
<1>1. jit \subseteq Function
  BY DEF Range
<1>2. \A f \in jit : b.scripts[f] = Plain(ScriptName(f))
  OBVIOUS
<1>3. {b.scripts[f] : f \in jit} = {Plain(ScriptName(f)) : f \in jit}
  BY <1>2
<1>4. ASSUME NEW f \in jit
      PROVE  (CHOOSE g \in jit : b.scripts[g] = Plain(ScriptName(f))) = f
  <2>1. \A g \in jit : b.scripts[g] = Plain(ScriptName(f)) => g = f
    BY <1>1, <1>2, PlainInjective
  <2>2. b.scripts[f] = Plain(ScriptName(f))
    BY <1>2
  <2> QED
    BY <2>1, <2>2
<1> QED
  BY <1>3, <1>4 DEF DefinedBy

\* The absolute symbols a module needs: whichever registered function of that
\* declaration is chosen, the address is that of all of them.
LEMMA NeededSymbols ==
  ASSUME NEW b, IsMap(b.systems, SystemFunction, SystemSymbol),
         \A s \in DOMAIN b.systems : b.systems[s][1] = SystemName(s)
  PROVE  /\ DOMAIN SymbolsNeeded(b) = {b.systems[s] : s \in DOMAIN b.systems} \cup {PrivateSymbol}
         /\ IsMap(SymbolsNeeded(b), SystemSymbol \cup {PrivateSymbol},
                  {NativeOf[s] : s \in SystemFunction} \cup {Runtime})
         /\ \A n \in DOMAIN SymbolsNeeded(b) : \A s \in SystemFunction :
              n[1] = SystemName(s) => SymbolsNeeded(b)[n] = NativeOf[s]
<1> DEFINE names == {b.systems[s] : s \in DOMAIN b.systems}
           pick(n) == CHOOSE s \in DOMAIN b.systems : b.systems[s] = n
<1>1. /\ DOMAIN SymbolsNeeded(b) = names \cup {PrivateSymbol}
      /\ \A n \in names \cup {PrivateSymbol} :
           SymbolsNeeded(b)[n] = IF n = PrivateSymbol THEN Runtime ELSE NativeOf[pick(n)]
      /\ SymbolsNeeded(b) = [n \in names \cup {PrivateSymbol} |-> SymbolsNeeded(b)[n]]
  BY DEF SymbolsNeeded
<1>2. \A n \in names : pick(n) \in DOMAIN b.systems /\ b.systems[pick(n)] = n
  OBVIOUS
<1>3. DOMAIN b.systems \subseteq SystemFunction /\ names \subseteq SystemSymbol
  BY DEF IsMap
<1>4. \A s \in SystemFunction : PrivateSymbol[1] # SystemName(s)
  BY DEF PrivateSymbol, Plain, SystemName
<1>5. ASSUME NEW n \in names, NEW s \in SystemFunction, n[1] = SystemName(s)
      PROVE  SymbolsNeeded(b)[n] = NativeOf[s]
  <2>1. n # PrivateSymbol
    BY <1>4, <1>5
  <2>2. SystemName(pick(n)) = SystemName(s) /\ pick(n) \in SystemFunction
    BY <1>2, <1>3, <1>5
  <2>3. SystemDeclOf[pick(n)] = SystemDeclOf[s]
    BY <2>2 DEF SystemName
  <2>4. NativeOf[pick(n)] = NativeOf[s]
    BY <2>2, <2>3, NativeAssumption
  <2> QED
    BY <1>1, <2>1, <2>4
<1>6. \A n \in names \cup {PrivateSymbol} :
        SymbolsNeeded(b)[n] \in {NativeOf[s] : s \in SystemFunction} \cup {Runtime}
  <2>1. ASSUME NEW n \in names
        PROVE  NativeOf[pick(n)] \in {NativeOf[s] : s \in SystemFunction}
    BY <1>2, <1>3
  <2> QED
    BY <1>1, <2>1
<1>7. IsMap(SymbolsNeeded(b), SystemSymbol \cup {PrivateSymbol},
            {NativeOf[s] : s \in SystemFunction} \cup {Runtime})
  BY <1>1, <1>3, <1>6 DEF IsMap
<1> QED
  BY <1>1, <1>4, <1>5, <1>7

\* A step that only ends the process preserves the invariant, unless the JIT
\* refused a symbol.
LEMMA OnlyEnds ==
  ASSUME IInv, failed' \in {"engine", "diagnostic", "moved"},
         UNCHANGED <<requests, requested, engine, builders, absolute, code, userData,
                     slot, phase, cursor, todo>>
  PROVE  IInv'
BY DEF IInv, TypeOK, OneEngine, TranslatedOnce, LinkerNeverFails, ClosedRequests, OwnBuilder,
       Tables, Symbols, Accounted, InCode, Fresh, Building, Linking, Served, WhenFresh,
       WhenBuilding, WhenLinking, WhenServed, Unserved, IsServed

LEMMA EmitModuleStep ==
  ASSUME SharedNamesDistinct, IInv, EmitModule
  PROVE  IInv'
<1> DEFINE mine == Range(Current.jit)
           symbols == SymbolsToDefine(Current)
           defined == DefinedBy(Current)
<1>1. /\ failed = "no" /\ phase = "build" /\ Current.pending = <<>>
      /\ UNCHANGED <<requests, requested, engine, userData, slot>>
  BY DEF EmitModule
<1>2. /\ cursor \in DOMAIN builders /\ IsBuilder(Current)
      /\ mine \subseteq DOMAIN Current.scripts
      /\ \A f \in DOMAIN Current.scripts : Current.scripts[f] = Plain(ScriptName(f))
      /\ \A s \in DOMAIN Current.systems : Current.systems[s][1] = SystemName(s)
      /\ \A f \in mine : f \in Function /\ f \in requested /\ ModuleOf[f] = cursor
      /\ IsMap(code, ScriptSymbol, Function) /\ Symbols
      /\ IsMap(absolute, SystemSymbol \cup {PrivateSymbol},
               {NativeOf[s] : s \in SystemFunction} \cup {Runtime})
  BY <1>1 DEF IInv, TypeOK, Tables, OwnBuilder, Current
<1>3. /\ DOMAIN defined = {Plain(ScriptName(f)) : f \in mine}
      /\ \A f \in mine : defined[Plain(ScriptName(f))] = f
  BY <1>2, DefinedSymbols DEF IsBuilder
<1>4. /\ DOMAIN SymbolsNeeded(Current)
           = {Current.systems[s] : s \in DOMAIN Current.systems} \cup {PrivateSymbol}
      /\ IsMap(SymbolsNeeded(Current), SystemSymbol \cup {PrivateSymbol},
               {NativeOf[s] : s \in SystemFunction} \cup {Runtime})
      /\ \A n \in DOMAIN SymbolsNeeded(Current) : \A s \in SystemFunction :
           n[1] = SystemName(s) => SymbolsNeeded(Current)[n] = NativeOf[s]
  BY <1>2, NeededSymbols DEF IsBuilder
<1>5. /\ DOMAIN symbols = DOMAIN SymbolsNeeded(Current) \ DOMAIN absolute
      /\ \A n \in DOMAIN symbols : symbols[n] = SymbolsNeeded(Current)[n]
  BY DEF SymbolsToDefine
<1> HIDE DEF mine, symbols, defined
<1>6. CASE ~Current.open
  <2>1. failed' = "moved" /\ UNCHANGED <<builders, absolute, code, phase, cursor, todo>>
    BY <1>6 DEF EmitModule
  <2> QED
    BY <1>1, <2>1, OnlyEnds
<1>7. CASE Current.open
  <2>1. ~Served /\ Accounted
    BY <1>1, <1>7 DEF IInv, Served, Linking, Fresh, WhenServed, Current
  <2>2. DOMAIN symbols \cap DOMAIN absolute = {} /\ DOMAIN defined \cap DOMAIN code = {}
    <3>1. \A f \in mine : ~InCode(f)
      BY <1>2, <1>7, <2>1 DEF Accounted, Current
    <3> QED
      BY <1>3, <1>5, <3>1 DEF InCode
  <2>3. /\ absolute' = Extended(absolute, symbols)
        /\ code' = Extended(code, defined)
        /\ builders' = [builders EXCEPT ![cursor].open = FALSE]
        /\ NextToBuild
        /\ UNCHANGED failed
    BY <1>7, <2>2 DEF EmitModule, symbols, defined
  <2>q. PICK q : q = [Current EXCEPT !.open = FALSE]
    OBVIOUS
  <2>4. /\ q.pending = <<>> /\ q.jit = Current.jit /\ q.scripts = Current.scripts
        /\ q.systems = Current.systems /\ q.open = FALSE /\ IsBuilder(q)
    <3>1. q = [pending |-> Current.pending, jit |-> Current.jit, scripts |-> Current.scripts,
               systems |-> Current.systems, open |-> FALSE]
      BY <1>2, <2>q DEF IsBuilder
    <3> QED
      BY <1>1, <1>2, <3>1 DEF IsBuilder
  <2>5. /\ DOMAIN builders' = DOMAIN builders
        /\ builders'[cursor] = q
        /\ \A v \in DOMAIN builders : v # cursor => builders'[v] = builders[v]
        /\ builders' = [v \in DOMAIN builders' |-> builders'[v]]
    <3>1. builders' = [builders EXCEPT ![cursor] = q]
      BY <2>3, <2>q DEF Current
    <3>2. cursor \in DOMAIN builders /\ builders = [v \in DOMAIN builders |-> builders[v]]
      BY <1>2 DEF IInv, TypeOK
    <3> QED
      BY <3>1, <3>2
  <2>6. \A v \in DOMAIN builders :
          /\ builders'[v].pending = builders[v].pending /\ builders'[v].jit = builders[v].jit
          /\ builders'[v].scripts = builders[v].scripts
          /\ builders'[v].systems = builders[v].systems
          /\ builders'[v].open <=> (builders[v].open /\ v # cursor)
    BY <1>1, <2>4, <2>5 DEF Current
  <2>7. \A f \in Function : InCode(f)' <=> InCode(f) \/ f \in mine
    <3>1. DOMAIN code' = DOMAIN code \cup {Plain(ScriptName(f)) : f \in mine}
      BY <1>3, <2>3 DEF Extended
    <3> QED
      BY <1>2, <3>1, PlainInjective DEF InCode
  <2>8. \/ /\ todo = {} /\ phase' = "link" /\ cursor' = Shared
           /\ todo' = DOMAIN builders \ {Shared}
        \/ /\ todo # {} /\ phase' = "build" /\ cursor' \in todo
           /\ todo' = todo \ {cursor'}
    BY <2>3, <2>5 DEF NextToBuild
  <2>9. TypeOK'
    <3>1. IsMap(absolute', SystemSymbol \cup {PrivateSymbol},
                {NativeOf[s] : s \in SystemFunction} \cup {Runtime})
      BY <1>2, <1>4, <1>5, <2>3 DEF IsMap, Extended
    <3>2. IsMap(code', ScriptSymbol, Function)
      <4>1. \A f \in mine : Plain(ScriptName(f)) \in ScriptSymbol
        BY <1>2 DEF Plain, ScriptSymbol
      <4> QED
        BY <1>2, <1>3, <2>3, <4>1 DEF IsMap, Extended
    <3>3. \A v \in DOMAIN builders' : IsBuilder(builders'[v])
      BY <2>4, <2>5 DEF IInv, TypeOK
    <3>4. /\ phase' \in {"idle", "build", "link"}
          /\ cursor' \in IF phase' = "idle" THEN {None} ELSE DOMAIN builders'
          /\ todo' \subseteq DOMAIN builders' \ {Shared, cursor'}
      BY <2>5, <2>8 DEF IInv, TypeOK
    <3> QED
      BY <1>1, <2>3, <2>5, <3>1, <3>2, <3>3, <3>4 DEF IInv, TypeOK
  <2>10. OneEngine' /\ LinkerNeverFails' /\ ClosedRequests' /\ OwnBuilder'
    BY <1>1, <2>3, <2>5, <2>6
    DEF IInv, OneEngine, LinkerNeverFails, ClosedRequests, OwnBuilder
  <2>11. TranslatedOnce' /\ Tables'
    BY <2>5, <2>6 DEF IInv, TranslatedOnce, Tables
  <2>12. Symbols'
    <3>1. \A n \in DOMAIN code' : n = Plain(ScriptName(code'[n])) /\ code'[n] \in requested
      <4>1. \A n \in DOMAIN code' :
              \/ n \in DOMAIN code /\ code'[n] = code[n]
              \/ \E f \in mine : n = Plain(ScriptName(f)) /\ code'[n] = f
        BY <1>3, <2>3 DEF Extended
      <4> QED
        BY <1>2, <4>1 DEF Symbols
    <3>2. /\ DOMAIN absolute' = DOMAIN absolute \cup DOMAIN SymbolsNeeded(Current)
          /\ \A n \in DOMAIN absolute' :
               absolute'[n] = IF n \in DOMAIN absolute THEN absolute[n]
                              ELSE SymbolsNeeded(Current)[n]
      BY <1>5, <2>3 DEF Extended
    <3>3. \A n \in DOMAIN absolute' : \A s \in SystemFunction :
            n[1] = SystemName(s) => absolute'[n] = NativeOf[s]
      BY <1>2, <1>4, <3>2 DEF Symbols
    <3>4. \A v \in DOMAIN builders' : ~builders'[v].open =>
            /\ PrivateSymbol \in DOMAIN absolute'
            /\ \A s \in DOMAIN builders'[v].systems : builders'[v].systems[s] \in DOMAIN absolute'
      BY <1>2, <1>4, <2>5, <2>6, <3>2 DEF Symbols, Current
    <3> QED
      BY <1>1, <3>1, <3>3, <3>4 DEF Symbols
  <2>13. Accounted'
    <3>1. \A f \in requested :
            /\ ModuleOf[f] \in DOMAIN builders
            /\ f \in Range(builders'[ModuleOf[f]].pending) \cup Range(builders'[ModuleOf[f]].jit)
      BY <2>1, <2>6 DEF Accounted
    <3>2. \A v \in DOMAIN builders : ~builders'[v].open =>
            builders'[v].pending = <<>> /\ \A f \in Range(builders'[v].jit) : InCode(f)'
      <4> TAKE v \in DOMAIN builders
      <4>1. CASE v = cursor
        <5>1. \A f \in mine : f \in Function /\ InCode(f)'
          BY <1>2, <2>7
        <5> QED
          BY <1>1, <2>6, <4>1, <5>1 DEF Current, mine
      <4>2. CASE v # cursor
        <5>1. \A f \in Range(builders[v].jit) : f \in Function
          BY DEF IInv, OwnBuilder, TypeOK
        <5> QED
          BY <2>1, <2>6, <2>7, <4>2, <5>1 DEF Accounted
      <4> QED
        BY <4>1, <4>2
    <3>3. \A f \in Function : InCode(f)' => ~builders'[ModuleOf[f]].open
      <4> TAKE f \in Function
      <4>1. CASE InCode(f)
        BY <1>2, <2>1, <2>6, <4>1, InCodeIsRequested DEF Accounted
      <4>2. CASE f \in mine
        BY <1>2, <2>6, <4>2
      <4> QED
        BY <2>7, <4>1, <4>2
    <3> QED
      BY <1>1, <2>5, <3>1, <3>2, <3>3 DEF Accounted
  <2>14. /\ \A v \in DOMAIN builders : builders[v].open <=> v \in todo \cup {cursor}
         /\ \A f \in Function : Unserved(f)
    <3>1. CASE Fresh
      BY <1>1, <3>1 DEF IInv, WhenFresh
    <3>2. CASE Building
      BY <3>2 DEF IInv, WhenBuilding
    <3> QED
      BY <1>1, <2>1, <3>1, <3>2 DEF Served, Linking
  <2>15. /\ \A v \in DOMAIN builders : builders'[v].open <=> v \in todo
         /\ ~Fresh' /\ ~Served'
         /\ \A f \in Function : Unserved(f)'
    <3>1. \A v \in DOMAIN builders : builders'[v].open <=> v \in todo
      BY <2>6, <2>14 DEF IInv, TypeOK
    <3>2. Shared \in DOMAIN builders /\ Shared \notin todo
      BY DEF IInv, TypeOK
    <3>3. ~Fresh' /\ ~Served'
      BY <2>8, <3>1, <3>2 DEF Fresh, Served, Building, Linking
    <3> QED
      BY <1>1, <2>14, <3>1, <3>3 DEF Unserved
  <2>16. WhenFresh' /\ WhenServed' /\ WhenBuilding'
    BY <2>5, <2>8, <2>15 DEF WhenFresh, WhenServed, WhenBuilding, Building
  <2>17. WhenLinking'
    <3> SUFFICES ASSUME Linking' PROVE WhenLinking'
      BY DEF WhenLinking
    <3>1. todo = {} /\ todo' \cup {cursor'} = DOMAIN builders
      BY <2>8 DEF Linking, IInv, TypeOK
    <3>2. \A f \in requested' : ModuleOf[f] \in todo' \cup {cursor'}
      BY <1>1, <2>1, <3>1 DEF Accounted
    <3> QED
      BY <2>5, <2>15, <3>1, <3>2 DEF WhenLinking
  <2> QED
    BY <2>9, <2>10, <2>11, <2>12, <2>13, <2>15, <2>16, <2>17 DEF IInv
<1> QED
  BY <1>6, <1>7

\* While linking, every lookup is answered: all modules are in the dylib, and
\* together they define whatever one of them declares.
LEMMA LinkingIsResolvable ==
  ASSUME IInv, Linking
  PROVE  /\ Resolvable(cursor)
         /\ \A u \in DOMAIN builders : \A f \in Range(builders[u].jit) : InCode(f)
         /\ \A f \in requested : /\ ModuleOf[f] \in DOMAIN builders
                                 /\ f \in Range(builders[ModuleOf[f]].jit)
<1>1. /\ Accounted /\ requests = {} /\ cursor \in DOMAIN builders
      /\ \A u \in DOMAIN builders : ~builders[u].open
      /\ requested \subseteq Function
  BY DEF IInv, TypeOK, Served, Linking, WhenLinking, ClosedRequests
<1>2. Range(<<>>) = {}
  BY DEF Range
<1>3. \A f \in requested : /\ ModuleOf[f] \in DOMAIN builders
                           /\ f \in Range(builders[ModuleOf[f]].jit)
  BY <1>1, <1>2 DEF Accounted
<1>4. \A u \in DOMAIN builders : \A f \in Range(builders[u].jit) : InCode(f)
  BY <1>1 DEF Accounted
<1>5. ASSUME NEW v \in DOMAIN builders, NEW f \in DOMAIN builders[v].scripts
      PROVE  /\ builders[v].scripts[f] \in DOMAIN code
             /\ \E w \in DOMAIN builders :
                  builders[v].scripts[f] \in {builders[w].scripts[g] : g \in Range(builders[w].jit)}
  <2>1. f \in requested
    <3>1. \A g \in Range(builders[v].jit) : g \in requested /\ Calls[g] \subseteq requested
      BY <1>1 DEF IInv, OwnBuilder, ClosedRequests, Callees
    <3> QED
      BY <3>1 DEF IInv, Tables
  <2>2. PICK w \in DOMAIN builders : f \in Range(builders[w].jit)
    BY <1>3, <2>1
  <2>3. builders[v].scripts[f] = Plain(ScriptName(f))
    BY DEF IInv, Tables
  <2>4. f \in DOMAIN builders[w].scripts /\ builders[w].scripts[f] = Plain(ScriptName(f))
    BY <2>2 DEF IInv, Tables
  <2>5. InCode(f)
    BY <1>4, <2>2
  <2> QED
    BY <2>2, <2>3, <2>4, <2>5 DEF InCode
<1>6. \A v \in DOMAIN builders :
        /\ PrivateSymbol \in DOMAIN absolute
        /\ \A s \in DOMAIN builders[v].systems : builders[v].systems[s] \in DOMAIN absolute
  BY <1>1 DEF IInv, Symbols
<1>7. Resolvable(cursor)
  <2>1. DOMAIN builders \in SUBSET DOMAIN builders /\ cursor \in DOMAIN builders
    BY <1>1
  <2> QED
    BY <1>1, <1>5, <1>6, <2>1 DEF Resolvable
<1> QED
  BY <1>3, <1>4, <1>7

LEMMA LinkModuleStep ==
  ASSUME SharedNamesDistinct, IInv, LinkModule
  PROVE  IInv'
<1> DEFINE mine == Range(Current.jit)
<1>1. /\ failed = "no" /\ Linking
      /\ UNCHANGED <<requests, requested, engine, absolute, code>>
  BY DEF LinkModule, Linking
<1>2. /\ cursor \in DOMAIN builders
      /\ \A f \in mine : f \in Function /\ f \in requested /\ ModuleOf[f] = cursor
      /\ IsMap(code, ScriptSymbol, Function) /\ Symbols
      /\ Accounted /\ requests = {}
      /\ \A u \in DOMAIN builders : ~builders[u].open
      /\ Shared \in DOMAIN builders
  BY <1>1 DEF IInv, TypeOK, OwnBuilder, Current, Served, Linking, WhenLinking, ClosedRequests
<1>3. /\ Resolvable(cursor)
      /\ \A f \in mine : InCode(f)
      /\ \A f \in requested : /\ ModuleOf[f] \in DOMAIN builders
                              /\ f \in Range(builders[ModuleOf[f]].jit)
  BY <1>1, <1>2, LinkingIsResolvable DEF Current
<1>4. \A f \in mine : code[Plain(ScriptName(f))] = f
  BY <1>2, <1>3, InCodeIsRequested
<1>5. /\ userData' = [f \in Function |->
                        IF f \in mine THEN code[Plain(ScriptName(f))] ELSE userData[f]]
      /\ slot' = [f \in Function |-> IF f \in mine THEN f ELSE slot[f]]
      /\ NextToLink
      /\ UNCHANGED failed
  BY <1>3 DEF LinkModule, InCode
<1>6. \A f \in Function : IF f \in requested /\ ModuleOf[f] \notin todo
                          THEN IsServed(f)' ELSE Unserved(f)'
  <2>1. \A f \in Function : /\ f \in mine <=> f \in requested /\ ModuleOf[f] = cursor
                            /\ f \notin mine => slot'[f] = slot[f] /\ userData'[f] = userData[f]
                            /\ f \in mine => slot'[f] = f /\ userData'[f] = f
    BY <1>2, <1>3, <1>4, <1>5 DEF Current
  <2>2. \A f \in Function : IF f \in requested /\ ModuleOf[f] \notin todo \cup {cursor}
                            THEN IsServed(f) ELSE Unserved(f)
    BY <1>1 DEF IInv, WhenLinking
  <2>3. cursor \notin todo
    BY DEF IInv, TypeOK
  <2> QED
    BY <2>1, <2>2, <2>3 DEF IsServed, Unserved
<1>7. /\ DOMAIN builders' \subseteq DOMAIN builders /\ Shared \in DOMAIN builders'
      /\ \A u \in DOMAIN builders' : builders'[u] = builders[u]
      /\ builders' = [u \in DOMAIN builders' |-> builders'[u]]
  BY <1>2, <1>5 DEF NextToLink, IInv, TypeOK
<1>8. \/ /\ todo = {} /\ phase' = "idle" /\ cursor' = None /\ todo' = {}
      \/ /\ todo # {} /\ phase' = "link" /\ cursor' \in todo
         /\ todo' = todo \ {cursor'} /\ UNCHANGED builders
  BY <1>5 DEF NextToLink
<1>9. TypeOK'
  <2>1. /\ userData' \in [Function -> Function \cup {None}]
        /\ slot' \in [Function -> Function \cup {None}]
    BY <1>4, <1>5 DEF IInv, TypeOK
  <2>2. /\ phase' \in {"idle", "build", "link"}
        /\ cursor' \in IF phase' = "idle" THEN {None} ELSE DOMAIN builders'
        /\ todo' \subseteq DOMAIN builders' \ {Shared, cursor'}
    BY <1>8 DEF IInv, TypeOK
  <2> QED
    BY <1>1, <1>5, <1>7, <2>1, <2>2 DEF IInv, TypeOK
<1>10. /\ OneEngine' /\ LinkerNeverFails' /\ TranslatedOnce' /\ OwnBuilder' /\ Tables'
  BY <1>1, <1>5, <1>7
  DEF IInv, OneEngine, LinkerNeverFails, TranslatedOnce, OwnBuilder, Tables
<1>11. ClosedRequests'
  BY <1>1, <1>2 DEF IInv, ClosedRequests
<1>12. Symbols'
  BY <1>1, <1>7 DEF IInv, Symbols
<1>13. ~Fresh' /\ WhenFresh' /\ ~Building' /\ WhenBuilding'
  BY <1>2, <1>7, <1>8 DEF Fresh, WhenFresh, Building, WhenBuilding
<1>14. ~Served' => Accounted'
  BY <1>1, <1>2, <1>8, <1>13 DEF Served, Linking, Accounted, InCode
<1>15. WhenLinking'
  BY <1>1, <1>2, <1>6, <1>7, <1>8 DEF Linking, WhenLinking
<1>16. WhenServed'
  <2> SUFFICES ASSUME Served' PROVE WhenServed'
    BY DEF WhenServed
  <2>1. phase' = "idle" /\ todo = {}
    BY <1>8, <1>13 DEF Served, Linking
  <2>2. \A f \in Function : InCode(f)' <=> f \in requested
    <3>1. \A f \in Function : InCode(f)' <=> InCode(f)
      BY <1>1 DEF InCode
    <3>2. \A f \in requested : InCode(f)
      BY <1>1, <1>3, LinkingIsResolvable
    <3> QED
      BY <1>2, <3>1, <3>2, InCodeIsRequested
  <2>3. \A f \in requested : Callees(f) \subseteq requested /\ Callees(f) \subseteq Function
    BY <1>2, ConstantsAssumption DEF IInv, TypeOK, ClosedRequests, Callees
  <2> QED
    BY <1>6, <2>1, <2>2, <2>3 DEF WhenServed
<1> QED
  BY <1>9, <1>10, <1>11, <1>12, <1>13, <1>14, <1>15, <1>16 DEF IInv

-----------------------------------------------------------------------------
(* The theorems.                                                             *)

\* Every reachable state satisfies the inductive invariant: at each stage of
\* build_modules, builders, code and slots agree.
THEOREM PipelineInvariant ==
  ASSUME SharedNamesDistinct
  PROVE  Spec => []IInv
<1>1. IInv /\ [Next]_vars => IInv'
  <2> SUFFICES ASSUME IInv, [Next]_vars PROVE IInv'
    OBVIOUS
  <2>1. CASE \E m \in ScriptModule : BuildScriptModule(m)
    BY <2>1, BuildScriptModuleStep
  <2>2. CASE \E f \in Function : CompileFunction(f)
    BY <2>2, CompileFunctionStep
  <2>3. CASE BuildModules
    BY <2>3, BuildModulesStep
  <2>4. CASE BuildFunction
    BY <2>4, BuildFunctionStep
  <2>5. CASE EmitModule
    BY <2>5, EmitModuleStep
  <2>6. CASE LinkModule
    BY <2>6, LinkModuleStep
  <2>7. CASE UNCHANGED vars
    BY <2>7
    DEF vars, IInv, TypeOK, OneEngine, TranslatedOnce, LinkerNeverFails, ClosedRequests,
        OwnBuilder, Tables, Symbols, Accounted, InCode, Fresh, Building, Linking, Served,
        WhenFresh, WhenBuilding, WhenLinking, WhenServed, Unserved, IsServed
  <2> QED
    BY <2>1, <2>2, <2>3, <2>4, <2>5, <2>6, <2>7 DEF Next
<1> QED
  BY InitIInv, <1>1, PTL DEF Spec

\* Every variable keeps a value of its kind.
THEOREM TypeCorrect ==
  ASSUME SharedNamesDistinct
  PROVE  Spec => []TypeOK
BY PipelineInvariant, PTL DEF IInv

\* The compiler holds functions of m_engine only.
THEOREM EngineIsUnique ==
  ASSUME SharedNamesDistinct
  PROVE  Spec => []OneEngine
BY PipelineInvariant, PTL DEF IInv

\* A builder translates a function once, however often it was appended.
THEOREM TranslationIsUnique ==
  ASSUME SharedNamesDistinct
  PROVE  Spec => []TranslatedOnce
BY PipelineInvariant, PTL DEF IInv

\* No symbol is defined twice or looked up too early, in whatever order
\* build_modules visits the builders.
THEOREM LinkingSucceeds ==
  ASSUME SharedNamesDistinct
  PROVE  Spec => []LinkerNeverFails
BY PipelineInvariant, PTL DEF IInv

\* Slots and user data lead to a function's own code.
THEOREM CodeIsOwn ==
  ASSUME SharedNamesDistinct
  PROVE  Spec => []OwnCode
<1>1. IInv => OwnCode
  BY DEF IInv, OwnCode, WhenFresh, WhenBuilding, WhenLinking, WhenServed, Served,
         Unserved, IsServed
<1> QED
  BY <1>1, PipelineInvariant, PTL

\* A registered function is bound to its own address in every built module.
THEOREM SystemCallsAreBound ==
  ASSUME SharedNamesDistinct
  PROVE  Spec => []SystemBindings
<1>1. IInv => SystemBindings
  BY DEF IInv, TypeOK, IsBuilder, IsMap, Symbols, Tables, SystemBindings
<1> QED
  BY <1>1, PipelineInvariant, PTL

\* Together: a symbol leads to what it is made for.
THEOREM SymbolsAreRight ==
  ASSUME SharedNamesDistinct
  PROVE  Spec => []NamesLead
<1>1. TypeOK /\ OneEngine /\ TranslatedOnce /\ OwnCode /\ SystemBindings => NamesLead
  BY DEF NamesLead
<1> QED
  BY <1>1, TypeCorrect, EngineIsUnique, TranslationIsUnique, CodeIsOwn, SystemCallsAreBound, PTL

\* Between calls of build_modules, native code calls native code only.
THEOREM NativeCodeIsClosed ==
  ASSUME SharedNamesDistinct
  PROVE  Spec => []ReadyIsClosed
<1>1. ASSUME IInv, phase = "idle", NEW f \in Function, slot[f] # None
      PROVE  \A g \in Callees(f) : /\ Plain(ScriptName(g)) \in DOMAIN code
                                   /\ code[Plain(ScriptName(g))] = g
                                   /\ userData[g] = g
  <2>1. ~Fresh /\ Served
    BY <1>1 DEF IInv, WhenFresh, Unserved, Served, Building, Linking
  <2>2. InCode(f)
    BY <1>1, <2>1 DEF IInv, WhenServed, Unserved
  <2>3. \A g \in Callees(f) : g \in Function /\ InCode(g)
    BY <1>1, <2>1, <2>2, ConstantsAssumption DEF IInv, WhenServed, Callees
  <2>4. \A g \in Callees(f) : code[Plain(ScriptName(g))] = g
    BY <1>1, <2>3, InCodeIsRequested DEF IInv, TypeOK
  <2>5. \A g \in Callees(f) : userData[g] = g
    BY <1>1, <2>1, <2>3 DEF IInv, WhenServed, IsServed
  <2> QED
    BY <2>3, <2>4, <2>5 DEF InCode
<1>2. IInv => ReadyIsClosed
  BY <1>1 DEF ReadyIsClosed, Callees
<1> QED
  BY <1>2, PipelineInvariant, PTL

-----------------------------------------------------------------------------
(* The refinement.                                                           *)

\* The functions with code are those whose name is in the dylib.
LEMMA HasCodeIsInCode ==
  ASSUME SharedNamesDistinct, IInv
  PROVE  HasCode = {f \in Function : InCode(f)}
<1>1. \A n \in DOMAIN code : code[n] \in Function /\ n = Plain(ScriptName(code[n]))
  BY DEF IInv, TypeOK, IsMap, Symbols
<1>2. \A f \in Function : InCode(f) => code[Plain(ScriptName(f))] = f
  BY InCodeIsRequested DEF IInv, TypeOK
<1> QED
  BY <1>1, <1>2 DEF HasCode, InCode

\* EmitModule makes code available for functions that had none.
LEMMA EmitRefines ==
  ASSUME SharedNamesDistinct, IInv, EmitModule
  PROVE  [Service!Next]_(Service!vars)
<1> DEFINE mine == Range(Current.jit)
<1>1. /\ phase = "build" /\ cursor \in DOMAIN builders
      /\ UNCHANGED <<requested, slot>>
      /\ \A f \in mine : f \in Function /\ f \in requested /\ ModuleOf[f] = cursor
  BY DEF EmitModule, IInv, TypeOK, OwnBuilder, Current
<1>2. CASE UNCHANGED code
  BY <1>1, <1>2 DEF HasCode, Service!vars
<1>3. CASE ~UNCHANGED code
  <2>1. Current.open /\ code' = Extended(code, DefinedBy(Current))
    BY <1>3 DEF EmitModule
  <2>2. \A f \in mine : ~InCode(f)
    <3>1. ~Served /\ Accounted
      BY <1>1, <2>1 DEF IInv, Served, Linking, Fresh, WhenServed, Current
    <3> QED
      BY <1>1, <2>1, <3>1 DEF Accounted, Current
  <2>3. /\ DOMAIN DefinedBy(Current) = {Plain(ScriptName(f)) : f \in mine}
        /\ \A f \in mine : DefinedBy(Current)[Plain(ScriptName(f))] = f
    <3>1. /\ Current.jit \in Seq(Function)
          /\ mine \subseteq DOMAIN Current.scripts
          /\ \A f \in DOMAIN Current.scripts : Current.scripts[f] = Plain(ScriptName(f))
      BY <1>1 DEF IInv, TypeOK, IsBuilder, Tables, Current
    <3> QED
      BY <3>1, DefinedSymbols
  <2>4. HasCode' = HasCode \cup mine
    <3>1. DOMAIN code \cap DOMAIN DefinedBy(Current) = {}
      BY <2>2, <2>3 DEF InCode
    <3>2. /\ DOMAIN code' = DOMAIN code \cup {Plain(ScriptName(f)) : f \in mine}
          /\ \A n \in DOMAIN code : code'[n] = code[n]
          /\ \A f \in mine : code'[Plain(ScriptName(f))] = f
      BY <2>1, <2>3, <3>1 DEF Extended
    <3> HIDE DEF mine
    <3> QED
      BY <3>2 DEF HasCode
  <2>5. mine \subseteq requested \ HasCode
    BY <1>1, <2>2, HasCodeIsInCode
  <2>6. Service!Emit(mine)
    BY <1>1, <2>4, <2>5 DEF Service!Emit
  <2>7. mine \in SUBSET Function
    BY <1>1
  <2> QED
    BY <2>6, <2>7 DEF Service!Next
<1> QED
  BY <1>2, <1>3

\* LinkModule publishes the functions of one module when all have code.
LEMMA LinkRefines ==
  ASSUME SharedNamesDistinct, IInv, LinkModule
  PROVE  [Service!Next]_(Service!vars)
<1> DEFINE mine == Range(Current.jit)
<1>1. /\ Linking /\ cursor \in DOMAIN builders /\ requests = {}
      /\ UNCHANGED <<requested, code>>
      /\ \A f \in mine : f \in Function /\ f \in requested
  BY DEF LinkModule, Linking, IInv, TypeOK, OwnBuilder, Current, ClosedRequests
<1>2. requested \subseteq HasCode
  BY <1>1, LinkingIsResolvable, HasCodeIsInCode DEF IInv, TypeOK
<1>3. CASE UNCHANGED slot
  BY <1>1, <1>3 DEF HasCode, Service!vars
<1>4. CASE ~UNCHANGED slot
  <2>1. slot' = [f \in Function |-> IF f \in mine THEN f ELSE slot[f]]
    BY <1>4 DEF LinkModule
  <2>2. \A f \in mine : Calls[f] \cup VirtualCalls[f] \subseteq HasCode
    BY <1>1, <1>2 DEF IInv, ClosedRequests, Callees
  <2>3. Service!Publish(mine)
    BY <1>1, <1>2, <2>1, <2>2 DEF Service!Publish, HasCode
  <2>4. mine \in SUBSET Function
    BY <1>1
  <2> QED
    BY <2>3, <2>4 DEF Service!Next
<1> QED
  BY <1>3, <1>4

\* The pipeline implements the service: a function is entered natively only
\* when everything requested has code, at its own code, for good.
THEOREM PipelineImplementsService ==
  ASSUME SharedNamesDistinct
  PROVE  Spec => Service!Spec
<1>1. Init => Service!Init
  BY DEF Init, Service!Init, HasCode, Empty
<1>2. IInv /\ [Next]_vars => [Service!Next]_(Service!vars)
  <2> SUFFICES ASSUME IInv, [Next]_vars PROVE [Service!Next]_(Service!vars)
    OBVIOUS
  <2>1. CASE \E m \in ScriptModule : BuildScriptModule(m)
    BY <2>1 DEF BuildScriptModule, Service!vars, HasCode
  <2>2. CASE \E f \in Function : CompileFunction(f)
    <3>1. PICK f \in Function : CompileFunction(f)
      BY <2>2
    <3>2. UNCHANGED <<HasCode, slot>>
      BY <3>1 DEF CompileFunction, HasCode
    <3>3. UNCHANGED requested \/ requested' = requested \cup {f}
      BY <3>1 DEF CompileFunction
    <3> QED
      BY <3>2, <3>3 DEF Service!Next, Service!Request, Service!vars
  <2>3. CASE BuildModules
    BY <2>3 DEF BuildModules, Service!vars, HasCode
  <2>4. CASE BuildFunction
    BY <2>4 DEF BuildFunction, Service!vars, HasCode
  <2>5. CASE EmitModule
    BY <2>5, EmitRefines
  <2>6. CASE LinkModule
    BY <2>6, LinkRefines
  <2>7. CASE UNCHANGED vars
    BY <2>7 DEF vars, Service!vars, HasCode
  <2> QED
    BY <2>1, <2>2, <2>3, <2>4, <2>5, <2>6, <2>7 DEF Next
<1> QED
  BY <1>1, <1>2, PipelineInvariant, PTL DEF Spec, Service!Spec

\* The property the runs check under its own name.
THEOREM ServiceIsImplemented ==
  ASSUME SharedNamesDistinct
  PROVE  Spec => ImplementsService
BY PipelineImplementsService DEF ImplementsService
=============================================================================
